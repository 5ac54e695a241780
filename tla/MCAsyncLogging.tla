---------------------------- MODULE MCAsyncLogging ----------------------------
EXTENDS AsyncLoggingProperties

\* Threads of one kind are interchangeable.
ProducerSymmetry == Permutations(Producers)
ThreadSymmetry   == Permutations(Producers) \cup Permutations(Closers)
=============================================================================

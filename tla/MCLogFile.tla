------------------------------ MODULE MCLogFile ------------------------------
EXTENDS LogFile

\* A zone ahead of UTC: the day of a file name is not the day of Period.
LocalAhead(t) == t + 1
=============================================================================

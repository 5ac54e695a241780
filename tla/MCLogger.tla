------------------------------- MODULE MCLogger -------------------------------
EXTENDS Logger, TLC

ThreadSymmetry == Permutations(Threads)
=============================================================================

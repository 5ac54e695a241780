------------------------------ MODULE MCBackEnd ------------------------------
EXTENDS BackEnd

\* A zone ahead of UTC, and one that falls back between the seconds 3 and 4.
LocalAhead(t)     == t + 1
LocalFallsBack(t) == IF t < 4 THEN t + 1 ELSE t - 1
===============================================================================

----------------------------- MODULE MCLoggerImpl -----------------------------
EXTENDS LoggerImpl

\* A registered configuration lets more pass than the global one.
SomeLevels == [c \in Configs |-> IF c = Global THEN 2 ELSE 0]
===============================================================================

--------------------------- MODULE MCServiceRunner ---------------------------
(* Two sessions of one service; the first may be restarted once.           *)
EXTENDS ServiceRunner

MCLastGeneration == [r \in Runs |-> IF r = "r1" THEN 3 ELSE 1]
===============================================================================

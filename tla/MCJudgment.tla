------------------------------ MODULE MCJudgment ------------------------------
(* Judgments of two sessions: those about a fix are of episodes of one, those *)
(* about an answer of the other.  Judgments of one kind are interchangeable.  *)
EXTENDS Judgment, TLC

MCSessionOf == [j \in Judgments |-> IF j \in Questions THEN "s2" ELSE "s1"]

MCSymmetry == Permutations(Judgments \ Questions)
===============================================================================

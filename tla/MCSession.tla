------------------------------- MODULE MCSession -------------------------------
(* Session ids and episodes are interchangeable.                            *)
EXTENDS Session, TLC

Symmetric == Permutations(Sessions) \cup Permutations(Episodes)
================================================================================

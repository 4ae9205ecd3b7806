---------------------------- MODULE MCIndexStore ----------------------------
(* Two models whose vectors have the same size, as two backends or two       *)
(* representations of one model do: no file tells their rows apart.          *)
EXTENDS IndexStore

MCDim == [m \in Models |-> 1]
=============================================================================

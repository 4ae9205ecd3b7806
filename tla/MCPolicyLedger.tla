---------------------------- MODULE MCPolicyLedger ----------------------------
(* Two windows, two episodes and two optimised rows, each interchangeable:   *)
(* no constant, guard or property tells one from the other.                  *)
EXTENDS PolicyLedger

Symmetric == Permutations(Windows) \cup Permutations(Episodes) \cup Permutations(Rows)
===============================================================================

--------------------------- MODULE MCRequestQueue ---------------------------
(* One window whose sweeps can overlap, and the kinds of the requests. *)
EXTENDS RequestQueue

MCKind == <<"fix", "optimize", "offer">>
MCWindowOf == [s \in Sweeps |-> "w"]
=============================================================================

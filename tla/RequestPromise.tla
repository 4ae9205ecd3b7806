--------------------------- MODULE RequestPromise ---------------------------
(***************************************************************************)
(* What the chat side is promised of an episode request it has queued: the *)
(* request stays pending until it has been settled, and settling is final. *)
(* The one way out of the promise is the editor dying, or an episode       *)
(* throwing, while a sweep holds the request in memory.                    *)
(***************************************************************************)
CONSTANT Requests

VARIABLE status    \* of each request: "absent", "pending", "settled" or "lost"

Init == status = [r \in Requests |-> "absent"]

Moves(R, from, to) ==
    /\ \A r \in R : status[r] = from
    /\ status' = [r \in Requests |-> IF r \in R THEN to ELSE status[r]]

Ask == \E r \in Requests : Moves({r}, "absent", "pending")

Settle == \E r \in Requests : Moves({r}, "pending", "settled")

Lose == \E R \in SUBSET Requests : Moves(R, "pending", "lost")

Next == Ask \/ Settle \/ Lose

Spec == Init /\ [][Next]_status
=============================================================================

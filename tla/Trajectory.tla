------------------------------ MODULE Trajectory ------------------------------
(***************************************************************************)
(* What sessions promise an episode (session.ts, header): it belongs to    *)
(* the session it was bound to, its outcome goes on the record of that     *)
(* session once, and the record is append-only: a verified outcome may be  *)
(* retracted and nothing else happens to it.  A record may be lost; it is  *)
(* never replaced by another.                                              *)
(***************************************************************************)
CONSTANTS Episodes, Sessions, None

VARIABLES
    home,       \* the session of each episode that was bound to one
    record      \* what the home session tells of each episode

tvars == <<home, record>>

Init ==
    /\ home = [e \in Episodes |-> None]
    /\ record = [e \in Episodes |-> "none"]

Begin(e) ==
    /\ home[e] = None
    /\ \E s \in Sessions : home' = [home EXCEPT ![e] = s]
    /\ record' = [record EXCEPT ![e] = "running"]

Finish(e) ==
    /\ record[e] = "running"
    /\ \E r \in {"verified", "failed"} : record' = [record EXCEPT ![e] = r]
    /\ UNCHANGED home

Retract(e) ==
    /\ record[e] = "verified"
    /\ record' = [record EXCEPT ![e] = "retracted"]
    /\ UNCHANGED home

Lose(es) ==
    /\ \A e \in es : home[e] # None
    /\ record' = [e \in Episodes |-> IF e \in es THEN "lost" ELSE record[e]]
    /\ UNCHANGED home

Next ==
    \/ \E e \in Episodes : Begin(e) \/ Finish(e) \/ Retract(e)
    \/ \E es \in SUBSET Episodes : Lose(es)

Spec == Init /\ [][Next]_tvars
===============================================================================

----------------------------- MODULE MCHarnessRun -----------------------------
(* A prompt, an engine task and a verification agent. *)
EXTENDS HarnessRun

MCKindOf ==
    [r \in Calls |-> CASE r = "t" -> "task" [] r = "a" -> "agent" [] OTHER -> "prompt"]
===============================================================================

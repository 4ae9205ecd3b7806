----------------------------- MODULE AgentChannel -----------------------------
(***************************************************************************)
(* One agent channel: a file of questions that the exerciser engine could  *)
(* not decide (agent_loop.py) and of the answers that the extension has    *)
(* the harness give (agentChannel.ts).  In an exercise pass of a window    *)
(* the engine reads the file, asks on its own copy and saves it; then the  *)
(* drain reads the file, waits for the harness and writes its copy back;   *)
(* and with answers at hand the engine runs once more.  A person may       *)
(* answer or correct in the file at any time, and a second window on the   *)
(* folder runs passes of its own.  Nothing locks the file.                 *)
(*                                                                         *)
(* The engine replaces the file in one rename; the drain truncates and     *)
(* rewrites it, and until it is done the file does not parse.              *)
(***************************************************************************)
EXTENDS Integers, FiniteSets

CONSTANTS
    Keys,           \* the shapes a question may have
    Windows,
    MaxNew,         \* max_new: new questions an engine run may raise
    MaxBatch,       \* MAX_QUESTIONS_PER_RUN
    MaxPasses,      \* bound: passes of all windows
    MaxEdits,       \* bound: edits by a person
    MaxStops        \* bound: windows closed in the middle of a write

ASSUME ChannelAssumption ==
    /\ IsFiniteSet(Keys) /\ IsFiniteSet(Windows) /\ "person" \notin Windows
    /\ MaxNew \in Nat /\ MaxBatch \in Nat \ {0}
    /\ MaxPasses \in Nat /\ MaxEdits \in Nat /\ MaxStops \in Nat

\* What the channel holds for a question.  A guess is a model's answer.
Entry == {"absent", "pending", "guess", "human"}
Answers == {"guess", "human"}
Channel == [Keys -> Entry]

VARIABLES
    file,       \* the channel file
    torn,       \* it is truncated
    pc,         \* each window: "idle", "engine", "saved", "asking", "writing",
                \* "again" or "rerun"
    copy,       \* the copy its engine run or its drain works on
    batch,      \* the questions its harness was asked
    passes, edits, stops,
    truth,      \* the last thing anyone said about a question (history)
    since,      \* questions others wrote since the copy was read (history)
    raced       \* questions a write went over with such a copy (history)

disk == <<file, torn>>
window == <<pc, copy, batch>>
bounds == <<passes, edits, stops>>
history == <<truth, since, raced>>
vars == <<disk, window, bounds, history>>

Empty == [k \in Keys |-> "absent"]

Init ==
    /\ file = Empty /\ torn = FALSE
    /\ pc = [w \in Windows |-> "idle"]
    /\ copy = [w \in Windows |-> Empty]
    /\ batch = [w \in Windows |-> {}]
    /\ passes = 0 /\ edits = 0 /\ stops = 0
    /\ truth = Empty /\ since = [w \in Windows |-> {}] /\ raced = {}

\* Mutant: an answer is taken for none, as `false` or 0 would be.
PendingOrFalsy(channel) == {k \in Keys : channel[k] \in {"pending", "guess"}}

Pending(channel) == {k \in Keys : channel[k] = "pending"}

(***************************************************************************)
(* Reading and writing                                                     *)
(***************************************************************************)
Move(w, stage) == pc' = [pc EXCEPT ![w] = stage]

\* A file that does not parse is read as one without questions.
Contents == IF torn THEN Empty ELSE file

Read(w) ==
    /\ copy' = [copy EXCEPT ![w] = Contents]
    /\ since' = [since EXCEPT ![w] = IF torn THEN Keys ELSE {}]

\* The file becomes `channel`, by the hand of w or, for none, of a person.
Write(channel, w) ==
    /\ file' = channel /\ torn' = FALSE
    /\ since' = [v \in Windows |->
          IF v = w THEN {} ELSE since[v] \cup {k \in Keys : channel[k] # file[k]}]
    /\ raced' = raced \cup (IF w \in Windows THEN since[w] ELSE {})

(***************************************************************************)
(* The engine                                                              *)
(***************************************************************************)
\* The engine run of a pass.
EngineReads(w) ==
    /\ pc[w] = "idle" /\ passes < MaxPasses /\ passes' = passes + 1
    /\ Move(w, "engine") /\ Read(w)
    /\ UNCHANGED <<disk, batch, edits, stops, truth, raced>>

\* The one more run, with the answers; it is not drained.
EngineReadsAgain(w) ==
    /\ pc[w] = "again" /\ Move(w, "rerun") /\ Read(w)
    /\ UNCHANGED <<disk, batch, bounds, truth, raced>>

AfterSave(w) == IF pc[w] = "engine" THEN "saved" ELSE "idle"

\* The run asks what its copy does not hold yet, within its budget (the rest
\* is counted as overflow and not queued), and replaces the file.
EngineSaves(w, asked) ==
    /\ pc[w] \in {"engine", "rerun"} /\ Move(w, AfterSave(w))
    /\ copy' = [copy EXCEPT ![w] = [k \in Keys |-> IF k \in asked THEN "pending" ELSE @[k]]]
    /\ Write(copy'[w], w)
    /\ truth' = [k \in Keys |-> IF k \in asked /\ truth[k] = "absent" THEN "pending" ELSE truth[k]]
    /\ UNCHANGED <<batch, bounds>>

Askable(w) == {asked \in SUBSET Keys :
    /\ \A k \in asked : copy[w][k] = "absent"
    /\ Cardinality(asked) <= MaxNew}

\* The run fails, or is killed, before it saves; the pass ends.
EngineFails(w) ==
    /\ pc[w] \in {"engine", "rerun"} /\ Move(w, "idle")
    /\ UNCHANGED <<disk, copy, batch, bounds, history>>

(***************************************************************************)
(* The drain                                                               *)
(***************************************************************************)
\* The drain leaves this file as it is; the engine runs once more all the same
\* if another channel got answers.
Drained(w) == Move(w, "idle") \/ Move(w, "again")

\* What is pending goes to the harness, in batches; with nothing pending the
\* drain is free.
DrainReads(w, questions) ==
    /\ pc[w] = "saved"
    /\ Read(w)
    /\ questions \subseteq Pending(Contents)
    /\ Cardinality(questions) = MaxBatch \/ questions = Pending(Contents)
    /\ Cardinality(questions) <= MaxBatch
    /\ IF questions = {} THEN Drained(w) ELSE Move(w, "asking")
    /\ batch' = [batch EXCEPT ![w] = questions]
    /\ UNCHANGED <<disk, bounds, truth, raced>>

\* A pass over services that already run ends without a drain.
NotDrained(w) ==
    /\ pc[w] = "saved" /\ Move(w, "idle")
    /\ UNCHANGED <<disk, copy, batch, bounds, history>>

\* The harness fails, or answers nothing usable: the questions stay pending.
NothingUsable(w) ==
    /\ pc[w] = "asking" /\ Drained(w)
    /\ UNCHANGED <<disk, copy, batch, bounds, history>>

\* Mutant: whatever the harness answers is written.
ApplyAll(channel, answered) ==
    [k \in Keys |-> IF k \in answered /\ channel[k] # "absent" THEN "guess" ELSE channel[k]]

\* applyAnswers, on the copy: an answer that is there is never overwritten,
\* nor is a question added.
Apply(channel, answered) ==
    [k \in Keys |-> IF k \in answered /\ channel[k] = "pending" THEN "guess" ELSE channel[k]]

\* The harness answers, also ids it was not asked; the file must parse, and is
\* truncated to be rewritten.
DrainAnswers(w, answered) ==
    /\ pc[w] = "asking"
    /\ copy' = [copy EXCEPT ![w] = Apply(@, answered)]
    /\ IF copy'[w] = copy[w] \/ torn
       THEN Drained(w) /\ UNCHANGED torn
       ELSE Move(w, "writing") /\ torn' = TRUE
    /\ batch' = [batch EXCEPT ![w] = {k \in Keys : copy'[w][k] # copy[w][k]}]
    /\ UNCHANGED <<file, bounds, history>>

\* The write is completed, into a file that is gone if an engine has replaced
\* it meanwhile.
DrainWrites(w) ==
    /\ pc[w] = "writing" /\ Move(w, "again")
    /\ IF torn
       THEN /\ Write(copy[w], w)
            /\ truth' = [k \in Keys |->
                  IF k \in batch[w] /\ truth[k] = "pending" THEN "guess" ELSE truth[k]]
       ELSE UNCHANGED <<disk, history>>
    /\ UNCHANGED <<copy, batch, bounds>>

\* The window is closed in the middle of the write.
DrainStops(w) ==
    /\ pc[w] = "writing" /\ stops < MaxStops /\ stops' = stops + 1
    /\ Move(w, "idle")
    /\ raced' = IF torn THEN Keys ELSE raced
    /\ UNCHANGED <<disk, copy, batch, passes, edits, truth, since>>

(***************************************************************************)
(* A person                                                                *)
(***************************************************************************)
Person == "person"

\* Answers a question, or corrects what a model guessed.
PersonAnswers(k) ==
    /\ ~torn /\ file[k] \in {"pending", "guess"}
    /\ edits < MaxEdits /\ edits' = edits + 1
    /\ Write([file EXCEPT ![k] = "human"], Person)
    /\ truth' = [truth EXCEPT ![k] = "human"]
    /\ UNCHANGED <<window, passes, stops>>

Next ==
    \/ \E w \in Windows :
          \/ EngineReads(w) \/ EngineReadsAgain(w) \/ EngineFails(w)
          \/ \E asked \in Askable(w) : EngineSaves(w, asked)
          \/ \E questions \in SUBSET Keys : DrainReads(w, questions)
          \/ NotDrained(w) \/ NothingUsable(w)
          \/ \E answered \in SUBSET Keys : DrainAnswers(w, answered)
          \/ DrainWrites(w) \/ DrainStops(w)
    \/ \E k \in Keys : PersonAnswers(k)

Spec == Init /\ [][Next]_vars

-------------------------------------------------------------------------------
(***************************************************************************)
(* Properties                                                              *)
(***************************************************************************)
\* Every variable has its type.
TypeOK ==
    /\ file \in Channel /\ torn \in BOOLEAN
    /\ pc \in [Windows -> {"idle", "engine", "saved", "asking", "writing", "again", "rerun"}]
    /\ copy \in [Windows -> Channel] /\ batch \in [Windows -> SUBSET Keys]
    /\ passes \in 0..MaxPasses /\ edits \in 0..MaxEdits /\ stops \in 0..MaxStops
    /\ truth \in Channel /\ since \in [Windows -> SUBSET Keys] /\ raced \subseteq Keys

\* The file says of a question what was last said about it: a question that was
\* raised stays, an answer is kept forever, and a person's correction is never
\* replaced by a guess.  Only a question that another hand wrote between the
\* read and the write of a run is exempt, and a file cut off in a write.
AnswersKept == ~torn => \A k \in Keys : k \in raced \/ file[k] = truth[k]

\* No harness is paid for a question that had its answer when it was asked.
NeverAskedAgain ==
    [][\A w \in Windows : pc[w] = "saved" /\ pc'[w] = "asking" =>
          \A k \in batch'[w] : k \in raced \/ truth[k] \notin Answers]_vars
===============================================================================

# A verification development for VinvAI

TLA+ modules, TLC configurations and TLAPS proofs about the closed loop of the
Vinv editor extension: what happens between "something looks wrong" and
"a coding agent's fix is verified, labelled and kept", and about the stores and
processes that loop stands on. Everything here is
translated from the code under `src/`; file names below are relative to
`src/extension/src/harness/` unless they start with `src/`.

Contents: 1 the system, 2 the hard parts, 3 modules and their correspondence to
the code, 4 runs, 5 bounds, 6 fairness, 7 proofs, 8 what the modelling found,
9 what is only model-checked, 10 not modelled, 11 the plan.

## 1. The system

Vinv indexes a repository, runs its services under a tracer, collects evidence
(errors, hot spots, failing probes), and hands each piece of evidence to a
coding agent ("harness") in an *episode* that verifies the agent's edits. The
extension host of the editor is the conductor: single-threaded JavaScript whose
interleaving happens at `await`s, next to other processes that share files
under `.vinv/` with it (MCP servers, other editor windows, engines).

| Component | State it keeps | Operations | Talks to | What makes it correct |
|---|---|---|---|---|
| Episode loop (`episodeLoop.ts`, `runEpisode`) | attempts and budget, verdict, acceptance/regression sets, verified/aborted/objective, the module-level `episodeRunning` | open a run, generate the oracle, attempt, verify, settle, escalate, finish | harness, replay, tests, judge, operator, session, event ledger | budget never overrun; the label of the episode is earned; a cancel always ends it; one at a time |
| Judgment slot (`episodeLoop.ts`, `escalate`, `parked`) | one parked judgment, one status-bar item | present, park, resume, settle | episode, chat panel, operator | every escalation is answered once, by the operator's answer to *that* escalation |
| Request queue (`requestQueue.ts`) | `.vinv/requests/episode-*.json`, `request-outcomes.jsonl` | enqueue, drain, restore, record | MCP processes, sweeps | no request lost or run twice; its outcome tells what happened |
| Triggers (`autoTrigger.ts`) | watchers, debounce timers, dedupe sets | sweep, offer, dispatch | request queue, episode loop | a trigger becomes at most one episode, an optimization at most its attempts |
| Auto-Pilot (`autoPilotMachine.ts`, `autoPilot.ts`) | service ledger, pipeline ledger, budgets, `pilotRunning` | plan, setup, start, fix, top up, probe, exercise | bring-up, service runner, episode loop, user | budgets hold; the run ends; "done" means settled |
| Harness runner (`harnessRunner.ts`) | in-flight counter, per-session blocks | run, watchdog, preflight, classify | agent CLI processes | exactly one settlement per run; a block is never a verdict |
| Run isolation (`runIsolation.ts`) | worktree and branch per run, run records | open, close, release | git | the agent's result outlives the run |
| Snapshot (`workspaceSnapshot.ts`) | `refs/vinv/pre-episode/*` | take, revert | git | revert restores exactly the pre-episode tree |
| Reward (`rewardSignals.ts`, `rewardEngine.ts`, `testSwarm.ts`, `reconciliation.ts`) | acceptance pools, breakdowns | generate, grade, audit, judge | episode, agent CLI | a soft signal never overrides a hard one |
| Stall breaker (`stallBreaker.ts`) | none | judge a stall or dispute | episode, agent CLI | unavailable means escalate |
| Policy updater (`episodePolicyUpdater.ts`), telemetry | event ledger, policy file | append, read, update | ledger | an episode counts once, a preferred arm has earned it |
| Sessions (`session.ts`) | session files, active id | create, switch, bind, record | episode loop, chat | an outcome lands in the session that asked |
| Agent channel (`agentChannel.ts`) | channel files of engine questions | read, ask, write back | engines, harness | an answer is never overwritten |
| Opportunity board, optimisation (`opportunityBoard.ts`, `optimizationAnalysis.ts`, ...) | rows, dismissals, verdicts | rank, dispatch, dismiss | episode, probes | a dismissed or retracted row stays so |
| Probes, baselines, exercise (`probeRunner.ts`, `probeBaseline.ts`, `exerciseRunner.ts`) | baselines, dedupe signatures | pass, ratchet, ingest | services, exerciser | a baseline only ratchets on evidence |
| Bring-up, service runner (`src/extension/src/bringup/`, `src/bringup/`) | outcome files, sessions | set up, start, stop, replay | processes | outcome matches what was verified |
| Index engine (`src/index/`), embedder sidecar, MCP servers | store, journal, sidecar process | index, resume, search, serve | extension, agents | a store is old or new, never half |
| Exerciser, tracelens, identification (Python) | test data, traces | generate, run, report | target program | sequential; tested by their own suites |
| Views, notices, telemetry client, contracts | none the loop depends on | render, report | user | not modelled |

An episode from end to end: a trigger, a queued request, Auto-Pilot or a click
calls `runEpisode`. It passes the `episodeRunning`/`isHarnessBusy` guard and the
harness preflight, opens a run (a git worktree when it can), takes a snapshot,
has acceptance and regression tests written before any fix, and then loops:
context pack, agent run, pre-gate, replay, acceptance tests, regression tests,
audit and judge. A pass ends the loop; a failure is fed back; two similar
failures are negotiated with a judge; whatever the machine cannot decide is
parked in front of the operator. The finally block closes the run, releases the
worktree and writes the `episode_end` record that trains the composition bandit.

## 2. What is hard here

The full list is in `PROJECT.json` under "hazards", each at its line. In short:

- *One mutable verdict, six writers.* Pre-gate, replay, acceptance, regression,
  audit and judge rewrite `verify` in turn; four flags (`verified`, `aborted`,
  `objectiveOutcome`, `lastObjectiveFail`) are set on many exit paths.
- *Budgets fed from several sides*: stalls, disputes, reconciled notes, retries;
  in Auto-Pilot setups, signatures, totals and top-ups.
- *Waiting for a human* who may never answer, and a cancel from anywhere.
- *State read before an await and used after it*: the guard of `runEpisode`, the
  drained array of a sweep, the service record of an Auto-Pilot step.
- *Two sweeps of one window, two windows on one directory, a crash between
  drain and dispatch, a retry that wakes itself.*
- *Files that several processes read, change and rewrite without a lock*:
  sessions (extension and MCP server), agent channels (engines, drains of
  several windows, a person), the policy (one update per window).
- *Commits of several renames* in the index store, and a journal that is
  appended to, torn, and resumed under another model.
- *Exits that arrive late*: of a watchdog's victim, of a service that was
  stopped or restarted, of a process another launch evicted from its port.
- *One judgment, many surfaces*: card, dialog, status bar, toast, cancel.

## 3. Modules

### Episode

One run of `runEpisode`, from `const policy = ...` to the end of its finally
block. `pc` names the await the function stands at; what happens between two
awaits is one action. The variables are the function's own locals (`attempts`,
`attemptBudget` as `budget`, `verified`, `aborted`, `objectiveOutcome`,
`lastObjectiveFail`), what it learned about its environment (`isolated`,
`canRevert`, `acceptance`, `regression`), and a record `signals` of the signals
the reward breakdown is composed from. Two variables are history only:
`operatorGrants`, and `edits`, the places that hold edits of the agent.

| pc | action | code |
|---|---|---|
| open | Open | `openRun`, snapshot |
| oracle | GenerateOracle | acceptance and regression generation |
| loop | BeginAttempt, LeaveLoop | the inner `while` |
| working | HarnessBlocked, HarnessReturns | the agent run, `gateAttemptRun`, dispute directive |
| disputed | NegotiateDispute | `breakStall` on a dispute |
| verify | Verify | pre-gate, `verifyServiceReplay`, verdict per task kind |
| tests, regress, audit | RunAcceptance, RunRegression, AuditAndJudge | the rest of the chain |
| settle | SettlePass/Answer/Inconclusive/Fail | the four verdicts |
| stalled | NegotiateStall | `breakStall` on a stall, negotiated budget |
| after | AfterLoopCancelled, AfterLoopExhausted | after the inner loop |
| asking | Approve, Revert, Abort, Retry, CancelledAsk | what `escalate` returns, for all five escalations |
| finally, release | CloseRun, ReleaseAndEnd | the finally block |

What a test says, whether a replay passes, what the judge answers and what the
operator picks are nondeterministic. Texts, packs, posts and statistics are
left out. The model is a single episode: overlap is the subject of RequestQueue,
what an escalation does to its surfaces of Judgment, and where the outcome is
recorded of Session.

### RequestPromise and RequestQueue

`RequestPromise` is the abstract promise to the chat side: a request is absent,
pending, then settled for good, or lost with the sweep that held it.
`RequestQueue` is the code: files on disk, the ledger of outcomes, and sweeps
with a program counter each, `idle, draining, deleting, sweeping, offering,
opening, running, measuring`. `opening` is the stretch between the guard of
`runEpisode` and `episodeRunning = true`. A request is a *fix*, an *offer*
(runtime errors, memory trends: one toast, one episode) or an *optimization*
(hotspots, cache candidates), which `runVerifiedOptimization` takes through up to
`Tries` rounds of offer, episode and measurement (`measuring`); between its
episodes the window's flag is down and other sweeps drain, dispatch and restore.
What a person may never do is a step of its own: `Ignore` leaves an offer or a
parked judgment unanswered for ever, `Close` leaves the editor closed. Sweeps of one window run to their next await
without interruption (`HasTurn`); windows are separate processes, so each file
operation is a step. `KeepsPromise` is the refinement `RequestQueue =>
RequestPromise`, with the status of a request computed from where it is.

### PilotPolicy and AutoPilot

`PilotPolicy` is `autoPilotMachine.ts` operator by operator: pure functions over
a service record `[phase, setups, fixes]` and a pipeline ledger. `AutoPilot` is
`drive` in `autoPilot.ts` over that policy: one action per await, the
failure path split where the code awaits (`topup`, `fix`). Cancel may fall between any
two steps and is heard exactly where the code reads the token: at the top of
the loop, in the wait for an idle harness, and after a replay. The prompt for a
top-up and a running fix episode do not hear it. `AwaitsPerson` names the awaits
that may wait for a person without end: the agent picker, the prompt, and every
await behind an episode that may park its judgment; `AwaitsDeaf` those of them
a cancel does not end.

### Judgment

`escalate` and everything that can settle what it waits for. A judgment waits on
one *surface*: the card in the Ask Vinv transcript, while the transcript shows
the session of the running episode (`pending` is the `pendingVerdict` of
`askVinv.ts`), otherwise a dialog, and after the dialog was closed the one parked
slot with its status bar item and toast. `opening` is the retry of a card whose
context pack is being opened. Cards carry no id in the code, and none here: a
click settles `pending`, whichever judgment the card was drawn for. Cancelling
an episode settles its judgment and leaves the surface up, as the code does.

The panel is `closed`, `loading` (created, its webview not listening yet), `live`
(it listens) or `ready` (its `ready` was handled). A card posted while it loads is
lost, and the transcript restored at `ready` wipes the cards it shows; neither
settles `pending`. `dropped` remembers that. `chat` is `activeSessionId`, which
outlives the panel and is what the next episode's card is tested against.

### Trajectory and Session

`Trajectory` is the abstract promise to an episode: bound to one session, one
outcome on that session's record, then at most retracted. `Session` is
`session.ts` with the callers that matter: files and the active pointer, goals
of the operator and of an agent, fresh start (which reaps an empty session),
switch, delete (to the archive), an answer of Ask Vinv that comes back later, an
episode from dispatch over binding to its end, and a dispute of a verified one
with retraction, amendment and re-dispatch. The extension is single-threaded and
each of these is synchronous, so each is one step; the MCP server is another
process and reads, writes the file and writes the pointer in three.
`PromiseKept` is the refinement.

### HarnessRun

`harnessRunner.ts` for prompts, engine tasks and verification agents on one CLI:
preflight with its probe cache, block registry, in-flight count, spawn, exit,
silence watchdog, doom-loop guard, agent timeout, cancel, SIGTERM and SIGKILL.
`child` is the process, `exit` its unhandled exit event, `kill` the SIGKILL
timer; the CLI's sign-in changes under the registry.

### ServiceRunner

`serviceRunner.ts` with `reclaimPort` of `support/ports.ts`: debug sessions of one
service, the `sessions` map, launches as pairs of owner and generation, restart,
stop and teardown, the exit event with its generation test, a replay
(`verifyServiceReplay`) that launches the same command, and the port they all
bind. A launch goes through `probing`, `evicting`, `ready` and is then a process
(`up`, `told` to end, `gone`, and `seen` once its exit event was handled).

### AgentChannel

One channel file between an exercise engine (`agent_loop.py`) and the harness
(`agentChannel.ts`), with several windows and a person. The engine replaces the
file by a rename; the drain truncates and rewrites it (`torn`), and what does not
parse is read as empty. `truth`, `since` and `raced` are history: what was last
said about a question, what others wrote since a copy was read, and which
questions an unlocked write went over with such a copy.

### IndexStore

The engine of `src/index/` on one store: the stages of `run` in `pipeline.rs`, the
journal of `resume.rs` record by record, the save of `store.rs` as one step per
staged file and per rename, and `load` with the promotion of a left-over
`vectors.tmp`; the extension's test, wipe and reindex around it (`indexing.ts`),
and the epoch a trace is stamped with, whether or not the index has caught up
(`stampSessionEpoch`). The watcher of `autoReindex.ts` is one flag, `due`: a timer
that was set or an update that was queued; `missed` is history, an update that
was stopped, failed or not started with none due after it. A model stands for all
that the reuse of a vector asks for, embedding model, backend and representation,
and two may share a dimension. The process can end between any two writes, and
in an append: with a torn row, a torn record, or a record torn within a character,
after which no record can be read (`Unreadable`). `torn`, `rebased` and `wiped` are history; section 8 says what each
stands for. `Between` names the moments of a commit at which old and new files
have one size and nothing tells them apart, and `Tear` says what a save that ends
early leaves: vectors of another generation in the size of the chunks
(`Misplaced`), or only an older graph or lexical index. A batch of the journal is one row.

### PolicyLedger

The event ledger as a sequence of lines written by several windows (a window may
die in a line, which swallows the next one), `readCompletedEpisodes` as a
recursive function over its lines (`ReadLines`), the posteriors, the promotion gates and the two-step update of the policy
file. Means are compared as fractions, exactly.

### Proof and MC modules

`RequestQueue_proofs`, `Judgment_proofs`, `Session_proofs`, `HarnessRun_proofs`,
`AgentChannel_proofs` and `IndexStore_proofs` extend their component and TLAPS.
Two proof modules stand over two components each, which share no state:
`Training_proofs` over Episode and PolicyLedger (where labels are made, and what
they teach), `Bringup_proofs` over ServiceRunner and AutoPilot. For their sake the
specifications of PolicyLedger and AutoPilot have names of their own
(`LedgerSpec`, `PilotSpec`, `PilotTypeOK` and so on). `MCRequestQueue`,
`MCAutoPilot`, `MCJudgment`, `MCHarnessRun`, `MCServiceRunner` and `MCIndexStore`
give the function- and record-valued constants their values; `MCSession`,
`MCPolicyLedger` and `MCJudgment` (of the judgments that are no questions) define
the symmetry of their sets of model values.

## 4. Runs

| run | question | distinct states |
|---|---|---|
| episode | Do budget, labels, verdict chain and cancellation hold for every task kind and every order of answers? | 978,297 |
| request_queue | Is every request settled once, within its attempts, despite overlap, a crash, an exception, foreign harness runs and people who never answer? | 154,860 |
| auto_pilot | Do the budgets hold, does the run end unless a person is owed an answer, and is a green service probed, over all failures and cancels? | 971,008 |
| judgment | Can every judgment be reached, and is it answered once, by its own answer, while the chat opens, loads, switches and closes? | 1,691,059 (3,351,368 without symmetry) |
| session | Do outcomes land in, and stay with, the session that dispatched, whatever the operator shows and the MCP server writes? | 1,118,793 |
| harness_run | Are count, registry and results right, and does every call end, whichever of exit, timer and cancel comes first? | 431,466 |
| service_runner | Is no server left behind, no deliberate stop taken for a failure, and does every session serve or end? | 640,692 |
| agent_channel | Is an answer kept, and never paid for twice, outside of the unlocked window? | 2,051,869 |
| index_store | Is what is read back, resumed and stamped what was written, across crashes, and does the index catch up? | 881,566 |
| policy_ledger | Do labels follow the evidence in every order of events, and does a preferred arm have it? | 1,190,720 |
| episode_infra, episode_deliverable | Does the code do what its comment says? | counterexample; section 8 |

The first ten hold. The properties, and what would break them:

- `BudgetDiscipline`: a path that adds an attempt without looking at the ceiling.
- `ObjectiveSuccessIsEarned`, `NegativeLabelNeedsRejection`: the label of an
  episode is the training datum of the composition bandit. A wrong one is
  never seen by a user; it shifts which evidence later agents get.
- `SoftSignalsNeverRescue`: a guard lost in the chain of six writers.
- `EveryEndIsDecided`: a `return` that forgets a flag. It also shows that the
  trajectory continuation at `episodeLoop.ts:2487`, which wants an episode that is
  neither verified nor aborted, is not reached by any episode that returns.
- `CancelEnds`, `WaitsOnlyOnOperator`: a parked judgment or a retry loop that
  never ends.
- `RunsWithinTries`, `KeepsPromise`: drain, restore and the attempts of an
  optimization together: a request that another sweep finds again runs once too
  often, one that is dropped between a restore and a drain never.
  `EventuallySettled`: a restore that wakes nobody. It says of every request that
  it is settled, or lost with a sweep that died, or that somebody is waited for
  who never comes (`NobodyComes`).
- `WithinBudget`, `DoneMeansSettled`, `PilotSettles`: the interplay of four
  budgets, re-planning and re-arming. `PilotSettles` promises no end: a run ends,
  or comes to stay at one await for a person. `GreenIsProbed`: the re-arm of the probes
  after an exercise pass, which makes up for their early skip.
- `Reachable`, `OneSurface`: a judgment whose surface is taken away without
  another one, or that is put on two. A card that the loading panel lost
  (`CardLost`) is out of reach until the panel closes or switches, and closing or
  switching does bring its judgment back. `OwnAnswer`, `AnswerFinal`: an answer meant
  for another judgment, or a second one.
- `PromiseKept`, `BackgroundKeepsView`, `LedgerAgrees`: a write that goes to
  the session on screen instead of the one it belongs to, or the reverse.
- `CounterExact`, `ResultFinal`: two of exit, watchdog, guard and cancel both
  settling a run. `NoOrphan`: one that gives up without killing.
  `RefusalIsFresh`: a block that outlives the sign-out it came from. `CallsEnd`:
  a child that ignores SIGTERM.
- `NoOrphan` of ServiceRunner: a launch that resumes after its session was
  stopped. `StopIsNoEvidence`: an exit event that arrives in a newer generation.
  `ServesOrEnds`: a port nobody frees.
- `AnswersKept`, `NeverAskedAgain`: an answer overwritten, or taken for none.
- `JournalExact`, `DurableRowsSurvive`: a resume that takes a torn record, or
  gives up rows it has. `RowsAligned`, `OneGeneration`: vectors, chunks, graph
  and lexical index of different generations, or vectors of another model, taken
  for one. `FreshMeansSame`: a chunk that changed and kept its epoch.
  `IndexCatchesUp`: a save that falls into a running update and is forgotten, or a
  store that every later update refuses.
- `LabelsFollowEvidence`: a retraction undone by a later line.
  `PreferenceEarned`: an arm promoted on too little, or by the older of two
  concurrent updates of which neither was entitled to it.

An excuse in a property names a case the code does not handle; each one is in
section 8. The type invariants (`TypeOK`) are not spent runs on: they
are theorems, all of them, and TLC has been run on them by adding `TypeOK`
(`PilotTypeOK`, `LedgerTypeOK`) to the `INVARIANTS` of the `.cfg`.
`BlockCanLift` (HarnessRun) and `SessionIsTracked` (ServiceRunner) are theorems
without a run of their own, too.

Deadlock is checked where a system ends by stuttering of its own (Episode,
AutoPilot, RequestQueue, Judgment, IndexStore). In Session, HarnessRun,
ServiceRunner, AgentChannel and PolicyLedger ids, launches, passes or lines run
out, and `CHECK_DEADLOCK FALSE` says so.

## 5. Bounds

| module: constant | value | why that is enough |
|---|---|---|
| Episode: InitialBudget, MaxBudget, GrantBound | 2, 3, 1 | disputes differ at attempt 1 and 2; a stall needs two failures; one negotiated and one granted attempt on top reach every budget rule. `GrantBound` bounds the operator's patience only: without it the state space is infinite. The proofs need none of it. |
| RequestQueue: Requests | 3, one per kind | a tail behind the request at hand, and one behind that |
| Sweeps | 2 in 1 window | overlap is pairwise |
| Tries | 2 (the code's default is 3) | a first attempt, and one more after other sweeps had the window |
| CrashBound, ThrowBound | 1 | each once, in any order with the others; foreign harness runs come and go unbounded |
| AutoPilot: Services, Signatures | 2, 2 | setup drains before start; a shifting signature needs a second one |
| budgets | 2 setups, 1 per signature, 1 in all | the smallest with a retry; the absolute cap binds before the per-signature one is used up twice |
| TopUpBound, Extras | 1, {1} | a top-up after exhaustion and a second exhaustion after it |
| Judgment: Judgments, Sessions | 3, 2 | a waiting judgment next to a stale card, dialog or parked slot of two earlier ones, one in another session; the panel opens and closes unbounded |
| Session: Sessions, Episodes, Disputes | 2, 2, 1 | the session on screen and another one; a disputed episode and its re-dispatch. With 3 sessions and fewer episodes (134,373 states) and with MaxGoals 2 (3.35 million) the safety properties held, too |
| MaxGoals, MaxSaves | 1, 1 | one change on each side of every other step; one stale copy |
| HarnessRun: Calls, MaxSignOuts | one of each kind, 1 | the kinds share count and registry pairwise; {p1, p2, a} and {p1, p2, t} were checked as well |
| ServiceRunner: Runs, LastGeneration, MaxReplays | 2, {3, 1}, 1 | a start that overlaps another, one restart (generations 1 and 3, with a kill between), one replay, and a foreign holder at the start |
| AgentChannel: Keys, Windows, MaxPasses | 2, 2, 3 | a question that is answered while another is raised; two windows, one of which runs again |
| MaxEdits, MaxStops, MaxNew, MaxBatch | 2, 1, 1, 1 | an answer and a correction; one window that dies writing; with two keys, limits of one are reached |
| IndexStore: FileCount, MaxVersion, Models | 2, 2, 2 | one row kept and one changed; a content and a later one; a model switch. MCDim gives the models one size, the case in which no file tells their rows apart |
| MaxChanges, MaxStops, MaxReads | 2, 1, 1 | a change and its revert; one death anywhere; one reader or one trace anywhere |
| PolicyLedger: Episodes, Rows, Windows, Arms, MaxEvents | 2, 2, 2, 2, 5 | start, end, retraction and two verdicts of one episode, or two ends and one later event, in any order |
| MinPromotionN | 2 | both episodes are needed for a promotion |

## 6. Fairness

`Episode` has weak fairness on the system's own steps: every await of the code
settles (the agent run has a watchdog, tests and replays have time limits), and
JavaScript runs the continuation of a settled await. The operator owes nothing, so
nothing is said about an episode that waits for an answer, except after a cancel.

`AutoPilot` has weak fairness on `Unattended` only: planning, replays, which have
time limits, the wait for an idle harness and bring-up once they are cancelled,
and what follows a failure up to the next await. Discovery, stages, bring-up and fix episodes
may wait for a person (`AwaitsPerson`), so nothing obliges them to return.

`RequestQueue` has strong fairness per sweep, on what the host does (`HostStep`) and
on what follows a person's answer (`OperatorStep`): several sweeps share one event
loop, each can be disabled for a moment while another one holds it, and the loop
serves callbacks in the order they became ready. `OperatorStep` is disabled for a
sweep whose offer or judgment is ignored, and `Ignore` is free to happen whenever
somebody is waited for, so no click is owed; nor is a foreign harness run owed to
end. `Activate` is weakly fair for an editor that is not `closed` for good.

`HarnessRun` has weak fairness on probes, fetches, event handlers and timers, and
on the choice of a child to exit *or hang*: a child owes no exit. A task has no
watchdog, so `CallsEnd` speaks of it only after a cancel. `ServiceRunner` has weak
fairness on the awaits of a launch, on the teardown and the exit events, and on
a command to bind its port or fail; a process that was told to end owes nothing.
`IndexStore` has weak fairness on the engine's steps and on `RunUpdate`: the timer of
`autoReindex.ts` fires after a save, and the end of an update starts the queued
one. Timer and queue are one flag, and the await of the embedding sidecar is one step
with the start it precedes. An update that was stopped, failed or did not start is
not tried again; nobody else is bound to ask for one (`missed`). Edits, model
changes and deaths are bounded and owe nothing.
Session, Judgment, AgentChannel and PolicyLedger state safety only: what happens
next there is up to people.

## 7. Proofs

All are checked by tlapm to the last leaf, for every value of the constants
that satisfies the module's assumption. Every inductive invariant below was an
invariant of a TLC run before it was proved. The value that stands for "none" or
"nothing" is assumed to be none of the values it is told apart from
(`JudgmentAssumption`, `SessionAssumption`, `StoreAssumption`, `NoneAssumption`), as `undefined`,
`null` and `None` are in the code.

Episode, in `Training_proofs`, for every `InitialBudget` of at least one and any `MaxBudget` and
`GrantBound` (`BudgetAssumption`): `TypeCorrect`, `BudgetHolds`, `SuccessIsEarned`,
`BlameIsJustified`, `EndsDecided`, `NeverRescued`.

The labels are not inductive: whether `verified /\ objectiveOutcome` at the end
is earned depends on what the verdict was when it was settled, and that on the
signals of the chain. The inductive invariant `IInv` is the conjunction of
`TypeOK` and `BudgetDiscipline` with

- `FreshSignals`: before a stage of the chain has run, its signal still has its
  initial value, so no signal of an earlier attempt is mistaken for this one's;
- `VerdictMatchesSignals`: at every stage a pass, objective or not, is backed by
  the signals collected so far, and so is an objective failure;
- `OutcomeDecided`: at each `pc`, which of `verified` and `aborted` can be set;
- `LabelsJustified`: `objectiveOutcome` and `lastObjectiveFail` agree with the
  signals of the last attempt that was checked.

Each part is preserved separately, with one step per action. `NeverRescued` is
an action property and follows from the same actions.

`HarnessRun_proofs`, for every finite set of calls and any number of sign-outs:
`TypeCorrect`, `CountIsExact` (`CounterExact`), `NoChildIsLeft` (`NoOrphan`),
`BlocksLift` (`BlockCanLift`), `RefusalsAreFresh` (`RefusalIsFresh`) and
`ResultsAreFinal` (`ResultFinal`). The invariant adds `StageOfCall` (which of
child, exit and probe a call can have at each `pc`) and `FreshSightings`
(whatever can refuse a call, a probe's answer or a child's exit, saw the CLI
signed out during that call). That the count never drops below zero rests on its
being the cardinality of the calls under way, so typing and `CounterExact` are
proved together.

ServiceRunner, in `Bringup_proofs`, for every finite set of sessions, any generations and any
number of replays: `TypeCorrect`, `NoServerIsLeft` (`NoOrphan`), `StopsTeachNothing`
(`StopIsNoEvidence`) and `SessionsAreTracked` (`SessionIsTracked`). The invariant
adds `FreshSessions` (a session that has not begun is in generation 0),
`GenerationsTell` (no launch is ahead of its session, and one under way in the
current generation belongs to a live session), `StopsAreOlder` (what was stopped is
of an older generation) and `OneSession` (without overlapping starts one session
is under way).

AutoPilot, in `Bringup_proofs`, for every set of services, every finite set of
failure signatures, every budget, any top-ups and any number of them:
`PilotTypeCorrect`, `BudgetsHold` (`WithinBudget`), `DoneIsSettled`
(`DoneMeansSettled`) and `GreenServicesAreProbed` (`GreenIsProbed`). None is
inductive. That a service has an attempt left when its setup begins is decided
several awaits earlier, and whether a skipped probe pass is made up for depends on
what was green when exercise ran. `PilotInv` adds

- `PlanStands`: at every await, the service, its phase and the stage are still
  those the plan was made for;
- `SetupRoom`: a service that may be set up again has an attempt left, except while
  its last attempt is being judged, when the budget is about to be looked at;
- `ProbesFollow`: exercise ends done only where something was green or nothing was
  left to bring up; a green service stays green, since a step changes no service
  but the one it brings up; and without a probe pass, probes are left skipped beside
  a done exercise only where nothing is green and nothing can become so;
- `NothingPlanned`: a run that is done had nothing left to plan.

All steps on one service have one shape (`Served`, `ServeStep`): the service stays
within the budgets in force and in its phase until the run plans again. The
operators have lemmas of their own, `PipelineActionMeans` for the scheduler,
`StageSettlesLedger` and `StageFailsLedger` for the stages, `SumOfSpend` and
`SumOfNoSpend` for the sum over all signatures, whose definition by a fold is
unfolded in `SumUnfolds`. A sum has to be one of finitely many: `Signatures` is
assumed finite, as the failures of a run are.

PolicyLedger, in `Training_proofs`, for every finite set of episodes, rows and
windows, any number of arms, any positive priors and any gates: `LedgerTypeCorrect`,
`LabelsAreEvidence` (`LabelsFollowEvidence`) and `PreferenceIsEarned`
(`PreferenceEarned`). Labels: `Reflects` says what has been read of the first n
lines in terms of the lines alone (which ends count, which verdict of a row is the
latest), every kind of line preserves it (`ReflectsMore`), and so it holds of a
ledger of any length (`ReadingReflects`); that a retraction and a measured verdict
outrank in this order whenever they came is then a matter of cases (`LabelsHold`).
Preference: `AllEarned` says of the policy file and of what every window holds that
its preferred arm was earned on a prefix of the ledger. A line appended keeps the
prefixes; a line that swallows a torn one changes the last of them, but not what is
read of it (`UnreadableAlike`). An update earns what it prefers, or keeps the
incumbent (`UpdatedEarns`), for which there has to be a best arm: means are ordered
totally and transitively as fractions, and the first of the greatest is found by
induction (`AheadTransitive`, `BestLeads`).

Induction over numbers, over the subsets of a finite set and along the ledger is
made on sets, from the least number outside of the set in question (`Stepwise`,
`SubsetByOne`, from `WFMin`), since the library's induction theorems take an
operator as parameter.

`AgentChannel_proofs`, for every finite set of questions and windows and any
bounds: `TypeCorrect`, `AnswersAreKept` (`AnswersKept`) and `NoAnswerIsPaidTwice`
(`NeverAskedAgain`). The invariant is that the copy a window works on equals the
file but for what others wrote since it was read (`CopiesAreFiles`), and
`AnswersKept` without its premise that the file parses.

`RequestQueue_proofs`, for every finite set of requests, any kinds, attempts and
sweeps, and any number of crashes and exceptions. For any number of windows:
`TypeCorrect`, from `IInv`, whose second part says that a sweep that awaits
something holds the request it awaits it for. Under the hypothesis `OneWindow` (all
sweeps are those of one extension host): `RunsWithin` (`RunsWithinTries`) and
`QueueKeepsPromise` (`KeepsPromise`, the refinement of RequestPromise). The
hypothesis is needed, as two windows do dispatch a request twice (section 8).
`OneInv` is `IInv` with: sweeps of one event loop take turns between their awaits
(`TakeTurns`), a request is on disk and held only while it is just being drained
(`Drains`), no two sweeps hold the same one (`Exclusive`), one whose episode began
is never back on disk and is what its sweep awaits something for (`RunningLeaves`), a
sweep has counted every episode of the request at hand, the one it is about to
begin included (`Counted`), and nothing asked is ever nowhere (`NothingVanishes`).

`Judgment_proofs`, for any sets of judgments, questions and sessions: `TypeCorrect`,
`WaitingIsReachable` (`Reachable`), `OnOneSurface` (`OneSurface`),
`AnsweredByItsOwn` (`OwnAnswer`) and `FirstVerdictStands` (`AnswerFinal`). `CardKnown`
says that `pending` has its card in the transcript unless the panel lost it while
loading, and never outlives the panel; it is what makes closing the panel bring a
judgment back. `OneSurface` speaks of surfaces the operator sees and is not inductive; `SurfacesApart` also
counts the evidence pack that is being opened, which will park or settle the
judgment when it returns. `PacksAnswer` keeps with such a pack the card it was
opened from; without it, an own answer could come from another judgment's.

`Session_proofs`, for any sessions, goals, disputes and finite sets of episodes:
`TypeCorrect`, `RetractionsShow` (`LedgerAgrees`), `ViewIsKept`
(`BackgroundKeepsView`), and `RecordsAreTrajectories` (`PromiseKept`), the
refinement of Trajectory step by step. An outcome can be in three places: a stored
session, the archive and the copy the MCP server holds. The invariant speaks of
all of them (`Says`): an episode's outcomes are in the copies of one session
(`OneRecord`), a failure is never also a success (`FailureFinal`), an episode that is
done and not lost is recorded where the operator finds it (`Recorded`), and the
copy of the MCP server has the history it read (`CopyIsFaithful`).

`IndexStore_proofs`, for any number of files, versions, models, edits, deaths and
readers. `Base` types the variables and ties a job to its journal and to the
files it has renamed. `TypeCorrect`, `JournalIsExact` (`JournalExact`) and
`DurableRowsStay` (`DurableRowsSurvive`) follow from it. Three more invariants are each
inductive with `Base` and without the others:

- `Fresh`: no file has two chunks, a commit brings in chunks of the store before or
  newer ones, and no stamped trace is newer than the store, at whatever moment it
  was stamped: `FreshFacts` (`FreshMeansSame`);
- `Whole`: the files, and the store a job is about to save, are of one generation as long
  as no commit was torn: `StoreOfOneGeneration` (`OneGeneration`);
- `Rowed`: whatever vectors a load would accept, those in place and those staged,
  have the rows of its chunks, at every moment of a commit that `Between` does not
  name and as long as no save ended with misplaced ones; and of the store's own
  model, as long as no commit was torn since the last full build (`Exactly`):
  `RowsAreAligned` (`RowsAligned`).

`RowsAreAligned` assumes nothing of the dimensions. That an update of an untorn
store never keeps the row of another model rests on the identity it compares before it reuses a store
(`pipeline.rs:400`), not on the size of a file.

Proving also corrected the models. Two formulas were read differently by the
two tools, or could be: `UNION X \ Y` in `RequestQueue!Crash`, and a CASE with
overlapping arms in `StatusOf`; both are now unambiguous. `RowsAligned` turned out
not to be inductive, because of a second way in which a save can leave foreign
vectors (section 8); it takes two deaths, which the run's bound of one excludes.

## 8. What the modelling found

Two comments are refuted by a run, and are "findings" in `PROJECT.json`:

1. **An infra stop can blame the arm** (`InfraNeverBlames`). Attempt 1 fails
   objectively, attempt 2 is stopped because the harness is signed out. The
   comment at `episodeLoop.ts:1658` says that `lastObjectiveFail` stays false;
   it still holds attempt 1's value, and the label becomes objective.
2. **A verified fix may not survive** (`DeliverableSurvives`). `releaseRun`
   force-removes the worktree and keeps the branch "which is the deliverable";
   no code commits the agent's edits to it.

The rest was met while modelling. Where a checked property has an excuse, it is
one of these.

*Episode, queue, Auto-Pilot.* A request is unlinked before it is dispatched, and a
window that dies in between loses it, against the header of `requestQueue.ts`
(KeepsPromise: `lost`). The guard at `episodeLoop.ts:1021` and the assignment at
1093 are awaits apart, so that two sweeps can run two episodes (the comment at
989 says one). `dispatched`, "an episode actually ran for this request"
(`requestQueue.ts:59`), is recorded of a request that `runEpisode` turned away
(`autoTrigger.ts:377`); no property speaks of the record. An optimization is
reverted to the snapshot taken before its first attempt (`exerciseOptimize.ts:610`,
710, 723), together with what another sweep's episode edited between its attempts;
and `offerOrDispatch` answers false for an episode that ran until its harness was
blocked (`autoTrigger.ts:165`, 180), of which the engine says "nothing ran"
(`exerciseOptimize.ts:604`), so that its edits stay. It answers true where
`runEpisode` refused, and the engine measures what nobody changed. Probes are skipped by the first
plan of a run that has no green service yet (`autoPilotMachine.ts:470`;
GreenIsProbed). `closeRun` records `objective` before the unified rule rewrites it;
checks run in the workspace root while the agent edits the run's tree; the
top-up prompt does not hear a cancel; two windows can dispatch one request.

*Judgment.* A card posted while the chat panel loads is dropped, and one posted
before `ready` is handled is wiped by the restored transcript (`askVinv.ts:453`,
1720), while `pendingVerdict` stays: the episode waits on a card nobody sees, and
Resume says that none is waiting, until the panel is closed or switched
(Reachable: `CardLost`). The comment at `askVinv.ts:234` says that "an unanswered
verdict must never be silently lost". A stale dialog of a cancelled episode can
park its settled judgment over the live parked one (`episodeLoop.ts:596`, 980;
Reachable: `evicted`), against the dialog's own hint that the status bar brings it
back (`episodeLoop.ts:925`). A
verdict card carries no id (`askVinv.ts:528`; OwnAnswer), and the confirmation
cards of a dispute have the same slot. A new escalation settles the request of a
stale `pendingVerdict`, whose dialog then pops up. A retry clicked in a dialog
that is closed while the pack opens is dropped.

*Session.* The MCP server's goal and budget (`indexServer.ts:992`, 1009) are an
unlocked read-modify-write that can lose an outcome or bring back an old state,
and its pointer write moves the view or leaves a dangling pointer (PromiseKept,
LedgerAgrees: `lost`, `overwritten`). The outcome of an episode whose empty session
was reaped, or whose parked session was deleted, is charged to the active one
(against `session.ts:494`). The binding happens after preflight and `openRun`,
not "now, at dispatch". Two disputes of one episode can both be confirmed; a
preflight refusal after a retraction leaves it without a re-dispatch.

*Harness runner.* A task has no watchdog (`harnessRunner.ts:1679`). The prompt's
watchdog settles while the child may live two seconds more. `isHarnessBusy` is
documented as informational (850) and gates `runEpisode` and the disputes. The
SIGKILL timer outlives the child. A late exit of a settled run still marks or
clears the block.

*Service runner.* A second start, or a replay, evicts the first session's server,
and that exit *is* emitted as failure evidence (StopIsNoEvidence speaks of
stops only). With overlapping starts, the end of either session deletes the
other's map entry (SessionIsTracked: `overlap`). A start clicked between exit and
termination returns true without starting anything. A stop sends SIGTERM and
nothing after it.

*Agent channel.* The unlocked write loses corrections and questions written in
between (AnswersKept: `raced`), against the header of `agentChannel.ts`. Its
truncating write leaves no cached answer if the window dies in it. Answers
written into a file the engine has replaced meanwhile are lost and reported as
given. A pass over services that already run never drains. One file that fails to
be written takes its whole count off the number of answers, those of other
channels included, so that the second engine run may not happen.

*Index store.* Between the first two renames of a commit, chunks are of one and
vectors of another generation, and if they have the same size a load takes them for
a store (`store.rs:204`, 324): a query in that moment gets other symbols' vectors
(RowsAligned: `Between`), and after a crash in it every load does, until a forced
build (`torn = "rows"`). A save that dies after staging its vectors, over a store an
earlier death left without matching ones, has the same effect: the next load
promotes `vectors.tmp` if its size fits, whatever generation it is of (`store.rs:429`
says that a partial write can never be promoted; this is a whole one). Neither test
tells two models of one dimension apart, so that a torn store may also hold the
right symbols' vectors by another model (RowsAligned: `torn = "graph"`). A crash between later renames
leaves an old graph or lexical index (OneGeneration). The extension's wipe
(`indexing.ts:345`) removes the journal together with the store, against
`resume.rs:3` (DurableRowsSurvive: `wiped`). Epochs restart at 1 after a wipe
while sessions keep theirs (FreshMeansSame: `rebased`). A trace is stamped with the
epoch of the store at hand (`autoReindex.ts:86`), also while an edit waits for its
update: it then reads as fresh for a content its process no longer ran, and as
stale once the index has the content it did run. A record of the journal torn within
a character makes `chunks.jsonl` unreadable, and all rows are embedded again
(`resume.rs:225`, against `resume.rs:3`; DurableRowsSurvive: `Unreadable`). A reader's promotion can
take the `vectors.tmp` of a save under way. Several callers of the engine do not
exclude each other. An update whose sidecar does not come up or whose process cannot
be spawned leaves the queued one behind until the next save (`autoReindex.ts:57`, 66),
one that fails is not tried again, and edits made outside of the editor are not
watched (IndexCatchesUp: `missed`).

*Policy.* A torn line swallows the next event. A retraction alone triggers no
update. The older of two concurrent updates may be saved last. An arm stays
preferred after the evidence for it was retracted (PreferenceEarned: "at some
time").

## 9. What is only model-checked

- Liveness (`CancelEnds`, `WaitsOnlyOnOperator`, `EventuallySettled`,
  `PilotSettles`, `CallsEnd`, `ServesOrEnds`, `IndexCatchesUp`): liveness under
  fairness is beyond the proof system.
- `RunsWithinTries` and `KeepsPromise` are claims about one window. The module
  takes any set of windows; with two, the drain is not exclusive. Neither the
  theorems nor the run say anything of two.

## 10. Not modelled

Every component has an entry under "components" in `PROJECT.json`. What is left
out, and why:

- *What an answer is worth.* Whether a test, a replay, a judge or an oracle is
  right, how rewards, attribution, opportunity ranks, benchmarks and calibration
  are computed (`rewardEngine.ts`, `optimizationAnalysis.ts`, `runtimeAnalysis.ts`,
  `benchMath.ts`): statistics over real numbers and text, without control state.
  The models take any of their answers.
- *Views* (`graphExplorerHtml.ts`, the rest of `askVinv.ts`, notices, walkthrough,
  telemetry client): rendering. What of them the loop waits for is in Judgment.
- *The index engine's stages* other than storage: parsing, chunking, ranking,
  graph building, summaries, the store-version migration, tags. They are
  functions of their input; their result is a key here.
- *Exerciser, tracelens, identification* (Python): sequential programs over
  generated inputs and traces, with their own suites. The engine's side of the
  agent channel is in AgentChannel.
- *The bring-up engine* (`src/bringup/`): one command after the other. Its
  outcomes are AutoPilot's inputs.
- *Engine installation and update*: downloads, checksums and a version pin;
  process and file I/O around a single decision.
- *Embedder sidecar*: requests in turn over a pipe, restarted when it is gone,
  and holding nothing others rely on.
- *Contracts*: schemas and test vectors.
- *Parts of modelled components*: ports of services without one, the spawn
  `error` event, services sharing a port (ServiceRunner); hand-offs to an editor's
  own chat and the picker (HarnessRun); budget text, legacy layouts and malformed
  files (Session); several engine processes at once (IndexStore); `startAutoPilot`'s
  guard (AutoPilot); the trigger watchers' debounce (RequestQueue starts with the
  sweep) and the workspace tree an optimization is measured and reverted in
  (RequestQueue counts the episodes only); git inside snapshot and isolation (Episode: may fail).

## 11. Plan

Done: Episode, RequestQueue, AutoPilot, Judgment, Session, HarnessRun,
ServiceRunner, AgentChannel, IndexStore, PolicyLedger; the theorems of all of them:
typing, each safety invariant and action property their runs check, and both
refinements.

What could follow:

1. `startAutoPilot`'s guard and the two windows of the request queue, with the
   promise across windows that the code would have to make.
2. The places the agent of an episode edits while its checks run
   (`episodeLoop.ts:1810`), which need a model of the tree's content.
3. The statistics behind the answers the models take for granted (section 10).

## Reproducing

In this directory: `tlc -config Episode.cfg Episode`, and likewise for each run
the `.cfg` and the module that `PROJECT.json` names (all but episode,
request_queue, auto_pilot and the two counterexamples take one to two minutes on
two workers); `tlapm Training_proofs.tla`, and likewise the other `_proofs`
modules: about a minute each, several for RequestQueue, Session, IndexStore,
Bringup and Training.

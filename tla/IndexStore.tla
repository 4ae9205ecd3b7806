------------------------------ MODULE IndexStore ------------------------------
(***************************************************************************)
(* The index engine's store on disk (src/index/src/store.rs), the journal  *)
(* of its embedding stage (resume.rs) and the commands that rebuild it     *)
(* (pipeline.rs), as the extension and the MCP server call them.           *)
(*                                                                         *)
(* A store is six files.  A save stages every file to a .tmp sibling and   *)
(* then renames the siblings in a fixed order; nothing says which          *)
(* generation a file belongs to, so a process that dies between two        *)
(* renames leaves files of two generations side by side.  A load compares  *)
(* the size of the vector file with the number of chunks and nothing else. *)
(*                                                                         *)
(* A source file holds one symbol, or none; a symbol is known by its file  *)
(* and the version of its content, and a vector by the symbol it embeds    *)
(* and the model that embedded it.  One engine process runs at a time; a   *)
(* query may load the store between any two of its steps.                  *)
(*                                                                         *)
(* The watcher of the extension (autoReindex.ts) asks for an update some   *)
(* seconds after a save, and queues one behind the update it has running.  *)
(***************************************************************************)
EXTENDS Integers, Sequences, FiniteSets, SequencesExt

CONSTANTS
    FileCount,      \* source files, in the order collect_files returns them
    MaxVersion,     \* contents a file can have; 0 is a file with no symbol
    Models,         \* what vectors are only reused with: embedding model, backend
                    \* and representation together
    FirstModel,     \* the model in use at first
    Dim,            \* the dimension of the vectors of each model
    MaxChanges,     \* edits of the workspace, and changes of the model
    MaxStops,       \* engine processes that die, are killed or fail half-way
    MaxReads,       \* queries that load the store, and traces it stamps
    Nothing         \* a file that does not exist

Files == 1..FileCount
Manifest == [Files -> 0..MaxVersion]
Trees == {t \in Manifest : \E f \in Files : t[f] # 0}

Maybe(S) == S \cup {Nothing}
Key == [file : Files, ver : 1..MaxVersion]
Chunk == [file : Files, ver : 1..MaxVersion, epoch : Nat]
Vector == [file : Files, ver : 1..MaxVersion, by : Models]
Vectors == [by : Models, rows : Seq(Maybe(Vector))]
Meta == [by : Models, epoch : Nat]
Store == [chunks : Seq(Chunk), vectors : Vectors, edges : Seq(Key),
          manifest : Manifest, bm25 : Maybe(Seq(Key)), meta : Meta]
Journal == [fp : [keys : Seq(Key), by : Models], rows : Seq(Maybe(Vector)),
            recs : Seq(Maybe(Key)), tail : {"whole", "row", "record", "char"}]

ASSUME StoreAssumption ==
    /\ {FileCount, MaxVersion} \subseteq Nat \ {0}
    /\ {MaxChanges, MaxStops, MaxReads} \subseteq Nat
    /\ FirstModel \in Models
    /\ Dim \in [Models -> Nat \ {0}]
    /\ Nothing \notin Store /\ Nothing \notin Meta /\ Nothing \notin Journal

VARIABLES
    tree,       \* the workspace: the version of each source file
    model,      \* the model the next engine process embeds with
    files,      \* the files of the store
    staged,     \* vectors.tmp, the one staged file anybody reads
    journal,    \* embed_progress/: fingerprint, rows, records, torn tail
    pc,         \* where the engine process is
    job,        \* what it holds in memory
    query,      \* what a loading query has read of the store so far
    capture,    \* a stamped trace: a symbol as the index had it, and the epoch
    due,        \* the watcher's timer is set, or its update queued behind the
                \* engine process that runs
    torn,       \* history: what an interrupted commit left behind
    rebased,    \* history: the epoch counter started again under the capture
    wiped,      \* history: the extension has just removed the store
    missed,     \* history: an edit was not followed by an update, or by one that was
                \* stopped, and none is on its way
    changes, stops, reads

vars == <<tree, model, files, staged, journal, pc, job, query, capture,
          torn, rebased, wiped, due, missed, changes, stops, reads>>

disk == <<files, staged>>
environment == <<tree, model, query, capture>>
history == <<torn, rebased, wiped>>
bounds == <<changes, stops, reads>>

PCs == {"idle", "open", "embed", "record", "graph", "stage", "commit", "clear"}

(***************************************************************************)
(* Symbols, chunks and rows                                                *)
(***************************************************************************)
KeyOf(f, t) == [file |-> f, ver |-> t[f]]
\* The source files with a symbol, in one fixed order.
Present(t) == SetToSeq({f \in Files : t[f] # 0})
Keys(fs, t) == [i \in DOMAIN fs |-> KeyOf(fs[i], t)]

ChunkKey(c) == [file |-> c.file, ver |-> c.ver]
ChunkKeys(cs) == [i \in DOMAIN cs |-> ChunkKey(cs[i])]

\* The vector model m gives the symbol k.
Row(k, m) == [file |-> k.file, ver |-> k.ver, by |-> m]
Rows(ks, m) == [i \in DOMAIN ks |-> Row(ks[i], m)]

Names == <<"chunks", "vectors", "edges", "manifest", "bm25", "meta">>
NoFiles == [chunks |-> Nothing, vectors |-> Nothing, edges |-> Nothing,
            manifest |-> Nothing, bm25 |-> Nothing, meta |-> Nothing]

(***************************************************************************)
(* Loading.  A store without meta.json does not exist.  The vector files   *)
(* are packed floats: only their size can be compared with the chunks.     *)
(* Vectors that do not fit are replaced by a staged file that does,        *)
(* together with the graph and the lexical index; otherwise the store is   *)
(* corrupt, which building takes as missing.                               *)
(***************************************************************************)
Fits(v, count, m) == v # Nothing /\ Len(v.rows) * Dim[v.by] = count * Dim[m]

Absent == files.meta = Nothing
Matching == ~Absent /\ Fits(files.vectors, Len(files.chunks), files.meta.by)
Healable == ~Absent /\ ~Matching /\ Fits(staged, Len(files.chunks), files.meta.by)

Loaded ==
    IF Matching THEN files
    ELSE IF Healable THEN [files EXCEPT !.vectors = staged, !.edges = <<>>, !.bm25 = Nothing]
    ELSE Nothing

\* complete_interrupted_commit renames vectors.tmp over vectors.f32.
HealOnDisk ==
    /\ files' = IF Healable THEN [files EXCEPT !.vectors = staged] ELSE files
    /\ staged' = IF Healable THEN Nothing ELSE staged

\* isProjectIndexed and isStoreConsistent of the extension.
Trusted == Matching \/ (Healable /\ files.vectors # Nothing)

(***************************************************************************)
(* The journal of the embedding stage.  Rows and their records are         *)
(* appended one after the other; a process that dies while it appends      *)
(* leaves a partial row or a partial record at the tail.  A record that    *)
(* ends within a character of several bytes makes the file of records      *)
(* unreadable as a whole.                                                  *)
(***************************************************************************)
Fingerprint(ks, m) == [keys |-> ks, by |-> m]
NewJournal(ks, m) == [fp |-> Fingerprint(ks, m), rows |-> <<>>, recs |-> <<>>, tail |-> "whole"]

Unreadable(j) == j.tail = "char"
Records(j) == IF Unreadable(j) THEN <<>> ELSE j.recs

\* The rows whose records are those of the symbols to embed, from the first on.
Verified(j, ks) ==
    LET limit == {n \in 0..Len(ks) : n <= Len(j.rows) /\ n <= Len(Records(j))}
    IN CHOOSE n \in limit :
          /\ \A i \in 1..n : Records(j)[i] = ks[i]
          /\ n + 1 \in limit => Records(j)[n + 1] # ks[n + 1]

\* Mutant: the rows are cut, the torn bytes behind them are not.
LoadProgressTorn(j, ks, m) ==
    IF j = Nothing \/ (j # Nothing /\ j.fp # Fingerprint(ks, m)) THEN Nothing
    ELSE LET n == Verified(j, ks)
         IN [j EXCEPT !.rows = SubSeq(@, 1, n), !.recs = SubSeq(@, 1, n)]

\* Mutant: a torn journal is not healed but dropped.
LoadProgressWhole(j, ks, m) ==
    IF j = Nothing \/ (j # Nothing /\ (j.fp # Fingerprint(ks, m) \/ j.tail # "whole")) THEN Nothing
    ELSE LET n == Verified(j, ks)
         IN [j EXCEPT !.rows = SubSeq(@, 1, n), !.recs = SubSeq(@, 1, n)]

\* load_progress: Nothing when the journal belongs to another input set,
\* otherwise the journal cut down to its verified prefix.  Records that cannot be
\* read are taken for none, and left in their file.
LoadProgress(j, ks, m) ==
    IF j = Nothing \/ (j # Nothing /\ j.fp # Fingerprint(ks, m)) THEN Nothing
    ELSE LET n == Verified(j, ks)
             cut == [j EXCEPT !.rows = SubSeq(@, 1, n)]
         IN IF Unreadable(j) THEN cut
            ELSE [cut EXCEPT !.recs = SubSeq(@, 1, n), !.tail = "whole"]

\* Bytes appended after a partial row are read as something else.
AppendRow(j, r) == [j EXCEPT !.rows = Append(@, IF j.tail = "row" THEN Nothing ELSE r)]
AppendRecord(j, k) ==
    [j EXCEPT !.recs = Append(@, IF j.tail \in {"record", "char"} THEN Nothing ELSE k)]

(***************************************************************************)
(* What a build keeps of the old store, and what it makes of it            *)
(***************************************************************************)
\* Mutant: a file is reused whatever its vectors are of.
UnchangedAnyModel(old, f) == old.manifest[f] = tree[f]

\* A file is reused when the manifest has its content and the vectors are of
\* the same model; its chunks and rows are taken over by position.
Unchanged(old, f) == old.meta.by = model /\ old.manifest[f] = tree[f]
ChunksOf(old, f) == {i \in DOMAIN old.chunks : old.chunks[i].file = f}

\* The numbers where the dimension of the store puts row i; no vector at all
\* when the vectors were written with rows of another size.
RowOf(old, i) ==
    IF Dim[old.vectors.by] = Dim[old.meta.by] THEN old.vectors.rows[i] ELSE Nothing

Reused(old) == SetToSeq({f \in Files : tree[f] # 0 /\ Unchanged(old, f) /\ ChunksOf(old, f) # {}})
Kept(old) ==
    [n \in DOMAIN Reused(old) |->
        LET i == CHOOSE i \in ChunksOf(old, Reused(old)[n]) : TRUE
        IN [chunk |-> old.chunks[i], row |-> RowOf(old, i)]]

Changed(old) == SetToSeq({f \in Files : tree[f] # 0 /\ ~Unchanged(old, f)})

\* assign_epochs: a chunk keeps its epoch while its content stays the same.
PreviousEpoch(prev) == IF prev = Nothing THEN 0 ELSE prev.meta.epoch
SameContent(prev, k) ==
    IF prev = Nothing THEN {} ELSE {i \in DOMAIN prev.chunks : ChunkKey(prev.chunks[i]) = k}
\* Mutant: changed content gets the epoch of the store it replaces.
ChunkEpochFlat(prev, k) ==
    IF SameContent(prev, k) = {} THEN PreviousEpoch(prev)
    ELSE prev.chunks[CHOOSE i \in SameContent(prev, k) : TRUE].epoch
ChunkEpoch(prev, k) ==
    IF SameContent(prev, k) = {} THEN PreviousEpoch(prev) + 1
    ELSE prev.chunks[CHOOSE i \in SameContent(prev, k) : TRUE].epoch
StoreEpoch(prev, ks) ==
    IF \/ \E i \in DOMAIN ks : SameContent(prev, ks[i]) = {}
       \/ Len(ks) # (IF prev = Nothing THEN 0 ELSE Len(prev.chunks))
    THEN PreviousEpoch(prev) + 1 ELSE PreviousEpoch(prev)

\* Mutant: slots are not renumbered to the new row order.
LexicalIndexUnmapped(old, ks) ==
    IF old = Nothing \/ (old # Nothing /\ (old.bm25 = Nothing \/ Len(old.bm25) # Len(ks))) THEN ks
    ELSE old.bm25

\* incremental_bm25: a surviving document keeps what its old slot holds; a slot
\* that does not hold the document to be removed makes it start again.
LexicalIndex(old, ks) ==
    LET slot(k) == {i \in DOMAIN old.chunks : ChunkKey(old.chunks[i]) = k}
        gone == {i \in DOMAIN old.chunks : ChunkKey(old.chunks[i]) \notin ToSet(ks)}
    IN IF \/ old = Nothing
          \/ old.bm25 = Nothing
          \/ Len(old.bm25) # Len(old.chunks)
          \/ \E i \in gone : old.bm25[i] # ChunkKey(old.chunks[i])
       THEN ks
       ELSE [n \in DOMAIN ks |->
                IF slot(ks[n]) = {} THEN ks[n]
                ELSE old.bm25[CHOOSE i \in slot(ks[n]) : TRUE]]

\* The store a build writes, from the symbols it kept and those it embedded.
NextStore(prev, old) ==
    LET kept == [n \in DOMAIN job.kept |-> ChunkKey(job.kept[n].chunk)]
        ks == kept \o job.keys
        rows == [n \in DOMAIN job.kept |-> job.kept[n].row] \o job.rows
    IN [chunks |-> [n \in DOMAIN ks |->
                        [file |-> ks[n].file, ver |-> ks[n].ver, epoch |-> ChunkEpoch(prev, ks[n])]],
        vectors |-> [by |-> job.by, rows |-> rows],
        edges |-> ks,
        manifest |-> job.seen,
        bm25 |-> LexicalIndex(old, ks),
        meta |-> [by |-> job.by, epoch |-> StoreEpoch(prev, ks)]]

-------------------------------------------------------------------------------
Init ==
    /\ tree = [f \in Files |-> 1]        \* whatever a file holds at first is version 1
    /\ model = FirstModel
    /\ files = NoFiles /\ staged = Nothing /\ journal = Nothing
    /\ pc = "idle" /\ job = Nothing
    /\ query = Nothing /\ capture = Nothing
    /\ torn = "no" /\ rebased = FALSE /\ wiped = FALSE
    /\ due = FALSE /\ missed = TRUE
    /\ changes = 0 /\ stops = 0 /\ reads = 0

(***************************************************************************)
(* The embedding stage opens with load_progress; the journal of another    *)
(* input set is removed.  A build with nothing to embed does not touch it. *)
(***************************************************************************)
Open(ks, keep, onDisk) ==
    LET resumed == LoadProgress(onDisk, ks, model)
        done == IF resumed = Nothing THEN <<>> ELSE resumed.rows
    IN /\ journal' = IF ks = <<>> THEN onDisk ELSE resumed
       /\ job' = [keys |-> ks, kept |-> keep.kept, old |-> keep.old, rows |-> done,
                  seen |-> tree, by |-> model, next |-> Nothing, anew |-> FALSE, step |-> 1]
       /\ pc' = IF Len(done) = Len(ks) THEN "graph"
                ELSE IF resumed = Nothing THEN "open" ELSE "embed"

BuildAll(onDisk) ==
    Open(Keys(Present(tree), tree), [kept |-> <<>>, old |-> Nothing], onDisk)

BuildChanged(old) ==
    Open(Keys(Changed(old), tree), [kept |-> Kept(old), old |-> old], journal)

\* Mutant: an update propagates the load error of a corrupt store.
StartUpdateStrict ==
    /\ pc = "idle"
    /\ HealOnDisk
    /\ IF Loaded # Nothing THEN BuildChanged(Loaded)
       ELSE IF Absent THEN BuildAll(journal) ELSE UNCHANGED <<journal, pc, job>>
    /\ wiped' = FALSE
    /\ UNCHANGED <<environment, torn, rebased, bounds>>

\* `index update`, and `index index` without --force: the automatic reindex, the
\* graph enhancer, the MCP server, or the extension over a store it trusts.
StartUpdate ==
    /\ pc = "idle"
    /\ HealOnDisk
    /\ IF Loaded = Nothing THEN BuildAll(journal) ELSE BuildChanged(Loaded)
    /\ wiped' = FALSE
    /\ UNCHANGED <<environment, torn, rebased, bounds>>

\* `index index --force` leaves the old store alone until it reads the epochs.
StartForced ==
    /\ pc = "idle"
    /\ BuildAll(journal)
    /\ wiped' = FALSE
    /\ UNCHANGED <<disk, environment, torn, rebased, bounds>>

\* runIndexing: a store it does not trust is removed with everything in its
\* directory before the engine starts.
StartOverWiped ==
    /\ pc = "idle"
    /\ ~Trusted
    /\ files' = NoFiles /\ staged' = Nothing
    /\ BuildAll(Nothing)
    /\ wiped' = TRUE
    /\ UNCHANGED <<environment, torn, rebased, bounds>>

\* The fingerprint is written once the first batch is known.
OpenJournal ==
    /\ pc = "open"
    /\ journal' = NewJournal(job.keys, job.by)
    /\ pc' = "embed"
    /\ wiped' = FALSE
    /\ UNCHANGED <<job, disk, environment, torn, rebased, bounds>>

AppendVector ==
    /\ pc = "embed"
    /\ journal' = AppendRow(journal, Row(job.keys[Len(job.rows) + 1], job.by))
    /\ pc' = "record"
    /\ UNCHANGED <<job, disk, environment, history, bounds>>

AppendChunkRecord ==
    /\ pc = "record"
    /\ LET k == job.keys[Len(job.rows) + 1]
       IN /\ journal' = AppendRecord(journal, k)
          /\ job' = [job EXCEPT !.rows = Append(@, Row(k, job.by))]
    /\ pc' = IF Len(job'.rows) = Len(job.keys) THEN "graph" ELSE "embed"
    /\ UNCHANGED <<disk, environment, history, bounds>>

\* A full build reads the store again for its epochs (and heals it by reading);
\* an incremental one has it in memory.
BuildGraph ==
    /\ pc = "graph"
    /\ LET prev == IF job.old = Nothing THEN Loaded ELSE job.old
       IN job' = [job EXCEPT !.next = NextStore(prev, job.old), !.anew = (prev = Nothing)]
    /\ IF job.old = Nothing THEN HealOnDisk ELSE UNCHANGED disk
    /\ pc' = "stage"
    /\ UNCHANGED <<journal, environment, history, bounds>>

\* Phase 1 of a save.
Stage ==
    /\ pc = "stage"
    /\ staged' = job.next.vectors
    /\ pc' = "commit"
    /\ UNCHANGED <<files, journal, job, environment, history, bounds>>

\* Vectors of another generation than the chunks have their size: the chunks were
\* renamed and the vectors were not; or the chunks were not, and the new vectors
\* are staged where a load promotes them, or promoted already.
Between ==
    pc = "commit" /\
        \/ job.step = 1 /\ (Healable \/ (Matching /\ staged = Nothing))
        \/ job.step = 2 /\ Matching

\* A save ends so, or ends staging vectors that the next load promotes.
Misplaced == Between \/ (pc = "stage" /\ Healable')

\* What a save leaves that ends before its rename number job.step.
Tear ==
    IF Absent THEN torn
    ELSE IF Misplaced THEN "rows"
    ELSE IF torn = "no" /\ pc = "commit" /\ job.step > 1 THEN "graph" ELSE torn

Die ==
    /\ pc' = "idle" /\ job' = Nothing
    /\ torn' = Tear
    /\ UNCHANGED <<rebased, wiped>>

\* Phase 2: one rename.  A query may have promoted the staged vectors already;
\* the rename then fails, and the save with it.
Commit ==
    /\ pc = "commit"
    /\ LET name == Names[job.step]
       IN IF name = "vectors" /\ staged = Nothing
          THEN UNCHANGED disk /\ Die
          ELSE /\ files' = [files EXCEPT ![name] = job.next[name]]
               /\ staged' = IF name = "vectors" THEN Nothing ELSE staged
               /\ job' = [job EXCEPT !.step = @ + 1]
               /\ pc' = IF job.step = Len(Names) THEN "clear" ELSE "commit"
               /\ torn' = IF pc' = "clear" /\ job.old = Nothing THEN "no" ELSE torn
               /\ rebased' = (rebased \/ (job.anew /\ capture # Nothing))
               /\ UNCHANGED wiped
    /\ UNCHANGED <<journal, environment, bounds>>

\* The committed store supersedes the journal.
ClearJournal ==
    /\ pc = "clear"
    /\ journal' = Nothing
    /\ pc' = "idle" /\ job' = Nothing
    /\ UNCHANGED <<disk, environment, history, bounds>>

\* The process dies, is killed or gives up: between two steps, or in the middle
\* of an append or of the staging of vectors.tmp.
Stop ==
    /\ pc # "idle" /\ stops < MaxStops
    /\ stops' = stops + 1
    /\ \/ UNCHANGED <<journal, staged>>
       \/ /\ pc \in {"embed", "record"} /\ ~Unreadable(journal)
          /\ \E tail \in (IF pc = "embed" THEN {"row"} ELSE {"record", "char"}) :
                journal' = [journal EXCEPT !.tail = tail]
          /\ UNCHANGED staged
       \/ /\ pc = "stage"
          /\ staged' = [job.next.vectors EXCEPT !.rows = Front(@)]
          /\ UNCHANGED journal
    /\ UNCHANGED <<files, environment, changes, reads>>
    /\ Die

(***************************************************************************)
(* The environment                                                         *)
(***************************************************************************)
Edit ==
    /\ changes < MaxChanges /\ changes' = changes + 1
    /\ \E f \in Files, v \in 0..MaxVersion :
          /\ v # tree[f]
          /\ tree' = [tree EXCEPT ![f] = v]
          /\ tree' \in Trees
    /\ UNCHANGED <<model, disk, journal, pc, job, query, capture, history, stops, reads>>

SwitchModel ==
    /\ changes < MaxChanges /\ changes' = changes + 1
    /\ \E m \in Models \ {model} : model' = m
    /\ UNCHANGED <<tree, disk, journal, pc, job, query, capture, history, stops, reads>>

\* A query reads meta.json and the chunks, and the vectors some time later.
QueryOpen ==
    /\ query = Nothing /\ ~Absent
    /\ reads < MaxReads /\ reads' = reads + 1
    /\ query' = [count |-> Len(files.chunks), by |-> files.meta.by]
    /\ UNCHANGED <<tree, model, disk, journal, pc, job, capture, history,
                   changes, stops>>

QueryVectors ==
    /\ query # Nothing
    /\ query' = Nothing
    /\ IF ~Fits(files.vectors, query.count, query.by) /\ Fits(staged, query.count, query.by)
       THEN files' = [files EXCEPT !.vectors = staged] /\ staged' = Nothing
       ELSE UNCHANGED disk
    /\ UNCHANGED <<tree, model, journal, pc, job, capture, history, bounds>>

\* A new trace is stamped with the epoch the store has, whatever the traced
\* process has run and whether or not the index has caught up with it; what is
\* remembered of it is one symbol, in the content the index has just then.
Capture ==
    /\ ~Absent
    /\ reads < MaxReads /\ reads' = reads + 1
    /\ \E i \in DOMAIN files.chunks :
          capture' = [files.chunks[i] EXCEPT !.epoch = files.meta.epoch]
    /\ rebased' = (pc = "commit" /\ job.anew /\ job.step > 1)
    /\ UNCHANGED <<tree, model, disk, journal, pc, job, query, torn, wiped,
                   changes, stops>>

(***************************************************************************)
(* The watcher                                                             *)
(***************************************************************************)
\* isProjectIndexed: whether the two files exist, not what is in them.
Indexed == ~Absent /\ files.vectors # Nothing

\* Mutant: a timer that fires while an update runs is not queued.
UpdateUnqueued ==
    /\ due /\ due' = FALSE
    /\ IF pc = "idle" /\ Indexed THEN StartUpdate
       ELSE UNCHANGED <<disk, journal, pc, job, environment, history, bounds>>
    /\ UNCHANGED missed

\* runUpdate, when the timer fires or the update before it has ended: without an
\* index, or without the embedding sidecar, nothing is started and nothing is
\* kept for later.
RunUpdate ==
    /\ due /\ due' = FALSE
    /\ pc = "idle"
    /\ \/ Indexed /\ StartUpdate /\ UNCHANGED missed
       \/ /\ missed' = TRUE
          /\ UNCHANGED <<disk, journal, pc, job, environment, history, bounds>>

\* An edit is saved, which sets the timer; one the watcher does not see, by
\* another program, is as one whose update does not start.
Save == Edit /\ due' = TRUE /\ missed' = FALSE

-------------------------------------------------------------------------------
\* A process that ends before its time leaves what was edited to the update that
\* is due, if one is.
Engine ==
    /\ \/ OpenJournal \/ AppendVector \/ AppendChunkRecord
       \/ BuildGraph \/ Stage \/ Commit \/ ClearJournal
    /\ missed' = (missed \/ (pc = "commit" /\ pc' = "idle" /\ ~due))
    /\ UNCHANGED due

Interrupted == Stop /\ missed' = ~due /\ UNCHANGED due

\* The user, the MCP server or the graph enhancer runs the engine.
Start == (StartUpdate \/ StartForced \/ StartOverWiped) /\ missed' = FALSE /\ UNCHANGED due

Others == (SwitchModel \/ QueryOpen \/ QueryVectors \/ Capture) /\ UNCHANGED <<due, missed>>

Next == Start \/ RunUpdate \/ Engine \/ Interrupted \/ Save \/ Others

Spec == Init /\ [][Next]_vars

\* A running engine process goes on, and an update that is due comes to run: the
\* timer fires, and the end of one update starts the queued one.  Nobody else is
\* bound to ask for an update.
FairSpec == Spec /\ WF_vars(Engine) /\ WF_vars(RunUpdate)
-------------------------------------------------------------------------------
(***************************************************************************)
(* Properties                                                              *)
(***************************************************************************)
Partial == [chunks : Maybe(Seq(Chunk)), vectors : Maybe(Vectors), edges : Maybe(Seq(Key)),
            manifest : Maybe(Manifest), bm25 : Maybe(Seq(Key)), meta : Maybe(Meta)]
Job == [keys : Seq(Key), kept : Seq([chunk : Chunk, row : Maybe(Vector)]), old : Maybe(Store),
        rows : Seq(Vector), seen : Manifest, by : Models, next : Maybe(Store),
        anew : BOOLEAN, step : 1..7]

\* The values the variables take: a store with a meta.json has all its files, and
\* an engine process that has built a store knows what it is going to save.
StoreTypeOK ==
    /\ tree \in Trees /\ model \in Models
    /\ files \in Partial /\ staged \in Maybe(Vectors) /\ journal \in Maybe(Journal)
    /\ files.meta # Nothing => files \in Store
    /\ pc \in PCs /\ (IF pc = "idle" THEN job = Nothing ELSE job \in Job)
    /\ pc \in {"embed", "record"} => journal # Nothing
    /\ pc \in {"stage", "commit", "clear"} => job.next # Nothing
    /\ query \in Maybe([count : Nat, by : Models])
    /\ capture \in Maybe(Chunk)
    /\ torn \in {"no", "graph", "rows"} /\ {rebased, wiped} \subseteq BOOLEAN
    /\ changes \in 0..MaxChanges /\ stops \in 0..MaxStops /\ reads \in 0..MaxReads

WatcherTypeOK == {due, missed} \subseteq BOOLEAN

TypeOK == StoreTypeOK /\ WatcherTypeOK

\* The rows of the journal are the vectors of the records a load would read,
\* however the process that wrote it ended: resuming is exact, never approximate
\* (resume.rs:17-29).
JournalExact ==
    journal # Nothing =>
        \A i \in DOMAIN journal.rows \cap DOMAIN Records(journal) :
            /\ Records(journal)[i] = journal.fp.keys[i]
            /\ journal.rows[i] = Row(Records(journal)[i], journal.fp.by)

\* Row i of the vectors a load returns is a vector of chunk i (store.rs:139), after
\* any edits, model changes, deaths, partial appends and promotions by a query,
\* and in the middle of a save too; and of the model the store names, if no save
\* was interrupted since the last full build.  The exceptions are the moments of
\* a save that Between names, when old and new generation have the same size and
\* nothing else tells them apart, and what a save leaves that ends at one.
RowsAligned ==
    LET store == Loaded
    IN (torn # "rows" /\ ~Between /\ store # Nothing) =>
        /\ Len(store.vectors.rows) = Len(store.chunks)
        /\ \A i \in DOMAIN store.chunks :
              \E m \in Models :
                 /\ store.vectors.rows[i] = Row(ChunkKey(store.chunks[i]), m)
                 /\ torn = "no" /\ pc # "commit" => m = store.meta.by

\* A store no commit was interrupted in since its last full build is one
\* generation: graph, lexical index and manifest speak of its chunks.
OneGeneration ==
    (torn = "no" /\ pc # "commit" /\ Loaded # Nothing /\ Matching) =>
        LET ks == ChunkKeys(Loaded.chunks)
        IN /\ Loaded.edges = ks
           /\ Loaded.bm25 = ks
           /\ ToSet(ks) = {KeyOf(f, Loaded.manifest) : f \in ToSet(Present(Loaded.manifest))}

\* A chunk that is not stale for a trace by its epoch has the content the index
\* had for its symbol when the trace was stamped (store.rs:57-60), through edits,
\* reindexes, models and interrupted saves, unless the epochs started again.
FreshMeansSame ==
    (capture # Nothing /\ ~rebased /\ files.chunks # Nothing) =>
        \A i \in DOMAIN files.chunks :
            LET c == files.chunks[i]
            IN (c.file = capture.file /\ c.epoch <= capture.epoch) => c.ver = capture.ver

\* The rows a run over the same input set would not have to embed again.
Durable(j) == IF j = Nothing THEN 0 ELSE Verified(j, j.fp.keys)

\* What the journal holds is given up only once a store is saved, for another
\* input set, or with a store the extension does not trust (resume.rs:3-29): a
\* torn tail, a death or a resume never costs a row that was durable.  The one
\* exception is a record torn within a character (resume.rs:225).
DurableRowsSurvive ==
    [][Durable(journal') < Durable(journal)
        => \/ pc = "clear"
           \/ pc' # "idle" /\ journal.fp # Fingerprint(job'.keys, job'.by)
           \/ wiped'
           \/ journal' # Nothing /\ Unreadable(journal')]_vars

\* The index follows the code automatically (autoReindex.ts:2): once the saves
\* end, it holds what the workspace holds, through saves that fall into a running
\* update and stores no update could read; unless the last update was stopped or
\* could not be started, or a commit was torn since the last full build, when
\* files and manifest may be of two generations.
IndexCatchesUp ==
    <>[]( \/ missed
          \/ /\ ~Absent
             /\ torn = "no" =>
                   ToSet(ChunkKeys(files.chunks)) = ToSet(Keys(Present(tree), tree)))
===============================================================================

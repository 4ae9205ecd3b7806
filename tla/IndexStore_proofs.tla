-------------------------- MODULE IndexStore_proofs --------------------------
(***************************************************************************)
(* Proofs about IndexStore, for every number of files, versions, models,   *)
(* deaths and queries.                                                     *)
(*                                                                         *)
(* Base gives the variables their types and ties a job to its journal and  *)
(* to the files it has renamed: it is inductive by itself, and the types,  *)
(* the exactness of the journal and the survival of its durable rows       *)
(* follow.  Three invariants rest on it, each inductive with Base and      *)
(* without the others:                                                     *)
(*   Fresh   no file has two chunks, a commit only brings in chunks of the *)
(*           store before or newer ones, and no fact is newer than the     *)
(*           store: FreshMeansSame;                                        *)
(*   Whole   the files and the store to be saved are of one generation as  *)
(*           long as no commit was torn: OneGeneration;                    *)
(*   Rowed   whatever vectors a load would accept have the rows of its     *)
(*           chunks, as long as no save ended with misplaced ones:         *)
(*           RowsAligned.                                                  *)
(***************************************************************************)
EXTENDS IndexStore, FiniteSetTheorems, SequenceTheorems, TLAPS

(***************************************************************************)
(* The inductive invariants.                                               *)
(***************************************************************************)
Renaming == pc = "commit" /\ job.step > 1

\* No file has two chunks.
Single(cs) == \A i, j \in DOMAIN cs : cs[i].file = cs[j].file => i = j

\* The row r is a vector of the symbol k; where it is exact, the one model m gives it.
Agrees(r, k, m, exact) == \E by \in Models : r = Row(k, by) /\ (exact => by = m)

\* Row i of the vectors v is that of chunk i.
AlignedWith(v, cs, m, exact) ==
    /\ Len(v.rows) = Len(cs)
    /\ \A i \in DOMAIN cs : Agrees(v.rows[i], ChunkKey(cs[i]), m, exact)

\* The symbols of a tree or a manifest, and those a job writes.
Symbols(t) == {KeyOf(f, t) : f \in {g \in Files : t[g] # 0}}
JobKeys(j) == {ChunkKey(j.kept[n].chunk) : n \in DOMAIN j.kept} \cup ToSet(j.keys)

\* Graph, lexical index and manifest of the store s speak of its chunks.
Covered(ks, t) == ToSet(ks) = Symbols(t)
OneGenerationOf(s) ==
    /\ s.edges = ChunkKeys(s.chunks)
    /\ s.bm25 = ChunkKeys(s.chunks)
    /\ Covered(ChunkKeys(s.chunks), s.manifest)

\* Where the running embedding stage is in its journal.
Appending ==
    /\ pc \in {"embed", "record"} =>
          /\ journal.fp = Fingerprint(job.keys, job.by)
          /\ journal.tail \in {"whole", "char"}
          /\ ~Unreadable(journal) => Len(journal.recs) = Len(job.rows)
          /\ Len(job.rows) < Len(job.keys)
    /\ pc = "embed" => Len(journal.rows) = Len(job.rows)
    /\ pc = "record" =>
          /\ Len(journal.rows) = Len(job.rows) + 1
          /\ journal.rows[Len(job.rows) + 1] = Row(job.keys[Len(job.rows) + 1], job.by)
    /\ pc = "open" => journal = Nothing /\ job.rows = <<>> /\ Len(job.rows) < Len(job.keys)

\* The rows in memory are those of the symbols, from the first on.
RowsDone ==
    pc # "idle" =>
        /\ Len(job.rows) <= Len(job.keys)
        /\ pc \in {"graph", "stage", "commit", "clear"} => Len(job.rows) = Len(job.keys)
        /\ \A i \in DOMAIN job.rows : job.rows[i] = Row(job.keys[i], job.by)

\* The store a job started from is still the one on disk when it is read again.
OldIsThere ==
    (pc \notin {"idle", "commit", "clear"} /\ job.old # Nothing) =>
        files \in Store /\ job.old.chunks = files.chunks /\ job.old.meta = files.meta

\* There is a store, or the beginning of one.
Stored == files.chunks # Nothing \/ files.meta # Nothing

\* No file has two chunks, in the store and in what a job makes.
OneChunkEach ==
    /\ Stored => Single(files.chunks)
    /\ pc # "idle" =>
          /\ \A i, j \in DOMAIN job.kept : job.kept[i].chunk.file = job.kept[j].chunk.file => i = j
          /\ Single(job.keys)
          /\ \A i \in DOMAIN job.kept, j \in DOMAIN job.keys : job.kept[i].chunk.file # job.keys[j].file
    /\ pc \in {"stage", "commit"} => Single(job.next.chunks)

\* A chunk to be saved is one of the store before, or newer than that store.
Inherits(cs, s) ==
    \A i \in DOMAIN cs : cs[i].epoch > s.meta.epoch \/ \E j \in DOMAIN s.chunks : cs[i] = s.chunks[j]

EpochsGrow ==
    (pc \in {"stage", "commit"} /\ ~job.anew) =>
        /\ files.meta # Nothing
        /\ files.meta.epoch <= job.next.meta.epoch
        /\ ~Renaming => Inherits(job.next.chunks, files)

\* The chunks cs have nothing else at the symbol of the capture that is not newer.
SameIn(cs) ==
    \A i \in DOMAIN cs :
        (cs[i].file = capture.file /\ cs[i].epoch <= capture.epoch) => cs[i].ver = capture.ver

\* Unless the epochs started again, the store is not older than a fact, and what
\* it holds of the fact's symbol is newer or the same.
CaptureIsPast ==
    (capture # Nothing /\ ~rebased /\ Stored) =>
        files.meta # Nothing /\ capture.epoch <= files.meta.epoch /\ SameIn(files.chunks)

FirstStep == pc \notin {"idle", "commit", "clear"} => job.step = 1

\* The files renamed so far are those of the store to be saved.
Renamed ==
    pc = "commit" =>
        /\ job.step \in 1..6
        /\ job.step <= 2 => staged \in {Nothing, job.next.vectors}
        /\ job.step > 1 => files.chunks = job.next.chunks
        /\ job.step > 2 => files.vectors = job.next.vectors /\ staged = Nothing
        /\ job.step > 3 => files.edges = job.next.edges
        /\ job.step > 4 => files.manifest = job.next.manifest
        /\ job.step > 5 => files.bm25 = job.next.bm25

NextIsWhole ==
    pc \in {"stage", "commit"} =>
        /\ job.next.vectors.by = job.next.meta.by
        /\ Len(job.next.vectors.rows) = Len(job.next.chunks)

\* Outside of a commit, whatever a load accepts is aligned: with the store's own model
\* as long as no commit was torn, and with the symbols of its chunks after one.
FilesAligned ==
    (torn # "rows" /\ pc # "commit" /\ files.meta # Nothing) =>
        /\ Matching => AlignedWith(files.vectors, files.chunks, files.meta.by, torn = "no")
        /\ Healable => AlignedWith(staged, files.chunks, files.meta.by, torn = "no")

\* ... and before the first rename, as long as no query has promoted anything.
FilesAlignedStill ==
    (torn # "rows" /\ pc = "commit" /\ job.step = 1 /\ staged # Nothing /\ Matching) =>
        AlignedWith(files.vectors, files.chunks, files.meta.by, torn = "no")

\* What a job keeps and saves is exact when it starts anew or from an untorn store.
Exactly == torn = "no" \/ job.old = Nothing
JobAligned ==
    /\ (pc # "idle" /\ (torn # "rows" \/ job.old = Nothing)) =>
          \A n \in DOMAIN job.kept :
              Agrees(job.kept[n].row, ChunkKey(job.kept[n].chunk), job.by, Exactly)
    /\ (pc \in {"stage", "commit"} /\ (torn # "rows" \/ job.old = Nothing)) =>
          AlignedWith(job.next.vectors, job.next.chunks, job.next.meta.by, Exactly)

FilesOneGeneration ==
    (torn = "no" /\ ~Renaming /\ files.meta # Nothing) => OneGenerationOf(files)

JobOneGeneration ==
    /\ (pc # "idle" /\ torn = "no" /\ job.old # Nothing) =>
          job.old.bm25 \in {Nothing, ChunkKeys(job.old.chunks)}
    /\ (pc # "idle" /\ (torn = "no" \/ job.old = Nothing)) =>
          JobKeys(job) = Symbols(job.seen)
    /\ (pc \in {"stage", "commit"} /\ (torn = "no" \/ job.old = Nothing)) =>
          OneGenerationOf(job.next)

-------------------------------------------------------------------------------
(***************************************************************************)
(* Sequences of files, symbols and rows                                    *)
(***************************************************************************)
\* A set of files is enumerated by a sequence without repetition.
LEMMA Enumerated ==
    ASSUME NEW S \in SUBSET Files
    PROVE  /\ SetToSeq(S) \in Seq(Files)
           /\ \A i, j \in DOMAIN SetToSeq(S) : SetToSeq(S)[i] = SetToSeq(S)[j] => i = j
           /\ \A i \in DOMAIN SetToSeq(S) : SetToSeq(S)[i] \in S
           /\ \A f \in S : \E i \in DOMAIN SetToSeq(S) : SetToSeq(S)[i] = f
<1>1. IsFiniteSet(Files)
  BY StoreAssumption, FS_Interval DEF Files
<1>2. IsFiniteSet(S)
  BY <1>1, FS_Subset
<1>3. Cardinality(S) \in Nat /\ ExistsBijection(1..Cardinality(S), S)
  BY <1>2, FS_CardinalityType
<1>4. PICK b \in [1..Cardinality(S) -> S] : IsInjective(b)
  BY <1>3 DEF ExistsBijection, Bijection, Injection
<1> DEFINE s == SetToSeq(S)
<1>5. s \in [1..Cardinality(S) -> S] /\ IsInjective(s)
  BY <1>4 DEF SetToSeq
<1>6. s \in Injection(1..Cardinality(S), S)
  BY <1>5 DEF Injection
<1>7. Cardinality(1..Cardinality(S)) = Cardinality(S)
  <2>1. Cardinality(1..Cardinality(S)) = IF 1 > Cardinality(S) THEN 0 ELSE Cardinality(S) - 1 + 1
    BY <1>3, FS_Interval
  <2>2. QED
    BY <2>1, <1>3
<1>8. s \in Surjection(1..Cardinality(S), S)
  BY <1>2, <1>6, <1>7, FS_Injection
<1> HIDE DEF s
<1>9. \A f \in S : \E i \in DOMAIN s : s[i] = f
  BY <1>5, <1>8 DEF Surjection
<1>10. s \in Seq(Files)
  BY <1>3, <1>5
<1>11. \A i, j \in DOMAIN s : s[i] = s[j] => i = j
  BY <1>5 DEF IsInjective
<1>12. \A i \in DOMAIN s : s[i] \in S
  BY <1>5
<1>13. QED
  BY <1>9, <1>10, <1>11, <1>12 DEF s

\* The records that can be read: those of the file, or none.
LEMMA RecordsType ==
    ASSUME NEW j \in Journal
    PROVE  /\ Records(j) \in Seq(Maybe(Key)) /\ Len(Records(j)) \in Nat
           /\ DOMAIN Records(j) = 1..Len(Records(j))
           /\ Unreadable(j) => Records(j) = <<>> /\ Len(Records(j)) = 0
           /\ ~Unreadable(j) => Records(j) = j.recs
<1>1. Records(j) \in Seq(Maybe(Key))
  BY DEF Journal, Records
<1>2. QED
  BY <1>1, LenProperties DEF Records

\* The first n records agree with the symbols and the next one, if any, does not.
LEMMA VerifiedPrefix ==
    ASSUME NEW j \in Journal, NEW ks \in Seq(Key)
    PROVE  LET n == Verified(j, ks)
           IN /\ n \in Nat /\ n <= Len(ks) /\ n <= Len(j.rows) /\ n <= Len(Records(j))
              /\ \A i \in 1..n : Records(j)[i] = ks[i]
              /\ (n + 1 <= Len(ks) /\ n + 1 <= Len(j.rows) /\ n + 1 <= Len(Records(j)))
                    => Records(j)[n + 1] # ks[n + 1]
<1>1. Len(ks) \in Nat /\ Len(j.rows) \in Nat /\ Len(Records(j)) \in Nat
  BY RecordsType DEF Journal
<1> DEFINE limit == {n \in 0..Len(ks) : n <= Len(j.rows) /\ n <= Len(Records(j))}
           Good(n) == /\ \A i \in 1..n : Records(j)[i] = ks[i]
                      /\ n + 1 \in limit => Records(j)[n + 1] # ks[n + 1]
           Bad == {n \in Nat : n + 1 \in limit => Records(j)[n + 1] # ks[n + 1]}
           Less == {ss \in Nat \X Nat : ss[1] < ss[2]}
<1>2. Len(ks) \in Bad
  BY <1>1
<1>3. IsWellFoundedOn(Less, Nat)
  BY NatLessThanWellFounded DEF OpToRel
<1>4. PICK n \in Bad : \A m \in Bad : ~(<<m, n>> \in Less)
  BY <1>2, <1>3, WFMin
<1>5. \A m \in Nat : m < n => m + 1 \in limit /\ Records(j)[m + 1] = ks[m + 1]
  BY <1>4
<1>6. n \in limit
  <2>1. CASE n = 0
    BY <2>1, <1>1
  <2>2. CASE n # 0
    <3>1. n - 1 \in Nat /\ n - 1 < n /\ (n - 1) + 1 = n
      BY <2>2, <1>4
    <3>2. QED
      BY <3>1, <1>5
  <2>3. QED
    BY <2>1, <2>2
<1>7. \A i \in 1..n : Records(j)[i] = ks[i]
  <2>1. TAKE i \in 1..n
  <2>2. i - 1 \in Nat /\ i - 1 < n /\ (i - 1) + 1 = i
    BY <1>4
  <2>3. QED
    BY <2>2, <1>5
<1>8. n \in limit /\ Good(n)
  BY <1>4, <1>6, <1>7
<1>9. Verified(j, ks) = CHOOSE m \in limit : Good(m)
  BY DEF Verified
<1>10. Verified(j, ks) \in limit /\ Good(Verified(j, ks))
  <2> HIDE DEF limit, Good
  <2>1. QED
    BY <1>8, <1>9
<1>11. QED
  BY <1>1, <1>10
-------------------------------------------------------------------------------
(***************************************************************************)
(* Types                                                                   *)
(***************************************************************************)
LEMMA RowType == ASSUME NEW k \in Key, NEW m \in Models PROVE Row(k, m) \in Vector
  BY DEF Key, Vector, Row

LEMMA ChunkKeyType == ASSUME NEW c \in Chunk PROVE ChunkKey(c) \in Key
  BY DEF Chunk, Key, ChunkKey

LEMMA ChunkKeysType ==
    ASSUME NEW cs \in Seq(Chunk)
    PROVE  /\ ChunkKeys(cs) \in Seq(Key)
           /\ Len(ChunkKeys(cs)) = Len(cs) /\ DOMAIN ChunkKeys(cs) = DOMAIN cs
           /\ \A i \in DOMAIN cs : ChunkKeys(cs)[i] = ChunkKey(cs[i])
<1>1. \A i \in DOMAIN cs : ChunkKey(cs[i]) \in Key
  BY ChunkKeyType
<1>2. DOMAIN cs = 1..Len(cs) /\ Len(cs) \in Nat
  OBVIOUS
<1>3. QED
  BY <1>1, <1>2 DEF ChunkKeys

\* The symbols of a sequence of files that have one.
LEMMA KeysType ==
    ASSUME NEW t \in Manifest, NEW fs \in Seq(Files), \A i \in DOMAIN fs : t[fs[i]] # 0
    PROVE  /\ Keys(fs, t) \in Seq(Key)
           /\ Len(Keys(fs, t)) = Len(fs) /\ DOMAIN Keys(fs, t) = DOMAIN fs
           /\ \A i \in DOMAIN fs : Keys(fs, t)[i] = KeyOf(fs[i], t)
<1>1. \A i \in DOMAIN fs : KeyOf(fs[i], t) \in Key
  BY StoreAssumption DEF KeyOf, Key, Manifest
<1>2. DOMAIN fs = 1..Len(fs) /\ Len(fs) \in Nat
  OBVIOUS
<1>3. QED
  BY <1>1, <1>2 DEF Keys

\* load_progress cuts a journal of the symbols to embed down to the records that
\* were verified, and returns nothing for any other.
LEMMA NotResumed ==
    ASSUME NEW j \in Maybe(Journal), NEW ks, NEW m, LoadProgress(j, ks, m) # Nothing
    PROVE  j \in Journal /\ j.fp = Fingerprint(ks, m)
  BY DEF LoadProgress, Maybe

LEMMA Resumed ==
    ASSUME NEW j \in Journal, NEW ks \in Seq(Key), NEW m \in Models, j.fp = Fingerprint(ks, m)
    PROVE  LET n == Verified(j, ks)
               r == LoadProgress(j, ks, m)
           IN /\ r \in Journal /\ r # Nothing /\ r.fp = j.fp /\ r.tail \in {"whole", "char"}
              /\ n \in Nat /\ n <= Len(ks) /\ n <= Len(j.rows) /\ n <= Len(Records(j))
              /\ Len(r.rows) = n /\ Len(Records(r)) = n
              /\ ~Unreadable(r) => Len(r.recs) = n
              /\ \A i \in 1..n : /\ r.rows[i] = j.rows[i]
                                 /\ Records(r)[i] = Records(j)[i] /\ Records(r)[i] = ks[i]
<1> DEFINE n == Verified(j, ks)
           r == LoadProgress(j, ks, m)
           cut == [j EXCEPT !.rows = SubSeq(@, 1, n)]
<1>1. j \in Journal /\ j # Nothing /\ j.fp = Fingerprint(ks, m)
  BY StoreAssumption
<1>2. r = IF Unreadable(j) THEN cut ELSE [cut EXCEPT !.recs = SubSeq(@, 1, n), !.tail = "whole"]
  BY <1>1 DEF LoadProgress
<1>3. /\ n \in Nat /\ n <= Len(ks) /\ n <= Len(j.rows) /\ n <= Len(Records(j))
      /\ \A i \in 1..n : Records(j)[i] = ks[i]
  BY <1>1, VerifiedPrefix
<1> HIDE DEF n
<1>4. j.rows \in Seq(Maybe(Vector)) /\ j.recs \in Seq(Maybe(Key))
  BY <1>1 DEF Journal
<1>5. /\ SubSeq(j.rows, 1, n) \in Seq(Maybe(Vector)) /\ Len(SubSeq(j.rows, 1, n)) = n
      /\ \A i \in 1..n : SubSeq(j.rows, 1, n)[i] = j.rows[i]
  BY <1>3, <1>4
<1>6. /\ cut \in Journal /\ cut.fp = j.fp /\ cut.rows = SubSeq(j.rows, 1, n)
      /\ cut.recs = j.recs /\ cut.tail = j.tail
  BY <1>1, <1>5 DEF Journal
<1>7. CASE Unreadable(j)
  <2>1. r = cut /\ Unreadable(r) /\ r.tail = "char"
    BY <1>2, <1>6, <1>7 DEF Unreadable
  <2>2. n = 0 /\ Len(Records(r)) = 0
    BY <1>1, <1>3, <1>6, <1>7, <2>1, RecordsType
  <2> HIDE DEF cut, r
  <2>3. r \in Journal /\ r # Nothing /\ r.fp = j.fp /\ Len(r.rows) = n
    BY <1>5, <1>6, <2>1, StoreAssumption
  <2>4. QED
    BY <1>3, <2>1, <2>2, <2>3 DEF n, r
<1>8. CASE ~Unreadable(j)
  <2>1. r = [cut EXCEPT !.recs = SubSeq(j.recs, 1, n), !.tail = "whole"]
    BY <1>2, <1>6, <1>8
  <2>2. Records(j) = j.recs
    BY <1>1, <1>8, RecordsType
  <2>3. /\ SubSeq(j.recs, 1, n) \in Seq(Maybe(Key)) /\ Len(SubSeq(j.recs, 1, n)) = n
        /\ \A i \in 1..n : SubSeq(j.recs, 1, n)[i] = j.recs[i]
    BY <1>3, <1>4, <2>2
  <2> HIDE DEF cut, r
  <2>4. /\ r \in Journal /\ r.fp = j.fp /\ r.tail = "whole"
        /\ r.rows = SubSeq(j.rows, 1, n) /\ r.recs = SubSeq(j.recs, 1, n)
    BY <1>6, <2>1, <2>3 DEF Journal
  <2>5. ~Unreadable(r) /\ Records(r) = r.recs
    BY <2>4, RecordsType DEF Unreadable
  <2>6. r # Nothing
    BY <2>4, StoreAssumption
  <2>7. QED
    BY <1>3, <1>5, <2>2, <2>3, <2>4, <2>5, <2>6 DEF n, r
<1>9. QED
  BY <1>7, <1>8

\* The symbols of a set of files name each of them once.
LEMMA ListedOnce ==
    ASSUME NEW S \in SUBSET Files, NEW t
    PROVE  /\ Single(Keys(SetToSeq(S), t))
           /\ \A i \in DOMAIN Keys(SetToSeq(S), t) : Keys(SetToSeq(S), t)[i].file \in S
           /\ ToSet(Keys(SetToSeq(S), t)) = {KeyOf(f, t) : f \in S}
<1> DEFINE s == SetToSeq(S)
<1>1. /\ \A i, j \in DOMAIN s : s[i] = s[j] => i = j
      /\ \A i \in DOMAIN s : s[i] \in S
      /\ \A f \in S : \E i \in DOMAIN s : s[i] = f
  BY Enumerated
<1> HIDE DEF s
<1>2. DOMAIN Keys(s, t) = DOMAIN s /\ \A i \in DOMAIN s : Keys(s, t)[i] = KeyOf(s[i], t)
  BY DEF Keys
<1>3. \A i \in DOMAIN s : Keys(s, t)[i].file = s[i]
  BY <1>2 DEF KeyOf
<1>4. ToSet(Keys(s, t)) = {KeyOf(f, t) : f \in S}
  BY <1>1, <1>2 DEF ToSet
<1>5. QED
  BY <1>1, <1>2, <1>3, <1>4 DEF s, Single

LEMMA PresentType ==
    ASSUME NEW t \in Manifest
    PROVE  Keys(Present(t), t) \in Seq(Key)
<1>1. /\ Present(t) \in Seq(Files)
      /\ \A i \in DOMAIN Present(t) : Present(t)[i] \in {f \in Files : t[f] # 0}
  BY Enumerated DEF Present
<1>2. QED
  BY <1>1, KeysType

LEMMA ChangedType ==
    ASSUME tree \in Manifest, NEW old
    PROVE  Keys(Changed(old), tree) \in Seq(Key)
<1>1. /\ Changed(old) \in Seq(Files)
      /\ \A i \in DOMAIN Changed(old) :
            Changed(old)[i] \in {f \in Files : tree[f] # 0 /\ ~Unchanged(old, f)}
  BY Enumerated DEF Changed
<1>2. QED
  BY <1>1, KeysType
-------------------------------------------------------------------------------
(***************************************************************************)
(* Loading                                                                 *)
(***************************************************************************)
LEMMA Cancel ==
    ASSUME NEW a \in Nat, NEW b \in Nat, NEW d \in Nat \ {0}, a * d = b * d
    PROVE  a = b
<1>1. CASE a < b
  <2>1. PICK c \in Nat \ {0} : b = a + c
    <3>1. b - a \in Nat \ {0} /\ b = a + (b - a)
      BY <1>1
    <3>2. QED
      BY <3>1
  <2>2. b * d = a * d + c * d
    BY <2>1
  <2>3. c * d > 0
    BY <2>1
  <2>4. a * d \in Nat /\ c * d \in Nat
    OBVIOUS
  <2>5. QED
    BY <2>2, <2>3, <2>4
<1>2. CASE b < a
  <2>1. PICK c \in Nat \ {0} : a = b + c
    <3>1. a - b \in Nat \ {0} /\ a = b + (a - b)
      BY <1>2
    <3>2. QED
      BY <3>1
  <2>2. a * d = b * d + c * d
    BY <2>1
  <2>3. c * d > 0
    BY <2>1
  <2>4. b * d \in Nat /\ c * d \in Nat
    OBVIOUS
  <2>5. QED
    BY <2>2, <2>3, <2>4
<1>3. QED
  BY <1>1, <1>2

\* Vectors of the size of some chunks and of their dimension are as many.
LEMMA FitsAsMany ==
    ASSUME NEW v \in Vectors, NEW c \in Nat, NEW m \in Models, Fits(v, c, m), Dim[v.by] = Dim[m]
    PROVE  Len(v.rows) = c
<1>1. Len(v.rows) \in Nat /\ Dim[m] \in Nat \ {0}
  BY StoreAssumption DEF Vectors
<1>2. Len(v.rows) * Dim[m] = c * Dim[m]
  BY DEF Fits
<1>3. QED
  BY <1>1, <1>2, Cancel

\* A load returns the store on disk, or it with the staged vectors.
LEMMA LoadedStore ==
    ASSUME StoreTypeOK, Loaded # Nothing
    PROVE  /\ files \in Store /\ Loaded \in Store
           /\ Loaded.chunks = files.chunks /\ Loaded.meta = files.meta
           /\ Loaded.manifest = files.manifest
           /\ Fits(Loaded.vectors, Len(Loaded.chunks), Loaded.meta.by)
           /\ \/ Matching /\ Loaded = files
              \/ Healable /\ Loaded.vectors = staged /\ Loaded.bm25 = Nothing
<1>1. Matching \/ (~Matching /\ Healable)
  BY DEF Loaded
<1>2. files \in Store
  BY <1>1 DEF StoreTypeOK, Matching, Healable, Absent
<1>3. CASE Matching
  BY <1>2, <1>3 DEF Loaded, Matching
<1>4. CASE ~Matching /\ Healable
  <2>1. Loaded = [files EXCEPT !.vectors = staged, !.edges = <<>>, !.bm25 = Nothing]
    BY <1>4 DEF Loaded
  <2>2. Fits(staged, Len(files.chunks), files.meta.by) /\ staged \in Vectors
    BY <1>4 DEF Healable, Fits, StoreTypeOK, Maybe
  <2>3. /\ Loaded.vectors = staged /\ Loaded.edges = <<>> /\ Loaded.bm25 = Nothing
        /\ Loaded.chunks = files.chunks /\ Loaded.meta = files.meta
        /\ Loaded.manifest = files.manifest
    BY <1>2, <2>1 DEF Store
  <2> DEFINE E == Seq(Key)
  <2>6. <<>> \in E /\ Nothing \in Maybe(E)
    BY DEF Maybe
  <2> HIDE DEF E
  <2>7. files \in [chunks : Seq(Chunk), vectors : Vectors, edges : E,
                   manifest : Manifest, bm25 : Maybe(E), meta : Meta]
    BY <1>2 DEF Store, E
  <2>8. Loaded \in [chunks : Seq(Chunk), vectors : Vectors, edges : E,
                    manifest : Manifest, bm25 : Maybe(E), meta : Meta]
    BY <2>1, <2>2, <2>6, <2>7
  <2>4. Loaded \in Store
    BY <2>8 DEF Store, E
  <2>5. QED
    BY <1>2, <1>4, <2>2, <2>3, <2>4
<1>5. QED
  BY <1>1, <1>3, <1>4

\* Healing on disk puts the staged vectors in place, and changes nothing else.
LEMMA Healed ==
    ASSUME StoreTypeOK, HealOnDisk
    PROVE  /\ files' \in Partial /\ staged' \in Maybe(Vectors)
           /\ files'.chunks = files.chunks /\ files'.meta = files.meta
           /\ files'.edges = files.edges /\ files'.bm25 = files.bm25
           /\ files'.manifest = files.manifest
           /\ files.meta # Nothing => files' \in Store
           /\ ~Healable => files'.vectors = files.vectors /\ staged' = staged
           /\ Healable => files'.vectors = staged /\ staged' = Nothing
<1>1. CASE ~Healable
  BY <1>1 DEF HealOnDisk, StoreTypeOK
<1>2. CASE Healable
  <2>1. staged \in Vectors
    BY <1>2 DEF Healable, Fits, StoreTypeOK, Maybe
  <2>2. files \in Store
    BY <1>2 DEF Healable, Absent, StoreTypeOK
  <2>3. files' = [files EXCEPT !.vectors = staged] /\ staged' = Nothing
    BY <1>2 DEF HealOnDisk
  <2>4. /\ files'.vectors = staged
        /\ files'.chunks = files.chunks /\ files'.meta = files.meta
        /\ files'.edges = files.edges /\ files'.bm25 = files.bm25
        /\ files'.manifest = files.manifest
    BY <2>2, <2>3 DEF Store
  <2>5. files' \in Store
    BY <2>1, <2>2, <2>3 DEF Store
  <2>6. files' \in Partial
    BY <2>1, <2>2, <2>3 DEF Store, Partial, Maybe
  <2>7. QED
    BY <1>2, <2>3, <2>4, <2>5, <2>6 DEF Maybe
<1>3. QED
  BY <1>1, <1>2

-------------------------------------------------------------------------------
(***************************************************************************)
(* What is kept and what is made                                           *)
(***************************************************************************)
Loadable(s) == s \in Store /\ Fits(s.vectors, Len(s.chunks), s.meta.by)

LEMMA RowOfType ==
    ASSUME NEW s \in Store, Loadable(s), NEW i \in DOMAIN s.chunks
    PROVE  RowOf(s, i) \in Maybe(Vector)
<1>1. CASE Dim[s.vectors.by] = Dim[s.meta.by]
  <2>1. s.vectors \in Vectors /\ Len(s.chunks) \in Nat /\ s.meta.by \in Models
    BY DEF Store, Meta
  <2>2. Len(s.vectors.rows) = Len(s.chunks)
    BY <1>1, <2>1, FitsAsMany DEF Loadable
  <2>3. s.vectors.rows \in Seq(Maybe(Vector)) /\ i \in 1..Len(s.chunks)
    BY <2>1 DEF Vectors, Store
  <2>4. QED
    BY <1>1, <2>2, <2>3 DEF RowOf
<1>2. CASE Dim[s.vectors.by] # Dim[s.meta.by]
  BY <1>2 DEF RowOf, Maybe
<1>3. QED
  BY <1>1, <1>2

\* Every file whose content the manifest has and that has a chunk is kept, with
\* one of its chunks and the row of that chunk.
LEMMA KeptChunks ==
    ASSUME StoreTypeOK, NEW s \in Store, Loadable(s)
    PROVE  /\ Kept(s) \in Seq([chunk : Chunk, row : Maybe(Vector)])
           /\ \A n \in DOMAIN Kept(s) :
                 LET f == Kept(s)[n].chunk.file
                 IN /\ f \in Files /\ tree[f] # 0 /\ Unchanged(s, f)
                    /\ \E i \in ChunksOf(s, f) :
                          Kept(s)[n].chunk = s.chunks[i] /\ Kept(s)[n].row = RowOf(s, i)
           /\ \A f \in Files : (tree[f] # 0 /\ Unchanged(s, f) /\ ChunksOf(s, f) # {})
                 => \E n \in DOMAIN Kept(s) : Kept(s)[n].chunk.file = f
           /\ \A n, k \in DOMAIN Kept(s) : Kept(s)[n].chunk.file = Kept(s)[k].chunk.file => n = k
<1> DEFINE R == Reused(s)
           Good == {f \in Files : tree[f] # 0 /\ Unchanged(s, f) /\ ChunksOf(s, f) # {}}
           Pick(f) == CHOOSE i \in ChunksOf(s, f) : TRUE
<1>1. /\ R \in Seq(Files)
      /\ \A i, j \in DOMAIN R : R[i] = R[j] => i = j
      /\ \A i \in DOMAIN R : R[i] \in Good
      /\ \A f \in Good : \E i \in DOMAIN R : R[i] = f
  BY Enumerated DEF Reused
<1>2. Kept(s) = [n \in DOMAIN R |-> [chunk |-> s.chunks[Pick(R[n])], row |-> RowOf(s, Pick(R[n]))]]
  BY DEF Kept
<1>3. \A f \in Good : /\ Pick(f) \in ChunksOf(s, f)
                       /\ s.chunks[Pick(f)] \in Chunk /\ s.chunks[Pick(f)].file = f
                       /\ RowOf(s, Pick(f)) \in Maybe(Vector)
  <2>1. TAKE f \in Good
  <2>2. Pick(f) \in ChunksOf(s, f)
    OBVIOUS
  <2>3. Pick(f) \in DOMAIN s.chunks /\ s.chunks[Pick(f)].file = f
    BY <2>2 DEF ChunksOf
  <2>4. s.chunks[Pick(f)] \in Chunk
    BY <2>3 DEF Store
  <2>5. QED
    BY <2>2, <2>3, <2>4, RowOfType
<1> HIDE DEF R, Good, Pick
<1>4. \A n \in DOMAIN R : R[n] \in Good /\ Kept(s)[n].chunk = s.chunks[Pick(R[n])]
                           /\ Kept(s)[n].row = RowOf(s, Pick(R[n])) /\ Kept(s)[n].chunk.file = R[n]
                           /\ Kept(s)[n] \in [chunk : Chunk, row : Maybe(Vector)]
  BY <1>1, <1>2, <1>3
<1>5. DOMAIN Kept(s) = DOMAIN R /\ DOMAIN R = 1..Len(R) /\ Len(R) \in Nat
  BY <1>1, <1>2
<1>6. Kept(s) \in Seq([chunk : Chunk, row : Maybe(Vector)])
  BY <1>2, <1>4, <1>5
<1>7. \A n \in DOMAIN Kept(s) :
         LET f == Kept(s)[n].chunk.file
         IN /\ f \in Files /\ tree[f] # 0 /\ Unchanged(s, f)
            /\ \E i \in ChunksOf(s, f) :
                  Kept(s)[n].chunk = s.chunks[i] /\ Kept(s)[n].row = RowOf(s, i)
  BY <1>3, <1>4, <1>5 DEF Good
<1>8. \A f \in Files : (tree[f] # 0 /\ Unchanged(s, f) /\ ChunksOf(s, f) # {})
         => \E n \in DOMAIN Kept(s) : Kept(s)[n].chunk.file = f
  BY <1>1, <1>4, <1>5 DEF Good
<1>9. \A n, k \in DOMAIN Kept(s) : Kept(s)[n].chunk.file = Kept(s)[k].chunk.file => n = k
  BY <1>1, <1>4, <1>5
<1>10. QED
  BY <1>6, <1>7, <1>8, <1>9
LEMMA EpochTypes ==
    ASSUME NEW prev \in Maybe(Store), NEW k
    PROVE  /\ PreviousEpoch(prev) \in Nat
           /\ ChunkEpoch(prev, k) \in Nat
           /\ SameContent(prev, k) = {} => ChunkEpoch(prev, k) = PreviousEpoch(prev) + 1
           /\ SameContent(prev, k) # {} =>
                 /\ prev \in Store
                 /\ \E j \in DOMAIN prev.chunks :
                       ChunkKey(prev.chunks[j]) = k /\ ChunkEpoch(prev, k) = prev.chunks[j].epoch
<1>1. PreviousEpoch(prev) \in Nat
  BY DEF PreviousEpoch, Maybe, Store, Meta
<1>2. CASE SameContent(prev, k) = {}
  BY <1>1, <1>2 DEF ChunkEpoch
<1>3. CASE SameContent(prev, k) # {}
  <2> DEFINE j == CHOOSE i \in SameContent(prev, k) : TRUE
  <2>1. prev # Nothing /\ prev \in Store
    BY <1>3 DEF SameContent, Maybe
  <2>2. j \in SameContent(prev, k)
    BY <1>3
  <2>3. ChunkEpoch(prev, k) = prev.chunks[j].epoch
    BY <1>3 DEF ChunkEpoch
  <2> HIDE DEF j
  <2>4. j \in DOMAIN prev.chunks /\ ChunkKey(prev.chunks[j]) = k
    BY <2>1, <2>2 DEF SameContent
  <2>5. prev.chunks[j] \in Chunk
    BY <2>1, <2>4 DEF Store
  <2>6. prev.chunks[j].epoch \in Nat
    BY <2>5 DEF Chunk
  <2>7. QED
    BY <1>1, <1>3, <2>1, <2>3, <2>4, <2>6
<1>4. QED
  BY <1>2, <1>3

LEMMA StoreEpochGrows ==
    ASSUME NEW prev \in Maybe(Store), NEW ks
    PROVE  StoreEpoch(prev, ks) \in Nat /\ PreviousEpoch(prev) <= StoreEpoch(prev, ks)
<1>1. PreviousEpoch(prev) \in Nat
  BY EpochTypes
<1>2. StoreEpoch(prev, ks) \in {PreviousEpoch(prev), PreviousEpoch(prev) + 1}
  BY DEF StoreEpoch
<1>3. QED
  BY <1>1, <1>2

\* A document that survives keeps what its old slot holds.
LEMMA LexicalType ==
    ASSUME NEW old \in Maybe(Store), NEW ks \in Seq(Key)
    PROVE  /\ LexicalIndex(old, ks) \in Seq(Key)
           /\ old = Nothing => LexicalIndex(old, ks) = ks
           /\ (old # Nothing /\ old.bm25 \in {Nothing, ChunkKeys(old.chunks)}) => LexicalIndex(old, ks) = ks
<1> DEFINE slot(k) == {i \in DOMAIN old.chunks : ChunkKey(old.chunks[i]) = k}
           gone == {i \in DOMAIN old.chunks : ChunkKey(old.chunks[i]) \notin ToSet(ks)}
           anew == \/ old = Nothing
                   \/ old.bm25 = Nothing
                   \/ Len(old.bm25) # Len(old.chunks)
                   \/ \E i \in gone : old.bm25[i] # ChunkKey(old.chunks[i])
           moved == [n \in DOMAIN ks |->
                        IF slot(ks[n]) = {} THEN ks[n]
                        ELSE old.bm25[CHOOSE i \in slot(ks[n]) : TRUE]]
<1>1. LexicalIndex(old, ks) = IF anew THEN ks ELSE moved
  BY DEF LexicalIndex
<1>2. CASE anew
  <2>1. LexicalIndex(old, ks) = ks
    BY <1>1, <1>2
  <2>2. QED
    BY <2>1
<1>3. CASE ~anew
  <2>1. old \in Store /\ old.bm25 \in Seq(Key) /\ Len(old.bm25) = Len(old.chunks)
    BY <1>3 DEF Maybe, Store
  <2>2. DOMAIN old.bm25 = DOMAIN old.chunks
    BY <2>1 DEF Store
  <2>3. ASSUME NEW n \in DOMAIN ks, slot(ks[n]) # {}
        PROVE  /\ (CHOOSE i \in slot(ks[n]) : TRUE) \in DOMAIN old.chunks
               /\ ChunkKey(old.chunks[CHOOSE i \in slot(ks[n]) : TRUE]) = ks[n]
    BY <2>3
  <2>4. ASSUME NEW n \in DOMAIN ks PROVE moved[n] \in Key
    <3>1. CASE slot(ks[n]) = {}
      BY <3>1
    <3>2. CASE slot(ks[n]) # {}
      <4>1. PICK i \in DOMAIN old.chunks : moved[n] = old.bm25[i]
        BY <2>3, <3>2
      <4>2. old.bm25[i] \in Key
        BY <2>1, <2>2
      <4>3. QED
        BY <4>1, <4>2
    <3>3. QED
      BY <3>1, <3>2
  <2>5. moved \in Seq(Key)
    <3>1. DOMAIN ks = 1..Len(ks) /\ Len(ks) \in Nat
      OBVIOUS
    <3>2. QED
      BY <3>1, <2>4
  <2>6. ASSUME old.bm25 = ChunkKeys(old.chunks) PROVE moved = ks
    <3>1. \A i \in DOMAIN old.chunks : old.bm25[i] = ChunkKey(old.chunks[i])
      BY <2>1, <2>6, ChunkKeysType DEF Store
    <3>2. \A n \in DOMAIN ks : moved[n] = ks[n]
      BY <2>3, <3>1
    <3>3. moved \in Seq(Key) /\ Len(moved) = Len(ks)
      BY <2>5
    <3> HIDE DEF moved
    <3>4. QED
      BY <3>2, <3>3, SeqEqual
  <2>7. old # Nothing /\ old.bm25 # Nothing
    BY <1>3
  <2>8. LexicalIndex(old, ks) = moved
    BY <1>1, <1>3
  <2> HIDE DEF moved, anew
  <2>9. QED
    BY <2>5, <2>6, <2>7, <2>8
<1>4. QED
  BY <1>2, <1>3
\* The symbols of the store to be saved: those kept, then those embedded.
NextKey(n) ==
    IF n <= Len(job.kept) THEN ChunkKey(job.kept[n].chunk) ELSE job.keys[n - Len(job.kept)]
NextRow(n) ==
    IF n <= Len(job.kept) THEN job.kept[n].row ELSE job.rows[n - Len(job.kept)]

LEMMA MadeStore ==
    ASSUME job \in Job, Len(job.rows) = Len(job.keys),
           NEW prev \in Maybe(Store), NEW old \in Maybe(Store)
    PROVE  LET s == NextStore(prev, old)
               ks == ChunkKeys(s.chunks)
           IN /\ s \in Store
              /\ Len(s.chunks) = Len(job.kept) + Len(job.keys)
              /\ Len(s.vectors.rows) = Len(s.chunks)
              /\ s.vectors.by = job.by /\ s.meta.by = job.by
              /\ \A n \in DOMAIN s.chunks :
                    /\ ChunkKey(s.chunks[n]) = NextKey(n)
                    /\ s.vectors.rows[n] = NextRow(n)
                    /\ s.chunks[n].epoch = ChunkEpoch(prev, NextKey(n))
              /\ s.edges = ks /\ s.manifest = job.seen /\ s.bm25 = LexicalIndex(old, ks)
              /\ s.meta.epoch = StoreEpoch(prev, ks)
<1> DEFINE K == Len(job.kept)
           kept == [n \in DOMAIN job.kept |-> ChunkKey(job.kept[n].chunk)]
           keptRows == [n \in DOMAIN job.kept |-> job.kept[n].row]
           ks == kept \o job.keys
           rows == keptRows \o job.rows
           cs == [n \in DOMAIN ks |->
                    [file |-> ks[n].file, ver |-> ks[n].ver, epoch |-> ChunkEpoch(prev, ks[n])]]
           s == NextStore(prev, old)
<1>1. /\ K \in Nat /\ DOMAIN job.kept = 1..K
      /\ \A n \in 1..K : job.kept[n] \in [chunk : Chunk, row : Maybe(Vector)]
  <2> DEFINE E == [chunk : Chunk, row : Maybe(Vector)]
  <2>1. job.kept \in Seq(E)
    BY DEF Job
  <2> HIDE DEF E
  <2>2. K \in Nat /\ DOMAIN job.kept = 1..K /\ \A n \in 1..K : job.kept[n] \in E
    BY <2>1, LenProperties, ElementOfSeq
  <2>3. QED
    BY <2>2 DEF E
<1>2. \A n \in 1..K : ChunkKey(job.kept[n].chunk) \in Key /\ job.kept[n].row \in Maybe(Vector)
  BY <1>1, ChunkKeyType
<1>3. kept \in Seq(Key) /\ Len(kept) = K /\ keptRows \in Seq(Maybe(Vector)) /\ Len(keptRows) = K
  BY <1>1, <1>2
<1>4. job.keys \in Seq(Key) /\ job.rows \in Seq(Maybe(Vector)) /\ job.by \in Models /\ job.seen \in Manifest
  <2>1. job.rows \in Seq(Vector) /\ Vector \subseteq Maybe(Vector)
    BY DEF Job, Maybe
  <2>2. QED
    BY <2>1, SeqMonotonic DEF Job
<1>5. /\ ks \in Seq(Key) /\ Len(ks) = K + Len(job.keys)
      /\ \A n \in 1..Len(ks) : ks[n] = IF n <= K THEN kept[n] ELSE job.keys[n - K]
  <2> HIDE DEF kept, K
  <2>1. /\ ks \in Seq(Key) /\ Len(ks) = Len(kept) + Len(job.keys)
        /\ \A n \in 1..Len(kept) + Len(job.keys) :
              ks[n] = IF n <= Len(kept) THEN kept[n] ELSE job.keys[n - Len(kept)]
    BY <1>3, <1>4, ConcatProperties
  <2>2. QED
    BY <1>3, <2>1
<1>6. /\ rows \in Seq(Maybe(Vector)) /\ Len(rows) = K + Len(job.keys)
      /\ \A n \in 1..Len(rows) : rows[n] = IF n <= K THEN keptRows[n] ELSE job.rows[n - K]
  <2> HIDE DEF keptRows, K
  <2>1. /\ rows \in Seq(Maybe(Vector)) /\ Len(rows) = Len(keptRows) + Len(job.rows)
        /\ \A n \in 1..Len(keptRows) + Len(job.rows) :
              rows[n] = IF n <= Len(keptRows) THEN keptRows[n] ELSE job.rows[n - Len(keptRows)]
    BY <1>3, <1>4, ConcatProperties
  <2>2. QED
    BY <1>3, <2>1
<1>7. \A n \in 1..Len(ks) : ks[n] = NextKey(n) /\ rows[n] = NextRow(n)
  <2>1. TAKE n \in 1..Len(ks)
  <2>2. n \in Nat /\ n >= 1 /\ n <= Len(rows)
    BY <1>5, <1>6, LenProperties
  <2>3. CASE n <= K
    <3>1. n \in DOMAIN job.kept
      BY <1>1, <2>2, <2>3
    <3>2. ks[n] = kept[n] /\ rows[n] = keptRows[n]
      <4> HIDE DEF ks, rows, kept, keptRows, K
      <4>1. QED
        BY <1>5, <1>6, <2>2, <2>3
    <3>3. QED
      BY <2>3, <3>1, <3>2 DEF NextKey, NextRow
  <2>4. CASE ~(n <= K)
    <3>1. ks[n] = job.keys[n - K] /\ rows[n] = job.rows[n - K]
      <4> HIDE DEF ks, rows, kept, keptRows, K
      <4>1. QED
        BY <1>5, <1>6, <2>2, <2>4
    <3>2. QED
      BY <2>4, <3>1 DEF NextKey, NextRow
  <2>5. QED
    BY <2>3, <2>4
<1>8. s = [chunks |-> cs, vectors |-> [by |-> job.by, rows |-> rows], edges |-> ks,
           manifest |-> job.seen, bm25 |-> LexicalIndex(old, ks),
           meta |-> [by |-> job.by, epoch |-> StoreEpoch(prev, ks)]]
  BY DEF NextStore
<1> HIDE DEF ks, rows, s, kept, keptRows, K
<1>18. DOMAIN ks = 1..Len(ks) /\ Len(ks) \in Nat /\ \A n \in 1..Len(ks) : ks[n] \in Key
  BY <1>5, LenProperties, ElementOfSeq
<1>9. \A n \in 1..Len(ks) : cs[n] \in Chunk /\ ChunkKey(cs[n]) = ks[n] /\ cs[n].epoch = ChunkEpoch(prev, ks[n])
  <2>1. TAKE n \in 1..Len(ks)
  <2>2. ks[n] \in Key /\ n \in DOMAIN ks
    BY <1>18
  <2>3. ChunkEpoch(prev, ks[n]) \in Nat
    BY EpochTypes
  <2>4. cs[n] = [file |-> ks[n].file, ver |-> ks[n].ver, epoch |-> ChunkEpoch(prev, ks[n])]
    BY <2>2
  <2>5. QED
    BY <2>2, <2>3, <2>4 DEF Key, Chunk, ChunkKey
<1>10. cs \in Seq(Chunk) /\ Len(cs) = Len(ks) /\ DOMAIN cs = 1..Len(ks)
  BY <1>9, <1>18
<1> HIDE DEF cs
<1>11. ChunkKeys(cs) = ks
  <2>1. \A n \in 1..Len(ks) : ChunkKeys(cs)[n] = ks[n]
    BY <1>9, <1>10, ChunkKeysType
  <2>2. ChunkKeys(cs) \in Seq(Key) /\ Len(ChunkKeys(cs)) = Len(ks)
    BY <1>10, ChunkKeysType
  <2>3. QED
    BY <1>5, <2>1, <2>2, SeqEqual
<1>12. LexicalIndex(old, ks) \in Seq(Key) /\ StoreEpoch(prev, ks) \in Nat
  BY <1>5, LexicalType, StoreEpochGrows
<1>13. /\ s.chunks = cs /\ s.vectors = [by |-> job.by, rows |-> rows] /\ s.edges = ks
       /\ s.manifest = job.seen /\ s.bm25 = LexicalIndex(old, ks)
       /\ s.meta = [by |-> job.by, epoch |-> StoreEpoch(prev, ks)]
  BY <1>8
<1>14. [by |-> job.by, rows |-> rows] \in Vectors /\ [by |-> job.by, epoch |-> StoreEpoch(prev, ks)] \in Meta
  BY <1>4, <1>6, <1>12 DEF Vectors, Meta
<1>15. s \in Store
  BY <1>4, <1>5, <1>8, <1>10, <1>12, <1>14 DEF Store, Maybe
<1>16. \A n \in DOMAIN s.chunks :
          /\ ChunkKey(s.chunks[n]) = NextKey(n)
          /\ s.vectors.rows[n] = NextRow(n)
          /\ s.chunks[n].epoch = ChunkEpoch(prev, NextKey(n))
  BY <1>7, <1>9, <1>10, <1>13
<1>17. /\ Len(s.chunks) = Len(job.kept) + Len(job.keys) /\ Len(s.vectors.rows) = Len(s.chunks)
       /\ s.vectors.by = job.by /\ s.meta.by = job.by /\ s.meta.epoch = StoreEpoch(prev, ks)
  <2>1. /\ s.vectors.rows = rows /\ s.vectors.by = job.by /\ s.meta.by = job.by
        /\ s.meta.epoch = StoreEpoch(prev, ks) /\ s.chunks = cs
    BY <1>13
  <2>2. Len(s.chunks) = K + Len(job.keys) /\ Len(s.vectors.rows) = K + Len(job.keys)
    BY <2>1, <1>5, <1>6, <1>10
  <2>3. QED
    BY <2>1, <2>2 DEF K
<1>19. QED
  BY <1>11, <1>13, <1>15, <1>16, <1>17 DEF s
-------------------------------------------------------------------------------
(***************************************************************************)
(* What each step does, given that the variables have their types          *)
(***************************************************************************)
\* Types, the journal, and where a job is.
Base ==
    /\ StoreTypeOK
    /\ JournalExact
    /\ Appending
    /\ RowsDone
    /\ FirstStep
    /\ Renamed

LEMMA JobFields ==
    ASSUME job \in Job
    PROVE  /\ job.keys \in Seq(Key) /\ job.rows \in Seq(Vector) /\ job.by \in Models
           /\ job.kept \in Seq([chunk : Chunk, row : Maybe(Vector)])
           /\ job.old \in Maybe(Store) /\ job.next \in Maybe(Store)
           /\ job.seen \in Manifest /\ job.anew \in BOOLEAN /\ job.step \in 1..7
           /\ Len(job.keys) \in Nat /\ Len(job.rows) \in Nat
  BY DEF Job

\* The embedding stage opens with the rows its journal holds, if the journal is exact.
LEMMA Opened ==
    ASSUME StoreTypeOK, NEW ks \in Seq(Key), NEW onDisk \in Maybe(Journal),
           NEW keep \in [kept : Seq([chunk : Chunk, row : Maybe(Vector)]), old : Maybe(Store)],
           onDisk \in {journal, Nothing}, JournalExact,
           Open(ks, keep, onDisk)
    PROVE  /\ job' \in Job /\ journal' \in Maybe(Journal)
           /\ pc' \in {"graph", "open", "embed"}
           /\ job'.keys = ks /\ job'.kept = keep.kept /\ job'.old = keep.old
           /\ job'.seen = tree /\ job'.by = model /\ job'.next = Nothing /\ job'.anew = FALSE
           /\ job'.step = 1
           /\ pc' = "embed" => journal' # Nothing
           /\ JournalExact' /\ Appending' /\ RowsDone'
<1> DEFINE resumed == LoadProgress(onDisk, ks, model)
           done == IF resumed = Nothing THEN <<>> ELSE resumed.rows
<1>1. /\ journal' = IF ks = <<>> THEN onDisk ELSE resumed
      /\ job' = [keys |-> ks, kept |-> keep.kept, old |-> keep.old, rows |-> done,
                 seen |-> tree, by |-> model, next |-> Nothing, anew |-> FALSE, step |-> 1]
      /\ pc' = IF Len(done) = Len(ks) THEN "graph"
               ELSE IF resumed = Nothing THEN "open" ELSE "embed"
  BY DEF Open
<1>2. model \in Models /\ tree \in Manifest /\ Len(ks) \in Nat
  BY DEF StoreTypeOK, Trees
<1> DEFINE n == Verified(onDisk, ks)
<1>3. resumed # Nothing =>
         /\ onDisk \in Journal /\ onDisk.fp = Fingerprint(ks, model)
         /\ resumed \in Journal /\ resumed.fp = onDisk.fp /\ resumed.tail \in {"whole", "char"}
         /\ n \in Nat /\ n <= Len(ks) /\ n <= Len(onDisk.rows) /\ n <= Len(Records(onDisk))
         /\ Len(resumed.rows) = n /\ Len(Records(resumed)) = n
         /\ ~Unreadable(resumed) => Len(resumed.recs) = n
         /\ \A i \in 1..n : /\ resumed.rows[i] = onDisk.rows[i]
                            /\ Records(resumed)[i] = Records(onDisk)[i] /\ Records(resumed)[i] = ks[i]
  BY <1>2, NotResumed, Resumed
<1> HIDE DEF resumed, n
<1>4. ASSUME resumed # Nothing
      PROVE  \A i \in 1..n : resumed.rows[i] = Row(ks[i], model) /\ Records(resumed)[i] = ks[i]
  <2>1. onDisk = journal /\ journal # Nothing
    BY <1>3, <1>4, StoreAssumption
  <2>2. TAKE i \in 1..n
  <2>3. onDisk.rows \in Seq(Maybe(Vector)) /\ Records(onDisk) \in Seq(Maybe(Key))
    BY <1>3, <1>4, RecordsType DEF Journal
  <2>4. i \in DOMAIN onDisk.rows \cap DOMAIN Records(onDisk)
    BY <1>3, <1>4, <2>3
  <2>5. onDisk.rows[i] = Row(Records(onDisk)[i], onDisk.fp.by)
    BY <2>1, <2>4 DEF JournalExact
  <2>6. onDisk.fp.by = model
    BY <1>3, <1>4 DEF Fingerprint
  <2>7. QED
    BY <1>3, <1>4, <2>5, <2>6
<1>5. /\ done \in Seq(Vector) /\ Len(done) <= Len(ks)
      /\ \A i \in DOMAIN done : done[i] = Row(ks[i], model)
      /\ resumed # Nothing => done = resumed.rows /\ Len(done) = n
      /\ resumed = Nothing => done = <<>>
  <2>1. CASE resumed = Nothing
    BY <1>2, <2>1
  <2>2. CASE resumed # Nothing
    <3>1. resumed.rows \in Seq(Maybe(Vector)) /\ Len(resumed.rows) = n
      BY <1>3, <2>2 DEF Journal
    <3>2. DOMAIN resumed.rows = 1..n /\ n \in Nat /\ n <= Len(ks)
      BY <1>3, <2>2, <3>1, LenProperties
    <3>3. \A i \in 1..n : resumed.rows[i] \in Vector
      <4>1. TAKE i \in 1..n
      <4>2. ks[i] \in Key
        BY <3>2
      <4>3. QED
        BY <1>2, <1>4, <2>2, <4>2, RowType
    <3>4. resumed.rows \in Seq(Vector)
      <4>1. resumed.rows \in [1..n -> Vector]
        BY <3>1, <3>2, <3>3, LenProperties
      <4>2. QED
        BY <3>2, <4>1
    <3>5. QED
      BY <1>4, <2>2, <3>1, <3>2, <3>4
  <2>3. QED
    BY <2>1, <2>2
<1> HIDE DEF done
<1>6. /\ job'.keys = ks /\ job'.kept = keep.kept /\ job'.old = keep.old /\ job'.rows = done
      /\ job'.seen = tree /\ job'.by = model /\ job'.next = Nothing /\ job'.anew = FALSE
      /\ job'.step = 1
  BY <1>1
<1>7. job' \in Job
  BY <1>1, <1>2, <1>5 DEF Job, Maybe
<1>8. journal' \in Maybe(Journal)
  BY <1>1, <1>3 DEF Maybe
<1>9. pc' = "embed" => resumed # Nothing /\ journal' = resumed /\ Len(done) # Len(ks)
  <2>1. ks = <<>> => Len(ks) = 0
    OBVIOUS
  <2>2. Len(done) \in Nat
    BY <1>5
  <2>3. QED
    BY <1>1, <1>2, <1>5, <2>1, <2>2
<1>10. pc' = "open" => journal' = Nothing /\ done = <<>> /\ Len(done) < Len(ks)
  <2>1. ks = <<>> => Len(ks) = 0
    OBVIOUS
  <2>2. Len(done) \in Nat
    BY <1>5
  <2>3. QED
    BY <1>1, <1>2, <1>5, <2>1, <2>2
<1>11. Appending'
  <2>1. CASE pc' = "embed"
    <3>1. /\ journal'.fp = Fingerprint(ks, model) /\ journal'.tail \in {"whole", "char"}
          /\ ~Unreadable(journal') => Len(journal'.recs) = Len(done)
          /\ Len(journal'.rows) = Len(done)
      BY <1>3, <1>5, <1>9, <2>1
    <3>2. Len(done) < Len(ks)
      BY <1>2, <1>5, <1>9, <2>1
    <3>3. QED
      BY <1>6, <2>1, <3>1, <3>2 DEF Appending
  <2>2. CASE pc' # "embed"
    BY <1>1, <1>6, <1>10, <2>2 DEF Appending
  <2>3. QED
    BY <2>1, <2>2
<1>12. RowsDone'
  BY <1>1, <1>5, <1>6 DEF RowsDone
<1>13. JournalExact'
  <2>1. CASE journal' = resumed /\ resumed # Nothing
    <3>1. DOMAIN Records(resumed) = 1..n
      BY <1>3, <2>1, RecordsType
    <3>2. resumed.fp.keys = ks /\ resumed.fp.by = model
      BY <1>3, <2>1 DEF Fingerprint
    <3>3. QED
      BY <1>4, <2>1, <3>1, <3>2 DEF JournalExact
  <2>2. CASE journal' = Nothing
    BY <2>2 DEF JournalExact
  <2>3. CASE journal' = journal
    BY <2>3 DEF JournalExact
  <2>4. QED
    BY <1>1, <2>1, <2>2, <2>3
<1>14. QED
  BY <1>1, <1>6, <1>7, <1>8, <1>9, <1>11, <1>12, <1>13
Starts == StartUpdate \/ StartForced \/ StartOverWiped

\* A job starts with nothing, or with the store it loaded and healed.
LEMMA Starting ==
    ASSUME StoreTypeOK, JournalExact, Starts
    PROVE  /\ pc = "idle" /\ pc' \in {"graph", "open", "embed"}
           /\ job' \in Job /\ journal' \in Maybe(Journal)
           /\ job'.seen = tree /\ job'.by = model /\ job'.next = Nothing /\ job'.anew = FALSE
           /\ job'.step = 1
           /\ \/ job'.old = Nothing /\ job'.kept = <<>> /\ job'.keys = Keys(Present(tree), tree)
              \/ /\ Loaded # Nothing /\ HealOnDisk
                 /\ job'.old = Loaded /\ job'.kept = Kept(Loaded)
                 /\ job'.keys = Keys(Changed(Loaded), tree)
           /\ HealOnDisk \/ UNCHANGED disk \/ (files' = NoFiles /\ staged' = Nothing)
           /\ UNCHANGED <<environment, torn, rebased, bounds>> /\ wiped' \in BOOLEAN
           /\ pc' = "embed" => journal' # Nothing
           /\ JournalExact' /\ Appending' /\ RowsDone'
<1> DEFINE E == [kept : Seq([chunk : Chunk, row : Maybe(Vector)]), old : Maybe(Store)]
           none == [kept |-> <<>>, old |-> Nothing]
<1>1. tree \in Manifest /\ journal \in Maybe(Journal)
  BY DEF StoreTypeOK, Trees
<1>2. none \in E
  <2> DEFINE S == [chunk : Chunk, row : Maybe(Vector)]
  <2>1. <<>> \in Seq(S)
    OBVIOUS
  <2> HIDE DEF S
  <2>2. none \in [kept : Seq(S), old : Maybe(Store)]
    BY <2>1 DEF Maybe
  <2>3. QED
    BY <2>2 DEF S
<1>3. Keys(Present(tree), tree) \in Seq(Key)
  BY <1>1, PresentType
<1> HIDE DEF none, E
<1>4. ASSUME NEW onDisk \in {journal, Nothing}, BuildAll(onDisk)
      PROVE  /\ pc' \in {"graph", "open", "embed"}
             /\ job' \in Job /\ journal' \in Maybe(Journal)
             /\ job'.seen = tree /\ job'.by = model /\ job'.next = Nothing /\ job'.anew = FALSE
             /\ job'.step = 1
             /\ job'.old = Nothing /\ job'.kept = <<>> /\ job'.keys = Keys(Present(tree), tree)
             /\ pc' = "embed" => journal' # Nothing
             /\ JournalExact' /\ Appending' /\ RowsDone'
  <2>1. Open(Keys(Present(tree), tree), none, onDisk)
    BY <1>4 DEF BuildAll, none
  <2>2. onDisk \in Maybe(Journal)
    BY <1>1 DEF Maybe
  <2>3. none.kept = <<>> /\ none.old = Nothing
    BY DEF none
  <2>4. QED
    BY <1>2, <1>3, <2>1, <2>2, <2>3, Opened DEF E
<1>5. ASSUME Loaded # Nothing, BuildChanged(Loaded)
      PROVE  /\ pc' \in {"graph", "open", "embed"}
             /\ job' \in Job /\ journal' \in Maybe(Journal)
             /\ job'.seen = tree /\ job'.by = model /\ job'.next = Nothing /\ job'.anew = FALSE
             /\ job'.step = 1
             /\ job'.old = Loaded /\ job'.kept = Kept(Loaded) /\ job'.keys = Keys(Changed(Loaded), tree)
             /\ pc' = "embed" => journal' # Nothing
             /\ JournalExact' /\ Appending' /\ RowsDone'
  <2> DEFINE keep == [kept |-> Kept(Loaded), old |-> Loaded]
  <2>1. Open(Keys(Changed(Loaded), tree), keep, journal)
    BY <1>5 DEF BuildChanged
  <2>2. Loaded \in Store /\ Loadable(Loaded)
    BY <1>5, LoadedStore DEF Loadable
  <2>3. keep \in E
    <3>1. Kept(Loaded) \in Seq([chunk : Chunk, row : Maybe(Vector)])
      BY <2>2, KeptChunks
    <3>2. QED
      BY <2>2, <3>1 DEF E, Maybe
  <2>4. keep.kept = Kept(Loaded) /\ keep.old = Loaded
    OBVIOUS
  <2>5. Keys(Changed(Loaded), tree) \in Seq(Key)
    BY <1>1, ChangedType
  <2> HIDE DEF keep
  <2>6. QED
    BY <1>1, <2>1, <2>3, <2>4, <2>5, Opened DEF E
<1>6. CASE StartUpdate
  <2>1. CASE Loaded = Nothing
    BY <1>4, <1>6, <2>1 DEF StartUpdate
  <2>2. CASE Loaded # Nothing
    BY <1>5, <1>6, <2>2 DEF StartUpdate
  <2>3. QED
    BY <2>1, <2>2
<1>7. CASE StartForced
  BY <1>4, <1>7 DEF StartForced
<1>8. CASE StartOverWiped
  BY <1>4, <1>8 DEF StartOverWiped
<1>9. QED
  BY <1>6, <1>7, <1>8 DEF Starts

\* One rename, or the end of the save.
LEMMA Committing ==
    ASSUME StoreTypeOK, Renamed, Commit
    PROVE  /\ pc = "commit" /\ job \in Job /\ job.next \in Store
           /\ UNCHANGED <<journal, environment, bounds, wiped>>
           /\ \/ job.step = 2 /\ staged = Nothing /\ UNCHANGED disk /\ Die
              \/ /\ ~(job.step = 2 /\ staged = Nothing)
                 /\ files'.chunks = IF job.step = 1 THEN job.next.chunks ELSE files.chunks
                 /\ files'.vectors = IF job.step = 2 THEN job.next.vectors ELSE files.vectors
                 /\ files'.edges = IF job.step = 3 THEN job.next.edges ELSE files.edges
                 /\ files'.manifest = IF job.step = 4 THEN job.next.manifest ELSE files.manifest
                 /\ files'.bm25 = IF job.step = 5 THEN job.next.bm25 ELSE files.bm25
                 /\ files'.meta = IF job.step = 6 THEN job.next.meta ELSE files.meta
                 /\ files' \in Partial
                 /\ staged' = IF job.step = 2 THEN Nothing ELSE staged
                 /\ job' \in Job /\ job'.step = job.step + 1
                 /\ job'.keys = job.keys /\ job'.kept = job.kept /\ job'.old = job.old
                 /\ job'.rows = job.rows /\ job'.seen = job.seen /\ job'.by = job.by
                 /\ job'.next = job.next /\ job'.anew = job.anew
                 /\ pc' = IF job.step = 6 THEN "clear" ELSE "commit"
                 /\ torn' = IF job.step = 6 /\ job.old = Nothing THEN "no" ELSE torn
                 /\ rebased' = (rebased \/ (job.anew /\ capture # Nothing))
<1>1. pc = "commit" /\ job \in Job /\ job.next \in Store /\ job.step \in 1..6
  BY DEF Commit, StoreTypeOK, Renamed, Job, Maybe
<1>2. Len(Names) = 6 /\ Names[1] = "chunks" /\ Names[2] = "vectors" /\ Names[3] = "edges"
      /\ Names[4] = "manifest" /\ Names[5] = "bm25" /\ Names[6] = "meta"
  BY DEF Names
<1>3. UNCHANGED <<journal, environment, bounds>>
  BY DEF Commit
<1> DEFINE name == Names[job.step]
<1>4. name = "vectors" <=> job.step = 2
  BY <1>1, <1>2
<1>5. CASE job.step = 2 /\ staged = Nothing
  BY <1>1, <1>3, <1>4, <1>5 DEF Commit, Die
<1>6. CASE ~(job.step = 2 /\ staged = Nothing)
  <2>1. /\ files' = [files EXCEPT ![name] = job.next[name]]
        /\ staged' = IF name = "vectors" THEN Nothing ELSE staged
        /\ job' = [job EXCEPT !.step = @ + 1]
        /\ pc' = IF job.step = Len(Names) THEN "clear" ELSE "commit"
        /\ torn' = IF pc' = "clear" /\ job.old = Nothing THEN "no" ELSE torn
        /\ rebased' = (rebased \/ (job.anew /\ capture # Nothing))
        /\ UNCHANGED wiped
    BY <1>4, <1>6 DEF Commit
  <2>2. files \in Partial
    BY DEF StoreTypeOK
  <2>10. /\ job.next.chunks \in Maybe(Seq(Chunk)) /\ job.next.vectors \in Maybe(Vectors)
         /\ job.next.edges \in Maybe(Seq(Key)) /\ job.next.manifest \in Maybe(Manifest)
         /\ job.next.bm25 \in Maybe(Seq(Key)) /\ job.next.meta \in Maybe(Meta)
    BY <1>1 DEF Store, Maybe
  <2>3. /\ files'.chunks = IF job.step = 1 THEN job.next.chunks ELSE files.chunks
        /\ files'.vectors = IF job.step = 2 THEN job.next.vectors ELSE files.vectors
        /\ files'.edges = IF job.step = 3 THEN job.next.edges ELSE files.edges
        /\ files'.manifest = IF job.step = 4 THEN job.next.manifest ELSE files.manifest
        /\ files'.bm25 = IF job.step = 5 THEN job.next.bm25 ELSE files.bm25
        /\ files'.meta = IF job.step = 6 THEN job.next.meta ELSE files.meta
        /\ files' \in Partial
    <3>1. CASE job.step = 1
      <4>1. files' = [files EXCEPT !.chunks = job.next.chunks]
        BY <1>2, <2>1, <3>1
      <4>2. files' \in Partial
        BY <2>2, <2>10, <4>1 DEF Partial
      <4>3. QED
        BY <2>2, <3>1, <4>1, <4>2 DEF Partial
    <3>2. CASE job.step = 2
      <4>1. files' = [files EXCEPT !.vectors = job.next.vectors]
        BY <1>2, <2>1, <3>2
      <4>2. files' \in Partial
        BY <2>2, <2>10, <4>1 DEF Partial
      <4>3. QED
        BY <2>2, <3>2, <4>1, <4>2 DEF Partial
    <3>3. CASE job.step = 3
      <4>1. files' = [files EXCEPT !.edges = job.next.edges]
        BY <1>2, <2>1, <3>3
      <4>2. files' \in Partial
        BY <2>2, <2>10, <4>1 DEF Partial
      <4>3. QED
        BY <2>2, <3>3, <4>1, <4>2 DEF Partial
    <3>4. CASE job.step = 4
      <4>1. files' = [files EXCEPT !.manifest = job.next.manifest]
        BY <1>2, <2>1, <3>4
      <4>2. files' \in Partial
        BY <2>2, <2>10, <4>1 DEF Partial
      <4>3. QED
        BY <2>2, <3>4, <4>1, <4>2 DEF Partial
    <3>5. CASE job.step = 5
      <4>1. files' = [files EXCEPT !.bm25 = job.next.bm25]
        BY <1>2, <2>1, <3>5
      <4>2. files' \in Partial
        BY <2>2, <2>10, <4>1 DEF Partial
      <4>3. QED
        BY <2>2, <3>5, <4>1, <4>2 DEF Partial
    <3>6. CASE job.step = 6
      <4>1. files' = [files EXCEPT !.meta = job.next.meta]
        BY <1>2, <2>1, <3>6
      <4>2. files' \in Partial
        BY <2>2, <2>10, <4>1 DEF Partial
      <4>3. QED
        BY <2>2, <3>6, <4>1, <4>2 DEF Partial
    <3>7. QED
      BY <1>1, <3>1, <3>2, <3>3, <3>4, <3>5, <3>6
  <2>4. job' \in Job /\ job'.step = job.step + 1
    BY <1>1, <2>1 DEF Job
  <2>5. /\ job'.keys = job.keys /\ job'.kept = job.kept /\ job'.old = job.old
        /\ job'.rows = job.rows /\ job'.seen = job.seen /\ job'.by = job.by
        /\ job'.next = job.next /\ job'.anew = job.anew
    BY <1>1, <2>1 DEF Job
  <2>6. pc' = IF job.step = 6 THEN "clear" ELSE "commit"
    BY <1>2, <2>1
  <2>7. torn' = IF job.step = 6 /\ job.old = Nothing THEN "no" ELSE torn
    BY <2>1, <2>6
  <2>8. staged' = IF job.step = 2 THEN Nothing ELSE staged
    BY <1>4, <2>1
  <2>9. QED
    BY <1>1, <1>3, <1>6, <2>1, <2>3, <2>4, <2>5, <2>6, <2>7, <2>8
<1>7. QED
  BY <1>5, <1>6
-------------------------------------------------------------------------------
(***************************************************************************)
(* The watcher decides when an update starts, and does nothing else to the *)
(* store, the engine and whoever reads.                                    *)
(***************************************************************************)
store == <<tree, model, files, staged, journal, pc, job, query, capture,
           torn, rebased, wiped, changes, stops, reads>>

EngineSteps ==
    \/ OpenJournal \/ AppendVector \/ AppendChunkRecord
    \/ BuildGraph \/ Stage \/ Commit \/ ClearJournal

LEMMA StoreSteps ==
    ASSUME [Next]_vars
    PROVE  \/ Starts \/ EngineSteps \/ Stop
           \/ Edit \/ SwitchModel \/ QueryOpen \/ QueryVectors \/ Capture
           \/ UNCHANGED store
<1>1. CASE Start \/ Engine \/ Interrupted \/ Save \/ Others
  BY <1>1 DEF Start, Starts, Engine, EngineSteps, Interrupted, Save, Others
<1>2. CASE RunUpdate
  BY <1>2 DEF RunUpdate, Starts, store, disk, environment, history, bounds
<1>3. CASE UNCHANGED vars
  BY <1>3 DEF vars, store
<1>4. QED
  BY <1>1, <1>2, <1>3 DEF Next
-------------------------------------------------------------------------------
(***************************************************************************)
(* Types, journal and job                                                  *)
(***************************************************************************)
LEMMA InitBase == Init => Base
<1> SUFFICES ASSUME Init PROVE Base
  OBVIOUS
<1>1. tree \in Trees
  <2>1. tree \in [Files -> 0..MaxVersion] /\ 1 \in Files /\ tree[1] = 1
    BY StoreAssumption DEF Init, Files
  <2>2. QED
    BY <2>1 DEF Trees, Manifest
<1>2. files \in Partial /\ files.meta = Nothing
  BY DEF Init, NoFiles, Partial, Maybe
<1>3. StoreTypeOK
  <2>1. {rebased, wiped} \subseteq BOOLEAN
    BY DEF Init
  <2>2. changes \in 0..MaxChanges /\ stops \in 0..MaxStops /\ reads \in 0..MaxReads
    BY StoreAssumption DEF Init
  <2>3. model \in Models /\ staged \in Maybe(Vectors) /\ journal \in Maybe(Journal)
        /\ query \in Maybe([count : Nat, by : Models]) /\ capture \in Maybe(Chunk)
    BY StoreAssumption DEF Init, Maybe
  <2>4. pc = "idle" /\ pc \in PCs /\ job = Nothing /\ torn = "no"
    BY DEF Init, PCs
  <2>5. QED
    BY <1>1, <1>2, <2>1, <2>2, <2>3, <2>4 DEF StoreTypeOK
<1>4. QED
  BY <1>3 DEF Base, Init, JournalExact, Appending, RowsDone, FirstStep, Renamed

\* A step that leaves the job, the journal and the disk alone.
LEMMA AsideBase ==
    ASSUME Base, UNCHANGED <<files, staged, journal, pc, job, torn, wiped>>,
           tree' \in Trees, model' \in Models,
           query' \in Maybe([count : Nat, by : Models]), capture' \in Maybe(Chunk),
           rebased' \in BOOLEAN, changes' \in 0..MaxChanges, stops' \in 0..MaxStops,
           reads' \in 0..MaxReads
    PROVE  Base'
<1>1. StoreTypeOK'
  BY DEF Base, StoreTypeOK
<1>2. JournalExact' /\ Appending' /\ RowsDone' /\ FirstStep' /\ Renamed'
  BY DEF Base, JournalExact, Appending, RowsDone, FirstStep, Renamed
<1>3. QED
  BY <1>1, <1>2 DEF Base

LEMMA EditBase == ASSUME Base, Edit PROVE Base'
<1>1. UNCHANGED <<model, files, staged, journal, pc, job, query, capture, torn, rebased, wiped, stops, reads>>
  BY DEF Edit, disk, history
<1>2. tree' \in Trees /\ changes' \in 0..MaxChanges
  BY StoreAssumption DEF Edit, Base, StoreTypeOK
<1>3. QED
  BY <1>1, <1>2, AsideBase DEF Base, StoreTypeOK

LEMMA SwitchModelBase == ASSUME Base, SwitchModel PROVE Base'
<1>1. UNCHANGED <<tree, files, staged, journal, pc, job, query, capture, torn, rebased, wiped, stops, reads>>
  BY DEF SwitchModel, disk, history
<1>2. model' \in Models /\ changes' \in 0..MaxChanges
  BY StoreAssumption DEF SwitchModel, Base, StoreTypeOK
<1>3. QED
  BY <1>1, <1>2, AsideBase DEF Base, StoreTypeOK

LEMMA QueryOpenBase == ASSUME Base, QueryOpen PROVE Base'
<1>1. UNCHANGED <<tree, model, files, staged, journal, pc, job, capture, torn, rebased, wiped, changes, stops>>
  BY DEF QueryOpen, disk, history
<1>2. files \in Store
  BY DEF QueryOpen, Absent, Base, StoreTypeOK
<1>3. query' \in [count : Nat, by : Models]
  <2>1. Len(files.chunks) \in Nat /\ files.meta.by \in Models
    BY <1>2 DEF Store, Meta
  <2>2. QED
    BY <2>1 DEF QueryOpen
<1>4. reads' \in 0..MaxReads
  BY StoreAssumption DEF QueryOpen, Base, StoreTypeOK
<1>5. QED
  BY <1>1, <1>3, <1>4, AsideBase DEF Base, StoreTypeOK, Maybe

LEMMA CaptureBase == ASSUME Base, Capture PROVE Base'
<1>1. UNCHANGED <<tree, model, files, staged, journal, pc, job, query, torn, wiped, changes, stops>>
  BY DEF Capture, disk
<1>2. files \in Store
  BY DEF Capture, Absent, Base, StoreTypeOK
<1>3. PICK i \in DOMAIN files.chunks : capture' = [files.chunks[i] EXCEPT !.epoch = files.meta.epoch]
  BY DEF Capture
<1>4. files.chunks[i] \in Chunk /\ files.meta.epoch \in Nat
  BY <1>2 DEF Store, Meta
<1>5. capture' \in Chunk
  BY <1>3, <1>4 DEF Chunk
<1>6. reads' \in 0..MaxReads /\ rebased' \in BOOLEAN
  BY StoreAssumption DEF Capture, Base, StoreTypeOK
<1>7. QED
  BY <1>1, <1>5, <1>6, AsideBase DEF Base, StoreTypeOK, Maybe

\* A loading query puts the staged vectors in place, or changes nothing.
LEMMA Promoting ==
    ASSUME StoreTypeOK, QueryVectors
    PROVE  /\ query \in [count : Nat, by : Models] /\ query' = Nothing
           /\ UNCHANGED <<tree, model, journal, pc, job, capture, history, bounds>>
           /\ files'.chunks = files.chunks /\ files'.meta = files.meta
           /\ files'.edges = files.edges /\ files'.bm25 = files.bm25
           /\ files'.manifest = files.manifest
           /\ files' \in Partial /\ staged' \in Maybe(Vectors)
           /\ files.meta # Nothing => files' \in Store
           /\ \/ UNCHANGED disk
              \/ /\ ~Fits(files.vectors, query.count, query.by)
                 /\ Fits(staged, query.count, query.by)
                 /\ files'.vectors = staged /\ staged' = Nothing
<1>1. /\ query \in [count : Nat, by : Models] /\ query' = Nothing
      /\ UNCHANGED <<tree, model, journal, pc, job, capture, history, bounds>>
  BY DEF QueryVectors, StoreTypeOK, Maybe
<1> DEFINE heals == ~Fits(files.vectors, query.count, query.by) /\ Fits(staged, query.count, query.by)
<1>2. CASE ~heals
  <2>1. UNCHANGED disk
    BY <1>2 DEF QueryVectors
  <2>2. QED
    BY <1>1, <2>1 DEF disk, StoreTypeOK
<1>3. CASE heals
  <2>1. files' = [files EXCEPT !.vectors = staged] /\ staged' = Nothing
    BY <1>3 DEF QueryVectors
  <2>2. staged \in Vectors /\ staged \in Maybe(Vectors)
    BY <1>3 DEF Fits, StoreTypeOK, Maybe
  <2>3. files \in Partial
    BY DEF StoreTypeOK
  <2>4. /\ files'.chunks = files.chunks /\ files'.meta = files.meta
        /\ files'.edges = files.edges /\ files'.bm25 = files.bm25
        /\ files'.manifest = files.manifest /\ files'.vectors = staged
        /\ files' \in Partial
    BY <2>1, <2>2, <2>3 DEF Partial
  <2>5. files.meta # Nothing => files' \in Store
    <3>1. SUFFICES ASSUME files.meta # Nothing PROVE files' \in Store
      OBVIOUS
    <3>2. files \in Store
      BY <3>1 DEF StoreTypeOK
    <3>3. QED
      BY <2>1, <2>2, <3>2 DEF Store
  <2>6. QED
    BY <1>1, <1>3, <2>1, <2>4, <2>5 DEF Maybe
<1>4. QED
  BY <1>2, <1>3

LEMMA QueryVectorsBase == ASSUME Base, QueryVectors PROVE Base'
<1>1. StoreTypeOK
  BY DEF Base
<1>2. StoreTypeOK'
  BY <1>1, Promoting DEF StoreTypeOK, Maybe, history, bounds
<1>3. JournalExact' /\ Appending' /\ RowsDone' /\ FirstStep'
  BY <1>1, Promoting DEF Base, JournalExact, Appending, RowsDone, FirstStep
<1>4. Renamed'
  <2>1. SUFFICES ASSUME pc' = "commit" PROVE Renamed'
    BY DEF Renamed
  <2>2. pc = "commit" /\ job' = job
    BY <1>1, <2>1, Promoting
  <2>3. CASE UNCHANGED disk
    BY <2>2, <2>3 DEF Base, Renamed, disk
  <2>4. CASE Fits(staged, query.count, query.by) /\ files'.vectors = staged /\ staged' = Nothing
    <3>1. staged # Nothing
      BY <2>4 DEF Fits
    <3>2. job.step \in 1..2
      BY <2>2, <3>1 DEF Base, Renamed
    <3>3. files'.chunks = files.chunks
      BY <1>1, Promoting
    <3>4. QED
      BY <2>2, <2>4, <3>2, <3>3 DEF Base, Renamed
  <2>5. QED
    BY <1>1, <2>3, <2>4, Promoting
<1>5. QED
  BY <1>2, <1>3, <1>4 DEF Base
LEMMA StartsBase == ASSUME Base, Starts PROVE Base'
<1>1. StoreTypeOK /\ JournalExact
  BY DEF Base
<1>2. /\ pc' \in {"graph", "open", "embed"}
      /\ job' \in Job /\ journal' \in Maybe(Journal)
      /\ HealOnDisk \/ UNCHANGED disk \/ (files' = NoFiles /\ staged' = Nothing)
      /\ UNCHANGED <<environment, torn, rebased, bounds>> /\ wiped' \in BOOLEAN
      /\ pc' = "embed" => journal' # Nothing
      /\ JournalExact' /\ Appending' /\ RowsDone' /\ job'.step = 1
  BY <1>1, Starting
<1>3. /\ files' \in Partial /\ staged' \in Maybe(Vectors)
      /\ files'.meta # Nothing => files' \in Store
  <2>1. CASE HealOnDisk
    BY <1>1, <2>1, Healed
  <2>2. CASE UNCHANGED disk
    BY <1>1, <2>2 DEF disk, StoreTypeOK
  <2>3. CASE files' = NoFiles /\ staged' = Nothing
    BY <2>3 DEF NoFiles, Partial, Maybe
  <2>4. QED
    BY <1>2, <2>1, <2>2, <2>3
<1>4. {rebased', wiped'} \subseteq BOOLEAN
  <2>1. rebased' = rebased /\ rebased \in BOOLEAN
    BY <1>1, <1>2 DEF StoreTypeOK
  <2>2. QED
    BY <1>2, <2>1
<1>5. StoreTypeOK'
  BY <1>1, <1>2, <1>3, <1>4 DEF StoreTypeOK, PCs, environment, bounds
<1>6. Renamed' /\ FirstStep'
  BY <1>2 DEF Renamed, FirstStep
<1>7. QED
  BY <1>2, <1>5, <1>6 DEF Base

LEMMA OpenJournalBase == ASSUME Base, OpenJournal PROVE Base'
<1>1. /\ pc = "open" /\ pc' = "embed" /\ journal' = NewJournal(job.keys, job.by) /\ wiped' = FALSE
      /\ UNCHANGED <<job, disk, environment, torn, rebased, bounds>>
  BY DEF OpenJournal
<1>2. job \in Job /\ StoreTypeOK
  BY <1>1 DEF Base, StoreTypeOK
<1>3. /\ journal'.fp = Fingerprint(job.keys, job.by) /\ journal'.tail = "whole"
      /\ journal'.rows = <<>> /\ journal'.recs = <<>>
  BY <1>1 DEF NewJournal
<1>4. journal' \in Journal
  <2> DEFINE A == Seq(Maybe(Vector))
             B == Seq(Maybe(Key))
  <2>1. <<>> \in A /\ <<>> \in B
    OBVIOUS
  <2>2. Fingerprint(job.keys, job.by) \in [keys : Seq(Key), by : Models]
    BY <1>2, JobFields DEF Fingerprint
  <2> HIDE DEF A, B
  <2>3. journal' \in [fp : [keys : Seq(Key), by : Models], rows : A, recs : B, tail : {"whole", "row", "record", "char"}]
    BY <1>1, <2>1, <2>2 DEF NewJournal
  <2>4. QED
    BY <2>3 DEF Journal, A, B
<1>5. journal' # Nothing
  BY <1>4, StoreAssumption
<1>6. StoreTypeOK'
  <2>1. {rebased', wiped'} \subseteq BOOLEAN
    BY <1>1, <1>2 DEF StoreTypeOK
  <2>2. QED
    BY <1>1, <1>2, <1>4, <1>5, <2>1 DEF StoreTypeOK, PCs, Maybe, disk, environment, bounds
<1>7. JournalExact'
  BY <1>3 DEF JournalExact, Records
<1>8. job.rows = <<>> /\ Len(job.rows) < Len(job.keys)
  BY <1>1 DEF Base, Appending
<1>9. Appending'
  BY <1>1, <1>3, <1>8 DEF Appending
<1>10. RowsDone' /\ FirstStep' /\ Renamed'
  BY <1>1 DEF Base, RowsDone, FirstStep, Renamed
<1>11. QED
  BY <1>6, <1>7, <1>9, <1>10 DEF Base

LEMMA AppendVectorBase == ASSUME Base, AppendVector PROVE Base'
<1> DEFINE n == Len(job.rows) + 1
           r == Row(job.keys[n], job.by)
<1>1. /\ pc = "embed" /\ pc' = "record" /\ journal' = AppendRow(journal, r)
      /\ UNCHANGED <<job, disk, environment, history, bounds>>
  BY DEF AppendVector
<1>2. job \in Job /\ StoreTypeOK /\ journal \in Journal
  BY <1>1 DEF Base, StoreTypeOK, Maybe
<1>3. /\ journal.fp = Fingerprint(job.keys, job.by) /\ journal.tail \in {"whole", "char"}
      /\ ~Unreadable(journal) => Len(journal.recs) = Len(job.rows)
      /\ Len(journal.rows) = Len(job.rows)
      /\ Len(job.rows) < Len(job.keys)
  BY <1>1 DEF Base, Appending
<1>4. n \in 1..Len(job.keys) /\ job.keys[n] \in Key
  BY <1>2, <1>3, JobFields
<1>5. r \in Maybe(Vector)
  BY <1>2, <1>4, RowType, JobFields DEF Maybe
<1>6. journal.rows \in Seq(Maybe(Vector)) /\ journal.recs \in Seq(Maybe(Key))
  BY <1>2 DEF Journal
<1> DEFINE rows == Append(journal.rows, r)
<1>7. /\ rows \in Seq(Maybe(Vector)) /\ Len(rows) = n /\ rows[n] = r
      /\ \A i \in 1..Len(journal.rows) : rows[i] = journal.rows[i]
  <2> HIDE DEF r
  <2>1. QED
    BY <1>3, <1>5, <1>6, AppendProperties
<1>8. journal' = [journal EXCEPT !.rows = rows]
  BY <1>1, <1>2, <1>3 DEF AppendRow, Journal
<1> HIDE DEF rows, r
<1>9. /\ journal'.fp = journal.fp /\ journal'.tail = journal.tail /\ journal'.recs = journal.recs
      /\ journal'.rows = rows /\ journal' \in Journal
  BY <1>2, <1>3, <1>7, <1>8 DEF Journal
<1>10. journal' # Nothing
  BY <1>9, StoreAssumption
<1>11. StoreTypeOK'
  BY <1>1, <1>2, <1>9, <1>10 DEF StoreTypeOK, PCs, Maybe, disk, environment, history, bounds
<1>12. JournalExact'
  <2>0. Records(journal') = Records(journal) /\ Len(Records(journal)) <= Len(journal.rows)
    <3>1. Records(journal') = Records(journal)
      BY <1>9 DEF Records, Unreadable
    <3>2. QED
      BY <1>2, <1>3, <3>1, RecordsType, JobFields
  <2>1. SUFFICES ASSUME NEW i \in DOMAIN rows \cap DOMAIN Records(journal)
                 PROVE  /\ Records(journal)[i] = journal.fp.keys[i]
                        /\ rows[i] = Row(Records(journal)[i], journal.fp.by)
    BY <1>9, <2>0 DEF JournalExact
  <2>2. i \in DOMAIN journal.rows \cap DOMAIN Records(journal) /\ rows[i] = journal.rows[i]
    <3>1. i \in 1..Len(Records(journal)) /\ Len(Records(journal)) \in Nat
      BY <1>2, RecordsType
    <3>2. Len(journal.rows) \in Nat /\ DOMAIN journal.rows = 1..Len(journal.rows)
      BY <1>6, LenProperties
    <3>3. i \in 1..Len(journal.rows)
      BY <2>0, <3>1, <3>2
    <3>4. QED
      BY <1>7, <2>1, <3>2, <3>3
  <2>3. journal # Nothing
    BY <1>2, StoreAssumption
  <2>4. QED
    BY <2>2, <2>3 DEF Base, JournalExact
<1>13. Appending'
  <2>1. /\ journal'.fp = Fingerprint(job'.keys, job'.by) /\ journal'.tail \in {"whole", "char"}
        /\ ~Unreadable(journal') => Len(journal'.recs) = Len(job'.rows)
        /\ Len(job'.rows) < Len(job'.keys)
        /\ Len(journal'.rows) = Len(job'.rows) + 1
        /\ journal'.rows[Len(job'.rows) + 1] = Row(job'.keys[Len(job'.rows) + 1], job'.by)
    BY <1>1, <1>3, <1>7, <1>9 DEF r, Unreadable
  <2>2. QED
    BY <1>1, <2>1 DEF Appending
<1>14. RowsDone' /\ FirstStep' /\ Renamed'
  BY <1>1 DEF Base, RowsDone, FirstStep, Renamed
<1>15. QED
  BY <1>11, <1>12, <1>13, <1>14 DEF Base

LEMMA AppendChunkRecordBase == ASSUME Base, AppendChunkRecord PROVE Base'
<1> DEFINE n == Len(job.rows) + 1
           k == job.keys[n]
<1>1. /\ pc = "record" /\ journal' = AppendRecord(journal, k)
      /\ job' = [job EXCEPT !.rows = Append(@, Row(k, job.by))]
      /\ pc' = IF Len(job'.rows) = Len(job'.keys) THEN "graph" ELSE "embed"
      /\ UNCHANGED <<disk, environment, history, bounds>>
  <2>1. pc = "record" /\ job \in Job
    BY DEF AppendChunkRecord, Base, StoreTypeOK
  <2>2. job' = [job EXCEPT !.rows = Append(@, Row(k, job.by))]
    BY DEF AppendChunkRecord
  <2>3. job'.keys = job.keys
    BY <2>1, <2>2 DEF Job
  <2>4. QED
    BY <2>1, <2>3 DEF AppendChunkRecord
<1>2. job \in Job /\ StoreTypeOK /\ journal \in Journal
  BY <1>1 DEF Base, StoreTypeOK, Maybe
<1>3. /\ journal.fp = Fingerprint(job.keys, job.by) /\ journal.tail \in {"whole", "char"}
      /\ ~Unreadable(journal) => Len(journal.recs) = Len(job.rows)
      /\ Len(journal.rows) = n
      /\ Len(job.rows) < Len(job.keys) /\ journal.rows[n] = Row(k, job.by)
  BY <1>1 DEF Base, Appending
<1>4. n \in 1..Len(job.keys) /\ k \in Key /\ k \in Maybe(Key) /\ Row(k, job.by) \in Vector
  BY <1>2, <1>3, JobFields, RowType DEF Maybe
<1>5. journal.rows \in Seq(Maybe(Vector)) /\ journal.recs \in Seq(Maybe(Key))
  BY <1>2 DEF Journal
<1> DEFINE read == IF Unreadable(journal) THEN Nothing ELSE k
           recs == Append(journal.recs, read)
           rows == Append(job.rows, Row(k, job.by))
<1>6. /\ recs \in Seq(Maybe(Key))
      /\ ~Unreadable(journal) => Len(recs) = n /\ recs[n] = k
      /\ \A i \in 1..Len(journal.recs) : recs[i] = journal.recs[i]
  <2>1. read \in Maybe(Key) /\ (~Unreadable(journal) => read = k)
    BY <1>4 DEF Maybe
  <2> HIDE DEF k, read
  <2>2. /\ recs \in Seq(Maybe(Key)) /\ Len(recs) = Len(journal.recs) + 1
        /\ recs[Len(journal.recs) + 1] = read
        /\ \A i \in 1..Len(journal.recs) : recs[i] = journal.recs[i]
    BY <1>5, <2>1, AppendProperties
  <2>3. QED
    BY <1>3, <2>1, <2>2
<1>7. /\ rows \in Seq(Vector) /\ Len(rows) = n /\ rows[n] = Row(k, job.by)
      /\ \A i \in 1..Len(job.rows) : rows[i] = job.rows[i]
  <2> HIDE DEF k
  <2>1. QED
    BY <1>2, <1>4, JobFields, AppendProperties
<1>8. journal' = [journal EXCEPT !.recs = recs] /\ job' = [job EXCEPT !.rows = rows]
  BY <1>1, <1>2, <1>3 DEF AppendRecord, Unreadable, Journal
<1> HIDE DEF recs, rows
<1>9. /\ journal'.fp = journal.fp /\ journal'.tail = journal.tail /\ journal'.recs = recs
      /\ journal'.rows = journal.rows /\ journal' \in Journal
  BY <1>2, <1>3, <1>6, <1>8 DEF Journal
<1>10. /\ job' \in Job /\ job'.rows = rows /\ job'.keys = job.keys /\ job'.by = job.by
       /\ job'.step = job.step
  BY <1>2, <1>7, <1>8 DEF Job
<1>11. journal' # Nothing
  BY <1>9, StoreAssumption
<1>12. pc' \in {"graph", "embed"} /\ (pc' = "graph" <=> n = Len(job.keys))
  BY <1>1, <1>7, <1>10
<1>13. StoreTypeOK'
  BY <1>1, <1>2, <1>9, <1>10, <1>11, <1>12 DEF StoreTypeOK, PCs, Maybe, disk, environment, history, bounds
<1>14. JournalExact'
  <2>1. SUFFICES ASSUME ~Unreadable(journal), NEW i \in DOMAIN journal.rows \cap DOMAIN recs
                 PROVE  recs[i] = journal.fp.keys[i] /\ journal.rows[i] = Row(recs[i], journal.fp.by)
    BY <1>9 DEF JournalExact, Records, Unreadable
  <2>2. CASE i = n
    <3>1. journal.fp.keys = job.keys /\ journal.fp.by = job.by
      BY <1>3 DEF Fingerprint
    <3>2. QED
      BY <1>3, <1>6, <2>1, <2>2, <3>1
  <2>3. CASE i # n
    <3>1. i \in DOMAIN journal.rows \cap DOMAIN journal.recs /\ recs[i] = journal.recs[i]
      BY <1>3, <1>5, <1>6, <2>1, <2>3
    <3>2. journal # Nothing /\ Records(journal) = journal.recs
      BY <1>2, <2>1, RecordsType, StoreAssumption
    <3>3. QED
      BY <3>1, <3>2 DEF Base, JournalExact
  <2>4. QED
    BY <2>2, <2>3
<1>15. Appending'
  <2>1. CASE pc' = "embed"
    <3>1. n < Len(job.keys)
      BY <1>4, <1>12, <2>1
    <3>2. /\ journal'.fp = Fingerprint(job'.keys, job'.by) /\ journal'.tail \in {"whole", "char"}
          /\ ~Unreadable(journal') => Len(journal'.recs) = Len(job'.rows)
          /\ Len(job'.rows) < Len(job'.keys)
          /\ Len(journal'.rows) = Len(job'.rows)
      BY <1>3, <1>6, <1>7, <1>9, <1>10, <3>1 DEF Unreadable
    <3>3. QED
      BY <2>1, <3>2 DEF Appending
  <2>2. CASE pc' = "graph"
    BY <2>2 DEF Appending
  <2>3. QED
    BY <1>12, <2>1, <2>2
<1>16. RowsDone'
  <2>1. \A i \in DOMAIN rows : rows[i] = Row(job.keys[i], job.by)
    <3>1. TAKE i \in DOMAIN rows
    <3>2. CASE i = n
      BY <1>7, <3>2
    <3>3. CASE i # n
      <4>1. i \in DOMAIN job.rows /\ rows[i] = job.rows[i]
        BY <1>2, <1>7, <3>3, JobFields
      <4>2. QED
        BY <1>1, <4>1 DEF Base, RowsDone
    <3>4. QED
      BY <3>2, <3>3
  <2>2. Len(rows) <= Len(job.keys)
    BY <1>4, <1>7
  <2>3. pc' \in {"graph", "stage", "commit", "clear"} => Len(rows) = Len(job.keys)
    BY <1>7, <1>12
  <2>4. QED
    BY <1>10, <2>1, <2>2, <2>3 DEF RowsDone
<1>17. Renamed' /\ FirstStep'
  BY <1>1, <1>10, <1>12 DEF Base, Renamed, FirstStep
<1>18. QED
  BY <1>13, <1>14, <1>15, <1>16, <1>17 DEF Base
\* The store whose epochs a build goes on from.
Previous == IF job.old = Nothing THEN Loaded ELSE job.old

LEMMA Building ==
    ASSUME Base, BuildGraph
    PROVE  /\ pc = "graph" /\ pc' = "stage" /\ job \in Job /\ Len(job.rows) = Len(job.keys)
           /\ UNCHANGED <<journal, environment, history, bounds>>
           /\ Previous \in Maybe(Store)
           /\ job' \in Job /\ job'.next = NextStore(Previous, job.old) /\ job'.next \in Store
           /\ job'.anew = (Previous = Nothing)
           /\ job'.keys = job.keys /\ job'.kept = job.kept /\ job'.old = job.old
           /\ job'.rows = job.rows /\ job'.seen = job.seen /\ job'.by = job.by /\ job'.step = job.step
           /\ IF job.old = Nothing THEN HealOnDisk ELSE UNCHANGED disk
<1>1. /\ pc = "graph" /\ pc' = "stage"
      /\ job' = [job EXCEPT !.next = NextStore(Previous, job.old), !.anew = (Previous = Nothing)]
      /\ UNCHANGED <<journal, environment, history, bounds>>
      /\ IF job.old = Nothing THEN HealOnDisk ELSE UNCHANGED disk
  BY DEF BuildGraph, Previous
<1>2. job \in Job /\ StoreTypeOK /\ Len(job.rows) = Len(job.keys)
  BY <1>1 DEF Base, StoreTypeOK, RowsDone
<1>3. Previous \in Maybe(Store)
  BY <1>2, LoadedStore, JobFields DEF Previous, Maybe
<1>4. NextStore(Previous, job.old) \in Store
  BY <1>2, <1>3, JobFields, MadeStore
<1>5. /\ job'.next = NextStore(Previous, job.old) /\ job'.anew = (Previous = Nothing)
      /\ job'.keys = job.keys /\ job'.kept = job.kept /\ job'.old = job.old
      /\ job'.rows = job.rows /\ job'.seen = job.seen /\ job'.by = job.by /\ job'.step = job.step
  BY <1>1, <1>2 DEF Job
<1>6. job' \in Job
  <2>1. (Previous = Nothing) \in BOOLEAN /\ NextStore(Previous, job.old) \in Maybe(Store)
    BY <1>4 DEF Maybe
  <2>2. QED
    BY <1>1, <1>2, <2>1 DEF Job
<1>7. QED
  BY <1>1, <1>2, <1>3, <1>4, <1>5, <1>6

LEMMA BuildGraphBase == ASSUME Base, BuildGraph PROVE Base'
<1>1. StoreTypeOK
  BY DEF Base
<1>2. /\ files' \in Partial /\ staged' \in Maybe(Vectors)
      /\ files'.meta # Nothing => files' \in Store
  <2>1. CASE job.old = Nothing
    BY <1>1, <2>1, Building, Healed
  <2>2. CASE job.old # Nothing
    BY <1>1, <2>2, Building DEF disk, StoreTypeOK
  <2>3. QED
    BY <2>1, <2>2
<1>3. job'.next # Nothing
  BY Building, StoreAssumption
<1>4. StoreTypeOK'
  BY <1>1, <1>2, <1>3, Building DEF StoreTypeOK, PCs, environment, history, bounds
<1>5. JournalExact' /\ Appending' /\ FirstStep' /\ Renamed'
  BY Building DEF Base, JournalExact, Appending, FirstStep, Renamed
<1>6. RowsDone'
  BY Building DEF Base, RowsDone
<1>7. QED
  BY <1>4, <1>5, <1>6 DEF Base

LEMMA StageBase == ASSUME Base, Stage PROVE Base'
<1>1. /\ pc = "stage" /\ pc' = "commit" /\ staged' = job.next.vectors
      /\ UNCHANGED <<files, journal, job, environment, history, bounds>>
  BY DEF Stage
<1>2. StoreTypeOK /\ job \in Job /\ job.next \in Store
  BY <1>1 DEF Base, StoreTypeOK, Job, Maybe
<1>3. staged' \in Maybe(Vectors)
  BY <1>1, <1>2 DEF Store, Maybe
<1>4. StoreTypeOK'
  BY <1>1, <1>2, <1>3 DEF StoreTypeOK, PCs, environment, history, bounds
<1>5. JournalExact' /\ Appending' /\ RowsDone'
  BY <1>1 DEF Base, JournalExact, Appending, RowsDone
<1>6. Renamed' /\ FirstStep'
  BY <1>1, <1>2 DEF Renamed, Base, FirstStep
<1>7. QED
  BY <1>4, <1>5, <1>6 DEF Base
\* Everything but the disk and the journal is as after Die.
LEMMA DyingBase ==
    ASSUME Base, Die, UNCHANGED <<files, environment, changes, reads>>,
           staged' \in Maybe(Vectors), journal' \in Maybe(Journal), JournalExact',
           stops' \in 0..MaxStops
    PROVE  Base'
<1>1. pc' = "idle" /\ job' = Nothing /\ torn' = Tear /\ UNCHANGED <<rebased, wiped>>
  BY DEF Die
<1>2. StoreTypeOK
  BY DEF Base
<1>3. torn' \in {"no", "graph", "rows"}
  BY <1>1, <1>2 DEF Tear, StoreTypeOK
<1>4. StoreTypeOK'
  BY <1>1, <1>2, <1>3 DEF StoreTypeOK, PCs, environment
<1>5. Appending' /\ RowsDone' /\ FirstStep' /\ Renamed'
  BY <1>1 DEF Appending, RowsDone, FirstStep, Renamed
<1>6. QED
  BY <1>4, <1>5 DEF Base

LEMMA CommitBase == ASSUME Base, Commit PROVE Base'
<1>1. StoreTypeOK /\ Renamed /\ JournalExact
  BY DEF Base
<1>2. /\ pc = "commit" /\ job \in Job /\ job.next \in Store
      /\ UNCHANGED <<journal, environment, bounds, wiped>>
  BY <1>1, Committing
<1>3. JournalExact'
  BY <1>1, <1>2 DEF JournalExact
<1>4. CASE UNCHANGED disk /\ Die
  BY <1>1, <1>2, <1>3, <1>4, DyingBase DEF disk, bounds, StoreTypeOK
<1>5. CASE /\ ~(job.step = 2 /\ staged = Nothing)
           /\ files'.chunks = IF job.step = 1 THEN job.next.chunks ELSE files.chunks
           /\ files'.vectors = IF job.step = 2 THEN job.next.vectors ELSE files.vectors
           /\ files'.edges = IF job.step = 3 THEN job.next.edges ELSE files.edges
           /\ files'.manifest = IF job.step = 4 THEN job.next.manifest ELSE files.manifest
           /\ files'.bm25 = IF job.step = 5 THEN job.next.bm25 ELSE files.bm25
           /\ files'.meta = IF job.step = 6 THEN job.next.meta ELSE files.meta
           /\ files' \in Partial
           /\ staged' = IF job.step = 2 THEN Nothing ELSE staged
           /\ job' \in Job /\ job'.step = job.step + 1
           /\ job'.keys = job.keys /\ job'.kept = job.kept /\ job'.old = job.old
           /\ job'.rows = job.rows /\ job'.seen = job.seen /\ job'.by = job.by
           /\ job'.next = job.next /\ job'.anew = job.anew
           /\ pc' = IF job.step = 6 THEN "clear" ELSE "commit"
           /\ torn' = IF job.step = 6 /\ job.old = Nothing THEN "no" ELSE torn
           /\ rebased' = (rebased \/ (job.anew /\ capture # Nothing))
  <2>1. /\ job.step \in 1..6
        /\ job.step <= 2 => staged \in {Nothing, job.next.vectors}
        /\ job.step > 1 => files.chunks = job.next.chunks
        /\ job.step > 2 => files.vectors = job.next.vectors /\ staged = Nothing
        /\ job.step > 3 => files.edges = job.next.edges
        /\ job.step > 4 => files.manifest = job.next.manifest
        /\ job.step > 5 => files.bm25 = job.next.bm25
    BY <1>1, <1>2 DEF Renamed
  <2>2. Renamed'
    BY <1>5, <2>1 DEF Renamed
  <2>3. pc' \in {"commit", "clear"}
    BY <1>5
  <2>4. Appending' /\ RowsDone' /\ FirstStep'
    BY <1>2, <1>5, <2>3 DEF Base, Appending, RowsDone, FirstStep
  <2>5. files'.meta # Nothing => files' \in Store
    <3>1. CASE job.step = 6
      <4>1. /\ files'.chunks = job.next.chunks /\ files'.vectors = job.next.vectors
            /\ files'.edges = job.next.edges /\ files'.manifest = job.next.manifest
            /\ files'.bm25 = job.next.bm25 /\ files'.meta = job.next.meta
        BY <1>5, <2>1, <3>1
      <4>2. files' \in Partial
        BY <1>5
      <4>3. QED
        BY <1>2, <4>1, <4>2 DEF Store, Partial
    <3>2. CASE job.step # 6
      <4>1. SUFFICES ASSUME files.meta # Nothing PROVE files' \in Store
        BY <1>5, <3>2
      <4>2. files \in Store
        BY <1>1, <4>1 DEF StoreTypeOK
      <4>3. /\ files.chunks \in Seq(Chunk) /\ files.vectors \in Vectors /\ files.edges \in Seq(Key)
            /\ files.manifest \in Manifest /\ files.bm25 \in Maybe(Seq(Key)) /\ files.meta \in Meta
        BY <4>2 DEF Store
      <4>4. /\ job.next.chunks \in Seq(Chunk) /\ job.next.vectors \in Vectors
            /\ job.next.edges \in Seq(Key) /\ job.next.manifest \in Manifest
            /\ job.next.bm25 \in Maybe(Seq(Key))
        BY <1>2 DEF Store
      <4>5. /\ files'.chunks \in Seq(Chunk) /\ files'.vectors \in Vectors /\ files'.edges \in Seq(Key)
            /\ files'.manifest \in Manifest /\ files'.bm25 \in Maybe(Seq(Key)) /\ files'.meta \in Meta
        BY <1>5, <3>2, <4>3, <4>4
      <4>6. files' \in Partial
        BY <1>5
      <4>7. QED
        BY <4>5, <4>6 DEF Store, Partial
    <3>3. QED
      BY <3>1, <3>2
  <2>6. staged' \in Maybe(Vectors) /\ torn' \in {"no", "graph", "rows"}
    BY <1>1, <1>5 DEF StoreTypeOK, Maybe
  <2>7. rebased' \in BOOLEAN /\ wiped' \in BOOLEAN
    <3>1. wiped' = wiped /\ wiped \in BOOLEAN
      BY <1>1, <1>2 DEF StoreTypeOK
    <3>2. rebased' = (rebased \/ (job.anew /\ capture # Nothing))
      BY <1>5
    <3>3. QED
      BY <3>1, <3>2
  <2>8. job'.next # Nothing
    BY <1>2, <1>5, StoreAssumption
  <2>9. {rebased', wiped'} \subseteq BOOLEAN
    BY <2>7
  <2>10. files' \in Partial /\ job' \in Job
    BY <1>5
  <2>11. StoreTypeOK'
    BY <1>1, <1>2, <2>3, <2>5, <2>6, <2>8, <2>9, <2>10 DEF StoreTypeOK, PCs, environment, bounds
  <2>12. QED
    BY <1>3, <2>2, <2>4, <2>11 DEF Base
<1>6. QED
  BY <1>1, <1>4, <1>5, Committing

LEMMA ClearJournalBase == ASSUME Base, ClearJournal PROVE Base'
<1>1. /\ pc' = "idle" /\ job' = Nothing /\ journal' = Nothing
      /\ UNCHANGED <<disk, environment, history, bounds>>
  BY DEF ClearJournal
<1>2. StoreTypeOK'
  BY <1>1 DEF Base, StoreTypeOK, PCs, Maybe, disk, environment, history, bounds
<1>3. JournalExact' /\ Appending' /\ RowsDone' /\ FirstStep' /\ Renamed'
  BY <1>1 DEF JournalExact, Appending, RowsDone, FirstStep, Renamed
<1>4. QED
  BY <1>2, <1>3 DEF Base
\* What a process that dies leaves of the journal and of the staged vectors.
LEMMA Stopping ==
    ASSUME Base, Stop
    PROVE  /\ pc # "idle" /\ job \in Job /\ UNCHANGED <<files, environment, changes, reads>>
           /\ stops' \in 0..MaxStops /\ Die
           /\ staged' \in Maybe(Vectors) /\ (pc # "stage" => staged' = staged)
           /\ journal' \in Maybe(Journal)
           /\ \/ journal' = journal
              \/ /\ journal \in Journal /\ journal' \in Journal
                 /\ journal'.fp = journal.fp /\ journal'.rows = journal.rows
                 /\ journal'.recs = journal.recs /\ ~Unreadable(journal)
<1>1. /\ pc # "idle" /\ UNCHANGED <<files, environment, changes, reads>> /\ Die
      /\ stops < MaxStops /\ stops' = stops + 1
  BY DEF Stop
<1>2. StoreTypeOK /\ job \in Job
  BY <1>1 DEF Base, StoreTypeOK
<1>3. stops' \in 0..MaxStops
  BY <1>1, <1>2, StoreAssumption DEF StoreTypeOK
<1>4. CASE UNCHANGED <<journal, staged>>
  BY <1>1, <1>2, <1>3, <1>4 DEF StoreTypeOK
<1>5. CASE /\ pc \in {"embed", "record"} /\ ~Unreadable(journal)
           /\ \E tail \in (IF pc = "embed" THEN {"row"} ELSE {"record", "char"}) :
                 journal' = [journal EXCEPT !.tail = tail]
           /\ UNCHANGED staged
  <2>1. journal \in Journal
    BY <1>2, <1>5 DEF StoreTypeOK, Maybe
  <2>2. PICK tail \in {"row", "record", "char"} : journal' = [journal EXCEPT !.tail = tail]
    BY <1>5
  <2>3. journal' \in Journal /\ journal'.fp = journal.fp
        /\ journal'.rows = journal.rows /\ journal'.recs = journal.recs
    BY <2>1, <2>2 DEF Journal
  <2>4. QED
    BY <1>1, <1>2, <1>3, <1>5, <2>1, <2>3 DEF StoreTypeOK, Maybe
<1>6. CASE /\ pc = "stage"
           /\ staged' = [job.next.vectors EXCEPT !.rows = Front(@)]
           /\ UNCHANGED journal
  <2>1. job.next.vectors \in Vectors
    BY <1>2, <1>6 DEF StoreTypeOK, Job, Maybe, Store
  <2> DEFINE rows == job.next.vectors.rows
  <2>2. rows \in Seq(Maybe(Vector))
    BY <2>1 DEF Vectors
  <2>3. Front(rows) \in Seq(Maybe(Vector))
    <3>1. Len(rows) \in Nat /\ \A i \in 1..Len(rows) - 1 : rows[i] \in Maybe(Vector)
      BY <2>2, LenProperties, ElementOfSeq
    <3> HIDE DEF rows
    <3>2. QED
      BY <3>1, SubSeqProperties DEF Front
  <2>4. staged' \in Vectors
    BY <1>6, <2>1, <2>3 DEF Vectors
  <2>5. QED
    BY <1>1, <1>2, <1>3, <1>6, <2>4 DEF StoreTypeOK, Maybe
<1>7. QED
  BY <1>4, <1>5, <1>6 DEF Stop

LEMMA StopBase == ASSUME Base, Stop PROVE Base'
<1>1. JournalExact'
  <2>1. CASE journal' = journal
    BY <2>1 DEF Base, JournalExact
  <2>2. CASE /\ journal \in Journal /\ journal' \in Journal /\ journal'.fp = journal.fp
             /\ journal'.rows = journal.rows /\ journal'.recs = journal.recs
             /\ ~Unreadable(journal)
    <3>1. Records(journal) = journal.recs /\ Records(journal') \in {<<>>, journal.recs}
      BY <2>2, RecordsType
    <3>2. CASE Records(journal') = <<>>
      BY <3>2 DEF JournalExact
    <3>3. CASE Records(journal') = journal.recs
      BY <2>2, <3>1, <3>3, StoreAssumption DEF Base, JournalExact
    <3>4. QED
      BY <3>1, <3>2, <3>3
  <2>3. QED
    BY <2>1, <2>2, Stopping
<1>2. QED
  BY <1>1, Stopping, DyingBase

LEMMA NextBase == ASSUME Base, [Next]_vars PROVE Base'
<1>1. CASE Starts
  BY <1>1, StartsBase
<1>2. CASE EngineSteps
  BY <1>2, OpenJournalBase, AppendVectorBase, AppendChunkRecordBase, BuildGraphBase, StageBase,
     CommitBase, ClearJournalBase DEF EngineSteps
<1>3. CASE Stop
  BY <1>3, StopBase
<1>4. CASE Edit \/ SwitchModel \/ QueryOpen \/ QueryVectors \/ Capture
  BY <1>4, EditBase, SwitchModelBase, QueryOpenBase, QueryVectorsBase, CaptureBase
<1>5. CASE UNCHANGED store
  BY <1>5 DEF store, Base, StoreTypeOK, JournalExact, Appending, RowsDone, FirstStep, Renamed
<1>6. QED
  BY <1>1, <1>2, <1>3, <1>4, <1>5, StoreSteps

\* The variables keep their types, and where a job is agrees with its journal and its files.
THEOREM BaseInvariance == Spec => []Base
<1>1. Init => Base
  BY InitBase
<1>2. Base /\ [Next]_vars => Base'
  BY NextBase
<1>3. QED
  BY <1>1, <1>2, PTL DEF Spec

\* The variables keep their types (store.rs, resume.rs, autoReindex.ts).
THEOREM TypeCorrect == Spec => []TypeOK
<1>1. Init => WatcherTypeOK
  BY DEF Init, WatcherTypeOK
<1>2. WatcherTypeOK /\ [Next]_vars => WatcherTypeOK'
  <2> SUFFICES ASSUME WatcherTypeOK, [Next]_vars PROVE WatcherTypeOK'
    OBVIOUS
  <2>1. CASE Start \/ RunUpdate \/ Engine \/ Interrupted \/ Save \/ Others
    BY <2>1 DEF Start, RunUpdate, Engine, Interrupted, Save, Others, WatcherTypeOK
  <2>2. CASE UNCHANGED vars
    BY <2>2 DEF vars, WatcherTypeOK
  <2>3. QED
    BY <2>1, <2>2 DEF Next
<1>3. Base /\ WatcherTypeOK => TypeOK
  BY DEF Base, TypeOK
<1>4. QED
  BY <1>1, <1>2, <1>3, BaseInvariance, PTL DEF Spec

\* However the processes that wrote it ended, the rows of the resume journal are
\* the vectors of its records (resume.rs:17-29).
THEOREM JournalIsExact == Spec => []JournalExact
<1>1. Base => JournalExact
  BY DEF Base
<1>2. QED
  BY <1>1, BaseInvariance, PTL
-------------------------------------------------------------------------------
(***************************************************************************)
(* Durable rows survive                                                    *)
(***************************************************************************)
\* All rows of an exact journal that have their records are durable.
LEMMA DurableIsAll ==
    ASSUME NEW j \in Journal,
           \A i \in DOMAIN j.rows \cap DOMAIN Records(j) : Records(j)[i] = j.fp.keys[i],
           NEW n \in Nat, n <= Len(j.fp.keys), n <= Len(j.rows), n <= Len(Records(j))
    PROVE  n <= Durable(j)
<1> DEFINE ks == j.fp.keys
           v == Verified(j, ks)
<1>1. ks \in Seq(Key) /\ j.rows \in Seq(Maybe(Vector)) /\ Records(j) \in Seq(Maybe(Key))
  BY RecordsType DEF Journal
<1>2. /\ v \in Nat
      /\ (v + 1 <= Len(ks) /\ v + 1 <= Len(j.rows) /\ v + 1 <= Len(Records(j))) => Records(j)[v + 1] # ks[v + 1]
  BY <1>1, VerifiedPrefix
<1>3. Durable(j) = v
  BY StoreAssumption DEF Durable
<1> HIDE DEF v, ks
<1>4. ASSUME v < n PROVE FALSE
  <2>1. v + 1 <= Len(ks) /\ v + 1 <= Len(j.rows) /\ v + 1 <= Len(Records(j))
    BY <1>1, <1>2, <1>4 DEF ks
  <2>2. v + 1 \in DOMAIN j.rows \cap DOMAIN Records(j)
    BY <1>1, <1>2, <2>1
  <2>3. QED
    BY <1>2, <2>1, <2>2 DEF ks
<1>5. QED
  BY <1>2, <1>3, <1>4

LEMMA DurableType ==
    ASSUME NEW j \in Maybe(Journal)
    PROVE  /\ Durable(j) \in Nat
           /\ j = Nothing => Durable(j) = 0
           /\ j # Nothing => /\ j \in Journal /\ Durable(j) = Verified(j, j.fp.keys)
                            /\ Durable(j) <= Len(j.fp.keys)
                            /\ Durable(j) <= Len(j.rows) /\ Durable(j) <= Len(Records(j))
<1>1. CASE j = Nothing
  BY <1>1 DEF Durable
<1>2. CASE j # Nothing
  <2>1. j \in Journal
    BY <1>2 DEF Maybe
  <2>2. j.fp.keys \in Seq(Key)
    BY <2>1 DEF Journal
  <2>3. QED
    BY <1>2, <2>1, <2>2, VerifiedPrefix DEF Durable
<1>3. QED
  BY <1>1, <1>2

\* A journal of the same symbols with as many rows and records is as durable.
LEMMA DurableGrows ==
    ASSUME Base, JournalExact', journal \in Journal, journal' \in Journal,
           journal'.fp = journal.fp, Len(journal.rows) <= Len(journal'.rows),
           Len(Records(journal)) <= Len(Records(journal'))
    PROVE  ~(Durable(journal') < Durable(journal))
<1> DEFINE n == Durable(journal)
<1>1. n \in Nat /\ n <= Len(journal.fp.keys) /\ n <= Len(journal.rows) /\ n <= Len(Records(journal))
  BY DurableType, StoreAssumption DEF Maybe
<1>2. /\ journal.rows \in Seq(Maybe(Vector)) /\ journal'.rows \in Seq(Maybe(Vector))
      /\ Records(journal) \in Seq(Maybe(Key)) /\ Records(journal') \in Seq(Maybe(Key))
  BY RecordsType DEF Journal
<1> HIDE DEF n
<1>3. n <= Len(journal'.fp.keys) /\ n <= Len(journal'.rows) /\ n <= Len(Records(journal'))
  BY <1>1, <1>2
<1>4. \A i \in DOMAIN journal'.rows \cap DOMAIN Records(journal') : Records(journal')[i] = journal'.fp.keys[i]
  BY StoreAssumption DEF JournalExact
<1>5. n <= Durable(journal')
  BY <1>1, <1>3, <1>4, DurableIsAll
<1>6. Durable(journal') \in Nat
  BY DurableType DEF Maybe
<1>7. QED
  BY <1>1, <1>5, <1>6 DEF n

\* A stage that opens over the journal of its own symbols keeps what is durable.
LEMMA DurableResumed ==
    ASSUME Base, journal \in Journal, NEW ks \in Seq(Key), journal.fp = Fingerprint(ks, model),
           journal' = LoadProgress(journal, ks, model), JournalExact'
    PROVE  ~(Durable(journal') < Durable(journal))
<1> DEFINE n == Durable(journal)
<1>1. model \in Models /\ journal.fp.keys = ks
  BY DEF Base, StoreTypeOK, Fingerprint
<1>2. n = Verified(journal, ks) /\ n \in Nat
  BY <1>1, DurableType, StoreAssumption DEF Maybe
<1>3. /\ journal' \in Journal /\ journal'.fp = journal.fp /\ n <= Len(ks)
      /\ Len(journal'.rows) = n /\ Len(Records(journal')) = n
  BY <1>1, <1>2, Resumed
<1> HIDE DEF n
<1>4. \A i \in DOMAIN journal'.rows \cap DOMAIN Records(journal') : Records(journal')[i] = journal'.fp.keys[i]
  BY <1>3, StoreAssumption DEF JournalExact
<1>5. n <= Durable(journal')
  BY <1>1, <1>2, <1>3, <1>4, DurableIsAll
<1>6. Durable(journal') \in Nat
  BY <1>3, DurableType DEF Maybe
<1>7. QED
  BY <1>2, <1>5, <1>6 DEF n

LEMMA DurableStep ==
    ASSUME Base, [Next]_vars, Durable(journal') < Durable(journal)
    PROVE  \/ pc = "clear"
           \/ pc' # "idle" /\ journal.fp # Fingerprint(job'.keys, job'.by)
           \/ wiped'
           \/ journal' # Nothing /\ Unreadable(journal')
<1>0. SUFFICES ASSUME ~(journal' # Nothing /\ Unreadable(journal'))
               PROVE  \/ pc = "clear"
                      \/ pc' # "idle" /\ journal.fp # Fingerprint(job'.keys, job'.by)
                      \/ wiped'
  OBVIOUS
<1>1. Base'
  BY NextBase
<1>2. journal \in Journal /\ journal # Nothing
  <2>1. journal \in Maybe(Journal) /\ journal' \in Maybe(Journal)
    BY <1>1 DEF Base, StoreTypeOK
  <2>2. journal = Nothing => Durable(journal) = 0
    BY <2>1, DurableType
  <2>3. Durable(journal') \in Nat
    BY <2>1, DurableType
  <2>4. QED
    BY <2>1, <2>2, <2>3, DurableType
<1>3. journal' # journal
  <2>1. Durable(journal) \in Nat
    BY <1>2, DurableType DEF Maybe
  <2>2. QED
    BY <2>1
<1>17. journal.recs = Records(journal) /\ ~Unreadable(journal)
       /\ (journal' # Nothing => journal'.recs = Records(journal'))
  <2>1. Durable(journal) # 0
    <3>1. Durable(journal') \in Nat
      BY <1>1, DurableType DEF Base, StoreTypeOK
    <3>2. QED
      BY <3>1
  <2>2. ~Unreadable(journal)
    <3>1. /\ Durable(journal) \in Nat /\ Durable(journal) <= Len(Records(journal))
          /\ Unreadable(journal) => Len(Records(journal)) = 0
      BY <1>2, DurableType, RecordsType DEF Maybe
    <3>2. QED
      BY <2>1, <3>1
  <2>3. QED
    BY <1>0, <2>2 DEF Records
<1>4. ASSUME NEW ks \in Seq(Key), NEW keep, Open(ks, keep, journal)
      PROVE  pc' # "idle" /\ journal.fp # Fingerprint(job'.keys, job'.by)
  <2>1. pc' # "idle" /\ job'.keys = ks /\ job'.by = model
    BY <1>4 DEF Open
  <2>2. journal' = LoadProgress(journal, ks, model)
    BY <1>3, <1>4 DEF Open
  <2>3. journal.fp # Fingerprint(ks, model)
    BY <1>1, <1>2, <2>2, DurableResumed DEF Base
  <2>4. QED
    BY <2>1, <2>3
<1>5. tree \in Manifest /\ StoreTypeOK
  BY DEF Base, StoreTypeOK, Trees
<1>6. CASE StartUpdate \/ StartForced
  <2>1. CASE BuildAll(journal)
    BY <1>4, <1>5, <2>1, PresentType DEF BuildAll
  <2>2. CASE BuildChanged(Loaded)
    BY <1>4, <1>5, <2>2, ChangedType DEF BuildChanged
  <2>3. QED
    BY <1>6, <2>1, <2>2 DEF StartUpdate, StartForced
<1>7. CASE StartOverWiped
  BY <1>7 DEF StartOverWiped
<1>8. CASE OpenJournal
  BY <1>2, <1>8 DEF OpenJournal, Base, Appending
<1>9. CASE AppendVector
  <2> DEFINE r == Row(job.keys[Len(job.rows) + 1], job.by)
  <2>1. pc' = "record" /\ pc = "embed" /\ job' = job
    BY <1>9 DEF AppendVector
  <2>2. /\ journal'.fp = journal.fp /\ Len(journal.rows) <= Len(journal'.rows)
        /\ Len(Records(journal)) <= Len(Records(journal'))
    <3>1. /\ journal.fp = Fingerprint(job.keys, job.by) /\ Len(journal.rows) = Len(job.rows)
          /\ Len(journal.recs) = Len(job.rows) /\ Len(job.rows) \in Nat
      BY <1>17, <2>1, JobFields DEF Base, Appending, StoreTypeOK
    <3>2. /\ journal'.fp = Fingerprint(job.keys, job.by) /\ Len(journal'.rows) = Len(job.rows) + 1
          /\ Len(journal'.recs) = Len(job.rows)
      <4>1. journal' # Nothing
        BY <1>1, <2>1 DEF Base, StoreTypeOK
      <4>2. QED
        BY <1>0, <1>1, <2>1, <4>1 DEF Base, Appending
    <3>3. journal' # Nothing
      BY <1>1, <2>1 DEF Base, StoreTypeOK
    <3>4. QED
      BY <1>17, <3>1, <3>2, <3>3
  <2>3. journal' \in Journal /\ JournalExact'
    BY <1>1, <2>1 DEF Base, StoreTypeOK, Maybe
  <2>4. QED
    BY <1>2, <2>2, <2>3, DurableGrows
<1>10. CASE AppendChunkRecord
  <2> DEFINE k == job.keys[Len(job.rows) + 1]
  <2>1. pc = "record" /\ journal' = AppendRecord(journal, k) /\ journal.tail = "whole"
    BY <1>10, <1>17 DEF AppendChunkRecord, Base, Appending, Unreadable
  <2>2. journal.recs \in Seq(Maybe(Key))
    BY <1>2 DEF Journal
  <2>3. k \in Maybe(Key)
    BY <2>1, JobFields DEF Base, StoreTypeOK, Appending, Maybe
  <2>4. journal' = [journal EXCEPT !.recs = Append(journal.recs, k)]
    BY <1>2, <2>1 DEF AppendRecord
  <2> HIDE DEF k
  <2>5. /\ journal'.fp = journal.fp /\ journal'.rows = journal.rows
        /\ journal'.recs = Append(journal.recs, k)
    BY <1>2, <2>4 DEF Journal
  <2>6. Append(journal.recs, k) \in Seq(Maybe(Key)) /\ Len(Append(journal.recs, k)) = Len(journal.recs) + 1
    BY <2>2, <2>3, AppendProperties
  <2>7. journal' \in Journal
    BY <1>2, <2>4, <2>6 DEF Journal
  <2>8. Len(journal.rows) \in Nat /\ Len(journal.recs) \in Nat
    BY <1>2 DEF Journal
  <2>9. JournalExact'
    BY <1>1 DEF Base
  <2>10. QED
    BY <1>2, <1>17, <2>5, <2>6, <2>7, <2>8, <2>9, StoreAssumption, DurableGrows
<1>11. CASE Stop
  <2>1. /\ journal' \in Journal /\ journal'.fp = journal.fp /\ journal'.rows = journal.rows
        /\ journal'.recs = journal.recs
    BY <1>3, <1>11, Stopping
  <2>2. Len(journal.rows) \in Nat /\ Len(journal.recs) \in Nat
    BY <1>2 DEF Journal
  <2>3. QED
    BY <1>1, <1>2, <1>17, <2>1, <2>2, StoreAssumption, DurableGrows DEF Base
<1>12. CASE ClearJournal
  BY <1>12 DEF ClearJournal
<1>13. CASE BuildGraph \/ Stage \/ Commit
  BY <1>3, <1>13 DEF BuildGraph, Stage, Commit
<1>14. CASE Edit \/ SwitchModel \/ QueryOpen \/ QueryVectors \/ Capture
  BY <1>3, <1>14 DEF Edit, SwitchModel, QueryOpen, QueryVectors, Capture
<1>15. CASE UNCHANGED store
  BY <1>3, <1>15 DEF store
<1>16. QED
  BY <1>6, <1>7, <1>8, <1>9, <1>10, <1>11, <1>12, <1>13, <1>14, <1>15,
     StoreSteps DEF Starts, EngineSteps

\* A torn tail, a death or a resume never costs a row that was durable: the journal
\* gives rows up only after a save, for other symbols, with a store the extension
\* wiped, or for a record torn within a character (resume.rs:3-29, 225).
THEOREM DurableRowsStay == Spec => DurableRowsSurvive
<1>1. Base /\ [Next]_vars
        => [Durable(journal') < Durable(journal)
              => \/ pc = "clear"
                 \/ pc' # "idle" /\ journal.fp # Fingerprint(job'.keys, job'.by)
                 \/ wiped'
                 \/ journal' # Nothing /\ Unreadable(journal')]_vars
  BY DurableStep
<1>2. QED
  BY <1>1, BaseInvariance, PTL DEF Spec, DurableRowsSurvive
-------------------------------------------------------------------------------
(***************************************************************************)
(* Fresh means the same                                                    *)
(***************************************************************************)
Fresh ==
    /\ Base
    /\ OldIsThere
    /\ OneChunkEach
    /\ EpochsGrow
    /\ CaptureIsPast

\* A step that leaves chunks, epochs and facts alone, and what the job will save.
LEMMA FreshAside ==
    ASSUME Fresh, Base',
           files'.chunks = files.chunks, files'.meta = files.meta,
           capture' = capture, rebased' = rebased,
           \/ pc' = "idle"
           \/ pc' = pc /\ job' = job
           \/ pc = "stage" /\ pc' = "commit" /\ job' = job
           \/ /\ pc \in {"open", "embed", "record"} /\ pc' \in {"embed", "record", "graph"}
              /\ job'.kept = job.kept /\ job'.keys = job.keys /\ job'.old = job.old
    PROVE  Fresh'
<1>1. OldIsThere'
  <2>1. SUFFICES ASSUME pc' \notin {"idle", "commit", "clear"}, job'.old # Nothing
                 PROVE  files' \in Store /\ job'.old.chunks = files'.chunks /\ job'.old.meta = files'.meta
    BY DEF OldIsThere
  <2>3. pc \notin {"idle", "commit", "clear"} /\ job'.old = job.old
    BY <2>1
  <2>4. files \in Store /\ job.old.chunks = files.chunks /\ job.old.meta = files.meta
    BY <2>1, <2>3 DEF Fresh, OldIsThere
  <2>5. files'.meta # Nothing
    BY <2>4, StoreAssumption DEF Store
  <2>6. files' \in Store
    BY <2>5 DEF Base, StoreTypeOK
  <2>7. QED
    BY <2>3, <2>4, <2>6
<1>2. OneChunkEach'
  BY DEF Fresh, OneChunkEach, Stored, Single
<1>3. EpochsGrow'
  <2>1. SUFFICES ASSUME pc' \in {"stage", "commit"}, ~job'.anew
                 PROVE  /\ files'.meta # Nothing
                        /\ files'.meta.epoch <= job'.next.meta.epoch
                        /\ ~Renaming' => Inherits(job'.next.chunks, files')
    BY DEF EpochsGrow
  <2>2. job' = job /\ pc \in {"stage", "commit"} /\ (pc = "commit" => pc' = "commit")
    BY <2>1
  <2>3. /\ files.meta # Nothing /\ files.meta.epoch <= job.next.meta.epoch
        /\ ~Renaming => Inherits(job.next.chunks, files)
    BY <2>1, <2>2 DEF Fresh, EpochsGrow
  <2>4. ~Renaming' => ~Renaming
    BY <2>2 DEF Renaming
  <2>5. QED
    BY <2>2, <2>3, <2>4 DEF Inherits
<1>4. CaptureIsPast'
  BY DEF Fresh, CaptureIsPast, Stored, SameIn
<1>5. QED
  BY <1>1, <1>2, <1>3, <1>4 DEF Fresh

LEMMA StartsFresh == ASSUME Fresh, Starts PROVE Fresh'
<1>1. Base' /\ StoreTypeOK /\ JournalExact
  BY StartsBase DEF Fresh, Base
<1>2. /\ pc' \in {"graph", "open", "embed"}
      /\ capture' = capture /\ rebased' = rebased /\ tree \in Manifest
      /\ \/ job'.old = Nothing /\ job'.kept = <<>> /\ job'.keys = Keys(Present(tree), tree)
         \/ /\ Loaded # Nothing /\ HealOnDisk
            /\ job'.old = Loaded /\ job'.kept = Kept(Loaded)
            /\ job'.keys = Keys(Changed(Loaded), tree)
      /\ \/ files'.chunks = files.chunks /\ files'.meta = files.meta
         \/ files' = NoFiles
  BY <1>1, Starting, Healed DEF environment, disk, StoreTypeOK, Trees
<1>3. OldIsThere'
  <2>1. SUFFICES ASSUME job'.old # Nothing
                 PROVE  files' \in Store /\ job'.old.chunks = files'.chunks /\ job'.old.meta = files'.meta
    BY DEF OldIsThere
  <2>2. Loaded # Nothing /\ HealOnDisk /\ job'.old = Loaded
    BY <1>2, <2>1
  <2>3. files \in Store /\ Loaded.chunks = files.chunks /\ Loaded.meta = files.meta
    BY <1>1, <2>2, LoadedStore
  <2>4. files.meta # Nothing
    BY <2>3, StoreAssumption DEF Store
  <2>5. QED
    BY <1>1, <2>2, <2>3, <2>4, Healed
<1>4. /\ \A i, j \in DOMAIN job'.kept : job'.kept[i].chunk.file = job'.kept[j].chunk.file => i = j
      /\ Single(job'.keys)
      /\ \A i \in DOMAIN job'.kept, j \in DOMAIN job'.keys : job'.kept[i].chunk.file # job'.keys[j].file
  <2>1. CASE job'.kept = <<>> /\ job'.keys = Keys(Present(tree), tree)
    <3>1. Single(Keys(Present(tree), tree))
      BY <1>2, ListedOnce, Enumerated DEF Present
    <3>2. QED
      BY <2>1, <3>1
  <2>2. CASE /\ Loaded # Nothing /\ job'.kept = Kept(Loaded) /\ job'.keys = Keys(Changed(Loaded), tree)
    <3>1. Loaded \in Store /\ Loadable(Loaded)
      BY <1>1, <2>2, LoadedStore DEF Loadable
    <3>2. /\ \A n \in DOMAIN Kept(Loaded) : Unchanged(Loaded, Kept(Loaded)[n].chunk.file)
          /\ \A n, k \in DOMAIN Kept(Loaded) :
                Kept(Loaded)[n].chunk.file = Kept(Loaded)[k].chunk.file => n = k
      BY <1>1, <3>1, KeptChunks
    <3>3. /\ Single(Keys(Changed(Loaded), tree))
          /\ \A i \in DOMAIN Keys(Changed(Loaded), tree) :
                ~Unchanged(Loaded, Keys(Changed(Loaded), tree)[i].file)
      <4> DEFINE S == {f \in Files : tree[f] # 0 /\ ~Unchanged(Loaded, f)}
      <4>1. Changed(Loaded) = SetToSeq(S)
        BY DEF Changed
      <4>2. /\ Single(Keys(SetToSeq(S), tree))
            /\ \A i \in DOMAIN Keys(SetToSeq(S), tree) : Keys(SetToSeq(S), tree)[i].file \in S
        <5>1. S \subseteq Files
          OBVIOUS
        <5> HIDE DEF S
        <5>2. QED
          BY <5>1, ListedOnce, Enumerated
      <4>3. QED
        BY <4>1, <4>2
    <3>4. QED
      BY <2>2, <3>2, <3>3
  <2>3. QED
    BY <1>2, <2>1, <2>2
<1>5. OneChunkEach'
  <2>1. Stored' => Single(files'.chunks)
    BY <1>2 DEF Fresh, OneChunkEach, Stored, NoFiles
  <2>2. QED
    BY <1>2, <1>4, <2>1 DEF OneChunkEach
<1>6. EpochsGrow'
  BY <1>2 DEF EpochsGrow
<1>7. CaptureIsPast'
  BY <1>2 DEF Fresh, CaptureIsPast, Stored, SameIn, NoFiles
<1>8. QED
  BY <1>1, <1>3, <1>5, <1>6, <1>7 DEF Fresh

\* The new chunks: no file twice, and the epochs go on from those of the store before.
LEMMA BuildGraphFresh == ASSUME Fresh, BuildGraph PROVE Fresh'
<1>1. Base /\ StoreTypeOK /\ Base'
  BY BuildGraphBase DEF Fresh, Base
<1> DEFINE s == NextStore(Previous, job.old)
<1>2. /\ pc = "graph" /\ pc' = "stage" /\ job \in Job /\ Len(job.rows) = Len(job.keys)
      /\ capture' = capture /\ rebased' = rebased
      /\ Previous \in Maybe(Store)
      /\ job'.next = s /\ s \in Store /\ job'.anew = (Previous = Nothing)
      /\ job'.keys = job.keys /\ job'.kept = job.kept /\ job'.old = job.old
      /\ IF job.old = Nothing THEN HealOnDisk ELSE UNCHANGED disk
  BY <1>1, Building DEF environment, history
<1>3. /\ files'.chunks = files.chunks /\ files'.meta = files.meta
      /\ files.meta # Nothing => files' \in Store
  BY <1>1, <1>2, Healed DEF disk, StoreTypeOK
<1>4. Previous # Nothing =>
         files \in Store /\ Previous \in Store
         /\ Previous.chunks = files.chunks /\ Previous.meta = files.meta
  <2>1. SUFFICES ASSUME Previous # Nothing
                 PROVE  files \in Store /\ Previous \in Store
                        /\ Previous.chunks = files.chunks /\ Previous.meta = files.meta
    OBVIOUS
  <2>2. CASE job.old = Nothing
    BY <1>1, <2>1, <2>2, LoadedStore DEF Previous
  <2>3. CASE job.old # Nothing
    BY <1>2, <2>3 DEF Previous, Fresh, OldIsThere, Maybe
  <2>4. QED
    BY <2>2, <2>3
<1>5. /\ Len(s.chunks) = Len(job.kept) + Len(job.keys) /\ DOMAIN s.chunks = 1..Len(s.chunks)
      /\ \A n \in DOMAIN s.chunks : /\ ChunkKey(s.chunks[n]) = NextKey(n)
                                    /\ s.chunks[n].epoch = ChunkEpoch(Previous, NextKey(n))
      /\ s.meta.epoch = StoreEpoch(Previous, ChunkKeys(s.chunks))
  <2>1. DOMAIN s.chunks = 1..Len(s.chunks)
    BY <1>2 DEF Store
  <2>2. QED
    BY <1>2, <2>1, JobFields, MadeStore
<1> HIDE DEF s
<1>6. OldIsThere'
  <2>1. SUFFICES ASSUME job.old # Nothing
                 PROVE  files' \in Store /\ job.old.chunks = files'.chunks /\ job.old.meta = files'.meta
    BY <1>2 DEF OldIsThere
  <2>2. job.old.chunks = files.chunks /\ job.old.meta = files.meta
    BY <1>2, <2>1 DEF Fresh, OldIsThere
  <2>3. Previous # Nothing
    BY <2>1 DEF Previous
  <2>4. files.meta # Nothing
    BY <1>4, <2>3, StoreAssumption DEF Store
  <2>5. QED
    BY <1>3, <2>2, <2>4
<1>7. Single(s.chunks)
  <2>1. SUFFICES ASSUME NEW i \in DOMAIN s.chunks, NEW j \in DOMAIN s.chunks,
                        s.chunks[i].file = s.chunks[j].file
                 PROVE  i = j
    BY DEF Single
  <2>2. NextKey(i).file = NextKey(j).file
    <3>1. ChunkKey(s.chunks[i]).file = ChunkKey(s.chunks[j]).file
      BY <2>1 DEF ChunkKey
    <3>2. QED
      BY <1>5, <3>1
  <2> DEFINE K == Len(job.kept)
  <2>3. /\ K \in Nat /\ DOMAIN job.kept = 1..K /\ Len(job.keys) \in Nat
        /\ DOMAIN job.keys = 1..Len(job.keys)
        /\ i \in Nat /\ j \in Nat /\ 1 <= i /\ 1 <= j
        /\ i <= K + Len(job.keys) /\ j <= K + Len(job.keys)
    <3>1. job.kept \in Seq([chunk : Chunk, row : Maybe(Vector)]) /\ job.keys \in Seq(Key)
      BY <1>2, JobFields
    <3>2. K \in Nat /\ DOMAIN job.kept = 1..K /\ Len(job.keys) \in Nat /\ DOMAIN job.keys = 1..Len(job.keys)
      BY <3>1, LenProperties
    <3> HIDE DEF K
    <3>3. Len(s.chunks) = K + Len(job.keys)
      BY <1>5 DEF K
    <3>4. i \in 1..K + Len(job.keys) /\ j \in 1..K + Len(job.keys)
      BY <1>5, <2>1, <3>3
    <3>5. QED
      BY <3>2, <3>4
  <2>4. /\ \A a, b \in DOMAIN job.kept : job.kept[a].chunk.file = job.kept[b].chunk.file => a = b
        /\ \A a, b \in DOMAIN job.keys : job.keys[a].file = job.keys[b].file => a = b
        /\ \A a \in DOMAIN job.kept, b \in DOMAIN job.keys : job.kept[a].chunk.file # job.keys[b].file
    BY <1>2 DEF Fresh, OneChunkEach, Single
  <2>5. \A n \in {i, j} :
           \/ n <= K /\ n \in DOMAIN job.kept /\ NextKey(n).file = job.kept[n].chunk.file
           \/ n > K /\ n - K \in DOMAIN job.keys /\ NextKey(n) = job.keys[n - K]
    <3>1. TAKE n \in {i, j}
    <3>2. CASE n <= K
      <4>1. n \in DOMAIN job.kept
        BY <2>3, <3>2
      <4>2. QED
        BY <3>2, <4>1 DEF NextKey, ChunkKey
    <3>3. CASE n > K
      <4>1. n - K \in DOMAIN job.keys /\ ~(n <= K)
        <5> HIDE DEF K
        <5>1. n \in Nat /\ n <= K + Len(job.keys) /\ K \in Nat /\ Len(job.keys) \in Nat
          BY <2>3
        <5>2. n - K \in 1..Len(job.keys) /\ ~(n <= K)
          BY <3>3, <5>1
        <5>3. QED
          BY <2>3, <5>2
      <4>2. QED
        BY <3>3, <4>1 DEF NextKey
    <3>4. QED
      BY <2>3, <3>2, <3>3
  <2> HIDE DEF K
  <2>6. CASE i <= K /\ j <= K
    BY <2>2, <2>3, <2>4, <2>5, <2>6
  <2>7. CASE i > K /\ j > K
    <3>1. i - K = j - K
      BY <2>2, <2>3, <2>4, <2>5, <2>7
    <3>2. QED
      BY <2>3, <3>1
  <2>8. CASE i <= K /\ j > K
    BY <2>2, <2>3, <2>4, <2>5, <2>8
  <2>9. CASE i > K /\ j <= K
    BY <2>2, <2>3, <2>4, <2>5, <2>9
  <2>10. QED
    BY <2>3, <2>6, <2>7, <2>8, <2>9
<1>8. OneChunkEach'
  BY <1>2, <1>3, <1>7 DEF Fresh, OneChunkEach, Stored
<1>9. EpochsGrow'
  <2>1. SUFFICES ASSUME Previous # Nothing
                 PROVE  /\ files.meta # Nothing /\ files.meta.epoch <= s.meta.epoch
                        /\ Inherits(s.chunks, files)
    BY <1>2, <1>3 DEF EpochsGrow, Inherits
  <2>2. files.meta # Nothing
    BY <1>4, <2>1, StoreAssumption DEF Store
  <2>3. PreviousEpoch(Previous) = files.meta.epoch /\ files.meta.epoch \in Nat
    BY <1>4, <2>1 DEF PreviousEpoch, Store, Meta
  <2>4. files.meta.epoch <= s.meta.epoch
    BY <1>2, <1>5, <2>3, StoreEpochGrows
  <2>5. ASSUME NEW i \in DOMAIN s.chunks
        PROVE  s.chunks[i].epoch > files.meta.epoch \/ \E j \in DOMAIN files.chunks : s.chunks[i] = files.chunks[j]
    <3> DEFINE k == NextKey(i)
    <3>1. ChunkKey(s.chunks[i]) = k /\ s.chunks[i].epoch = ChunkEpoch(Previous, k)
      BY <1>5
    <3>5. s.chunks[i] \in Chunk
      BY <1>2 DEF Store
    <3> HIDE DEF k
    <3>2. CASE SameContent(Previous, k) = {}
      BY <1>2, <2>3, <3>1, <3>2, EpochTypes
    <3>3. CASE SameContent(Previous, k) # {}
      <4>1. PICK j \in DOMAIN Previous.chunks :
               ChunkKey(Previous.chunks[j]) = k /\ ChunkEpoch(Previous, k) = Previous.chunks[j].epoch
        BY <1>2, <3>3, EpochTypes
      <4>2. Previous.chunks[j] \in Chunk
        BY <1>4, <2>1 DEF Store
      <4>3. s.chunks[i] = Previous.chunks[j]
        BY <3>1, <3>5, <4>1, <4>2 DEF Chunk, ChunkKey
      <4>4. QED
        BY <1>4, <2>1, <4>3
    <3>4. QED
      BY <3>2, <3>3
  <2>6. QED
    BY <2>2, <2>4, <2>5 DEF Inherits
<1>10. CaptureIsPast'
  BY <1>2, <1>3 DEF Fresh, CaptureIsPast, Stored, SameIn
<1>11. QED
  BY <1>1, <1>6, <1>8, <1>9, <1>10 DEF Fresh

\* A fact outlives a commit: what the new chunks say of its symbol is newer or the same.
LEMMA CommitFresh == ASSUME Fresh, Commit PROVE Fresh'
<1>1. Base' /\ StoreTypeOK /\ Renamed
  BY CommitBase DEF Fresh, Base
<1>2. pc = "commit" /\ job \in Job /\ job.next \in Store /\ capture' = capture /\ job.step \in 1..6
  BY <1>1, Committing DEF environment, Renamed
<1>3. CASE UNCHANGED disk /\ Die
  BY <1>1, <1>2, <1>3, FreshAside DEF disk, Die
<1>4. CASE /\ files'.chunks = IF job.step = 1 THEN job.next.chunks ELSE files.chunks
           /\ files'.meta = IF job.step = 6 THEN job.next.meta ELSE files.meta
           /\ job'.step = job.step + 1
           /\ job'.keys = job.keys /\ job'.kept = job.kept /\ job'.old = job.old
           /\ job'.next = job.next /\ job'.anew = job.anew
           /\ pc' = IF job.step = 6 THEN "clear" ELSE "commit"
           /\ rebased' = (rebased \/ (job.anew /\ capture # Nothing))
  <2>1. OldIsThere'
    BY <1>4 DEF OldIsThere
  <2>2. Single(job.next.chunks) /\ (job.step > 1 => files.chunks = job.next.chunks)
    BY <1>1, <1>2 DEF Fresh, OneChunkEach, Renamed
  <2>3. Single(files'.chunks)
    BY <1>2, <1>4, <2>2
  <2>4. OneChunkEach'
    BY <1>2, <1>4, <2>3 DEF Fresh, OneChunkEach
  <2>5. EpochsGrow'
    <3>1. pc' = "commit" => Renaming'
      BY <1>2, <1>4 DEF Renaming
    <3>2. QED
      BY <1>2, <1>4, <3>1 DEF Fresh, EpochsGrow
  <2>6. CaptureIsPast'
    <3>1. SUFFICES ASSUME capture # Nothing, ~rebased'
                   PROVE  /\ files'.meta # Nothing /\ capture.epoch <= files'.meta.epoch
                          /\ SameIn(files'.chunks)
      BY <1>2 DEF CaptureIsPast, SameIn
    <3>2. ~rebased /\ ~job.anew
      BY <1>4, <3>1
    <3>3. files.meta # Nothing /\ files \in Store /\ files.meta.epoch <= job.next.meta.epoch
          /\ (job.step = 1 => Inherits(job.next.chunks, files))
      BY <1>1, <1>2, <3>2 DEF Fresh, EpochsGrow, Renaming, StoreTypeOK
    <3>4. capture.epoch <= files.meta.epoch /\ SameIn(files.chunks) /\ capture \in Chunk
      BY <1>1, <3>1, <3>2, <3>3 DEF Fresh, CaptureIsPast, Stored, StoreTypeOK, Maybe
    <3>5. capture.epoch \in Nat /\ files.meta.epoch \in Nat /\ job.next.meta.epoch \in Nat
      BY <1>2, <3>3, <3>4 DEF Chunk, Store, Meta
    <3>6. files'.meta # Nothing /\ capture.epoch <= files'.meta.epoch
      <4>1. job.next.meta \in Meta /\ job.next.meta # Nothing
        BY <1>2, StoreAssumption DEF Store
      <4>2. capture.epoch <= job.next.meta.epoch
        BY <3>3, <3>4, <3>5
      <4>3. CASE job.step = 6
        BY <1>4, <4>1, <4>2, <4>3
      <4>4. CASE job.step # 6
        BY <1>4, <3>3, <3>4, <4>4
      <4>5. QED
        BY <4>3, <4>4
    <3>7. CASE job.step # 1
      BY <1>4, <3>4, <3>6, <3>7
    <3>8. CASE job.step = 1
      <4>1. SUFFICES ASSUME NEW i \in DOMAIN job.next.chunks,
                            job.next.chunks[i].file = capture.file,
                            job.next.chunks[i].epoch <= capture.epoch
                     PROVE  job.next.chunks[i].ver = capture.ver
        BY <1>4, <3>6, <3>8 DEF SameIn
      <4>2. job.next.chunks[i] \in Chunk
        BY <1>2 DEF Store
      <4>3. job.next.chunks[i].epoch \in Nat
        BY <4>2 DEF Chunk
      <4>4. \E j \in DOMAIN files.chunks : job.next.chunks[i] = files.chunks[j]
        BY <3>3, <3>4, <3>5, <3>8, <4>1, <4>3 DEF Inherits
      <4>5. QED
        BY <3>4, <4>1, <4>4 DEF SameIn
    <3>9. QED
      BY <3>7, <3>8
  <2>7. QED
    BY <1>1, <2>1, <2>4, <2>5, <2>6 DEF Fresh
<1>5. QED
  BY <1>1, <1>3, <1>4, Committing

\* A fact is stamped with the epoch of a store that has one chunk of its symbol.
LEMMA CaptureFresh == ASSUME Fresh, Capture PROVE Fresh'
<1>1. Base' /\ StoreTypeOK
  BY CaptureBase DEF Fresh, Base
<1>2. UNCHANGED <<files, pc, job>> /\ ~Absent
  BY DEF Capture, disk
<1>3. files \in Store /\ Stored
  BY <1>1, <1>2 DEF StoreTypeOK, Absent, Stored
<1>4. PICK i \in DOMAIN files.chunks : capture' = [files.chunks[i] EXCEPT !.epoch = files.meta.epoch]
  BY DEF Capture
<1>5. capture'.file = files.chunks[i].file /\ capture'.ver = files.chunks[i].ver
      /\ capture'.epoch = files.meta.epoch /\ files.meta.epoch \in Nat
  <2>1. files.chunks[i] \in Chunk /\ files.meta.epoch \in Nat
    BY <1>3 DEF Store, Meta
  <2>2. QED
    BY <1>4, <2>1 DEF Chunk
<1>6. Single(files.chunks)
  BY <1>3 DEF Fresh, OneChunkEach
<1>7. CaptureIsPast'
  BY <1>2, <1>3, <1>5, <1>6 DEF CaptureIsPast, SameIn, Single, Absent
<1>8. OldIsThere' /\ OneChunkEach' /\ EpochsGrow'
  BY <1>2 DEF Fresh, OldIsThere, OneChunkEach, EpochsGrow, Stored, Single, Renaming, Inherits
<1>9. QED
  BY <1>1, <1>7, <1>8 DEF Fresh

LEMMA NextFresh == ASSUME Fresh, [Next]_vars PROVE Fresh'
<1>1. Base' /\ Base /\ StoreTypeOK
  BY NextBase DEF Fresh, Base
<1>2. CASE Starts
  BY <1>2, StartsFresh
<1>3. CASE OpenJournal \/ AppendVector \/ Stage \/ ClearJournal
  BY <1>1, <1>3, FreshAside DEF OpenJournal, AppendVector, Stage, ClearJournal, disk, environment, history
<1>4. CASE AppendChunkRecord
  <2>1. pc = "record" /\ job \in Job
    BY <1>1, <1>4 DEF AppendChunkRecord, StoreTypeOK
  <2>2. job'.kept = job.kept /\ job'.keys = job.keys /\ job'.old = job.old
    BY <1>4, <2>1 DEF AppendChunkRecord, Job
  <2>3. pc' \in {"graph", "embed"} /\ UNCHANGED <<files, capture, rebased>>
    BY <1>4 DEF AppendChunkRecord, disk, environment, history
  <2>4. QED
    BY <1>1, <2>1, <2>2, <2>3, FreshAside
<1>5. CASE BuildGraph
  BY <1>5, BuildGraphFresh
<1>6. CASE Commit
  BY <1>6, CommitFresh
<1>7. CASE Stop
  BY <1>1, <1>7, Stopping, FreshAside DEF Die, environment
<1>8. CASE Edit \/ SwitchModel \/ QueryOpen
  BY <1>1, <1>8, FreshAside DEF Edit, SwitchModel, QueryOpen, disk, history
<1>9. CASE QueryVectors
  BY <1>1, <1>9, Promoting, FreshAside DEF history
<1>10. CASE Capture
  BY <1>10, CaptureFresh
<1>11. CASE UNCHANGED store
  BY <1>1, <1>11, FreshAside DEF store
<1>12. QED
  BY <1>2, <1>3, <1>4, <1>5, <1>6, <1>7, <1>8, <1>9, <1>10, <1>11,
     StoreSteps DEF EngineSteps

\* A chunk that is not stale for a trace by its epoch has the content the index had for
\* its symbol when the trace was stamped, after any edits, deaths and forced or
\* incremental builds, unless the epochs started again under it (store.rs:57-60).
THEOREM FreshFacts == Spec => []FreshMeansSame
<1>1. Init => Fresh
  <2>1. SUFFICES ASSUME Init PROVE Fresh
    OBVIOUS
  <2>2. ~Stored /\ pc = "idle"
    BY <2>1 DEF Init, NoFiles, Stored
  <2>3. QED
    BY <2>1, <2>2, InitBase DEF Fresh, OldIsThere, OneChunkEach, EpochsGrow, CaptureIsPast
<1>2. Fresh /\ [Next]_vars => Fresh'
  BY NextFresh
<1>3. Fresh => FreshMeansSame
  BY DEF Fresh, CaptureIsPast, Stored, SameIn, FreshMeansSame
<1>4. QED
  BY <1>1, <1>2, <1>3, PTL DEF Spec
-------------------------------------------------------------------------------
(***************************************************************************)
(* One generation                                                          *)
(***************************************************************************)
Whole == Base /\ FilesOneGeneration /\ JobOneGeneration

\* A step that moves no file but the vectors, and leaves what the job will save alone.
LEMMA WholeAside ==
    ASSUME Whole, Base', torn' = torn,
           files'.chunks = files.chunks, files'.edges = files.edges, files'.bm25 = files.bm25,
           files'.manifest = files.manifest, files'.meta = files.meta,
           \/ pc # "commit" /\ pc' = "idle"
           \/ pc' = pc /\ job' = job
           \/ pc = "stage" /\ pc' = "commit" /\ job' = job
           \/ /\ pc \in {"open", "embed", "record"} /\ pc' \in {"embed", "record", "graph"}
              /\ job'.kept = job.kept /\ job'.keys = job.keys /\ job'.old = job.old
              /\ job'.seen = job.seen
    PROVE  Whole'
<1>1. FilesOneGeneration'
  <2>1. Renaming => Renaming'
    BY DEF Renaming
  <2>2. QED
    BY <2>1 DEF Whole, FilesOneGeneration, OneGenerationOf
<1>2. JobOneGeneration'
  <2>1. CASE pc' = "idle"
    BY <2>1 DEF JobOneGeneration
  <2>2. CASE pc' # "idle" /\ job' = job
    BY <2>2 DEF Whole, JobOneGeneration
  <2>3. CASE /\ pc \in {"open", "embed", "record"} /\ pc' \in {"embed", "record", "graph"}
             /\ job'.kept = job.kept /\ job'.keys = job.keys /\ job'.old = job.old
             /\ job'.seen = job.seen
    BY <2>3 DEF Whole, JobOneGeneration, JobKeys
  <2>4. QED
    BY <2>1, <2>2, <2>3
<1>3. QED
  BY <1>1, <1>2 DEF Whole

\* The chunks a store of one generation gives to an unchanged tree, and the symbols
\* to embed, are the symbols of the tree.
LEMMA KeptAndChanged ==
    ASSUME StoreTypeOK, NEW s \in Store, Loadable(s), Covered(ChunkKeys(s.chunks), s.manifest)
    PROVE  {ChunkKey(Kept(s)[n].chunk) : n \in DOMAIN Kept(s)} \cup ToSet(Keys(Changed(s), tree))
              = Symbols(tree)
<1> DEFINE K == {ChunkKey(Kept(s)[n].chunk) : n \in DOMAIN Kept(s)}
           C == {f \in Files : tree[f] # 0 /\ ~Unchanged(s, f)}
<1>1. ToSet(Keys(Changed(s), tree)) = {KeyOf(f, tree) : f \in C}
  <2>1. C \in SUBSET Files /\ Changed(s) = SetToSeq(C)
    BY DEF Changed
  <2> HIDE DEF C
  <2>2. QED
    BY <2>1, ListedOnce
<1>2. \A i \in DOMAIN s.chunks : \E f \in Files : s.manifest[f] # 0 /\ ChunkKey(s.chunks[i]) = KeyOf(f, s.manifest)
  <2>1. TAKE i \in DOMAIN s.chunks
  <2>2. s.chunks \in Seq(Chunk)
    BY DEF Store
  <2>3. ChunkKey(s.chunks[i]) \in ToSet(ChunkKeys(s.chunks))
    BY <2>2, ChunkKeysType DEF ToSet
  <2>4. QED
    BY <2>3 DEF Covered, Symbols
<1>3. \A f \in Files : s.manifest[f] # 0 => \E i \in DOMAIN s.chunks : ChunkKey(s.chunks[i]) = KeyOf(f, s.manifest)
  <2>1. TAKE f \in Files
  <2>2. HAVE s.manifest[f] # 0
  <2>3. s.chunks \in Seq(Chunk)
    BY DEF Store
  <2>4. KeyOf(f, s.manifest) \in ToSet(ChunkKeys(s.chunks))
    BY <2>2 DEF Covered, Symbols
  <2>5. QED
    BY <2>3, <2>4, ChunkKeysType DEF ToSet
<1>4. \A n \in DOMAIN Kept(s) :
         LET f == Kept(s)[n].chunk.file
         IN /\ f \in Files /\ tree[f] # 0 /\ Unchanged(s, f)
            /\ ChunkKey(Kept(s)[n].chunk) = KeyOf(f, tree)
  <2>1. TAKE n \in DOMAIN Kept(s)
  <2> DEFINE f == Kept(s)[n].chunk.file
  <2>2. /\ f \in Files /\ tree[f] # 0 /\ Unchanged(s, f)
        /\ \E i \in ChunksOf(s, f) : Kept(s)[n].chunk = s.chunks[i]
    BY KeptChunks
  <2>3. PICK i \in DOMAIN s.chunks : Kept(s)[n].chunk = s.chunks[i]
    BY <2>2 DEF ChunksOf
  <2>4. PICK g \in Files : ChunkKey(Kept(s)[n].chunk) = KeyOf(g, s.manifest)
    BY <1>2, <2>3
  <2>5. g = f
    BY <2>4 DEF ChunkKey, KeyOf
  <2>6. s.manifest[f] = tree[f]
    BY <2>2 DEF Unchanged
  <2>7. QED
    BY <2>2, <2>4, <2>5, <2>6 DEF KeyOf
<1>5. \A f \in Files : (tree[f] # 0 /\ Unchanged(s, f)) => KeyOf(f, tree) \in K
  <2>1. TAKE f \in Files
  <2>2. HAVE tree[f] # 0 /\ Unchanged(s, f)
  <2>3. s.manifest[f] = tree[f]
    BY <2>2 DEF Unchanged
  <2>4. PICK i \in DOMAIN s.chunks : ChunkKey(s.chunks[i]) = KeyOf(f, s.manifest)
    BY <1>3, <2>2, <2>3
  <2>5. i \in ChunksOf(s, f)
    BY <2>4 DEF ChunkKey, KeyOf, ChunksOf
  <2>6. PICK n \in DOMAIN Kept(s) : Kept(s)[n].chunk.file = f
    BY <2>2, <2>5, KeptChunks
  <2>7. QED
    BY <1>4, <2>6
<1>6. \A k \in K : k \in Symbols(tree)
  BY <1>4 DEF Symbols
<1>7. \A f \in Files : tree[f] # 0 => KeyOf(f, tree) \in K \cup {KeyOf(g, tree) : g \in C}
  BY <1>5
<1>8. {KeyOf(g, tree) : g \in C} \subseteq Symbols(tree)
  BY DEF Symbols
<1> HIDE DEF K, C
<1>9. K \cup {KeyOf(g, tree) : g \in C} = Symbols(tree)
  BY <1>6, <1>7, <1>8 DEF Symbols
<1>10. QED
  BY <1>1, <1>9 DEF K

LEMMA StartsWhole == ASSUME Whole, Starts PROVE Whole'
<1>1. Base' /\ StoreTypeOK /\ JournalExact
  BY StartsBase DEF Whole, Base
<1>2. /\ pc = "idle" /\ pc' \in {"graph", "open", "embed"} /\ torn' = torn /\ job'.seen = tree
      /\ tree \in Manifest
      /\ \/ job'.old = Nothing /\ job'.kept = <<>> /\ job'.keys = Keys(Present(tree), tree)
         \/ /\ Loaded # Nothing
            /\ job'.old = Loaded /\ job'.kept = Kept(Loaded)
            /\ job'.keys = Keys(Changed(Loaded), tree)
      /\ \/ /\ files'.chunks = files.chunks /\ files'.edges = files.edges /\ files'.bm25 = files.bm25
            /\ files'.manifest = files.manifest /\ files'.meta = files.meta
         \/ files' = NoFiles
  BY <1>1, Starting, Healed DEF disk, StoreTypeOK, Trees
<1>3. FilesOneGeneration'
  BY <1>2 DEF Whole, FilesOneGeneration, OneGenerationOf, Renaming, NoFiles
<1>4. ASSUME Loaded # Nothing, torn = "no"
      PROVE  /\ Loaded \in Store /\ Loadable(Loaded)
             /\ Loaded.bm25 \in {Nothing, ChunkKeys(Loaded.chunks)}
             /\ Covered(ChunkKeys(Loaded.chunks), Loaded.manifest)
  <2>1. /\ files \in Store /\ Loaded \in Store /\ Loadable(Loaded)
        /\ Loaded.chunks = files.chunks /\ Loaded.manifest = files.manifest
        /\ (Loaded = files \/ Loaded.bm25 = Nothing)
    BY <1>1, <1>4, LoadedStore DEF Loadable
  <2>2. files.meta # Nothing
    BY <2>1, StoreAssumption DEF Store
  <2>3. OneGenerationOf(files)
    BY <1>2, <1>4, <2>2 DEF Whole, FilesOneGeneration, Renaming
  <2>4. QED
    BY <2>1, <2>3 DEF OneGenerationOf
<1>5. (torn = "no" /\ job'.old # Nothing) => job'.old.bm25 \in {Nothing, ChunkKeys(job'.old.chunks)}
  BY <1>2, <1>4
<1>6. (torn = "no" \/ job'.old = Nothing) => JobKeys(job') = Symbols(tree)
  <2>1. CASE job'.old = Nothing /\ job'.kept = <<>> /\ job'.keys = Keys(Present(tree), tree)
    <3>1. ToSet(Keys(Present(tree), tree)) = Symbols(tree)
      BY ListedOnce DEF Present, Symbols
    <3>2. QED
      BY <2>1, <3>1 DEF JobKeys
  <2>2. CASE /\ Loaded # Nothing
             /\ job'.old = Loaded /\ job'.kept = Kept(Loaded)
             /\ job'.keys = Keys(Changed(Loaded), tree)
    <3>1. SUFFICES ASSUME torn = "no" PROVE JobKeys(job') = Symbols(tree)
      BY <1>1, <2>2, LoadedStore, StoreAssumption
    <3>2. QED
      BY <1>1, <1>4, <2>2, <3>1, KeptAndChanged DEF JobKeys
  <2>3. QED
    BY <1>2, <2>1, <2>2
<1>7. JobOneGeneration'
  BY <1>2, <1>5, <1>6 DEF JobOneGeneration
<1>8. QED
  BY <1>1, <1>3, <1>7 DEF Whole

\* The store a build makes is one generation, unless it goes on from a torn one.
LEMMA BuildGraphWhole == ASSUME Whole, BuildGraph PROVE Whole'
<1>1. Base /\ StoreTypeOK /\ Base'
  BY BuildGraphBase DEF Whole, Base
<1> DEFINE s == NextStore(Previous, job.old)
<1>2. /\ pc = "graph" /\ pc' = "stage" /\ job \in Job /\ Len(job.rows) = Len(job.keys)
      /\ torn' = torn
      /\ Previous \in Maybe(Store)
      /\ job'.next = s /\ s \in Store
      /\ job'.keys = job.keys /\ job'.kept = job.kept /\ job'.old = job.old /\ job'.seen = job.seen
      /\ IF job.old = Nothing THEN HealOnDisk ELSE UNCHANGED disk
  BY <1>1, Building DEF history
<1>3. /\ files'.chunks = files.chunks /\ files'.edges = files.edges /\ files'.bm25 = files.bm25
      /\ files'.manifest = files.manifest /\ files'.meta = files.meta
  BY <1>1, <1>2, Healed DEF disk
<1>4. FilesOneGeneration'
  BY <1>2, <1>3 DEF Whole, FilesOneGeneration, OneGenerationOf, Renaming
<1> DEFINE ks == ChunkKeys(s.chunks)
<1>5. /\ Len(s.chunks) = Len(job.kept) + Len(job.keys)
      /\ \A n \in DOMAIN s.chunks : ChunkKey(s.chunks[n]) = NextKey(n)
      /\ s.edges = ks /\ s.manifest = job.seen /\ s.bm25 = LexicalIndex(job.old, ks)
  BY <1>2, JobFields, MadeStore
<1>6. /\ s.chunks \in Seq(Chunk) /\ ks \in Seq(Key) /\ DOMAIN ks = DOMAIN s.chunks
      /\ \A n \in DOMAIN s.chunks : ks[n] = ChunkKey(s.chunks[n])
  BY <1>2, ChunkKeysType DEF Store
<1> HIDE DEF s, ks
<1>7. ToSet(ks) = JobKeys(job)
  <2> DEFINE K == Len(job.kept)
  <2>1. /\ K \in Nat /\ DOMAIN job.kept = 1..K /\ Len(job.keys) \in Nat
        /\ DOMAIN job.keys = 1..Len(job.keys)
    <3>1. job.kept \in Seq([chunk : Chunk, row : Maybe(Vector)]) /\ job.keys \in Seq(Key)
      BY <1>2, JobFields
    <3>2. QED
      BY <3>1, LenProperties
  <2>2. DOMAIN ks = 1..K + Len(job.keys) /\ \A n \in DOMAIN ks : ks[n] = NextKey(n)
    BY <1>5, <1>6, LenProperties
  <2>3. \A n \in DOMAIN job.kept : n \in DOMAIN ks /\ NextKey(n) = ChunkKey(job.kept[n].chunk)
    <3>1. TAKE n \in DOMAIN job.kept
    <3>2. n \in Nat /\ 1 <= n /\ n <= K
      BY <2>1
    <3>3. NextKey(n) = ChunkKey(job.kept[n].chunk)
      BY <3>2 DEF NextKey
    <3> HIDE DEF K
    <3>4. n \in 1..K + Len(job.keys)
      BY <2>1, <3>2
    <3>5. QED
      BY <2>2, <3>3, <3>4
  <2>4. \A m \in DOMAIN job.keys : K + m \in DOMAIN ks /\ NextKey(K + m) = job.keys[m]
    <3>1. TAKE m \in DOMAIN job.keys
    <3>2. m \in Nat /\ 1 <= m /\ m <= Len(job.keys)
      BY <2>1
    <3>3. ~(K + m <= K) /\ (K + m) - K = m /\ K + m \in 1..K + Len(job.keys)
      <4> HIDE DEF K
      <4>1. QED
        BY <2>1, <3>2
    <3>4. NextKey(K + m) = job.keys[m]
      BY <3>3 DEF NextKey
    <3>5. QED
      BY <2>2, <3>3, <3>4
  <2>5. \A n \in DOMAIN ks :
           \/ n \in DOMAIN job.kept
           \/ n - K \in DOMAIN job.keys /\ NextKey(n) = job.keys[n - K]
    <3>1. TAKE n \in DOMAIN ks
    <3>2. n \in DOMAIN job.kept \/ (~(n <= K) /\ n - K \in DOMAIN job.keys)
      <4> HIDE DEF K
      <4>1. QED
        BY <2>1, <2>2
    <3>3. QED
      BY <3>2 DEF NextKey
  <2> HIDE DEF K
  <2>6. ToSet(ks) \subseteq JobKeys(job)
    BY <2>2, <2>3, <2>5 DEF ToSet, JobKeys
  <2>7. \A n \in DOMAIN job.kept : ChunkKey(job.kept[n].chunk) \in ToSet(ks)
    BY <2>2, <2>3 DEF ToSet
  <2>8. \A m \in DOMAIN job.keys : job.keys[m] \in ToSet(ks)
    BY <2>2, <2>4 DEF ToSet
  <2>9. QED
    BY <2>6, <2>7, <2>8 DEF ToSet, JobKeys
<1>8. (torn = "no" /\ job.old # Nothing) => job.old.bm25 \in {Nothing, ChunkKeys(job.old.chunks)}
  BY <1>2 DEF Whole, JobOneGeneration
<1>9. (torn = "no" \/ job.old = Nothing) => JobKeys(job) = Symbols(job.seen)
  BY <1>2 DEF Whole, JobOneGeneration
<1>10. (torn = "no" \/ job.old = Nothing) => s.bm25 = ks
  <2>1. job.old \in Maybe(Store)
    BY <1>2, JobFields
  <2>2. QED
    BY <1>5, <1>6, <1>8, <2>1, LexicalType
<1>11. (torn = "no" \/ job.old = Nothing) => OneGenerationOf(s)
  BY <1>5, <1>7, <1>9, <1>10 DEF OneGenerationOf, Covered, Symbols, ks
<1>12. JobOneGeneration'
  BY <1>2, <1>8, <1>9, <1>11 DEF JobOneGeneration, JobKeys
<1>13. QED
  BY <1>1, <1>4, <1>12 DEF Whole

\* A job that ends before a commit is over, on a store that exists, leaves it torn.
LEMMA TornByDeath ==
    ASSUME Base, Die, files.meta # Nothing, torn' = "no"
    PROVE  torn = "no" /\ ~Renaming
  BY DEF Die, Tear, Absent, Renaming

LEMMA CommitWhole == ASSUME Whole, Commit PROVE Whole'
<1>1. Base /\ Base' /\ StoreTypeOK /\ Renamed
  BY CommitBase DEF Whole, Base
<1>2. pc = "commit" /\ job \in Job /\ job.next \in Store /\ job.step \in 1..6
  BY <1>1, Committing DEF Renamed
<1>3. CASE UNCHANGED disk /\ Die
  <2>1. FilesOneGeneration'
    BY <1>1, <1>3, TornByDeath DEF Whole, FilesOneGeneration, disk
  <2>2. JobOneGeneration'
    BY <1>3 DEF Die, JobOneGeneration
  <2>3. QED
    BY <1>1, <2>1, <2>2 DEF Whole
<1>4. CASE /\ files'.chunks = IF job.step = 1 THEN job.next.chunks ELSE files.chunks
           /\ files'.edges = IF job.step = 3 THEN job.next.edges ELSE files.edges
           /\ files'.manifest = IF job.step = 4 THEN job.next.manifest ELSE files.manifest
           /\ files'.bm25 = IF job.step = 5 THEN job.next.bm25 ELSE files.bm25
           /\ job'.step = job.step + 1
           /\ job'.keys = job.keys /\ job'.kept = job.kept /\ job'.old = job.old
           /\ job'.seen = job.seen /\ job'.next = job.next
           /\ pc' = IF job.step = 6 THEN "clear" ELSE "commit"
           /\ torn' = IF job.step = 6 /\ job.old = Nothing THEN "no" ELSE torn
  <2>1. torn' = "no" => torn = "no" \/ job.old = Nothing
    BY <1>4
  <2>2. FilesOneGeneration'
    <3>1. CASE job.step = 6
      <4>1. /\ files'.chunks = job.next.chunks /\ files'.edges = job.next.edges
            /\ files'.bm25 = job.next.bm25 /\ files'.manifest = job.next.manifest
        BY <1>1, <1>2, <1>4, <3>1 DEF Renamed
      <4>2. torn' = "no" => OneGenerationOf(job.next)
        BY <1>2, <2>1 DEF Whole, JobOneGeneration
      <4>3. QED
        BY <4>1, <4>2 DEF FilesOneGeneration, OneGenerationOf
    <3>2. CASE job.step # 6
      BY <1>2, <1>4, <3>2 DEF FilesOneGeneration, Renaming
    <3>3. QED
      BY <3>1, <3>2
  <2>3. JobOneGeneration'
    BY <1>2, <1>4, <2>1 DEF Whole, JobOneGeneration, JobKeys
  <2>4. QED
    BY <1>1, <2>2, <2>3 DEF Whole
<1>5. QED
  BY <1>1, <1>3, <1>4, Committing

LEMMA NextWhole == ASSUME Whole, [Next]_vars PROVE Whole'
<1>1. Base' /\ Base /\ StoreTypeOK
  BY NextBase DEF Whole, Base
<1>2. CASE Starts
  BY <1>2, StartsWhole
<1>3. CASE OpenJournal \/ AppendVector \/ Stage \/ ClearJournal
  BY <1>1, <1>3, WholeAside DEF OpenJournal, AppendVector, Stage, ClearJournal, disk, history
<1>4. CASE AppendChunkRecord
  <2>1. pc = "record" /\ job \in Job
    BY <1>1, <1>4 DEF AppendChunkRecord, StoreTypeOK
  <2>2. job'.kept = job.kept /\ job'.keys = job.keys /\ job'.old = job.old /\ job'.seen = job.seen
    BY <1>4, <2>1 DEF AppendChunkRecord, Job
  <2>3. pc' \in {"graph", "embed"} /\ UNCHANGED <<files, torn>>
    BY <1>4 DEF AppendChunkRecord, disk, history
  <2>4. QED
    BY <1>1, <2>1, <2>2, <2>3, WholeAside
<1>5. CASE BuildGraph
  BY <1>5, BuildGraphWhole
<1>6. CASE Commit
  BY <1>6, CommitWhole
<1>7. CASE Stop
  <2>1. UNCHANGED files /\ Die
    BY <1>1, <1>7, Stopping
  <2>2. FilesOneGeneration'
    BY <1>1, <2>1, TornByDeath DEF Whole, FilesOneGeneration
  <2>3. JobOneGeneration'
    BY <2>1 DEF Die, JobOneGeneration
  <2>4. QED
    BY <1>1, <2>2, <2>3 DEF Whole
<1>8. CASE Edit \/ SwitchModel \/ QueryOpen \/ Capture
  BY <1>1, <1>8, WholeAside DEF Edit, SwitchModel, QueryOpen, Capture, disk, history
<1>9. CASE QueryVectors
  BY <1>1, <1>9, Promoting, WholeAside DEF history
<1>10. CASE UNCHANGED store
  BY <1>1, <1>10, WholeAside DEF store
<1>11. QED
  BY <1>2, <1>3, <1>4, <1>5, <1>6, <1>7, <1>8, <1>9, <1>10,
     StoreSteps DEF EngineSteps

\* A store in which no commit was interrupted since its last full build is one
\* generation: its graph, its lexical index and its manifest speak of its chunks
\* (store.rs:282-326, pipeline.rs:489-613).
THEOREM StoreOfOneGeneration == Spec => []OneGeneration
<1>1. Init => Whole
  <2>1. SUFFICES ASSUME Init PROVE Whole
    OBVIOUS
  <2>2. files.meta = Nothing /\ pc = "idle"
    BY <2>1 DEF Init, NoFiles
  <2>3. QED
    BY <2>1, <2>2, InitBase DEF Whole, FilesOneGeneration, JobOneGeneration
<1>2. Whole /\ [Next]_vars => Whole'
  BY NextWhole
<1>3. Whole => OneGeneration
  <2>1. SUFFICES ASSUME Whole, torn = "no", pc # "commit", Loaded # Nothing, Matching
                 PROVE  LET ks == ChunkKeys(Loaded.chunks)
                        IN /\ Loaded.edges = ks
                           /\ Loaded.bm25 = ks
                           /\ ToSet(ks) = {KeyOf(f, Loaded.manifest) : f \in ToSet(Present(Loaded.manifest))}
    BY DEF OneGeneration
  <2>2. Loaded = files /\ files.meta # Nothing
    BY <2>1 DEF Loaded, Matching, Absent
  <2>3. OneGenerationOf(files)
    BY <2>1, <2>2 DEF Whole, FilesOneGeneration, Renaming
  <2>4. ToSet(Present(files.manifest)) = {f \in Files : files.manifest[f] # 0}
    <3> DEFINE S == {f \in Files : files.manifest[f] # 0}
    <3>1. S \in SUBSET Files /\ Present(files.manifest) = SetToSeq(S)
      BY DEF Present
    <3> HIDE DEF S
    <3>2. ToSet(SetToSeq(S)) = S
      BY <3>1, Enumerated DEF ToSet
    <3>3. QED
      BY <3>1, <3>2 DEF S
  <2>5. QED
    BY <2>2, <2>3, <2>4 DEF OneGenerationOf, Covered, Symbols
<1>4. QED
  BY <1>1, <1>2, <1>3, PTL DEF Spec
-------------------------------------------------------------------------------
(***************************************************************************)
(* Rows of their chunks                                                    *)
(***************************************************************************)
Rowed ==
    /\ Base
    /\ NextIsWhole
    /\ FilesAligned
    /\ FilesAlignedStill
    /\ JobAligned

\* What is aligned is so under a weaker demand, and with any model under the weakest.
LEMMA Realigned ==
    ASSUME NEW v, NEW cs, NEW m, NEW exact \in BOOLEAN, AlignedWith(v, cs, m, exact),
           NEW n, NEW demand \in BOOLEAN, demand => exact /\ m = n
    PROVE  AlignedWith(v, cs, n, demand)
  BY DEF AlignedWith, Agrees

\* A row kept of an aligned store is the vector of the chunk it is kept for.
LEMMA KeptAgree ==
    ASSUME StoreTypeOK, NEW s \in Store, Loadable(s),
           NEW exact \in BOOLEAN, AlignedWith(s.vectors, s.chunks, s.meta.by, exact)
    PROVE  \A n \in DOMAIN Kept(s) : Agrees(Kept(s)[n].row, ChunkKey(Kept(s)[n].chunk), model, exact)
<1>1. TAKE n \in DOMAIN Kept(s)
<1>2. PICK i \in ChunksOf(s, Kept(s)[n].chunk.file) :
         /\ Unchanged(s, Kept(s)[n].chunk.file)
         /\ Kept(s)[n].chunk = s.chunks[i] /\ Kept(s)[n].row = RowOf(s, i)
  BY KeptChunks
<1>3. i \in DOMAIN s.chunks /\ s.meta.by = model
  BY <1>2 DEF ChunksOf, Unchanged
<1>4. Agrees(s.vectors.rows[i], ChunkKey(s.chunks[i]), model, exact)
  BY <1>3 DEF AlignedWith
<1>5. Dim[s.vectors.by] = Dim[s.meta.by]
  <2>1. /\ s.vectors \in Vectors /\ s.meta.by \in Models /\ s.vectors.by \in Models
        /\ Len(s.chunks) \in Nat \ {0}
    BY <1>3 DEF Store, Meta, Vectors
  <2>2. Len(s.vectors.rows) = Len(s.chunks)
    BY DEF AlignedWith
  <2>3. Dim[s.vectors.by] * Len(s.chunks) = Dim[s.meta.by] * Len(s.chunks)
    <3>1. Len(s.chunks) * Dim[s.vectors.by] = Len(s.chunks) * Dim[s.meta.by]
      BY <2>2 DEF Loadable, Fits
    <3>2. Dim[s.vectors.by] \in Nat /\ Dim[s.meta.by] \in Nat
      BY <2>1, StoreAssumption
    <3>3. QED
      BY <2>1, <3>1, <3>2
  <2>4. QED
    BY <2>1, <2>3, Cancel, StoreAssumption
<1>6. QED
  BY <1>2, <1>4, <1>5 DEF RowOf

\* A step that leaves the disk alone, and what the job kept and will save.
LEMMA RowedAside ==
    ASSUME Rowed, Base', UNCHANGED <<files, staged, torn>>,
           \/ pc # "commit" /\ pc' = "idle"
           \/ pc' = pc /\ job' = job
           \/ /\ pc \in {"open", "embed", "record"} /\ pc' \in {"embed", "record", "graph"}
              /\ job'.kept = job.kept /\ job'.by = job.by /\ job'.old = job.old
    PROVE  Rowed'
<1>1. (Matching' <=> Matching) /\ (Healable' <=> Healable)
  BY DEF Matching, Healable, Absent
<1>2. FilesAligned' /\ FilesAlignedStill'
  BY <1>1 DEF Rowed, FilesAligned, FilesAlignedStill, AlignedWith
<1>3. NextIsWhole'
  BY DEF Rowed, NextIsWhole
<1>4. JobAligned'
  <2>1. CASE pc' = "idle"
    BY <2>1 DEF JobAligned
  <2>2. CASE pc' = pc /\ job' = job
    BY <2>2 DEF Rowed, JobAligned, Exactly, AlignedWith
  <2>3. CASE /\ pc \in {"open", "embed", "record"} /\ pc' \in {"embed", "record", "graph"}
             /\ job'.kept = job.kept /\ job'.by = job.by /\ job'.old = job.old
    BY <2>3 DEF Rowed, JobAligned, Exactly
  <2>4. QED
    BY <2>1, <2>2, <2>3
<1>5. QED
  BY <1>2, <1>3, <1>4 DEF Rowed

\* Healing leaves aligned what a load accepts.
LEMMA HealedAligned ==
    ASSUME StoreTypeOK, HealOnDisk, files.meta # Nothing,
           Matching => AlignedWith(files.vectors, files.chunks, files.meta.by, torn = "no"),
           Healable => AlignedWith(staged, files.chunks, files.meta.by, torn = "no")
    PROVE  /\ Matching' => AlignedWith(files'.vectors, files'.chunks, files'.meta.by, torn = "no")
           /\ Healable' => AlignedWith(staged', files'.chunks, files'.meta.by, torn = "no")
<1>1. files'.chunks = files.chunks /\ files'.meta = files.meta
  BY Healed
<1>2. CASE Healable
  <2>1. files'.vectors = staged /\ staged' = Nothing
    BY <1>2, Healed
  <2>2. ~Healable'
    BY <2>1 DEF Healable, Fits
  <2>3. QED
    BY <1>1, <1>2, <2>1, <2>2
<1>3. CASE ~Healable
  <2>1. files' = files /\ staged' = staged
    BY <1>3 DEF HealOnDisk
  <2>2. (Matching' <=> Matching) /\ (Healable' <=> Healable)
    BY <2>1 DEF Matching, Healable, Absent
  <2>3. QED
    BY <2>1, <2>2
<1>4. QED
  BY <1>2, <1>3

LEMMA StartsRowed == ASSUME Rowed, Starts PROVE Rowed'
<1>1. Base' /\ StoreTypeOK /\ JournalExact
  BY StartsBase DEF Rowed, Base
<1>2. /\ pc = "idle" /\ pc' \in {"graph", "open", "embed"} /\ torn' = torn /\ job'.by = model
      /\ \/ job'.old = Nothing /\ job'.kept = <<>>
         \/ Loaded # Nothing /\ job'.old = Loaded /\ job'.kept = Kept(Loaded)
      /\ HealOnDisk \/ UNCHANGED disk \/ (files' = NoFiles /\ staged' = Nothing)
  BY <1>1, Starting
<1>3. FilesAligned'
  <2>1. SUFFICES ASSUME torn # "rows", files'.meta # Nothing
                 PROVE  /\ Matching' => AlignedWith(files'.vectors, files'.chunks, files'.meta.by, torn = "no")
                        /\ Healable' => AlignedWith(staged', files'.chunks, files'.meta.by, torn = "no")
    BY <1>2 DEF FilesAligned
  <2>2. files' # NoFiles
    BY <2>1 DEF NoFiles
  <2>3. CASE HealOnDisk
    <3>1. files.meta # Nothing
      BY <1>1, <2>1, <2>3, Healed
    <3>2. QED
      BY <1>1, <1>2, <2>1, <2>3, <3>1, HealedAligned DEF Rowed, FilesAligned
  <2>4. CASE UNCHANGED disk
    <3>1. (Matching' <=> Matching) /\ (Healable' <=> Healable)
      BY <2>4 DEF Matching, Healable, Absent, disk
    <3>2. QED
      BY <1>2, <2>1, <2>4, <3>1 DEF Rowed, FilesAligned, disk
  <2>5. QED
    BY <1>2, <2>2, <2>3, <2>4
<1>4. FilesAlignedStill' /\ NextIsWhole'
  BY <1>2 DEF FilesAlignedStill, NextIsWhole
<1>5. JobAligned'
  <2>1. SUFFICES ASSUME torn # "rows" \/ job'.old = Nothing
                 PROVE  \A n \in DOMAIN job'.kept :
                           Agrees(job'.kept[n].row, ChunkKey(job'.kept[n].chunk), model, Exactly')
    BY <1>2 DEF JobAligned
  <2>2. CASE job'.kept = <<>>
    BY <2>2
  <2>3. CASE Loaded # Nothing /\ job'.old = Loaded /\ job'.kept = Kept(Loaded)
    <3>1. torn # "rows"
      BY <2>1, <2>3
    <3>2. /\ files \in Store /\ Loaded \in Store /\ Loadable(Loaded)
          /\ Loaded.chunks = files.chunks /\ Loaded.meta = files.meta
          /\ (Matching /\ Loaded = files) \/ (Healable /\ Loaded.vectors = staged)
      BY <1>1, <2>3, LoadedStore DEF Loadable
    <3>3. files.meta # Nothing
      BY <3>2, StoreAssumption DEF Store
    <3>4. AlignedWith(Loaded.vectors, Loaded.chunks, Loaded.meta.by, torn = "no")
      BY <1>2, <3>1, <3>2, <3>3 DEF Rowed, FilesAligned
    <3>5. Exactly' <=> torn = "no"
      BY <1>2, <2>3 DEF Exactly
    <3>6. (torn = "no") \in BOOLEAN
      OBVIOUS
    <3>7. \A n \in DOMAIN Kept(Loaded) :
             Agrees(Kept(Loaded)[n].row, ChunkKey(Kept(Loaded)[n].chunk), model, torn = "no")
      BY <1>1, <3>2, <3>4, <3>6, KeptAgree
    <3>8. QED
      BY <2>3, <3>5, <3>7 DEF Agrees
  <2>4. QED
    BY <1>2, <2>2, <2>3
<1>6. QED
  BY <1>1, <1>3, <1>4, <1>5 DEF Rowed

\* The rows kept and the rows embedded are put together in the order of the chunks.
LEMMA BuildGraphRowed == ASSUME Rowed, BuildGraph PROVE Rowed'
<1>1. Base /\ StoreTypeOK /\ Base'
  BY BuildGraphBase DEF Rowed, Base
<1> DEFINE s == NextStore(Previous, job.old)
<1>2. /\ pc = "graph" /\ pc' = "stage" /\ job \in Job /\ Len(job.rows) = Len(job.keys)
      /\ torn' = torn
      /\ Previous \in Maybe(Store)
      /\ job'.next = s /\ s \in Store
      /\ job'.kept = job.kept /\ job'.old = job.old /\ job'.by = job.by
      /\ IF job.old = Nothing THEN HealOnDisk ELSE UNCHANGED disk
  BY <1>1, Building DEF history
<1>3. FilesAligned'
  <2>1. SUFFICES ASSUME torn # "rows", files'.meta # Nothing
                 PROVE  /\ Matching' => AlignedWith(files'.vectors, files'.chunks, files'.meta.by, torn = "no")
                        /\ Healable' => AlignedWith(staged', files'.chunks, files'.meta.by, torn = "no")
    BY <1>2 DEF FilesAligned
  <2>2. CASE HealOnDisk
    <3>1. files.meta # Nothing
      BY <1>1, <2>1, <2>2, Healed
    <3>2. QED
      BY <1>1, <1>2, <2>1, <2>2, <3>1, HealedAligned DEF Rowed, FilesAligned
  <2>3. CASE UNCHANGED disk
    <3>1. (Matching' <=> Matching) /\ (Healable' <=> Healable)
      BY <2>3 DEF Matching, Healable, Absent, disk
    <3>2. QED
      BY <1>2, <2>1, <2>3, <3>1 DEF Rowed, FilesAligned, disk
  <2>4. QED
    BY <1>2, <2>2, <2>3
<1>4. FilesAlignedStill'
  BY <1>2 DEF FilesAlignedStill
<1>5. /\ Len(s.chunks) = Len(job.kept) + Len(job.keys)
      /\ Len(s.vectors.rows) = Len(s.chunks)
      /\ s.vectors.by = job.by /\ s.meta.by = job.by
      /\ \A n \in DOMAIN s.chunks : /\ ChunkKey(s.chunks[n]) = NextKey(n)
                                    /\ s.vectors.rows[n] = NextRow(n)
  BY <1>2, JobFields, MadeStore
<1>6. DOMAIN s.chunks = 1..Len(s.chunks)
  BY <1>2 DEF Store
<1> HIDE DEF s
<1>7. NextIsWhole'
  BY <1>2, <1>5 DEF NextIsWhole
<1>8. ASSUME torn # "rows" \/ job.old = Nothing
      PROVE  /\ \A n \in DOMAIN job.kept : Agrees(job.kept[n].row, ChunkKey(job.kept[n].chunk), job.by, Exactly)
             /\ AlignedWith(s.vectors, s.chunks, s.meta.by, Exactly)
  <2> DEFINE K == Len(job.kept)
  <2>1. \A n \in DOMAIN job.kept : Agrees(job.kept[n].row, ChunkKey(job.kept[n].chunk), job.by, Exactly)
    BY <1>2, <1>8 DEF Rowed, JobAligned
  <2>2. \A n \in DOMAIN job.rows : job.rows[n] = Row(job.keys[n], job.by)
    BY <1>1, <1>2 DEF Base, RowsDone
  <2>3. /\ K \in Nat /\ DOMAIN job.kept = 1..K /\ Len(job.keys) \in Nat
        /\ DOMAIN job.rows = 1..Len(job.keys)
    <3>1. job.kept \in Seq([chunk : Chunk, row : Maybe(Vector)]) /\ job.keys \in Seq(Key)
          /\ job.rows \in Seq(Vector)
      BY <1>2, JobFields
    <3>2. QED
      BY <1>2, <3>1, LenProperties
  <2>4. ASSUME NEW n \in DOMAIN s.chunks PROVE Agrees(NextRow(n), NextKey(n), job.by, Exactly)
    <3>1. CASE n \in DOMAIN job.kept
      <4>1. n <= K
        BY <2>3, <3>1
      <4>2. QED
        BY <2>1, <3>1, <4>1 DEF NextRow, NextKey
    <3>2. CASE n \notin DOMAIN job.kept
      <4>1. ~(n <= K) /\ n - K \in DOMAIN job.rows
        <5>1. Len(s.chunks) = K + Len(job.keys)
          BY <1>5
        <5> HIDE DEF K
        <5>2. n \in 1..K + Len(job.keys) /\ n \notin 1..K
          BY <1>6, <2>3, <2>4, <3>2, <5>1
        <5>3. QED
          BY <2>3, <5>2
      <4>2. NextRow(n) = Row(NextKey(n), job.by)
        BY <2>2, <4>1 DEF NextRow, NextKey
      <4>3. job.by \in Models
        BY <1>2, JobFields
      <4>4. QED
        BY <4>2, <4>3 DEF Agrees
    <3>3. QED
      BY <3>1, <3>2
  <2> HIDE DEF K
  <2>5. QED
    BY <1>5, <2>1, <2>4 DEF AlignedWith
<1>9. JobAligned'
  <2>1. Exactly' <=> Exactly
    BY <1>2 DEF Exactly
  <2>2. QED
    BY <1>2, <1>8, <2>1 DEF JobAligned, AlignedWith, Agrees
<1>10. QED
  BY <1>1, <1>3, <1>4, <1>7, <1>9 DEF Rowed

LEMMA StageRowed == ASSUME Rowed, Stage PROVE Rowed'
<1>1. /\ pc = "stage" /\ pc' = "commit" /\ job' = job /\ torn' = torn /\ files' = files
      /\ Base' /\ (Matching' <=> Matching)
  BY StageBase DEF Stage, Rowed, history, Matching, Absent
<1>2. FilesAligned'
  BY <1>1 DEF FilesAligned
<1>3. FilesAlignedStill'
  <2>1. Matching => files.meta # Nothing
    BY DEF Matching, Absent
  <2>2. QED
    BY <1>1, <2>1 DEF Rowed, FilesAligned, FilesAlignedStill
<1>4. NextIsWhole' /\ JobAligned'
  BY <1>1 DEF Rowed, NextIsWhole, JobAligned, Exactly, AlignedWith
<1>5. QED
  BY <1>1, <1>2, <1>3, <1>4 DEF Rowed

\* What a save that ends leaves is aligned, or recorded as misplaced: before the first
\* rename the old vectors and, if they are promoted later, nothing else of their size;
\* after it, the new vectors, wherever they are.
LEMMA DyingRowed ==
    ASSUME Rowed, Die, files' = files, pc # "stage" => staged' = staged, Base'
    PROVE  Rowed'
<1>1. pc' = "idle" /\ torn' = Tear
  BY DEF Die
<1>2. NextIsWhole' /\ FilesAlignedStill' /\ JobAligned'
  BY <1>1 DEF NextIsWhole, FilesAlignedStill, JobAligned
<1>3. FilesAligned'
  <2>1. SUFFICES ASSUME torn' # "rows", files.meta # Nothing
                 PROVE  /\ Matching' => AlignedWith(files.vectors, files.chunks, files.meta.by, torn' = "no")
                        /\ Healable' => AlignedWith(staged', files.chunks, files.meta.by, torn' = "no")
    BY DEF FilesAligned
  <2>2. Matching' <=> Matching
    BY DEF Matching, Absent
  <2>3. ~Misplaced /\ torn # "rows"
        /\ (torn' = "no" => torn = "no" /\ ~(pc = "commit" /\ job.step > 1))
    BY <1>1, <2>1 DEF Tear, Absent
  <2>10. (torn = "no") \in BOOLEAN /\ (torn' = "no") \in BOOLEAN
    OBVIOUS
  <2>4. staged' = staged => (Healable' <=> Healable)
    BY <2>2 DEF Healable, Absent
  <2>5. CASE pc = "stage"
    <3>1. ~Healable'
      BY <2>3, <2>5 DEF Misplaced
    <3>2. Matching => AlignedWith(files.vectors, files.chunks, files.meta.by, torn = "no")
      BY <2>1, <2>3, <2>5 DEF Rowed, FilesAligned
    <3>3. QED
      BY <2>2, <2>3, <2>10, <3>1, <3>2, Realigned
  <2>6. CASE pc \notin {"stage", "commit"}
    <3>1. /\ Matching => AlignedWith(files.vectors, files.chunks, files.meta.by, torn = "no")
          /\ Healable => AlignedWith(staged, files.chunks, files.meta.by, torn = "no")
      BY <2>1, <2>3, <2>6 DEF Rowed, FilesAligned
    <3>2. staged' = staged /\ (torn' = "no" => torn = "no")
      BY <2>3, <2>6
    <3>3. Matching => AlignedWith(files.vectors, files.chunks, files.meta.by, torn' = "no")
      <4>1. SUFFICES ASSUME Matching PROVE AlignedWith(files.vectors, files.chunks, files.meta.by, torn' = "no")
        OBVIOUS
      <4>2. AlignedWith(files.vectors, files.chunks, files.meta.by, torn = "no")
        BY <3>1, <4>1
      <4>3. QED
        BY ONLY <2>10, <3>2, <4>2, Realigned
    <3>4. Healable => AlignedWith(staged, files.chunks, files.meta.by, torn' = "no")
      <4>1. SUFFICES ASSUME Healable PROVE AlignedWith(staged, files.chunks, files.meta.by, torn' = "no")
        OBVIOUS
      <4>2. AlignedWith(staged, files.chunks, files.meta.by, torn = "no")
        BY <3>1, <4>1
      <4>3. QED
        BY ONLY <2>10, <3>2, <4>2, Realigned
    <3>5. QED
      BY <2>2, <2>4, <3>2, <3>3, <3>4
  <2>7. CASE pc = "commit" /\ job.step = 1
    <3>1. ~Healable /\ ~(Matching /\ staged = Nothing)
      BY <2>3, <2>7 DEF Misplaced, Between
    <3>2. Matching => AlignedWith(files.vectors, files.chunks, files.meta.by, torn = "no")
      BY <2>3, <2>7, <3>1 DEF Rowed, FilesAlignedStill
    <3>3. Matching => AlignedWith(files.vectors, files.chunks, files.meta.by, torn' = "no")
      BY <2>3, <2>10, <3>2, Realigned
    <3>4. QED
      BY <2>2, <2>4, <2>7, <3>1, <3>3
  <2>8. CASE pc = "commit" /\ job.step # 1
    <3>1. torn' # "no"
      <4>1. job.step \in 1..6
        BY <2>8 DEF Rowed, Base, Renamed
      <4>2. QED
        BY <2>3, <2>8, <4>1
    <3>2. Exactly \in BOOLEAN
      BY DEF Exactly
    <3>3. AlignedWith(job.next.vectors, job.next.chunks, job.next.meta.by, Exactly)
      BY <2>3, <2>8 DEF Rowed, JobAligned
    <3>4. /\ files.chunks = job.next.chunks
          /\ job.step = 2 => staged \in {Nothing, job.next.vectors}
          /\ job.step # 2 => files.vectors = job.next.vectors /\ staged = Nothing
      BY <2>8 DEF Rowed, Base, Renamed
    <3>5. AlignedWith(job.next.vectors, job.next.chunks, files.meta.by, torn' = "no")
      BY <2>10, <3>1, <3>2, <3>3, Realigned
    <3>6. CASE job.step = 2
      <4>1. ~Matching
        BY <2>3, <2>8, <3>6 DEF Misplaced, Between
      <4>2. Healable => staged = job.next.vectors
        BY <3>4, <3>6 DEF Healable, Fits
      <4>3. Healable => AlignedWith(staged, files.chunks, files.meta.by, torn' = "no")
        BY <3>4, <3>5, <4>2 DEF Healable
      <4>4. QED
        BY <2>2, <2>4, <2>8, <4>1, <4>3
    <3>7. CASE job.step # 2
      <4>1. ~Healable
        BY <3>4, <3>7 DEF Healable, Fits
      <4>2. Matching => AlignedWith(files.vectors, files.chunks, files.meta.by, torn' = "no")
        BY <3>4, <3>5, <3>7 DEF Matching
      <4>3. QED
        BY <2>2, <2>4, <2>8, <4>1, <4>2
    <3>8. QED
      BY <3>6, <3>7
  <2>9. QED
    BY <2>5, <2>6, <2>7, <2>8
<1>4. QED
  BY <1>2, <1>3 DEF Rowed

LEMMA CommitRowed == ASSUME Rowed, Commit PROVE Rowed'
<1>1. Base /\ Base' /\ StoreTypeOK /\ Renamed
  BY CommitBase DEF Rowed, Base
<1>2. pc = "commit" /\ job \in Job /\ job.next \in Store /\ job.step \in 1..6
  BY <1>1, Committing DEF Renamed
<1>3. CASE UNCHANGED disk /\ Die
  BY <1>1, <1>3, DyingRowed DEF disk
<1>4. CASE /\ files'.chunks = IF job.step = 1 THEN job.next.chunks ELSE files.chunks
           /\ files'.vectors = IF job.step = 2 THEN job.next.vectors ELSE files.vectors
           /\ files'.meta = IF job.step = 6 THEN job.next.meta ELSE files.meta
           /\ staged' = IF job.step = 2 THEN Nothing ELSE staged
           /\ job'.step = job.step + 1
           /\ job'.kept = job.kept /\ job'.old = job.old
           /\ job'.by = job.by /\ job'.next = job.next
           /\ pc' = IF job.step = 6 THEN "clear" ELSE "commit"
           /\ torn' = IF job.step = 6 /\ job.old = Nothing THEN "no" ELSE torn
  <2>1. torn' # "rows" => torn # "rows" \/ job.old = Nothing
    BY <1>4
  <2>2. FilesAligned'
    <3>1. CASE job.step = 6
      <4>1. /\ files'.chunks = job.next.chunks /\ files'.vectors = job.next.vectors
            /\ files'.meta = job.next.meta /\ staged' = Nothing
        BY <1>1, <1>2, <1>4, <3>1 DEF Renamed
      <4>2. torn' # "rows" =>
               AlignedWith(job.next.vectors, job.next.chunks, job.next.meta.by, torn' = "no")
        <5>1. torn' # "rows" =>
                 AlignedWith(job.next.vectors, job.next.chunks, job.next.meta.by, Exactly)
          BY <1>2, <2>1 DEF Rowed, JobAligned
        <5>2. Exactly \in BOOLEAN /\ (torn' = "no") \in BOOLEAN
          BY DEF Exactly
        <5>3. torn' = "no" => Exactly
          BY <1>4 DEF Exactly
        <5>4. QED
          BY <5>1, <5>2, <5>3, Realigned
      <4>3. ~Healable'
        BY <4>1 DEF Healable, Fits
      <4>4. QED
        BY <4>1, <4>2, <4>3 DEF FilesAligned
    <3>2. CASE job.step # 6
      BY <1>2, <1>4, <3>2 DEF FilesAligned
    <3>3. QED
      BY <3>1, <3>2
  <2>3. FilesAlignedStill'
    BY <1>2, <1>4 DEF FilesAlignedStill
  <2>4. NextIsWhole'
    BY <1>2, <1>4 DEF Rowed, NextIsWhole
  <2>5. JobAligned'
    <3>1. job.step # 6 => (Exactly' <=> Exactly)
      BY <1>4 DEF Exactly
    <3>2. job.step = 6 => (Exactly' => Exactly)
      BY <1>4 DEF Exactly
    <3>3. QED
      BY <1>2, <1>4, <2>1, <3>1, <3>2 DEF Rowed, JobAligned, AlignedWith, Agrees
  <2>6. QED
    BY <1>1, <2>2, <2>3, <2>4, <2>5 DEF Rowed
<1>5. QED
  BY <1>1, <1>3, <1>4, Committing

\* A query that promotes the staged vectors for chunks it read earlier either does what
\* a load would do now, or leaves vectors no load accepts.
LEMMA QueryVectorsRowed == ASSUME Rowed, QueryVectors PROVE Rowed'
<1>1. Base /\ Base' /\ StoreTypeOK
  BY QueryVectorsBase DEF Rowed, Base
<1>2. /\ query \in [count : Nat, by : Models]
      /\ pc' = pc /\ job' = job /\ torn' = torn
      /\ files'.chunks = files.chunks /\ files'.meta = files.meta
      /\ \/ UNCHANGED disk
         \/ /\ ~Fits(files.vectors, query.count, query.by)
            /\ Fits(staged, query.count, query.by)
            /\ files'.vectors = staged /\ staged' = Nothing
  BY <1>1, Promoting DEF history
<1>3. CASE UNCHANGED disk
  BY <1>1, <1>2, <1>3, RowedAside DEF disk
<1>4. CASE /\ ~Fits(files.vectors, query.count, query.by)
           /\ Fits(staged, query.count, query.by)
           /\ files'.vectors = staged /\ staged' = Nothing
  <2>1. ~Healable'
    BY <1>4 DEF Healable, Fits
  <2>2. Matching' => Healable
    <3>1. SUFFICES ASSUME Matching', Matching PROVE FALSE
      BY <1>2, <1>4 DEF Matching, Healable, Absent
    <3>2. /\ Fits(files.vectors, Len(files.chunks), files.meta.by)
          /\ Fits(staged, Len(files.chunks), files.meta.by)
      BY <1>2, <1>4, <3>1 DEF Matching
    <3>3. QED
      BY <1>4, <3>2 DEF Fits
  <2>3. FilesAligned'
    <3>1. SUFFICES ASSUME torn # "rows", pc # "commit", files.meta # Nothing, Matching'
                   PROVE  AlignedWith(files'.vectors, files'.chunks, files'.meta.by, torn = "no")
      BY <1>2, <2>1 DEF FilesAligned
    <3>2. AlignedWith(staged, files.chunks, files.meta.by, torn = "no")
      BY <2>2, <3>1 DEF Rowed, FilesAligned
    <3>3. QED
      BY <1>2, <1>4, <3>2
  <2>4. FilesAlignedStill'
    BY <1>4 DEF FilesAlignedStill
  <2>5. NextIsWhole' /\ JobAligned'
    BY <1>2 DEF Rowed, NextIsWhole, JobAligned, Exactly, AlignedWith
  <2>6. QED
    BY <1>1, <2>3, <2>4, <2>5 DEF Rowed
<1>5. QED
  BY <1>2, <1>3, <1>4

LEMMA NextRowed == ASSUME Rowed, [Next]_vars PROVE Rowed'
<1>1. Base' /\ Base /\ StoreTypeOK
  BY NextBase DEF Rowed, Base
<1>2. CASE Starts
  BY <1>2, StartsRowed
<1>3. CASE OpenJournal \/ AppendVector \/ ClearJournal
  BY <1>1, <1>3, RowedAside DEF OpenJournal, AppendVector, ClearJournal, disk, history
<1>4. CASE AppendChunkRecord
  <2>1. pc = "record" /\ job \in Job
    BY <1>1, <1>4 DEF AppendChunkRecord, StoreTypeOK
  <2>2. job'.kept = job.kept /\ job'.by = job.by /\ job'.old = job.old
    BY <1>4, <2>1 DEF AppendChunkRecord, Job
  <2>3. pc' \in {"graph", "embed"} /\ UNCHANGED <<files, staged, torn>>
    BY <1>4 DEF AppendChunkRecord, disk, history
  <2>4. QED
    BY <1>1, <2>1, <2>2, <2>3, RowedAside
<1>5. CASE BuildGraph \/ Stage
  BY <1>5, BuildGraphRowed, StageRowed
<1>6. CASE Commit
  BY <1>6, CommitRowed
<1>7. CASE Stop
  BY <1>1, <1>7, Stopping, DyingRowed
<1>8. CASE Edit \/ SwitchModel \/ QueryOpen \/ Capture
  BY <1>1, <1>8, RowedAside DEF Edit, SwitchModel, QueryOpen, Capture, disk, history
<1>9. CASE QueryVectors
  BY <1>9, QueryVectorsRowed
<1>10. CASE UNCHANGED store
  BY <1>1, <1>10, RowedAside DEF store
<1>11. QED
  BY <1>2, <1>3, <1>4, <1>5, <1>6, <1>7, <1>8, <1>9, <1>10,
     StoreSteps DEF EngineSteps

LEMMA RowedInvariance == Spec => []Rowed
<1>1. Init => Rowed
  <2>1. SUFFICES ASSUME Init PROVE Rowed
    OBVIOUS
  <2>2. files.meta = Nothing /\ pc = "idle"
    BY <2>1 DEF Init, NoFiles
  <2>3. QED
    BY <2>1, <2>2, InitBase DEF Rowed, NextIsWhole, FilesAligned, FilesAlignedStill, JobAligned
<1>2. Rowed /\ [Next]_vars => Rowed'
  BY NextRowed
<1>3. QED
  BY <1>1, <1>2, PTL DEF Spec

\* What a load returns is aligned: outside of a save by what the files are, and between
\* two renames by the vectors that have not moved yet or those of the job.
LEMMA LoadedAligned ==
    ASSUME Rowed, torn # "rows", ~Between, Loaded # Nothing
    PROVE  /\ Loaded.meta = files.meta /\ files.meta.by \in Models
           /\ AlignedWith(Loaded.vectors, Loaded.chunks, files.meta.by, torn = "no" /\ pc # "commit")
<1> DEFINE demand == torn = "no" /\ pc # "commit"
<1>1. /\ files \in Store /\ Loaded.chunks = files.chunks /\ Loaded.meta = files.meta
      /\ (Matching /\ Loaded = files) \/ (Healable /\ Loaded.vectors = staged)
  BY LoadedStore DEF Rowed, Base
<1>2. files.meta # Nothing /\ files.meta.by \in Models
  BY <1>1, StoreAssumption DEF Store, Meta
<1>3. (torn = "no") \in BOOLEAN /\ demand \in BOOLEAN /\ Exactly \in BOOLEAN
  BY DEF Exactly
<1>4. CASE pc # "commit"
  <2>1. AlignedWith(Loaded.vectors, Loaded.chunks, files.meta.by, torn = "no")
    BY <1>1, <1>2, <1>4 DEF Rowed, FilesAligned
  <2>2. QED
    BY <1>1, <1>2, <1>3, <2>1, Realigned
<1>5. CASE pc = "commit" /\ job.step = 1
  <2>1. Matching /\ staged # Nothing /\ Loaded = files
    BY <1>1, <1>5 DEF Between
  <2>2. AlignedWith(files.vectors, files.chunks, files.meta.by, torn = "no")
    BY <1>5, <2>1 DEF Rowed, FilesAlignedStill
  <2>3. QED
    BY <1>1, <1>2, <1>3, <2>1, <2>2, Realigned
<1>6. CASE pc = "commit" /\ job.step # 1
  <2>1. AlignedWith(job.next.vectors, job.next.chunks, job.next.meta.by, Exactly)
    BY <1>6 DEF Rowed, JobAligned
  <2>2. /\ job.step \in 1..6 /\ files.chunks = job.next.chunks
        /\ job.step = 2 => staged \in {Nothing, job.next.vectors}
        /\ job.step # 2 => files.vectors = job.next.vectors /\ staged = Nothing
    BY <1>6 DEF Rowed, Base, Renamed
  <2>3. Loaded.vectors = job.next.vectors
    <3>1. CASE job.step = 2
      BY <1>1, <1>6, <2>2, <3>1 DEF Between, Healable, Fits
    <3>2. CASE job.step # 2
      BY <1>1, <2>2, <3>2 DEF Healable, Fits
    <3>3. QED
      BY <3>1, <3>2
  <2>4. ~demand
    BY <1>6
  <2> HIDE DEF demand
  <2>5. AlignedWith(Loaded.vectors, Loaded.chunks, files.meta.by, demand)
    BY <1>1, <1>3, <2>1, <2>2, <2>3, <2>4, Realigned
  <2>6. QED
    BY <1>1, <1>2, <2>5 DEF demand
<1>7. QED
  BY <1>4, <1>5, <1>6

\* Row i of the vectors a load returns is a vector of chunk i, in the middle of a save
\* too and whatever sizes the models' vectors have, outside of the moments Between
\* names; and of the store's own model until a commit is torn (store.rs:139, 204-226).
THEOREM RowsAreAligned == Spec => []RowsAligned
<1>1. Rowed => RowsAligned
  <2>1. SUFFICES ASSUME Rowed, torn # "rows", ~Between, Loaded # Nothing
                 PROVE  /\ Len(Loaded.vectors.rows) = Len(Loaded.chunks)
                        /\ \A i \in DOMAIN Loaded.chunks :
                              \E m \in Models :
                                 /\ Loaded.vectors.rows[i] = Row(ChunkKey(Loaded.chunks[i]), m)
                                 /\ torn = "no" /\ pc # "commit" => m = Loaded.meta.by
    BY DEF RowsAligned
  <2>2. QED
    BY <2>1, LoadedAligned DEF AlignedWith, Agrees
<1>2. QED
  BY <1>1, RowedInvariance, PTL

===============================================================================

------------------------ MODULE IndexerPruner_proof ------------------------
(***************************************************************************)
(* Proofs about IndexerPruner, for any number of checkpoints and rows, any *)
(* retention, chunk size and number of readers, failures and restarts:     *)
(* readers find their rows, no range is pruned twice, and nothing is left  *)
(* below pruner_hi but the rows of checkpoints that were fed again.        *)
(***************************************************************************)
EXTENDS IndexerPruner, NaturalsInduction, WellFoundedInduction, TLAPS

----------------------------------------------------------------------------
(* The inductive invariant.                                                *)

TypeInv ==
    /\ hi \in Int
    /\ reader_lo \in Nat
    /\ pruner_hi \in Nat
    /\ new_reader_lo \in Nat
    /\ upto \in Nat
    /\ chunk \in Nat
    /\ last_to \in Nat
    /\ highest_pruned \in Nat
    /\ highest_watermarked \in Nat
    /\ ranges \subseteq Nat \X Nat
    /\ pruned \subseteq Int
    /\ phase \in {"idle", "waiting", "scheduling", "pruning"}
    /\ tasks \in [DOMAIN tasks -> {"running", "ok", "error"}]
    /\ DOMAIN tasks \subseteq ranges
    /\ reads \in [DOMAIN reads -> Nat \X Int]

\* The rows between the watermarks are there, and what is scheduled is below
\* what any reader sees from the end of the wait on.
ReadInv ==
    /\ \A c \in Int : reader_lo <= c /\ c <= hi => RowsIn(c) \subseteq db
    /\ upto <= reader_lo
    /\ \A r \in ranges : r[2] <= upto
    /\ phase \in {"scheduling", "pruning"} =>
         \A n \in DOMAIN reads : reads[n][1] >= upto
    /\ ReadsFindTheirRows

\* Ranges are disjoint, and no pruned checkpoint is in one that will be
\* attempted (again).
RangeInv ==
    /\ phase # "pruning" => DOMAIN tasks = {}
    /\ \A r \in ranges : r[1] < r[2] /\ r[2] <= last_to
    /\ \A r, s \in ranges : r # s => r[2] <= s[1] \/ s[2] <= r[1]
    /\ \A c \in pruned : c < last_to
    /\ \A r \in ranges : (r \in DOMAIN tasks => tasks[r] # "ok") =>
         \A c \in pruned : c < r[1] \/ r[2] <= c

SafeInv == TypeInv /\ ReadInv /\ RangeInv

----------------------------------------------------------------------------
(* Lemmas.                                                                 *)

\* Rows of different checkpoints differ.
LEMMA RowsInDisjoint ==
    ASSUME NEW c, NEW d, c # d
    PROVE  RowsIn(c) \cap RowsIn(d) = {}
BY DEF RowsIn

\* Pruning a range takes away only rows of checkpoints in it (RowsOfRange).
LEMMA PruneKeeps ==
    ASSUME NEW r \in Nat \X Nat, NEW c \in Int, r[2] <= c
    PROVE  RowsOfRange(r) \cap RowsIn(c) = {}
<1>1. \A d \in Interval(r) : d # c
  BY DEF Interval
<1> QED
  BY Zenon, <1>1, RowsInDisjoint DEF RowsOfRange

\* A step that deletes at most the rows of a pending range under way keeps
\* ReadInv's rows where they are.
LEMMA DeleteKeepsReadInv ==
    ASSUME SafeInv, phase = "pruning",
           NEW r \in DOMAIN tasks,
           db' \in {db, db \ RowsOfRange(r)},
           UNCHANGED <<hi, reader_lo, reads, upto, ranges, phase>>
    PROVE  ReadInv'
<1>1. r \in Nat \X Nat /\ r[2] <= upto
  BY Zenon DEF SafeInv, TypeInv, ReadInv
<1>2. ASSUME NEW c \in Int, upto <= c, RowsIn(c) \subseteq db
      PROVE  RowsIn(c) \subseteq db'
  <2>1. r[2] <= c
    BY <1>1, <1>2 DEF SafeInv, TypeInv
  <2>2. RowsOfRange(r) \cap RowsIn(c) = {}
    BY Zenon, <1>1, <2>1, PruneKeeps
  <2> QED
    BY Zenon, <1>2, <2>2
<1>3. \A c \in Int : reader_lo <= c /\ c <= hi => RowsIn(c) \subseteq db'
  BY <1>2 DEF SafeInv, TypeInv, ReadInv
<1>4. ASSUME NEW n \in DOMAIN reads, NEW c \in reads[n][1] .. reads[n][2]
      PROVE  RowsIn(c) \subseteq db'
  <2>1. reads[n] \in Nat \X Int /\ reads[n][1] >= upto /\ upto \in Nat
    BY Zenon, <1>4 DEF SafeInv, TypeInv, ReadInv
  <2>2. c \in Int /\ upto <= c
    BY <1>4, <2>1
  <2>3. RowsIn(c) \subseteq db
    BY Zenon, <1>4 DEF SafeInv, ReadInv, ReadsFindTheirRows
  <2> QED
    BY Zenon, <1>2, <2>2, <2>3
<1>5. ReadsFindTheirRows'
  BY Zenon, <1>4 DEF ReadsFindTheirRows, RowsIn
<1> QED
  BY Zenon, <1>3, <1>5 DEF SafeInv, ReadInv, RowsIn

\* get_pruner_hi of pending ranges is the start of one of them, and no other
\* starts below it.
LEMMA GetPrunerHiIsLeast ==
    ASSUME NEW rs \in SUBSET (Nat \X Nat), rs # {}
    PROVE  /\ \E r \in rs : GetPrunerHi(rs) = r[1]
           /\ \A r \in rs : GetPrunerHi(rs) <= r[1]
<1> DEFINE F == {r[1] : r \in rs}
<1>1. F # {} /\ F \subseteq Nat
  BY Zenon
<1> HIDE DEF F
<1>2. PICK f \in F : \A g \in F : ~ (<<g, f>> \in OpToRel(<, Nat))
  BY Zenon, <1>1, NatLessThanWellFounded, WFMin
<1>3. \A g \in F : ~ (g < f)
  BY Zenon, <1>1, <1>2 DEF OpToRel
<1>5. \A g \in F : f <= g
  BY <1>1, <1>3
<1>4. \E x \in F : \A r \in rs : x <= r[1]
  BY Zenon, <1>5 DEF F
<1> QED
  BY Zenon, <1>4 DEF GetPrunerHi, F

----------------------------------------------------------------------------
(* SafeInv is inductive.                                                   *)

LEMMA SafeInit ==
    ASSUME Init
    PROVE  SafeInv
<1>1. TypeInv
  BY TableAssumption DEF Init, TableInit, TypeInv, NoTasks
<1>2. ReadInv
  BY TableAssumption DEF Init, TableInit, ReadInv, ReadsFindTheirRows
<1>3. RangeInv
  BY Zenon DEF Init, RangeInv, NoTasks
<1> QED
  BY Zenon, <1>1, <1>2, <1>3 DEF SafeInv

\* The pipeline's other tasks, readers and reader_watermark.
LEMMA SafeSurroundings ==
    ASSUME SafeInv,
           Land \/ Watermark \/ BeginRead \/ EndRead
             \/ ReadReaderWatermark \/ WriteReaderWatermark
    PROVE  SafeInv'
<1> USE DEF SafeInv
<1>1. CASE Land
  <2>1. db \subseteq db' /\ UNCHANGED <<hi, reader_lo, pruner_hi, new_reader_lo, reads, prunerVars>>
    BY Zenon, <1>1 DEF Land, CommitRows, Upsert
  <2>2. TypeInv' /\ RangeInv'
    BY Zenon, <2>1 DEF TypeInv, RangeInv, prunerVars
  <2>3. ReadInv'
    BY Zenon, <2>1 DEF ReadInv, ReadsFindTheirRows, prunerVars, RowsIn
  <2> QED
    BY Zenon, <2>2, <2>3
<1>2. CASE Watermark
  <2>1. PICK h \in Checkpoints : AdvanceTo(h)
    BY Zenon, <1>2 DEF Watermark
  <2>2. UNCHANGED <<db, reader_lo, pruner_hi, new_reader_lo, reads, prunerVars>>
    BY Zenon, <1>2, <2>1 DEF Watermark, AdvanceTo
  <2>6. hi' \in Int
    BY <2>1, TableAssumption DEF AdvanceTo, Checkpoints
  <2>3. TypeInv' /\ RangeInv'
    BY Zenon, <2>2, <2>6 DEF TypeInv, RangeInv, prunerVars
  <2>4. \A c \in Int : reader_lo <= c /\ c <= h => RowsIn(c) \subseteq db
    <3> TAKE c \in Int
    <3>1. h \in Int /\ hi \in Int
      BY TableAssumption DEF Checkpoints, TypeInv
    <3>2. CASE c <= hi
      BY Zenon, <3>2 DEF ReadInv
    <3>3. CASE ~(c <= hi)
      BY <2>1, <3>1, <3>3 DEF AdvanceTo
    <3> QED
      BY Zenon, <3>2, <3>3
  <2>5. ReadInv'
    BY Zenon, <2>1, <2>2, <2>4 DEF ReadInv, ReadsFindTheirRows, prunerVars, RowsIn, AdvanceTo
  <2> QED
    BY Zenon, <2>3, <2>5
<1>3. CASE BeginRead
  <2>1. PICK n \in 1 .. MaxReads :
          /\ n \notin DOMAIN reads
          /\ reads' = [m \in DOMAIN reads \cup {n} |->
                         IF m = n THEN <<reader_lo, hi>> ELSE reads[m]]
    BY Zenon, <1>3 DEF BeginRead
  <2>2. UNCHANGED <<tableVars, reader_lo, pruner_hi, new_reader_lo, prunerVars, refed>>
    BY Zenon, <1>3 DEF BeginRead
  <2>3. TypeInv'
    BY Zenon, <2>1, <2>2 DEF TypeInv, prunerVars, tableVars
  <2>4. RangeInv'
    BY Zenon, <2>2 DEF RangeInv, prunerVars
  <2>5. \A m \in DOMAIN reads' : \A c \in reads'[m][1] .. reads'[m][2] : RowsIn(c) \subseteq db
    BY <2>1 DEF ReadInv, TypeInv, ReadsFindTheirRows
  <2>6. phase \in {"scheduling", "pruning"} =>
          \A m \in DOMAIN reads' : reads'[m][1] >= upto
    BY Zenon, <2>1 DEF ReadInv, TypeInv
  <2>7. ReadInv'
    BY Zenon, <2>2, <2>5, <2>6 DEF ReadInv, ReadsFindTheirRows, prunerVars, tableVars, RowsIn
  <2> QED
    BY Zenon, <2>3, <2>4, <2>7
<1>4. CASE EndRead
  <2>1. PICK n \in DOMAIN reads : reads' = [m \in DOMAIN reads \ {n} |-> reads[m]]
    BY Zenon, <1>4 DEF EndRead
  <2>2. UNCHANGED <<tableVars, reader_lo, pruner_hi, new_reader_lo, prunerVars, refed>>
    BY Zenon, <1>4 DEF EndRead
  <2>3. TypeInv' /\ RangeInv'
    BY Zenon, <2>1, <2>2 DEF TypeInv, RangeInv, prunerVars, tableVars
  <2>4. ReadInv'
    BY <2>1, <2>2 DEF ReadInv, ReadsFindTheirRows, prunerVars, tableVars, RowsIn
  <2> QED
    BY Zenon, <2>3, <2>4
<1>5. CASE ReadReaderWatermark
  <2>1. new_reader_lo' \in Nat
    BY <1>5, PrunerAssumption DEF ReadReaderWatermark, NewReaderLo, TypeInv
  <2>2. UNCHANGED <<tableVars, reader_lo, pruner_hi, reads, prunerVars>>
    BY Zenon, <1>5 DEF ReadReaderWatermark
  <2>3. TypeInv' /\ RangeInv'
    BY Zenon, <2>1, <2>2 DEF TypeInv, RangeInv, prunerVars, tableVars
  <2>4. ReadInv'
    BY ZenonT(30), <2>2 DEF ReadInv, ReadsFindTheirRows, prunerVars, tableVars, RowsIn
  <2> QED
    BY Zenon, <2>3, <2>4
<1>6. CASE WriteReaderWatermark
  <2>1. reader_lo' \in Nat /\ reader_lo' >= reader_lo /\ new_reader_lo' \in Nat
    BY <1>6 DEF WriteReaderWatermark, SetReaderWatermark, SetReaderWatermarkFails,
                Raised, TypeInv
  <2>2. UNCHANGED <<tableVars, pruner_hi, reads, prunerVars>>
    BY Zenon, <1>6 DEF WriteReaderWatermark
  <2>3. TypeInv' /\ RangeInv'
    BY Zenon, <2>1, <2>2 DEF TypeInv, RangeInv, prunerVars, tableVars
  <2>4. ReadInv'
    BY <2>1, <2>2 DEF TypeInv, ReadInv, ReadsFindTheirRows, prunerVars, tableVars, RowsIn
  <2> QED
    BY Zenon, <2>3, <2>4
<1> QED
  BY Zenon, <1>1, <1>2, <1>3, <1>4, <1>5, <1>6

\* The pruner up to the point where tasks are spawned.
LEMMA SafeRounds ==
    ASSUME SafeInv, ReadBounds \/ Waited \/ NextChunk \/ SpawnTasks
    PROVE  SafeInv'
<1> USE DEF SafeInv
<1>1. CASE ReadBounds
  <2> USE <1>1 DEF ReadBounds
  <2>1. TypeInv'
    BY Zenon DEF TypeInv, tableVars
  <2>2. RangeInv'
    BY Zenon DEF RangeInv
  <2>3. ReadsFindTheirRows'
    BY ZenonT(30) DEF ReadInv, ReadsFindTheirRows, tableVars, RowsIn
  <2>4. \A r \in ranges' : r[2] <= upto'
    BY DEF ReadInv, TypeInv
  <2>5. ReadInv'
    BY <2>3, <2>4 DEF ReadInv, TypeInv, tableVars, RowsIn
  <2> QED
    BY Zenon, <2>1, <2>2, <2>5
<1>2. CASE Waited
  <2> USE <1>2 DEF Waited
  <2>1. TypeInv'
    BY Zenon DEF TypeInv, tableVars
  <2>2. RangeInv'
    BY Zenon DEF RangeInv
  <2>3. ReadInv'
    BY ZenonT(30) DEF ReadInv, ReadsFindTheirRows, tableVars, RowsIn
  <2> QED
    BY Zenon, <2>1, <2>2, <2>3
<1>3. CASE NextChunk
  <2> DEFINE to == IF chunk + MaxChunkSize <= upto THEN chunk + MaxChunkSize ELSE upto
             from == IF chunk >= last_to THEN chunk ELSE last_to
  <2>1. /\ phase = "scheduling" /\ Schedule(chunk, to) /\ chunk' = to
        /\ UNCHANGED <<tableVars, reader_lo, pruner_hi, new_reader_lo, reads, phase,
                       upto, tasks, highest_pruned, highest_watermarked, pruned, refed>>
    BY Zenon, <1>3 DEF NextChunk
  <2>2. to \in Nat /\ to <= upto /\ from \in Nat /\ chunk < to
    BY <1>3, PrunerAssumption DEF NextChunk, TypeInv
  <2> HIDE DEF to
  <2>3. CASE to <= last_to
    <3>1. UNCHANGED <<ranges, last_to>>
      BY Zenon, <2>1, <2>3 DEF Schedule
    <3>2. TypeInv' /\ RangeInv'
      BY Zenon, <2>1, <2>2, <3>1 DEF TypeInv, RangeInv, tableVars
    <3>3. ReadInv'
      BY ZenonT(30), <2>1, <3>1 DEF ReadInv, ReadsFindTheirRows, tableVars, RowsIn
    <3> QED
      BY Zenon, <3>2, <3>3
  <2>4. CASE ~(to <= last_to)
    <3>1. ranges' = ranges \cup {<<from, to>>} /\ last_to' = to
      BY Zenon, <2>1, <2>4 DEF Schedule
    <3>2. from < to /\ last_to <= from /\ last_to < to
      BY <2>2, <2>4 DEF TypeInv
    <3> HIDE DEF from
    <3>3. TypeInv'
      BY <2>1, <2>2, <3>1 DEF TypeInv, tableVars
    <3>4. RangeInv'
      <4>0. DOMAIN tasks' = {} /\ phase' # "pruning"
        BY Zenon, <2>1 DEF RangeInv
      <4>1. \A r \in ranges' : r[1] < r[2] /\ r[2] <= last_to'
        BY <2>2, <3>1, <3>2 DEF RangeInv, TypeInv
      <4>2. \A r, s \in ranges' : r # s => r[2] <= s[1] \/ s[2] <= r[1]
        BY <2>2, <3>1, <3>2 DEF RangeInv, TypeInv
      <4>3. \A c \in pruned' : c < last_to'
        BY <2>1, <2>2, <3>1, <3>2 DEF RangeInv, TypeInv
      <4>4. \A r \in ranges' : \A c \in pruned' : c < r[1] \/ r[2] <= c
        BY <2>1, <2>2, <3>1, <3>2 DEF RangeInv, TypeInv
      <4> QED
        BY Zenon, <4>0, <4>1, <4>2, <4>3, <4>4 DEF RangeInv
    <3>5. \A r \in ranges' : r[2] <= upto'
      BY <2>1, <2>2, <3>1 DEF ReadInv
    <3>6. ReadInv'
      BY ZenonT(30), <2>1, <3>5 DEF ReadInv, ReadsFindTheirRows, tableVars, RowsIn
    <3> QED
      BY Zenon, <3>3, <3>4, <3>6
  <2> QED
    BY Zenon, <2>3, <2>4
<1>4. CASE SpawnTasks
  <2> USE <1>4 DEF SpawnTasks
  <2>1. TypeInv'
    BY Zenon DEF TypeInv, tableVars
  <2>2. RangeInv'
    BY Zenon DEF RangeInv
  <2>3. ReadInv'
    BY ZenonT(30) DEF ReadInv, ReadsFindTheirRows, tableVars, RowsIn
  <2> QED
    BY Zenon, <2>1, <2>2, <2>3
<1> QED
  BY Zenon, <1>1, <1>2, <1>3, <1>4

\* The tasks of a round, and how their results are handled.
LEMMA SafeTasks ==
    ASSUME SafeInv, NEW r \in DOMAIN tasks, Prune(r) \/ PruneFails(r) \/ Finish(r)
    PROVE  SafeInv'
<1> USE DEF SafeInv
<1>0. phase = "pruning" /\ r \in ranges /\ r \in Nat \X Nat
  BY Zenon DEF RangeInv, TypeInv
<1>1. CASE Prune(r)
  <2> USE <1>1 DEF Prune
  <2>1. ReadInv'
    BY Zenon, <1>0, DeleteKeepsReadInv
  <2>2. TypeInv'
    BY <1>0 DEF TypeInv, Interval
  <2>3. \A c \in pruned' : c < last_to'
    BY <1>0 DEF RangeInv, TypeInv, Interval
  <2>4. ASSUME NEW s \in ranges', s \in DOMAIN tasks' => tasks'[s] # "ok",
               NEW c \in pruned'
        PROVE  c < s[1] \/ s[2] <= c
    <3>1. s # r
      BY Zenon, <2>4 DEF TypeInv
    <3>2. s \in DOMAIN tasks => tasks[s] # "ok"
      BY Zenon, <2>4, <3>1 DEF TypeInv
    <3>3. CASE c \in pruned
      BY Zenon, <3>2, <3>3 DEF RangeInv
    <3>4. CASE c \in Interval(r)
      <4>1. r[2] <= s[1] \/ s[2] <= r[1]
        BY Zenon, <1>0, <3>1 DEF RangeInv
      <4>2. s \in Nat \X Nat
        BY Zenon DEF TypeInv
      <4> QED
        BY <1>0, <3>4, <4>1, <4>2 DEF Interval
    <3> QED
      BY Zenon, <3>3, <3>4
  <2>5. RangeInv'
    BY Zenon, <1>0, <2>3, <2>4 DEF RangeInv
  <2> QED
    BY Zenon, <2>1, <2>2, <2>5
<1>2. CASE PruneFails(r)
  <2> USE <1>2 DEF PruneFails
  <2>1. ReadInv'
    BY Zenon, <1>0, DeleteKeepsReadInv
  <2>2. TypeInv'
    BY Zenon, <1>0 DEF TypeInv
  <2>3. RangeInv'
    BY Zenon, <1>0 DEF RangeInv, TypeInv
  <2> QED
    BY Zenon, <2>1, <2>2, <2>3
<1>3. CASE Finish(r)
  <2> DEFINE left == IF tasks[r] = "ok" THEN ranges \ {r} ELSE ranges
             high == IF tasks[r] = "ok" /\ GetPrunerHi(left) > highest_pruned
                       THEN GetPrunerHi(left) ELSE highest_pruned
  <2>1. /\ tasks[r] \in {"ok", "error"}
        /\ tasks' = [s \in DOMAIN tasks \ {r} |-> tasks[s]]
        /\ phase' = IF DOMAIN tasks = {r} THEN "idle" ELSE "pruning"
        /\ ranges' = left
        /\ highest_pruned' = high
        /\ pruner_hi' \in {pruner_hi, high}
        /\ highest_watermarked' \in {highest_watermarked, high}
        /\ UNCHANGED <<tableVars, reader_lo, new_reader_lo, reads, upto, chunk, last_to,
                       pruned, refed>>
    BY Zenon, <1>3 DEF Finish, SetPrunerWatermark, Raised
  <2>2. left \subseteq ranges
    BY Zenon
  <2>3. GetPrunerHi(left) \in Nat
    <3>1. CASE left = {}
      BY Zenon, <3>1 DEF GetPrunerHi, TypeInv
    <3>2. CASE left # {}
      <4>1. left \in SUBSET (Nat \X Nat)
        BY Zenon, <2>2 DEF TypeInv
      <4> QED
        BY Zenon, <3>2, <4>1, GetPrunerHiIsLeast
    <3> QED
      BY Zenon, <3>1, <3>2
  <2>4. high \in Nat
    BY Zenon, <2>3 DEF TypeInv
  <2>5. TypeInv'
    <3>1. DOMAIN tasks' \subseteq ranges' /\ tasks' \in [DOMAIN tasks' -> {"running", "ok", "error"}]
      BY Zenon, <2>1 DEF TypeInv
    <3> HIDE DEF high
    <3> QED
      BY Zenon, <2>1, <2>2, <2>4, <3>1 DEF TypeInv, tableVars
  <2>6. RangeInv'
    <3>1. phase' # "pruning" => DOMAIN tasks' = {}
      BY Zenon, <2>1
    <3>2. ASSUME NEW s \in ranges', s \in DOMAIN tasks' => tasks'[s] # "ok"
          PROVE  s \in DOMAIN tasks => tasks[s] # "ok"
      BY Zenon, <2>1, <3>2
    <3> HIDE DEF left
    <3> QED
      BY Zenon, <2>1, <2>2, <3>1, <3>2 DEF RangeInv
  <2>7. ReadInv'
    <3> HIDE DEF left
    <3> QED
      BY ZenonT(30), <1>0, <2>1, <2>2 DEF ReadInv, ReadsFindTheirRows, tableVars, RowsIn
  <2> QED
    BY Zenon, <2>5, <2>6, <2>7
<1> QED
  BY Zenon, <1>1, <1>2, <1>3

LEMMA SafeRestart ==
    ASSUME SafeInv, Restart
    PROVE  SafeInv'
<1> USE DEF SafeInv, Restart, RestartTable
<1>1. TypeInv'
  BY Zenon DEF TypeInv, NoTasks
<1>2. RangeInv'
  BY Zenon DEF RangeInv, NoTasks
<1>3. ReadInv'
  BY DEF ReadInv, TypeInv, ReadsFindTheirRows, RowsIn
<1> QED
  BY Zenon, <1>1, <1>2, <1>3

LEMMA SafeStep ==
    ASSUME SafeInv, [Next]_vars
    PROVE  SafeInv'
<1>1. CASE UNCHANGED vars
  <2>1. TypeInv' /\ RangeInv'
    BY Zenon, <1>1 DEF SafeInv, vars, prunerVars, tableVars, TypeInv, RangeInv
  <2>2. ReadInv'
    BY ZenonT(30), <1>1 DEF SafeInv, vars, prunerVars, tableVars, ReadInv, ReadsFindTheirRows, RowsIn
  <2> QED
    BY Zenon, <2>1, <2>2 DEF SafeInv
<1>2. CASE Land \/ Watermark \/ BeginRead \/ EndRead
             \/ ReadReaderWatermark \/ WriteReaderWatermark
  BY Zenon, <1>2, SafeSurroundings
<1>3. CASE ReadBounds \/ Waited \/ NextChunk \/ SpawnTasks
  BY Zenon, <1>3, SafeRounds
<1>4. ASSUME NEW r \in DOMAIN tasks, Prune(r) \/ PruneFails(r) \/ Finish(r)
      PROVE  SafeInv'
  BY Zenon, <1>4, SafeTasks
<1>5. CASE Restart
  BY Zenon, <1>5, SafeRestart
<1> QED
  BY Zenon, <1>1, <1>2, <1>3, <1>4, <1>5 DEF Next, Prunes, Finishes

LEMMA SafeAlways == Spec => []SafeInv
<1>1. Init => SafeInv
  BY Zenon, SafeInit
<1>2. SafeInv /\ [Next]_vars => SafeInv'
  BY Zenon, SafeStep
<1> QED
  BY <1>1, <1>2, PTL DEF Spec

\* A read in flight finds every row between the watermarks it looked up, for
\* any retention, chunk size and number of readers, and also with pipelines
\* that are fed checkpoints again (pruner.rs, prune_task_impl).
THEOREM ReadsAreSafe == Spec => []ReadsFindTheirRows
<1>1. SafeInv => ReadsFindTheirRows
  BY Zenon DEF SafeInv, ReadInv
<1> QED
  BY <1>1, SafeAlways, PTL

\* No task deletes a range of which a checkpoint was already pruned
\* (PendingRanges::schedule).
THEOREM PrunedOnce == Spec => []NoRangePrunedTwice
<1>1. SafeInv => NoRangePrunedTwice
  <2> SUFFICES ASSUME SafeInv, NEW r \in DOMAIN tasks, tasks[r] = "running",
                      NEW c \in Interval(r), c \in pruned
               PROVE  FALSE
    BY Zenon DEF NoRangePrunedTwice
  <2>1. r \in ranges /\ r \in Nat \X Nat
    BY Zenon DEF SafeInv, TypeInv
  <2>2. c < r[1] \/ r[2] <= c
    BY Zenon, <2>1 DEF SafeInv, RangeInv
  <2> QED
    BY <2>1, <2>2 DEF Interval
<1> QED
  BY <1>1, SafeAlways, PTL

----------------------------------------------------------------------------
(* What pruner_hi promises.                                                *)

Gone(c) == c < pruner_hi \/ c \in pruned

\* Every checkpoint scheduled so far is gone or still pending, so everything
\* below the least pending one is gone; and the watermarks bound what the
\* pruner works on by `hi`, above which alone rows land for the first time.
GoneInv ==
    /\ reader_lo <= hi + 1
    /\ new_reader_lo <= hi + 1
    /\ pruner_hi <= hi + 1
    /\ highest_pruned <= hi + 1
    /\ last_to <= hi + 1
    /\ \A c \in Checkpoints : Gone(c) /\ c \notin refed => RowsIn(c) \cap db = {}
    /\ \A c \in Nat : c < last_to =>
          Gone(c) \/ \E r \in ranges : c \in Interval(r)
    /\ \A r \in DOMAIN tasks : tasks[r] = "ok" => Interval(r) \subseteq pruned
    /\ \A c \in Nat : c < highest_pruned => Gone(c)
    /\ phase = "waiting" => chunk <= pruner_hi
    /\ phase = "scheduling" => chunk <= pruner_hi \/ chunk <= last_to

LEMMA GoneInit ==
    ASSUME Init
    PROVE  GoneInv
<1>1. FirstCheckpoint \in Nat /\ hi = FirstCheckpoint - 1
  BY TableAssumption DEF Init, TableInit
<1>2. DOMAIN tasks = {}
  BY Zenon DEF Init, NoTasks
<1> QED
  BY <1>1, <1>2 DEF Init, TableInit, GoneInv, Gone

\* Rows land above hi or are fed again, and the watermarks only rise.
LEMMA GoneSurroundings ==
    ASSUME SafeInv, GoneInv,
           Land \/ Watermark \/ BeginRead \/ EndRead
             \/ ReadReaderWatermark \/ WriteReaderWatermark
    PROVE  GoneInv'
<1>0. /\ hi \in Int /\ pruner_hi \in Nat /\ last_to \in Nat /\ reader_lo \in Nat
      /\ new_reader_lo \in Nat
      /\ highest_pruned \in Nat /\ pruned \subseteq Int /\ \A c \in pruned : c < last_to
  BY Zenon DEF SafeInv, TypeInv, RangeInv
<1>1. CASE Land
  <2>1. PICK d \in Checkpoints :
          /\ RowsIn(d) # {} /\ CommitRows(RowsIn(d))
          /\ refed' = IF d \in first .. start - 1 /\ (d < pruner_hi \/ d \in pruned)
                        THEN refed \cup {d} ELSE refed
    BY Zenon, <1>1 DEF Land
  <2>2. PICK x \in RowsIn(d) : x[1] > hi \/ x[1] \in first .. start - 1
    BY Zenon, <2>1 DEF CommitRows
  <2>3. x[1] = d
    BY DEF RowsIn
  <2>4. Gone(d) => ~(d > hi)
    BY <1>0, TableAssumption DEF Gone, GoneInv, Checkpoints
  <2>5. /\ db' = db \cup RowsIn(d)
        /\ UNCHANGED <<hi, first, start, reader_lo, pruner_hi, new_reader_lo, prunerVars>>
    BY Zenon, <1>1, <2>1 DEF Land, CommitRows, Upsert
  <2>6. Gone(d) => d \in refed'
    BY Zenon, <2>1, <2>2, <2>3, <2>4 DEF Gone
  <2>7. \A c \in Checkpoints : Gone(c) /\ c \notin refed' => RowsIn(c) \cap db' = {}
    <3> TAKE c \in Checkpoints
    <3> HAVE Gone(c) /\ c \notin refed'
    <3>1. c # d /\ c \notin refed
      BY Zenon, <2>1, <2>6
    <3> QED
      BY Zenon, <2>5, <3>1, RowsInDisjoint DEF GoneInv
  <2> QED
    BY Zenon, <2>5, <2>7 DEF GoneInv, Gone, prunerVars, Checkpoints, RowsIn, Interval
<1>2. CASE Watermark
  <2>1. PICK h \in Checkpoints : AdvanceTo(h)
    BY Zenon, <1>2 DEF Watermark
  <2>2. hi' \in Int /\ hi' > hi
    BY <2>1, TableAssumption DEF AdvanceTo, Checkpoints
  <2>3. UNCHANGED <<db, reader_lo, pruner_hi, new_reader_lo, prunerVars, refed>>
    BY Zenon, <1>2, <2>1 DEF Watermark, AdvanceTo
  <2>4. /\ reader_lo <= hi' + 1
        /\ new_reader_lo <= hi' + 1
        /\ pruner_hi <= hi' + 1
        /\ highest_pruned <= hi' + 1
        /\ last_to <= hi' + 1
    <3>1. /\ reader_lo <= hi + 1 /\ new_reader_lo <= hi + 1 /\ pruner_hi <= hi + 1
          /\ highest_pruned <= hi + 1 /\ last_to <= hi + 1
      BY Zenon DEF GoneInv
    <3>2. \A a, b \in Int : \A n \in Nat : b > a /\ n <= a + 1 => n <= b + 1
      OBVIOUS
    <3>3. hi \in Int /\ \A n \in Nat : n <= hi + 1 => n <= hi' + 1
      BY Zenon, <1>0, <2>2, <3>2
    <3> QED
      BY Zenon, <1>0, <3>1, <3>3
  <2>5. /\ \A c \in Checkpoints : Gone(c)' /\ c \notin refed' => RowsIn(c)' \cap db' = {}
        /\ \A c \in Nat : c < last_to' =>
             Gone(c)' \/ \E r \in ranges' : c \in Interval(r)
        /\ \A c \in Nat : c < highest_pruned' => Gone(c)'
    BY Zenon, <2>3 DEF GoneInv, Gone, prunerVars, RowsIn
  <2> QED
    BY Zenon, <2>3, <2>4, <2>5 DEF GoneInv, prunerVars
<1>3. CASE BeginRead \/ EndRead
  <2>1. UNCHANGED <<tableVars, reader_lo, pruner_hi, new_reader_lo, prunerVars, refed>>
    BY Zenon, <1>3 DEF BeginRead, EndRead
  <2> QED
    BY Zenon, <2>1 DEF GoneInv, Gone, tableVars, prunerVars, Checkpoints, RowsIn, Interval
<1>4. CASE ReadReaderWatermark
  <2>1. new_reader_lo' <= hi + 1
    BY <1>0, <1>4, PrunerAssumption DEF ReadReaderWatermark, NewReaderLo
  <2>2. UNCHANGED <<tableVars, reader_lo, pruner_hi, prunerVars, refed>>
    BY Zenon, <1>4 DEF ReadReaderWatermark
  <2> QED
    BY Zenon, <2>1, <2>2 DEF GoneInv, Gone, tableVars, prunerVars, Checkpoints, RowsIn, Interval
<1>5. CASE WriteReaderWatermark
  <2>1. reader_lo' <= hi + 1 /\ new_reader_lo' <= hi + 1
    <3>1. reader_lo' \in {reader_lo, new_reader_lo} /\ new_reader_lo' = 0
      BY Zenon, <1>5 DEF WriteReaderWatermark, SetReaderWatermark, SetReaderWatermarkFails, Raised
    <3> QED
      BY <1>0, <3>1 DEF GoneInv
  <2>2. UNCHANGED <<tableVars, pruner_hi, prunerVars, refed>>
    BY Zenon, <1>5 DEF WriteReaderWatermark
  <2> QED
    BY Zenon, <2>1, <2>2 DEF GoneInv, Gone, tableVars, prunerVars, Checkpoints, RowsIn, Interval
<1> QED
  BY Zenon, <1>1, <1>2, <1>3, <1>4, <1>5

LEMMA GoneRounds ==
    ASSUME SafeInv, GoneInv, ReadBounds \/ Waited \/ NextChunk \/ SpawnTasks
    PROVE  GoneInv'
<1>0. /\ hi \in Int /\ pruner_hi \in Nat /\ last_to \in Nat /\ reader_lo \in Nat
      /\ highest_pruned \in Nat /\ upto \in Nat /\ chunk \in Nat
      /\ upto <= reader_lo
  BY Zenon DEF SafeInv, TypeInv, ReadInv
<1>1. CASE ReadBounds
  BY <1>0, <1>1 DEF ReadBounds, GoneInv, Gone, tableVars, Checkpoints, RowsIn, Interval
<1>2. CASE Waited
  <2>1. \A c \in Nat : c < chunk => c < pruner_hi
    BY <1>0, <1>2 DEF Waited, GoneInv
  <2>2. chunk <= hi + 1
    BY <1>0, <1>2 DEF Waited, GoneInv
  <2> QED
    BY Zenon, <1>2, <2>1, <2>2 DEF Waited, GoneInv, Gone, tableVars, Checkpoints, RowsIn, Interval
<1>3. CASE NextChunk
  <2> DEFINE to == IF chunk + MaxChunkSize <= upto THEN chunk + MaxChunkSize ELSE upto
             from == IF chunk >= last_to THEN chunk ELSE last_to
  <2>1. /\ phase = "scheduling" /\ Schedule(chunk, to) /\ chunk' = to
        /\ UNCHANGED <<tableVars, reader_lo, pruner_hi, new_reader_lo, reads, phase,
                       upto, tasks, highest_pruned, highest_watermarked, pruned, refed>>
    BY Zenon, <1>3 DEF NextChunk
  <2>2. to \in Nat /\ to <= hi + 1 /\ chunk < to
    BY <1>0, <1>3, PrunerAssumption DEF NextChunk, GoneInv
  <2> HIDE DEF to
  <2>3. CASE to <= last_to
    <3>1. UNCHANGED <<ranges, last_to>>
      BY Zenon, <2>1, <2>3 DEF Schedule
    <3> QED
      BY Zenon, <2>1, <2>3, <3>1 DEF GoneInv, Gone, tableVars, Checkpoints, RowsIn, Interval
  <2>4. CASE ~(to <= last_to)
    <3>1. ranges' = ranges \cup {<<from, to>>} /\ last_to' = to
      BY Zenon, <2>1, <2>4 DEF Schedule
    <3>2. ASSUME NEW c \in Nat, c < to
          PROVE  Gone(c) \/ \E r \in ranges' : c \in Interval(r)
      <4>1. CASE c < last_to
        BY Zenon, <3>1, <4>1 DEF GoneInv
      <4>2. CASE c >= from
        <5>1. from \in Nat
          BY Zenon, <1>0
        <5>2. c \in Interval(<<from, to>>)
          BY <2>2, <3>2, <4>2, <5>1 DEF Interval
        <5> QED
          BY Zenon, <3>1, <5>2
      <4>3. CASE ~(c < last_to) /\ ~(c >= from)
        <5>1. c < chunk /\ ~(chunk <= last_to)
          BY <1>0, <4>3
        <5>2. chunk <= pruner_hi
          BY Zenon, <2>1, <5>1 DEF GoneInv
        <5> QED
          BY <1>0, <5>1, <5>2 DEF Gone
      <4> QED
        BY Zenon, <4>1, <4>2, <4>3
    <3> HIDE DEF from
    <3> QED
      BY <2>1, <2>2, <3>1, <3>2 DEF GoneInv, Gone, tableVars, Checkpoints, RowsIn, Interval
  <2> QED
    BY Zenon, <2>3, <2>4
<1>4. CASE SpawnTasks
  <2>1. \A r \in DOMAIN tasks' : tasks'[r] # "ok"
    BY Zenon, <1>4 DEF SpawnTasks
  <2> QED
    BY Zenon, <1>4, <2>1 DEF SpawnTasks, GoneInv, Gone, tableVars, Checkpoints, RowsIn, Interval
<1> QED
  BY Zenon, <1>1, <1>2, <1>3, <1>4

LEMMA GoneTasks ==
    ASSUME SafeInv, GoneInv,
           NEW r \in DOMAIN tasks, Prune(r) \/ PruneFails(r) \/ Finish(r)
    PROVE  GoneInv'
<1>0. /\ hi \in Int /\ pruner_hi \in Nat /\ last_to \in Nat /\ highest_pruned \in Nat
      /\ ranges \subseteq Nat \X Nat /\ r \in ranges /\ phase = "pruning"
      /\ tasks \in [DOMAIN tasks -> {"running", "ok", "error"}]
      /\ \A s \in ranges : s[1] < s[2] /\ s[2] <= last_to
  BY Zenon DEF SafeInv, TypeInv, RangeInv
<1>b. /\ reader_lo <= hi + 1 /\ new_reader_lo <= hi + 1 /\ pruner_hi <= hi + 1
      /\ highest_pruned <= hi + 1 /\ last_to <= hi + 1
  BY Zenon DEF GoneInv
<1>1. CASE Prune(r)
  <2> USE <1>1 DEF Prune
  <2>1. ASSUME NEW c \in Checkpoints, Gone(c)', c \notin refed'
        PROVE  RowsIn(c)' \cap db' = {}
    <3>1. CASE c \in Interval(r)
      BY <3>1 DEF RowsOfRange, RowsIn
    <3>2. CASE c \notin Interval(r)
      <4>1. Gone(c) /\ c \notin refed
        BY Zenon, <2>1, <3>2 DEF Gone
      <4> QED
        BY Zenon, <4>1 DEF GoneInv, RowsIn
    <3> QED
      BY Zenon, <3>1, <3>2
  <2>2. \A c \in Nat : c < last_to' => Gone(c)' \/ \E s \in ranges' : c \in Interval(s)
    BY Zenon DEF GoneInv, Gone
  <2>3. \A s \in DOMAIN tasks' : tasks'[s] = "ok" => Interval(s) \subseteq pruned'
    BY Zenon, <1>0 DEF GoneInv
  <2>4. \A c \in Nat : c < highest_pruned' => Gone(c)'
    BY Zenon DEF GoneInv, Gone
  <2> QED
    BY Zenon, <1>0, <1>b, <2>1, <2>2, <2>3, <2>4 DEF GoneInv
<1>2. CASE PruneFails(r)
  <2> USE <1>2 DEF PruneFails
  <2>1. \A c \in Checkpoints : Gone(c)' /\ c \notin refed' => RowsIn(c)' \cap db' = {}
    BY Zenon DEF GoneInv, Gone, RowsIn
  <2>2. \A c \in Nat : c < last_to' => Gone(c)' \/ \E s \in ranges' : c \in Interval(s)
    BY Zenon DEF GoneInv, Gone
  <2>3. \A s \in DOMAIN tasks' : tasks'[s] = "ok" => Interval(s) \subseteq pruned'
    BY Zenon, <1>0 DEF GoneInv
  <2>4. \A c \in Nat : c < highest_pruned' => Gone(c)'
    BY Zenon DEF GoneInv, Gone
  <2> QED
    BY Zenon, <1>0, <1>b, <2>1, <2>2, <2>3, <2>4 DEF GoneInv
<1>3. CASE Finish(r)
  <2> DEFINE left == IF tasks[r] = "ok" THEN ranges \ {r} ELSE ranges
             high == IF tasks[r] = "ok" /\ GetPrunerHi(left) > highest_pruned
                       THEN GetPrunerHi(left) ELSE highest_pruned
  <2>1. /\ tasks' = [s \in DOMAIN tasks \ {r} |-> tasks[s]]
        /\ phase' \in {"idle", "pruning"}
        /\ ranges' = left
        /\ highest_pruned' = high
        /\ UNCHANGED <<tableVars, reader_lo, new_reader_lo, reads, upto, chunk, last_to,
                       pruned, refed>>
    <3>1. /\ tasks' = [s \in DOMAIN tasks \ {r} |-> tasks[s]]
          /\ phase' = IF DOMAIN tasks = {r} THEN "idle" ELSE "pruning"
          /\ ranges' = left
          /\ highest_pruned' = high
          /\ UNCHANGED <<tableVars, reader_lo, new_reader_lo, reads, upto, chunk, last_to,
                       pruned, refed>>
      BY Zenon, <1>3 DEF Finish
    <3> QED
      BY Zenon, <3>1
  <2>2. pruner_hi' = pruner_hi \/ (pruner_hi' = high /\ pruner_hi < high)
    BY Zenon, <1>3 DEF Finish, SetPrunerWatermark, Raised
  <2>3. ASSUME NEW c \in Nat, c < last_to
        PROVE  Gone(c) \/ \E s \in left : c \in Interval(s)
    <3>1. CASE Gone(c)
      BY Zenon, <3>1
    <3>2. CASE ~Gone(c)
      <4>1. PICK s \in ranges : c \in Interval(s)
        BY Zenon, <2>3, <3>2 DEF GoneInv
      <4>2. tasks[r] = "ok" => s # r
        BY Zenon, <3>2, <4>1 DEF GoneInv, Gone
      <4> QED
        BY Zenon, <4>1, <4>2
    <3> QED
      BY Zenon, <3>1, <3>2
  <2>4. /\ GetPrunerHi(left) \in Nat /\ GetPrunerHi(left) <= last_to
        /\ \A c \in Nat : c < GetPrunerHi(left) => Gone(c)
    <3>1. CASE left = {}
      BY <1>0, <2>3, <3>1 DEF GetPrunerHi
    <3>2. CASE left # {}
      <4>0. left \in SUBSET (Nat \X Nat) /\ left \subseteq ranges
        BY Zenon, <1>0
      <4>1. PICK f \in left : GetPrunerHi(left) = f[1]
        BY Zenon, <3>2, <4>0, GetPrunerHiIsLeast
      <4>2. \A s \in left : f[1] <= s[1]
        BY Zenon, <3>2, <4>0, <4>1, GetPrunerHiIsLeast
      <4>3. f[1] \in Nat /\ f[1] <= last_to
        BY <1>0, <4>0
      <4>4. ASSUME NEW c \in Nat, c < f[1]
            PROVE  Gone(c)
        <5>1. c < last_to
          BY <1>0, <4>3, <4>4
        <5>2. \A s \in left : ~(c \in Interval(s))
          BY <4>0, <4>2, <4>3, <4>4 DEF Interval
        <5> QED
          BY Zenon, <2>3, <5>1, <5>2
      <4> QED
        BY Zenon, <4>1, <4>3, <4>4
    <3> QED
      BY Zenon, <3>1, <3>2
  <2>5. high \in Nat /\ high <= hi + 1 /\ \A c \in Nat : c < high => Gone(c)
    <3>1. \A c \in Nat : c < highest_pruned => Gone(c)
      BY Zenon DEF GoneInv
    <3> HIDE DEF left
    <3> QED
      BY <1>0, <1>b, <2>4, <3>1
  <2> HIDE DEF left, high
  <2>6. \A c \in Nat : Gone(c)' <=> Gone(c)
    BY <1>0, <2>1, <2>2, <2>5 DEF Gone
  <2>7. Checkpoints \subseteq Nat
    BY TableAssumption DEF Checkpoints
  <2>8. \A c \in Checkpoints : Gone(c)' /\ c \notin refed' => RowsIn(c)' \cap db' = {}
    BY Zenon, <2>1, <2>6, <2>7 DEF GoneInv, RowsIn, tableVars
  <2>9. \A c \in Nat : c < last_to' => Gone(c)' \/ \E s \in ranges' : c \in Interval(s)
    BY Zenon, <2>1, <2>3, <2>6
  <2>10. \A s \in DOMAIN tasks' : tasks'[s] = "ok" => Interval(s) \subseteq pruned'
    BY Zenon, <2>1 DEF GoneInv
  <2>11. \A c \in Nat : c < highest_pruned' => Gone(c)'
    BY Zenon, <2>1, <2>5, <2>6
  <2>12. pruner_hi' <= hi' + 1
    BY Zenon, <1>b, <2>1, <2>2, <2>5 DEF tableVars
  <2> QED
    BY Zenon, <1>b, <2>1, <2>5, <2>8, <2>9, <2>10, <2>11, <2>12 DEF GoneInv, tableVars
<1> QED
  BY Zenon, <1>1, <1>2, <1>3

LEMMA GoneRestart ==
    ASSUME SafeInv, GoneInv, Restart
    PROVE  GoneInv'
<1>1. hi \in Int /\ pruner_hi \in Nat /\ pruner_hi <= hi + 1 /\ hi + 1 >= 0
  BY DEF SafeInv, TypeInv, GoneInv
<1>2. \A c \in Checkpoints : Gone(c)' /\ c \notin refed' => RowsIn(c)' \cap db' = {}
  BY Zenon DEF Restart, RestartTable, GoneInv, Gone, RowsIn
<1>3. /\ DOMAIN tasks' = {} /\ last_to' = 0 /\ highest_pruned' = 0 /\ phase' = "idle"
      /\ new_reader_lo' = 0
  BY Zenon DEF Restart, NoTasks
<1>4. UNCHANGED <<hi, reader_lo, pruner_hi>> /\ reader_lo <= hi + 1
  BY Zenon DEF Restart, RestartTable, GoneInv
<1> QED
  BY <1>1, <1>2, <1>3, <1>4 DEF GoneInv

LEMMA GoneStep ==
    ASSUME SafeInv, GoneInv, [Next]_vars
    PROVE  GoneInv'
<1>1. CASE UNCHANGED vars
  BY Zenon, <1>1 DEF vars, prunerVars, tableVars, GoneInv, Gone, RowsIn, Checkpoints, Interval
<1>2. CASE Land \/ Watermark \/ BeginRead \/ EndRead
             \/ ReadReaderWatermark \/ WriteReaderWatermark
  BY Zenon, <1>2, GoneSurroundings
<1>3. CASE ReadBounds \/ Waited \/ NextChunk \/ SpawnTasks
  BY Zenon, <1>3, GoneRounds
<1>4. ASSUME NEW r \in DOMAIN tasks, Prune(r) \/ PruneFails(r) \/ Finish(r)
      PROVE  GoneInv'
  BY Zenon, <1>4, GoneTasks
<1>5. CASE Restart
  BY Zenon, <1>5, GoneRestart
<1> QED
  BY Zenon, <1>1, <1>2, <1>3, <1>4, <1>5 DEF Next, Prunes, Finishes

\* What pruner_hi says is gone is gone (PrunerWatermark), however chunks fail,
\* whatever order they finish in and whenever the process restarts, except for
\* pruned checkpoints that a cohort starting lower, by whatever MaxLag, has fed
\* to the pipeline once more.
THEOREM PrunerHiIsTrue == Spec => []NothingLeftBelowPrunerHi
<1>1. Init => SafeInv /\ GoneInv
  BY Zenon, SafeInit, GoneInit
<1>2. (SafeInv /\ GoneInv) /\ [Next]_vars => (SafeInv /\ GoneInv)'
  BY Zenon, SafeStep, GoneStep
<1>3. SafeInv /\ GoneInv => NothingLeftBelowPrunerHi
  BY Zenon DEF GoneInv, Gone, NothingLeftBelowPrunerHi
<1> QED
  BY <1>1, <1>2, <1>3, PTL DEF Spec
=============================================================================

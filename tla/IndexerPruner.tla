--------------------------- MODULE IndexerPruner ---------------------------
(***************************************************************************)
(* The tasks of a concurrent pipeline that take old rows away again:       *)
(* reader_watermark raises `reader_lo`, the first checkpoint readers may   *)
(* ask for; the pruner deletes what is below it, in chunks, several at a   *)
(* time, and records in `pruner_hi` how far everything is gone.  They run  *)
(* beside the tasks that fill the table, of which only IndexerTable's      *)
(* promise is used, and beside readers, which look up the watermarks and   *)
(* then read.                                                              *)
(*                                                                         *)
(* The pruner reads its bounds, waits until `delay` has passed since       *)
(* reader_lo was last raised, cuts the interval into chunks, deletes them, *)
(* and handles the results as they come in.  A chunk that failed stays in  *)
(* `ranges` for the next round.                                            *)
(***************************************************************************)
EXTENDS IndexerTable

CONSTANTS
    Retention,      \* PrunerConfig::retention
    MaxChunkSize,   \* PrunerConfig::max_chunk_size
    MaxReads,       \* bound: readers at the same time
    MaxFailures,    \* bound: database operations that report an error
    MaxRestarts     \* bound: restarts of the indexer

ASSUME PrunerAssumption ==
    /\ Retention \in Nat
    /\ MaxChunkSize \in Nat \ {0}
    /\ MaxReads \in Nat
    /\ MaxFailures \in Nat
    /\ MaxRestarts \in Nat

VARIABLES
    reader_lo,      \* watermarks table: first readable checkpoint
    pruner_hi,      \* watermarks table: first checkpoint not yet pruned
    new_reader_lo,  \* reader_watermark: what it is about to write, or 0
    reads,          \* reads in flight: reader number -> <<reader_lo, hi>> they saw
    phase,          \* pruner: "idle", "waiting", "scheduling" or "pruning"
    upto,           \* pruner: reader_lo when the bounds were read
    chunk,          \* pruner: pruner_hi when they were read, then the next chunk
    ranges,         \* PendingRanges: <<from, to_exclusive>> not yet pruned
    last_to,        \* PendingRanges: end of the last scheduled range, or 0
    tasks,          \* pruner: ranges of this round -> "running", "ok" or "error"
    highest_pruned, highest_watermarked,  \* pruner: as in the code
    pruned,         \* history: checkpoints this process pruned successfully
    refed,          \* history: pruned checkpoints whose rows were written again
    failures, restarts

prunerVars == <<phase, upto, chunk, ranges, last_to, tasks,
                highest_pruned, highest_watermarked, pruned>>
vars == <<tableVars, reader_lo, pruner_hi, new_reader_lo, reads, prunerVars, refed,
          failures, restarts>>

NoTasks == [r \in {} |-> "running"]

Interval(r) == r[1] .. r[2] - 1

\* The update of a watermark in the database that filters on a lower value.
Raised(old, new) == IF old < new THEN new ELSE old

Init ==
    /\ TableInit
    /\ reader_lo = FirstCheckpoint
    /\ pruner_hi = FirstCheckpoint
    /\ new_reader_lo = 0
    /\ reads = [n \in {} |-> <<>>]
    /\ phase = "idle"
    /\ upto = 0
    /\ chunk = 0
    /\ ranges = {}
    /\ last_to = 0
    /\ tasks = NoTasks
    /\ highest_pruned = 0
    /\ highest_watermarked = 0
    /\ pruned = {}
    /\ refed = {}
    /\ failures = 0
    /\ restarts = 0

----------------------------------------------------------------------------
(* The other tasks of the pipeline: rows land and the watermark moves.     *)
(* A pipeline whose cohort starts lower is fed checkpoints it watermarked  *)
(* long ago, and its collector writes their rows again, also those of a    *)
(* checkpoint that has been pruned; `refed` records those.                 *)

Land ==
    /\ \E c \in Checkpoints :
         /\ RowsIn(c) # {}
         /\ CommitRows(RowsIn(c))
         /\ refed' = IF c \in first .. start - 1 /\ (c < pruner_hi \/ c \in pruned)
                       THEN refed \cup {c} ELSE refed
    /\ UNCHANGED <<reader_lo, pruner_hi, new_reader_lo, reads, prunerVars,
                   failures, restarts>>

Watermark ==
    /\ \E h \in Checkpoints : AdvanceTo(h)
    /\ UNCHANGED <<reader_lo, pruner_hi, new_reader_lo, reads, prunerVars, refed,
                   failures, restarts>>

----------------------------------------------------------------------------
(* Readers.                                                                *)

BeginRead ==
    \E n \in 1 .. MaxReads :
      /\ n \notin DOMAIN reads
      /\ reader_lo <= hi
      /\ reads' = [m \in DOMAIN reads \cup {n} |->
                     IF m = n THEN <<reader_lo, hi>> ELSE reads[m]]
      /\ UNCHANGED <<tableVars, reader_lo, pruner_hi, new_reader_lo, prunerVars,
                     refed, failures, restarts>>

EndRead ==
    \E n \in DOMAIN reads :
      /\ reads' = [m \in DOMAIN reads \ {n} |-> reads[m]]
      /\ UNCHANGED <<tableVars, reader_lo, pruner_hi, new_reader_lo, prunerVars,
                     refed, failures, restarts>>

----------------------------------------------------------------------------
(* reader_watermark: a tick reads the watermarks (there are none to act on *)
(* while reader_lo is past hi) and then writes, which may fail, with or    *)
(* without effect.                                                         *)

NewReaderLo == IF hi + 1 >= Retention THEN hi + 1 - Retention ELSE 0

ReadReaderWatermark ==
    /\ new_reader_lo = 0
    /\ reader_lo <= hi
    /\ NewReaderLo > reader_lo
    /\ new_reader_lo' = NewReaderLo
    /\ UNCHANGED <<tableVars, reader_lo, pruner_hi, reads, prunerVars, refed,
                   failures, restarts>>

SetReaderWatermark ==
    /\ reader_lo' = Raised(reader_lo, new_reader_lo)
    /\ UNCHANGED failures

SetReaderWatermarkFails ==
    /\ failures < MaxFailures
    /\ reader_lo' \in {reader_lo, Raised(reader_lo, new_reader_lo)}
    /\ failures' = failures + 1

WriteReaderWatermark ==
    /\ new_reader_lo # 0
    /\ SetReaderWatermark \/ SetReaderWatermarkFails
    /\ new_reader_lo' = 0
    /\ UNCHANGED <<tableVars, pruner_hi, reads, prunerVars, refed, restarts>>

----------------------------------------------------------------------------
(* Pruner.                                                                 *)

\* (1) The bounds are read from the database.
ReadBounds ==
    /\ phase = "idle"
    /\ phase' = "waiting"
    /\ upto' = reader_lo
    /\ chunk' = pruner_hi
    /\ UNCHANGED <<tableVars, reader_lo, pruner_hi, new_reader_lo, reads, ranges,
                   last_to, tasks, highest_pruned, highest_watermarked, pruned,
                   refed, failures, restarts>>

\* Mutant: the pruner does not wait for reads to land.
Waited_not ==
    /\ phase = "waiting"
    /\ phase' = "scheduling"
    /\ highest_pruned' = chunk
    /\ highest_watermarked' = chunk
    /\ UNCHANGED <<tableVars, reader_lo, pruner_hi, new_reader_lo, reads, upto,
                   chunk, ranges, last_to, tasks, pruned, refed, failures,
                   restarts>>

\* (2) The wait for `delay` since reader_lo was last raised is over.  The delay
\* is configured to outlast a read, so the reads that saw a lower reader_lo,
\* which began before it was raised, have ended.
Waited ==
    /\ phase = "waiting"
    /\ \A n \in DOMAIN reads : reads[n][1] >= upto
    /\ phase' = "scheduling"
    /\ highest_pruned' = chunk
    /\ highest_watermarked' = chunk
    /\ UNCHANGED <<tableVars, reader_lo, pruner_hi, new_reader_lo, reads, upto,
                   chunk, ranges, last_to, tasks, pruned, refed, failures,
                   restarts>>

\* Mutant: the last scheduled range is not consulted.
Schedule_again(from, to) ==
    /\ ranges' = ranges \cup {<<from, to>>}
    /\ last_to' = to

\* PendingRanges::schedule
Schedule(from, to) ==
    IF to <= last_to
      THEN UNCHANGED <<ranges, last_to>>
      ELSE /\ ranges' = ranges \cup {<<IF from >= last_to THEN from ELSE last_to, to>>}
           /\ last_to' = to

\* (3) PrunerWatermark::next_chunk, and the chunk is scheduled.
NextChunk ==
    /\ phase = "scheduling"
    /\ chunk < upto
    /\ LET to == IF chunk + MaxChunkSize <= upto THEN chunk + MaxChunkSize ELSE upto
       IN  /\ Schedule(chunk, to)
           /\ chunk' = to
    /\ UNCHANGED <<tableVars, reader_lo, pruner_hi, new_reader_lo, reads, phase,
                   upto, tasks, highest_pruned, highest_watermarked, pruned, refed,
                   failures, restarts>>

\* There are no more chunks: a task is spawned for every pending range.
SpawnTasks ==
    /\ phase = "scheduling"
    /\ chunk >= upto
    /\ phase' = IF ranges = {} THEN "idle" ELSE "pruning"
    /\ tasks' = [r \in ranges |-> "running"]
    /\ UNCHANGED <<tableVars, reader_lo, pruner_hi, new_reader_lo, reads, upto,
                   chunk, ranges, last_to, highest_pruned, highest_watermarked,
                   pruned, refed, failures, restarts>>

RowsOfRange(r) == UNION {RowsIn(c) : c \in Interval(r) \cap Checkpoints}

\* prune_task_impl
Prune(r) ==
    /\ tasks[r] = "running"
    /\ db' = db \ RowsOfRange(r)
    /\ tasks' = [tasks EXCEPT ![r] = "ok"]
    /\ pruned' = pruned \cup Interval(r)
    /\ refed' = refed \ Interval(r)
    /\ UNCHANGED <<hi, first, start, reader_lo, pruner_hi, new_reader_lo, reads,
                   phase, upto, chunk, ranges, last_to, highest_pruned,
                   highest_watermarked, failures, restarts>>

\* It reports an error, with or without effect.
PruneFails(r) ==
    /\ tasks[r] = "running"
    /\ failures < MaxFailures
    /\ db' \in {db, db \ RowsOfRange(r)}
    /\ tasks' = [tasks EXCEPT ![r] = "error"]
    /\ failures' = failures + 1
    /\ UNCHANGED <<hi, first, start, reader_lo, pruner_hi, new_reader_lo, reads,
                   phase, upto, chunk, ranges, last_to, highest_pruned,
                   highest_watermarked, pruned, refed, restarts>>

\* Mutant: ranges still pending are not consulted.
GetPrunerHi_last(rs) == last_to

\* PendingRanges::get_pruner_hi
GetPrunerHi(rs) ==
    IF rs = {} THEN last_to
    ELSE CHOOSE f \in {r[1] : r \in rs} : \A r \in rs : f <= r[1]

\* set_pruner_watermark, which only raises the watermark.
SetPrunerWatermark(h) ==
    IF pruner_hi < h
      THEN pruner_hi' = h /\ highest_watermarked' = h
      ELSE UNCHANGED <<pruner_hi, highest_watermarked>>

\* Mutant: a range whose task failed is dropped.
Finish_forgets(r) ==
    /\ tasks[r] \in {"ok", "error"}
    /\ tasks' = [s \in DOMAIN tasks \ {r} |-> tasks[s]]
    /\ phase' = IF DOMAIN tasks = {r} THEN "idle" ELSE "pruning"
    /\ ranges' = ranges \ {r}
    /\ highest_pruned' = highest_pruned
    /\ UNCHANGED <<tableVars, reader_lo, pruner_hi, new_reader_lo, reads, upto,
                   chunk, last_to, pruned, highest_watermarked, refed, failures,
                   restarts>>

\* (4) The result of a task is handled and, if more is known to be pruned than
\* is recorded, the watermark is written, which may fail.
Finish(r) ==
    /\ tasks[r] \in {"ok", "error"}
    /\ tasks' = [s \in DOMAIN tasks \ {r} |-> tasks[s]]
    /\ phase' = IF DOMAIN tasks = {r} THEN "idle" ELSE "pruning"
    /\ LET left == IF tasks[r] = "ok" THEN ranges \ {r} ELSE ranges
           high == IF tasks[r] = "ok" /\ GetPrunerHi(left) > highest_pruned
                     THEN GetPrunerHi(left) ELSE highest_pruned
       IN  /\ ranges' = left
           /\ highest_pruned' = high
           /\ \/ /\ high > highest_watermarked
                 /\ SetPrunerWatermark(high)
                 /\ UNCHANGED failures
              \/ /\ high <= highest_watermarked
                 /\ UNCHANGED <<pruner_hi, highest_watermarked, failures>>
              \/ /\ high > highest_watermarked
                 /\ failures < MaxFailures
                 /\ pruner_hi' \in {pruner_hi, Raised(pruner_hi, high)}
                 /\ failures' = failures + 1
                 /\ UNCHANGED highest_watermarked
    /\ UNCHANGED <<tableVars, reader_lo, new_reader_lo, reads, upto, chunk,
                   last_to, pruned, refed, restarts>>

----------------------------------------------------------------------------
(* The process stops at any point and starts again from the database.      *)

Restart ==
    /\ restarts < MaxRestarts
    /\ RestartTable
    /\ phase' = "idle"
    /\ upto' = 0
    /\ chunk' = 0
    /\ ranges' = {}
    /\ last_to' = 0
    /\ tasks' = NoTasks
    /\ highest_pruned' = 0
    /\ highest_watermarked' = 0
    /\ pruned' = {}
    /\ restarts' = restarts + 1
    /\ new_reader_lo' = 0
    /\ UNCHANGED <<reader_lo, pruner_hi, reads, refed, failures>>

----------------------------------------------------------------------------
Prunes == \E r \in DOMAIN tasks : Prune(r)
Finishes == \E r \in DOMAIN tasks : Finish(r)

Next ==
    \/ Land
    \/ Watermark
    \/ BeginRead
    \/ EndRead
    \/ ReadReaderWatermark
    \/ WriteReaderWatermark
    \/ ReadBounds
    \/ Waited
    \/ NextChunk
    \/ SpawnTasks
    \/ Prunes
    \/ \E r \in DOMAIN tasks : PruneFails(r)
    \/ Finishes
    \/ Restart

Spec == Init /\ [][Next]_vars

\* Intervals keep firing, every read ends, and a spawned task runs to its end.
FairSpec ==
    /\ Spec
    /\ \A n \in 1 .. MaxReads : WF_vars(n \in DOMAIN reads /\ EndRead /\ n \notin DOMAIN reads')
    /\ WF_vars(ReadReaderWatermark)
    /\ WF_vars(WriteReaderWatermark)
    /\ WF_vars(ReadBounds)
    /\ WF_vars(Waited)
    /\ WF_vars(NextChunk)
    /\ WF_vars(SpawnTasks)
    /\ WF_vars(Prunes)
    /\ WF_vars(Finishes)

----------------------------------------------------------------------------
(* Properties.                                                             *)

\* A read finds every row between the watermarks it looked up, for as long as
\* it is in flight: the pruner never deletes a row a reader may still ask for,
\* though reader_lo is raised while it runs and failed chunks are retried in
\* later rounds (pruner.rs: "to ensure that the pruner does not interfere with
\* reads that are still in flight").
ReadsFindTheirRows ==
    \A n \in DOMAIN reads : \A c \in reads[n][1] .. reads[n][2] : RowsIn(c) \subseteq db

\* Within one run of the process no checkpoint is pruned again after it was
\* pruned successfully, though the bounds read from the database lag behind
\* (PendingRanges::schedule: "to avoid double pruning of the same range").
NoRangePrunedTwice ==
    \A r \in DOMAIN tasks : tasks[r] = "running" => Interval(r) \cap pruned = {}

\* What pruner_hi says is gone is gone, also when a lower chunk failed and a
\* higher one succeeded, and after a restart ("The pruner has already deleted
\* up to this checkpoint (exclusive)", PrunerWatermark), except where a cohort
\* that starts lower has fed the pipeline a pruned checkpoint once more: the
\* collector writes its rows again and nothing deletes them.  Every row below
\* pruner_hi is of such a checkpoint.
NothingLeftBelowPrunerHi ==
    \A c \in Checkpoints : c < pruner_hi /\ c \notin refed => RowsIn(c) \cap db = {}

\* Rows below the first readable checkpoint do not stay for ever, failed chunks
\* included, except those of checkpoints that were fed to the pipeline once more
\* after they had been pruned.
EverythingBelowReaderLoIsPruned ==
    <>[](\A c \in Checkpoints : c < reader_lo /\ c \notin refed => RowsIn(c) \cap db = {})
=============================================================================

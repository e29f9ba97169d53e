-------------------------- MODULE IndexerPipeline --------------------------
(***************************************************************************)
(* The concurrent pipeline of haneul-indexer-alt-framework: a processor    *)
(* turns checkpoints into rows, out of order; the collector gathers rows   *)
(* into batches, splitting checkpoints between batches; the committer      *)
(* writes several batches at a time, each retried until it succeeds; the   *)
(* commit_watermark task adds the parts of every checkpoint up and moves   *)
(* the watermark over the complete ones.  The watermark is written to the  *)
(* database apart from the rows, and a restart resumes from it.            *)
(*                                                                         *)
(* A checkpoint's rows are numbered, and taken in that order.  An empty    *)
(* heartbeat batch changes nothing downstream and is left out.             *)
(***************************************************************************)
EXTENDS IndexerTable, Sequences, FiniteSetsExt

CONSTANTS
    Fanout,              \* checkpoints between ingestion and the collector
    MinEagerRows, MaxPendingRows, MaxWatermarkUpdates,  \* Handler's constants
    MaxChunkRows,        \* rows the handler's batch holds (max_chunk_rows)
    WriteConcurrency,    \* batches written at the same time
    ChannelSize,         \* capacity of the channels between the tasks
    MaxFailures,         \* bound: database operations that report an error
    MaxRestarts          \* bound: restarts of the indexer

ASSUME PipelineAssumption ==
    {Fanout, MaxPendingRows, MaxWatermarkUpdates, MaxChunkRows,
     WriteConcurrency, ChannelSize} \subseteq Nat \ {0}

VARIABLES
    ingested,          \* the next checkpoint to ingest
    processing,        \* checkpoints being processed, or in the collector's channel
    pending,           \* collector: checkpoint -> rows not yet put into a batch
    flushing,          \* collector: in the loop that drains `pending`
    batches,           \* batches sent to the committer, oldest first
    parts,             \* watermark parts sent to commit_watermark
    precommitted,      \* commit_watermark: checkpoint -> rows known written
    next_checkpoint,   \* commit_watermark: the next checkpoint to move over
    pending_watermark, \* commit_watermark: watermarks to write, at most one
    panicked,          \* WatermarkPart::add's assertion failed
    failures, restarts

collectorVars == <<pending, flushing>>
watermarkVars == <<precommitted, next_checkpoint, pending_watermark, panicked>>
bounds        == <<failures, restarts>>
vars == <<tableVars, ingested, processing, collectorVars, batches, parts,
          watermarkVars, bounds>>

\* f with the pairs of g added or overwritten.
Over(g, f) == [c \in DOMAIN f \cup DOMAIN g |->
                 IF c \in DOMAIN g THEN g[c] ELSE f[c]]

Without(f, S) == [c \in DOMAIN f \ S |-> f[c]]

Empty == [c \in {} |-> {}]

----------------------------------------------------------------------------
Init ==
    /\ TableInit
    /\ ingested = first
    /\ processing = {}
    /\ pending = Empty
    /\ flushing = FALSE
    /\ batches = <<>>
    /\ parts = {}
    /\ precommitted = Empty
    /\ next_checkpoint = hi + 1
    /\ pending_watermark = {}
    /\ panicked = FALSE
    /\ failures = 0
    /\ restarts = 0

----------------------------------------------------------------------------
(* Ingestion and processor: any checkpoint being processed may be the next *)
(* to reach the collector.                                                 *)

Ingest ==
    /\ ingested <= LastCheckpoint
    /\ Cardinality(processing) < Fanout
    /\ processing' = processing \cup {ingested}
    /\ ingested' = ingested + 1
    /\ UNCHANGED <<tableVars, collectorVars, batches, parts, watermarkVars, bounds>>

----------------------------------------------------------------------------
(* Collector.                                                              *)

PendingRows == MapThenSumSet(LAMBDA c : Cardinality(pending[c]), DOMAIN pending)

RowsOfAll(S) == MapThenSumSet(LAMBDA c : RowsOf[c], S)

\* The drain loop takes what has arrived until max_pending_rows are pending.
Drain(S) ==
    /\ S # {}
    /\ \E c \in S : PendingRows + RowsOfAll(S \ {c}) < MaxPendingRows

Collect(S) ==
    /\ ~flushing
    /\ PendingRows < MaxPendingRows
    /\ Drain(S)
    /\ processing' = processing \ S
    /\ pending' = Over([c \in S |-> 1 .. RowsOf[c]], pending)
    /\ flushing' = (PendingRows + RowsOfAll(S) >= MinEagerRows)
    /\ UNCHANGED <<tableVars, ingested, batches, parts, watermarkVars, bounds>>

\* Mutant: the poll interval only flushes when rows are pending.
Tick_with_rows ==
    /\ ~flushing
    /\ PendingRows > 0
    /\ flushing' = TRUE
    /\ UNCHANGED <<tableVars, ingested, processing, pending, batches, parts,
                   watermarkVars, bounds>>

\* The poll interval fires.
Tick ==
    /\ ~flushing
    /\ pending # Empty
    /\ flushing' = TRUE
    /\ UNCHANGED <<tableVars, ingested, processing, pending, batches, parts,
                   watermarkVars, bounds>>

\* Handler::batch of the Postgres handlers: all the values if they fit, and
\* otherwise as many as do, which makes the batch ready.
Fitting(rows, room) == {i \in rows : Cardinality({j \in rows : j <= i}) <= room}

\* One round of the flush loop over the checkpoints below c, lowest first.
Gathered ==
    LET gather[c \in 0 .. LastCheckpoint + 1] ==
          IF c = 0 THEN [parts |-> Empty, len |-> 0, ready |-> FALSE]
          ELSE LET g == gather[c - 1]
                   room == MaxChunkRows - g.len
                   taken == Fitting(pending[c - 1], room)
               IN  IF \/ g.ready
                      \/ c - 1 \notin DOMAIN pending
                      \/ Cardinality(DOMAIN g.parts) >= MaxWatermarkUpdates
                     THEN g
                     ELSE [parts |-> Over([d \in {c - 1} |-> taken], g.parts),
                           len   |-> g.len + Cardinality(taken),
                           ready |-> taken # pending[c - 1]]
    IN  gather[LastCheckpoint + 1].parts

Flush ==
    /\ flushing
    /\ Len(batches) < WriteConcurrency + ChannelSize
    /\ LET batch == Gathered
           left == [c \in DOMAIN pending |->
                      IF c \in DOMAIN batch THEN pending[c] \ batch[c] ELSE pending[c]]
       IN  /\ pending' = Without(left, {c \in DOMAIN batch : left[c] = {}})
           /\ batches' = Append(batches, batch)
    /\ flushing' = (pending' # Empty)
    /\ UNCHANGED <<tableVars, ingested, processing, parts, watermarkVars, bounds>>

----------------------------------------------------------------------------
(* Committer: the oldest WriteConcurrency batches are being written.       *)

BatchRows(batch) == UNION {{<<c, i>> : i \in batch[c]} : c \in DOMAIN batch}

\* Handler::commit succeeds, and the parts are sent on.
Commit(i) ==
    /\ Cardinality(parts) < ChannelSize
    /\ Upsert(BatchRows(batches[i]))
    /\ parts' = parts \cup {batches[i]}
    /\ batches' = SubSeq(batches, 1, i - 1) \o SubSeq(batches, i + 1, Len(batches))
    /\ UNCHANGED <<ingested, processing, collectorVars, watermarkVars, bounds>>

\* The commit reports an error, though rows of the batch may have landed; the
\* backoff retries it.
CommitFails(i) ==
    /\ failures < MaxFailures
    /\ BatchRows(batches[i]) # {}
    /\ \E rows \in {{}, BatchRows(batches[i])} : Upsert(rows)
    /\ failures' = failures + 1
    /\ UNCHANGED <<ingested, processing, collectorVars, batches, parts,
                   watermarkVars, restarts>>

Writing == 1 .. Min({Len(batches), WriteConcurrency})

----------------------------------------------------------------------------
(* commit_watermark.                                                       *)

\* Mutant: is_complete is not consulted.
Passed_incomplete(pre, next) ==
    LET passes[c \in 0 .. LastCheckpoint + 1] ==
          IF c = 0 THEN [n |-> next, stop |-> FALSE]
          ELSE LET p == passes[c - 1]
               IN  IF p.stop \/ c - 1 \notin DOMAIN pre THEN p
                   ELSE IF p.n < c - 1
                     THEN [p EXCEPT !.stop = TRUE]
                     ELSE [p EXCEPT !.n = IF @ = c - 1 THEN c ELSE @]
    IN  passes

\* The lowest checkpoints of `pre` the task moves over, starting at `next`:
\* complete ones that are next, and complete ones from the past.
Passed(pre, next) ==
    LET passes[c \in 0 .. LastCheckpoint + 1] ==
          \* [n: next_checkpoint, stop: an incomplete or a future part was met]
          IF c = 0 THEN [n |-> next, stop |-> FALSE]
          ELSE LET p == passes[c - 1]
               IN  IF p.stop \/ c - 1 \notin DOMAIN pre THEN p
                   ELSE IF pre[c - 1] # RowsOf[c - 1] \/ p.n < c - 1
                     THEN [p EXCEPT !.stop = TRUE]
                     ELSE [p EXCEPT !.n = IF @ = c - 1 THEN c ELSE @]
    IN  passes

\* Mutant: a part replaces the one already there.
Added_replaces(part) == Over([c \in DOMAIN part |-> Cardinality(part[c])], precommitted)

\* The parts of a batch are added to what is known written.
Added(part) ==
    LET sum == [c \in DOMAIN part |->
                  Cardinality(part[c]) + (IF c \in DOMAIN precommitted
                                            THEN precommitted[c] ELSE 0)]
    IN  Over(sum, precommitted)

Advance(pre) ==
    LET p == Passed(pre, next_checkpoint)
        moved == {c \in DOMAIN pre : ~p[c + 1].stop}
        next  == p[LastCheckpoint + 1].n
    IN  /\ precommitted' = Without(pre, moved)
        /\ next_checkpoint' = next
        /\ pending_watermark' = IF next > next_checkpoint THEN {next - 1}
                                ELSE pending_watermark

ReceiveParts(part) ==
    /\ parts' = parts \ {part}
    /\ Advance(Added(part))
    /\ panicked' = (\E c \in DOMAIN part :
                      /\ c \in DOMAIN precommitted
                      /\ Added(part)[c] > RowsOf[c])
    /\ UNCHANGED <<tableVars, ingested, processing, collectorVars, batches, bounds>>

\* The timer fires with a watermark to write; the store raises its own or, if
\* that is already as high, leaves it.
SetCommitterWatermark(h) ==
    hi' = IF hi < h THEN h ELSE hi

WriteWatermark ==
    /\ \E h \in pending_watermark : SetCommitterWatermark(h)
    /\ pending_watermark' = {}
    /\ UNCHANGED <<db, first, start, ingested, processing, collectorVars, batches, parts,
                   precommitted, next_checkpoint, panicked, bounds>>

\* The write reports an error, with or without effect, and is kept for the next tick.
WriteWatermarkFails ==
    /\ failures < MaxFailures
    /\ \E h \in pending_watermark : SetCommitterWatermark(h) \/ UNCHANGED hi
    /\ failures' = failures + 1
    /\ UNCHANGED <<db, first, start, ingested, processing, collectorVars, batches, parts,
                   watermarkVars, restarts>>

----------------------------------------------------------------------------
(* The process stops at any point and starts again from the database.      *)

Restart ==
    /\ restarts < MaxRestarts
    /\ RestartTable
    /\ ingested' = first'
    /\ processing' = {}
    /\ pending' = Empty
    /\ flushing' = FALSE
    /\ batches' = <<>>
    /\ parts' = {}
    /\ precommitted' = Empty
    /\ next_checkpoint' = hi + 1
    /\ pending_watermark' = {}
    /\ restarts' = restarts + 1
    /\ UNCHANGED <<panicked, failures>>

----------------------------------------------------------------------------
Commits == \E i \in Writing : Commit(i)
Receives == \E part \in parts : ReceiveParts(part)
Collects == \E S \in SUBSET processing : Collect(S)

Next ==
    \/ Ingest
    \/ Collects
    \/ Tick
    \/ Flush
    \/ Commits
    \/ \E i \in Writing : CommitFails(i)
    \/ Receives
    \/ WriteWatermark
    \/ WriteWatermarkFails
    \/ Restart

Spec == Init /\ [][Next]_vars

\* Each task is a loop that runs when it has something to do; intervals keep
\* firing; a commit is retried without a limit (max_elapsed_time: None), so it
\* succeeds once the database answers.
FairSpec ==
    /\ Spec
    /\ WF_vars(Ingest)
    /\ WF_vars(Collects)
    /\ WF_vars(Tick)
    /\ WF_vars(Flush)
    /\ WF_vars(Commits)
    /\ WF_vars(Receives)
    /\ WF_vars(WriteWatermark)

----------------------------------------------------------------------------
(* Properties.                                                             *)

\* The pipeline keeps the promise of its table, through checkpoints split
\* between batches, batches written out of order and retried, failed writes of
\* the watermark and restarts: the watermark in the database only moves over
\* checkpoints all of whose rows are there (commit_watermark.rs: "without going
\* over any holes in the sequence of checkpoints"), and no row of a checkpoint it
\* has passed is still on its way, but for checkpoints from the pipeline's past.
ImplementsTable == TableSpec

\* The rows of checkpoint c in the stages after the collector took it.
InFlight(c) ==
    LET of(f) == IF c \in DOMAIN f THEN Cardinality(f[c]) ELSE 0
    IN  of(pending) + MapThenSumSet(LAMBDA i : of(batches[i]), DOMAIN batches)
                    + MapThenSumSet(LAMBDA p : of(p), parts)

\* The parts of a checkpoint account for each of its rows once, whatever the
\* batches it was split between and the order in which they are written: what
\* the collector holds, what is being written and what is known written add up
\* to the rows of the checkpoint, so WatermarkPart::add never sees more rows
\* than there are (its assertion holds) and no part is missing at the end.
RowsAccountedFor ==
    /\ ~panicked
    /\ \A c \in first .. ingested - 1 :
         \/ c \in processing
         \/ c \in DOMAIN precommitted /\ InFlight(c) + precommitted[c] = RowsOf[c]
         \/ c \notin DOMAIN precommitted /\ InFlight(c) \in {0, RowsOf[c]}

\* Every checkpoint up to the last is eventually watermarked in the database:
\* no checkpoint without rows, no full channel, no failed write of the
\* watermark and no restart leaves the pipeline waiting for ever.
EverythingIsWatermarked == <>[](hi = LastCheckpoint)
=============================================================================

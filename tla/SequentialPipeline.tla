------------------------- MODULE SequentialPipeline -------------------------
(***************************************************************************)
(* The sequential pipeline of haneul-indexer-alt-framework, fed by the     *)
(* broadcaster: checkpoints arrive and are processed out of order; the     *)
(* collector puts them back in order and hands batches of contiguous       *)
(* checkpoints to the committer, which writes one batch at a time,         *)
(* together with the watermark, in a transaction, and retries it until it  *)
(* succeeds.  A restart resumes after the watermark; a cohort that starts  *)
(* lower feeds a pipeline checkpoints from its past.                       *)
(***************************************************************************)
EXTENDS Broadcaster, Sequences, FiniteSetsExt

CONSTANTS
    RowsOf,             \* checkpoint -> the number of rows a processor makes of it
    MaxLag,             \* how far behind this pipeline another one of its cohort is
    Fanout, MinEagerRows, MaxPendingRows, MaxBatchCheckpoints, PipelineDepth,
    MaxFailures, MaxRestarts

Checkpoints == 0 .. EndCp - 1

ASSUME SequentialAssumption ==
    /\ {MaxLag, MaxFailures, MaxRestarts} \subseteq Nat
    /\ {Fanout, MaxBatchCheckpoints, PipelineDepth} \subseteq Nat \ {0}
    /\ RowsOf \in [Checkpoints -> Nat]

VARIABLES
    hi,              \* the watermark in the database, -1 if there is none
    committed,       \* history: the checkpoints committed, in commit order
    unacknowledged,  \* history: has a transaction taken effect and reported an error?
    processing,      \* checkpoints being processed, or in the collector's channel
    pending,         \* collector: the reorder buffer
    pending_rows,    \* collector: rows in it
    next_checkpoint, \* collector: the next checkpoint to put in a batch
    flushing,        \* collector: in the loop that emits batches
    batches,         \* batches sent and not yet committed, <<first, last>>
    failures, restarts

database == <<hi, committed, unacknowledged>>
collectorVars == <<pending, pending_rows, next_checkpoint, flushing>>
bounds == <<failures, restarts>>
vars == <<broadcasterVars, database, processing, collectorVars, batches, bounds>>

\* The rows of a set of checkpoints, numbered within each of them.
RowsOfAll(S) == Cardinality(UNION {{c} \X (1 .. RowsOf[c]) : c \in S})

StartsAt(h) == {c \in 0 .. h + 1 : c + MaxLag >= h + 1}

Init ==
    /\ BroadcasterInit
    /\ hi = -1
    /\ committed = <<>>
    /\ unacknowledged = FALSE
    /\ processing = {}
    /\ pending = {}
    /\ pending_rows = 0
    /\ next_checkpoint = 0
    /\ flushing = FALSE
    /\ batches = <<>>
    /\ failures = 0
    /\ restarts = 0

\* What the broadcaster sends goes to the processor, if its channel has room.
Feeds ==
    /\ sent' # sent => Cardinality(processing) < Fanout
    /\ processing' = processing \cup {c \in Cps : sent'[c] # sent[c]}
    /\ UNCHANGED <<database, collectorVars, batches, bounds>>

Broadcast ==
    /\ \/ NetworkAdvances
       \/ NoClient
       \/ Fallback
       \/ Connect
       \/ Fetch
       \/ Fetches
       \/ Delivers
       \/ StreamBreaks
       \/ EndRound
    /\ Feeds

----------------------------------------------------------------------------
(* Collector.                                                              *)

\* Mutant: receiving is gated by max_pending_rows, as in the concurrent pipeline.
Drain_gated(S) ==
    /\ pending_rows < MaxPendingRows
    /\ S # {}
    /\ \E c \in S : pending_rows + RowsOfAll(S \ {c}) < MaxPendingRows

\* At least one checkpoint is received whatever is pending, and more while
\* fewer than max_pending_rows are.
Drain(S) ==
    \E c \in S : S = {c} \/ pending_rows + RowsOfAll(S \ {c}) < MaxPendingRows

Collect(S) ==
    /\ ~flushing
    /\ Drain(S)
    /\ processing' = processing \ S
    /\ pending' = pending \cup S
    /\ pending_rows' = pending_rows + RowsOfAll(S)
    /\ flushing' = (pending_rows' >= MinEagerRows)
    /\ UNCHANGED <<broadcasterVars, database, next_checkpoint, batches, bounds>>

\* The poll interval fires.
Tick ==
    /\ ~flushing
    /\ pending # {}
    /\ flushing' = TRUE
    /\ UNCHANGED <<broadcasterVars, database, processing, pending, pending_rows,
                   next_checkpoint, batches, bounds>>

\* Pending checkpoints from the past, dropped on the way.
Stale == {c \in pending : c < next_checkpoint}

\* Mutant: their rows stay in pending_rows.
StaleRows_kept == 0

StaleRows == RowsOfAll(Stale)

\* The last checkpoint of the next batch: contiguous from next_checkpoint, at
\* most max_batch_checkpoints of them.
BatchEnd ==
    Max({c \in next_checkpoint - 1 .. next_checkpoint + MaxBatchCheckpoints - 1 :
           next_checkpoint .. c \subseteq pending})

\* One round of the flush loop: a batch is sent, once the channel has room for
\* it, or there is none to send and the collector goes back to wait.  (The count
\* of pending rows is lowered when the send returns; only this task sees it.)
Flush ==
    /\ flushing
    /\ LET batch == next_checkpoint .. BatchEnd
           kept  == pending \ Stale
       IN  IF batch = {}
             THEN /\ flushing' = FALSE
                  /\ pending' = kept
                  /\ pending_rows' = pending_rows - StaleRows
                  /\ UNCHANGED <<next_checkpoint, batches>>
             ELSE /\ Len(batches) <= PipelineDepth
                  /\ batches' = Append(batches, <<next_checkpoint, BatchEnd>>)
                  /\ pending' = kept \ batch
                  /\ pending_rows' = pending_rows - StaleRows - RowsOfAll(batch)
                  /\ next_checkpoint' = BatchEnd + 1
                  /\ UNCHANGED flushing
    /\ UNCHANGED <<broadcasterVars, database, processing, bounds>>

----------------------------------------------------------------------------
(* Committer.                                                              *)

\* The transaction: set_committer_watermark, which changes nothing if the
\* watermark is as high already and whose result is not looked at, and then
\* Handler::commit.
Transaction(batch) ==
    /\ hi' = IF hi < batch[2] THEN batch[2] ELSE hi
    /\ committed' = committed \o [i \in 1 .. batch[2] - batch[1] + 1 |-> batch[1] + i - 1]

Commit ==
    /\ batches # <<>>
    /\ Transaction(Head(batches))
    /\ batches' = Tail(batches)
    /\ UNCHANGED <<broadcasterVars, unacknowledged, processing, collectorVars, bounds>>

\* The transaction reports an error and is retried. It has had no effect, unless
\* it was the answer to the commit that was lost.
CommitFails ==
    /\ batches # <<>>
    /\ failures < MaxFailures
    /\ \/ UNCHANGED database
       \/ /\ Transaction(Head(batches))
          /\ unacknowledged' = TRUE
    /\ failures' = failures + 1
    /\ UNCHANGED <<broadcasterVars, processing, collectorVars, batches, restarts>>

\* Mutant: the pipeline resumes where its cohort's ingestion does.
ResumesAt_cohort(b) == b

ResumesAt(b) == hi + 1

Restart ==
    /\ restarts < MaxRestarts
    /\ \E b \in StartsAt(hi) :
         /\ RestartBroadcaster(b)
         /\ next_checkpoint' = ResumesAt(b)
    /\ processing' = {}
    /\ pending' = {}
    /\ pending_rows' = 0
    /\ flushing' = FALSE
    /\ batches' = <<>>
    /\ restarts' = restarts + 1
    /\ UNCHANGED <<database, failures>>

Collects == \E S \in SUBSET processing : Collect(S)

Next ==
    \/ Broadcast
    \/ Collects
    \/ Tick
    \/ Flush
    \/ Commit
    \/ CommitFails
    \/ Restart

Spec == Init /\ [][Next]_vars

\* Each task runs when it has something to do; the interval keeps firing; fetches
\* and the committer's transactions are retried without an end; the chain keeps
\* growing, and a stream that stays up delivers the next checkpoint once the
\* network has it.  The collector's select is biased to its channel: a checkpoint
\* that waits there is received before the next tick, however often the interval
\* fires.  What has room in the channel to go to is sent: fetches and stream wait
\* for that room in turn.
FairSpec ==
    /\ Spec
    /\ WF_vars(NetworkAdvances /\ Feeds)
    /\ WF_vars(NoClient /\ Feeds)
    /\ WF_vars(Connect /\ Feeds)
    /\ WF_vars(Fetch /\ Feeds)
    /\ SF_vars(Fetches /\ Feeds)
    /\ SF_vars(DeliversNext /\ Feeds)
    /\ WF_vars(EndRound /\ Feeds)
    /\ SF_vars(Collects)
    /\ WF_vars(Tick)
    /\ WF_vars(Flush)
    /\ WF_vars(Commit)

----------------------------------------------------------------------------
(* Properties.                                                             *)

\* "These pipelines guarantee that each checkpoint is committed exactly once
\* and in order" (Indexer::sequential_pipeline): what Handler::commit has made
\* durable is every checkpoint up to the watermark, once, in order.
ExactlyOnceAndInOrder == committed = [i \in 1 .. hi + 1 |-> i - 1]

\* What holds of the commits whatever fails: no checkpoint up to the watermark is
\* left out, none is committed before its predecessor, and as long as no
\* transaction has taken effect and reported an error, over any restarts and with
\* checkpoints from the pipeline's past, none is committed twice.  (Such a
\* transaction is retried and commits its batch again: the committer does not
\* look at what set_committer_watermark returns.)
CommittedWithoutGaps ==
    /\ {committed[i] : i \in DOMAIN committed} = 0 .. hi
    /\ \A i \in DOMAIN committed \ {1} : committed[i] <= committed[i - 1] + 1
    /\ ~unacknowledged => committed = [i \in 1 .. hi + 1 |-> i - 1]

\* pending_rows, an unsigned integer that is lowered batch by batch, is at all
\* times the rows of what is pending: it never goes below zero, and what it lets
\* the collector receive is what max_pending_rows says.
PendingRowsAreCounted == pending_rows = RowsOfAll(pending)

\* Every checkpoint is eventually committed, from a broken stream or from
\* ingestion: the collector, holding any number of rows, still receives the
\* predecessor they all wait for.
EverythingIsCommitted == <>[](hi = EndCp - 1)
=============================================================================

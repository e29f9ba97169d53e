---------------------------- MODULE Broadcaster ----------------------------
(***************************************************************************)
(* The broadcaster of haneul-indexer-alt-framework's ingestion service: it *)
(* hands every checkpoint of [begin, EndCp) to the pipelines.  In rounds   *)
(* that start at checkpoint_hi, ingestion fetches the checkpoints up to    *)
(* where the network is, several at a time and out of order, while a       *)
(* stream delivers the ones after; when both have ended, the next round    *)
(* starts where the stream got to.  Connecting to the stream may fail, and *)
(* the stream may break off or leave checkpoints out.                      *)
(*                                                                         *)
(* All subscribers are sent the same checkpoints; one stands for them.     *)
(***************************************************************************)
EXTENDS Integers, FiniteSets

CONSTANTS
    EndCp,                   \* the end of the requested range, exclusive
    Concurrency,             \* fetches at the same time
    CatchupThreshold,        \* STREAMING_CATCHUP_THRESHOLD
    InitialBackoff, MaxBackoff,  \* streaming_backoff_{initial,max}_batch_size
    MaxStreams               \* bound: streams that break off or fail to connect

ASSUME BroadcasterAssumption ==
    /\ {EndCp, CatchupThreshold, MaxStreams} \subseteq Nat
    /\ {Concurrency, InitialBackoff, MaxBackoff} \subseteq Nat \ {0}

VARIABLES
    client,         \* is a streaming client configured?
    begin,          \* the start of the requested range
    network,        \* the network's latest checkpoint
    checkpoint_hi,  \* everything below has been broadcast
    backoff,        \* streaming_backoff_batch_size
    phase,          \* "setup", "running" or "done"
    ingest,         \* ingestion: [next, end, fetching]
    streaming,      \* is the stream connected?
    pos,            \* the next checkpoint the stream has
    lo,             \* the next checkpoint the stream is to deliver, or its result
    sent,           \* checkpoint -> how often it was sent to the subscribers
    broken          \* streams that broke off or failed to connect

broadcasterVars == <<client, begin, network, checkpoint_hi, backoff, phase, ingest,
                     streaming, pos, lo, sent, broken>>

Lower(a, b) == IF a <= b THEN a ELSE b
Higher(a, b) == IF a >= b THEN a ELSE b

\* The network may be past the requested range.
Cps == 0 .. EndCp + 1

BroadcasterInit ==
    /\ client \in BOOLEAN
    /\ begin = 0
    /\ network \in Cps
    /\ checkpoint_hi = 0
    /\ backoff = InitialBackoff
    /\ phase = IF EndCp > 0 THEN "setup" ELSE "done"
    /\ ingest = [next |-> 0, end |-> 0, fetching |-> {}]
    /\ streaming = FALSE
    /\ pos = 0
    /\ lo = 0
    /\ sent = [c \in Cps |-> 0]
    /\ broken = 0

\* The indexer is started again, with ingestion from checkpoint b on: after a
\* crash, and also after an error of ingestion that is not retried, which stops
\* the broadcaster and with it the service.
RestartBroadcaster(b) ==
    /\ client' \in BOOLEAN
    /\ begin' = b
    /\ checkpoint_hi' = b
    /\ backoff' = InitialBackoff
    /\ phase' = IF b < EndCp THEN "setup" ELSE "done"
    /\ ingest' = [next |-> b, end |-> b, fetching |-> {}]
    /\ streaming' = FALSE
    /\ pos' = 0
    /\ lo' = b
    /\ sent' = [c \in Cps |-> 0]
    /\ UNCHANGED <<network, broken>>

\* The chain grows.
NetworkAdvances ==
    /\ network < EndCp + 1
    /\ network' = network + 1
    /\ UNCHANGED <<client, begin, checkpoint_hi, backoff, phase, ingest, streaming,
                   pos, lo, sent, broken>>

----------------------------------------------------------------------------
(* setup_streaming_task, and the start of the round's two tasks.           *)

\* Ingestion up to `end`, a stream from `from` on if there is one, else a noop
\* streaming task that returns `from`.
StartRound(end, from, stream) ==
    /\ phase' = "running"
    /\ ingest' = [next |-> checkpoint_hi, end |-> end, fetching |-> {}]
    /\ lo' = from
    /\ streaming' = (stream /\ from < EndCp)

\* There is nothing to stream from: ingestion goes all the way.
NoClient ==
    /\ phase = "setup"
    /\ ~client
    /\ StartRound(EndCp, EndCp, FALSE)
    /\ UNCHANGED <<client, begin, network, checkpoint_hi, backoff, pos, sent, broken>>

\* No connection, or no first checkpoint from it: a number of checkpoints that
\* doubles with every failure is left to ingestion.
Fallback ==
    /\ phase = "setup"
    /\ client
    /\ broken < MaxStreams
    /\ LET end == Lower(checkpoint_hi + backoff, EndCp)
       IN  StartRound(end, end, FALSE)
    /\ backoff' = Lower(2 * backoff, MaxBackoff)
    /\ broken' = broken + 1
    /\ UNCHANGED <<client, begin, network, checkpoint_hi, pos, sent>>

IngestionEnd(latest) == Lower(latest, EndCp)

\* Mutant: the stream starts at the network's latest checkpoint, even if that
\* is behind.
StreamStart_latest(latest) == latest

StreamStart(latest) == Higher(latest, checkpoint_hi)

\* The first checkpoint of the stream tells where the network is.
Connect ==
    /\ phase = "setup"
    /\ client
    /\ backoff' = InitialBackoff
    /\ \E latest \in {network, network - 1} \cap Cps :
         /\ pos' = latest
         /\ \/ /\ latest > checkpoint_hi + CatchupThreshold
               /\ StartRound(IngestionEnd(latest), IngestionEnd(latest), FALSE)
            \/ /\ latest <= checkpoint_hi + CatchupThreshold
               /\ StartRound(IngestionEnd(latest), StreamStart(latest), TRUE)
    /\ UNCHANGED <<client, begin, network, checkpoint_hi, sent, broken>>

----------------------------------------------------------------------------
(* ingest_and_broadcast_range                                              *)

Send(c) == sent' = [sent EXCEPT ![c] = @ + 1]

Fetch ==
    /\ phase = "running"
    /\ ingest.next < ingest.end
    /\ Cardinality(ingest.fetching) < Concurrency
    /\ ingest' = [ingest EXCEPT !.next = @ + 1, !.fetching = @ \cup {ingest.next}]
    /\ UNCHANGED <<client, begin, network, checkpoint_hi, backoff, phase,
                   streaming, pos, lo, sent, broken>>

\* A fetch is retried until the network has the checkpoint.
Fetched(c) ==
    /\ c <= network
    /\ Send(c)
    /\ ingest' = [ingest EXCEPT !.fetching = @ \ {c}]
    /\ UNCHANGED <<client, begin, network, checkpoint_hi, backoff, phase,
                   streaming, pos, lo, broken>>

----------------------------------------------------------------------------
(* stream_and_broadcast_range                                              *)

\* The stream delivers checkpoint c: skipped if it is behind, and the end of
\* the stream if it is ahead.
Streamed(c) ==
    /\ streaming
    /\ \/ /\ c = lo
          /\ Send(c)
          /\ lo' = lo + 1
          /\ streaming' = (lo' < EndCp)
          /\ UNCHANGED broken
       \/ /\ c > lo
          /\ streaming' = FALSE
          /\ broken' = broken + 1
          /\ UNCHANGED <<sent, lo>>
       \/ /\ c < lo
          /\ UNCHANGED <<sent, lo, streaming, broken>>
    /\ pos' = c + 1
    /\ UNCHANGED <<client, begin, network, checkpoint_hi, backoff, phase, ingest>>

\* What a stream may deliver next: the checkpoints the network has, in order, at
\* times leaving one out.
Deliverable == {c \in {pos} : c <= network} \cup
               {c \in {pos + 1} : c <= network /\ broken < MaxStreams}

StreamBreaks ==
    /\ streaming
    /\ broken < MaxStreams
    /\ streaming' = FALSE
    /\ broken' = broken + 1
    /\ UNCHANGED <<client, begin, network, checkpoint_hi, backoff, phase, ingest,
                   pos, lo, sent>>

----------------------------------------------------------------------------
\* Both tasks have ended.
EndRound ==
    /\ phase = "running"
    /\ ingest.next >= ingest.end
    /\ ingest.fetching = {}
    /\ ~streaming
    /\ checkpoint_hi' = lo
    /\ phase' = IF lo < EndCp THEN "setup" ELSE "done"
    /\ UNCHANGED <<client, begin, network, backoff, ingest, streaming, pos, lo,
                   sent, broken>>

Fetches == \E c \in ingest.fetching : Fetched(c)
Delivers == \E c \in Deliverable : Streamed(c)
DeliversNext == pos <= network /\ Streamed(pos)

\* The pipelines get every checkpoint exactly once: none twice, whichever of
\* ingestion and streaming delivers it, and when a round ends none below its
\* checkpoint_hi is missing, though streams break off, begin behind and leave
\* checkpoints out.  (A checkpoint inserted twice into a collector would lose the
\* rows it has not batched yet.)
EachCheckpointOnce ==
    /\ \A c \in Cps : sent[c] <= 1
    /\ phase # "running" =>
         \A c \in Cps : sent[c] = IF c \in begin .. Lower(checkpoint_hi, EndCp) - 1 THEN 1 ELSE 0
=============================================================================

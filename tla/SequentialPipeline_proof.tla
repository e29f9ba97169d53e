--------------------- MODULE SequentialPipeline_proof ----------------------
(***************************************************************************)
(* Proofs about Broadcaster and SequentialPipeline, for any range of       *)
(* checkpoints, any configuration and any number of broken streams, failed *)
(* transactions and restarts: every checkpoint is sent once, committed     *)
(* once and in order, and the rows of what is pending are counted.         *)
(***************************************************************************)
EXTENDS SequentialPipeline, WellFoundedInduction, TLAPS

----------------------------------------------------------------------------
(* The broadcaster: what is sent.                                          *)

BroadcastTypes ==
    /\ begin \in Nat /\ network \in Nat /\ checkpoint_hi \in Nat /\ lo \in Nat
    /\ backoff \in Nat \ {0}
    /\ phase \in {"setup", "running", "done"}
    /\ ingest \in [next : Nat, end : Nat, fetching : SUBSET Nat]
    /\ streaming \in BOOLEAN
    /\ sent \in [Cps -> Nat]

\* Where the checkpoints of the stream begin in this round.
StreamsFrom == Higher(ingest.end, checkpoint_hi)

\* Sent in an earlier round, fetched in this one, or streamed in this one.
Sent(c) ==
    /\ c < EndCp
    /\ \/ begin <= c /\ c < checkpoint_hi
       \/ phase = "running" /\ checkpoint_hi <= c /\ c < ingest.next /\ c \notin ingest.fetching
       \/ phase = "running" /\ StreamsFrom <= c /\ c < lo

\* Ingestion stays below the stream, and both stay below the end.
RoundInv ==
    /\ begin <= checkpoint_hi
    /\ phase = "setup" => checkpoint_hi < EndCp
    /\ phase # "running" => ~streaming /\ ingest.fetching = {}
    /\ phase = "running" =>
         /\ checkpoint_hi < EndCp
         /\ ingest.end <= EndCp
         /\ checkpoint_hi <= ingest.next /\ ingest.next <= StreamsFrom
         /\ ingest.fetching \subseteq checkpoint_hi .. ingest.next - 1
         /\ StreamsFrom <= lo
    /\ streaming => lo < EndCp

BroadcastInv ==
    /\ BroadcastTypes
    /\ RoundInv
    /\ \A c \in Cps : sent[c] = IF Sent(c) THEN 1 ELSE 0

LEMMA EndCpIsNat == EndCp \in Nat /\ Cps = 0 .. EndCp + 1 /\ InitialBackoff \in Nat \ {0} /\ MaxBackoff \in Nat \ {0}
  BY Zenon, BroadcasterAssumption DEF Cps

\* A round starts: ingestion up to `end`, and from there on a stream or nothing.
LEMMA StartRoundInv ==
    ASSUME BroadcastInv, phase = "setup",
           NEW end \in Nat, end <= EndCp, NEW from \in Nat, Higher(end, checkpoint_hi) <= from,
           NEW stream, StartRound(end, from, stream),
           UNCHANGED <<begin, checkpoint_hi, sent>>, network' \in Nat, backoff' \in Nat \ {0},
           from > Higher(end, checkpoint_hi) => from >= EndCp /\ Higher(end, checkpoint_hi) >= EndCp
    PROVE  BroadcastInv'
  <1>1. /\ phase' = "running" /\ lo' = from /\ streaming' = (stream /\ from < EndCp)
        /\ ingest' = [next |-> checkpoint_hi, end |-> end, fetching |-> {}]
    BY Zenon DEF StartRound
  <1>2. /\ begin \in Nat /\ checkpoint_hi \in Nat /\ checkpoint_hi < EndCp
        /\ begin <= checkpoint_hi /\ sent \in [Cps -> Nat] /\ EndCp \in Nat
    BY Zenon, EndCpIsNat DEF BroadcastInv, BroadcastTypes, RoundInv
  <1>3. /\ ingest'.next = checkpoint_hi /\ ingest'.end = end /\ ingest'.fetching = {}
        /\ ingest' \in [next : Nat, end : Nat, fetching : SUBSET Nat]
    BY Zenon, <1>1, <1>2
  <1>4. BroadcastTypes'
    <2>1. streaming' \in BOOLEAN
      BY Zenon, <1>1
    <2>. QED  BY Zenon, <1>1, <1>2, <1>3, <2>1 DEF BroadcastTypes
  <1>5. RoundInv'
    <2>1. checkpoint_hi <= Higher(end, checkpoint_hi)
      BY <1>2 DEF Higher
    <2>2. streaming' => from < EndCp
      BY Zenon, <1>1
    <2>. QED  BY <1>1, <1>2, <1>3, <2>1, <2>2 DEF RoundInv, StreamsFrom
  <1>6. ASSUME NEW c \in Cps  PROVE sent'[c] = IF Sent(c)' THEN 1 ELSE 0
    <2>1. Sent(c)' <=> Sent(c)
      <3>1. c \in Nat
        BY EndCpIsNat
      <3>2. Higher(end, checkpoint_hi) \in Nat
        BY Zenon, <1>2 DEF Higher
      <3>. QED  BY <1>1, <1>2, <1>3, <3>1, <3>2 DEF Sent, StreamsFrom
    <2>. QED  BY Zenon, <2>1 DEF BroadcastInv
  <1>. QED  BY Zenon, <1>4, <1>5, <1>6 DEF BroadcastInv

\* Mostly the steps leave what is sent alone.
LEMMA FallbackInv ==
    ASSUME BroadcastInv, Fallback
    PROVE  BroadcastInv'
  <1>. DEFINE end == Lower(checkpoint_hi + backoff, EndCp)
  <1>1. /\ checkpoint_hi \in Nat /\ backoff \in Nat \ {0} /\ network \in Nat
        /\ phase = "setup" /\ checkpoint_hi < EndCp
    BY Zenon DEF BroadcastInv, BroadcastTypes, RoundInv, Fallback
  <1>2. end \in Nat /\ end <= EndCp /\ Higher(end, checkpoint_hi) = end
    BY <1>1, EndCpIsNat DEF Lower, Higher
  <1>3. backoff' \in Nat \ {0} /\ network' \in Nat
    BY <1>1, EndCpIsNat DEF Fallback, Lower
  <1>4. StartRound(end, end, FALSE) /\ UNCHANGED <<begin, checkpoint_hi, sent>>
    BY Zenon DEF Fallback
  <1>5. Higher(end, checkpoint_hi) <= end /\ ~(end > Higher(end, checkpoint_hi))
    BY <1>2
  <1>. HIDE DEF end
  <1>. QED  BY Zenon, <1>1, <1>2, <1>3, <1>4, <1>5, StartRoundInv

LEMMA NoClientInv ==
    ASSUME BroadcastInv, NoClient
    PROVE  BroadcastInv'
  <1>1. /\ phase = "setup" /\ checkpoint_hi \in Nat /\ checkpoint_hi < EndCp
        /\ network \in Nat /\ backoff \in Nat \ {0} /\ EndCp \in Nat
    BY Zenon, EndCpIsNat DEF BroadcastInv, BroadcastTypes, RoundInv, NoClient
  <1>2. /\ StartRound(EndCp, EndCp, FALSE)
        /\ UNCHANGED <<begin, network, checkpoint_hi, backoff, sent>>
    BY Zenon DEF NoClient
  <1>3. Higher(EndCp, checkpoint_hi) = EndCp /\ EndCp <= EndCp /\ ~(EndCp > EndCp)
    BY <1>1 DEF Higher
  <1>. QED  BY Zenon, <1>1, <1>2, <1>3, StartRoundInv

LEMMA ConnectInv ==
    ASSUME BroadcastInv, Connect
    PROVE  BroadcastInv'
  <1>1. /\ checkpoint_hi \in Nat /\ network \in Nat /\ phase = "setup" /\ checkpoint_hi < EndCp
    BY Zenon DEF BroadcastInv, BroadcastTypes, RoundInv, Connect
  <1>2. backoff' \in Nat \ {0} /\ network' \in Nat /\ UNCHANGED <<begin, checkpoint_hi, sent>>
    BY Zenon, <1>1, EndCpIsNat DEF Connect
  <1>3. PICK latest \in Cps :
            \/ /\ latest > checkpoint_hi + CatchupThreshold
               /\ StartRound(IngestionEnd(latest), IngestionEnd(latest), FALSE)
            \/ StartRound(IngestionEnd(latest), StreamStart(latest), TRUE)
    BY Zenon DEF Connect
  <1>. DEFINE end == IngestionEnd(latest)
  <1>4. latest \in Nat /\ end \in Nat /\ end <= EndCp
    BY EndCpIsNat DEF IngestionEnd, Lower
  <1>5. CASE latest > checkpoint_hi + CatchupThreshold /\ StartRound(end, end, FALSE)
    <2>1. CatchupThreshold \in Nat
      BY Zenon, BroadcasterAssumption
    <2>2. Higher(end, checkpoint_hi) <= end /\ ~(end > Higher(end, checkpoint_hi))
      BY <1>1, <1>4, <1>5, <2>1, EndCpIsNat DEF IngestionEnd, Lower, Higher
    <2>. HIDE DEF end
    <2>. QED  BY Zenon, <1>1, <1>2, <1>4, <1>5, <2>2, StartRoundInv
  <1>6. CASE StartRound(end, StreamStart(latest), TRUE)
    <2>1. StreamStart(latest) \in Nat
      BY Zenon, <1>1, <1>4 DEF StreamStart, Higher
    <2>2. /\ Higher(end, checkpoint_hi) <= StreamStart(latest)
          /\ StreamStart(latest) > Higher(end, checkpoint_hi)
             => StreamStart(latest) >= EndCp /\ Higher(end, checkpoint_hi) >= EndCp
      BY <1>1, <1>4, EndCpIsNat DEF StreamStart, Higher, IngestionEnd, Lower
    <2>. HIDE DEF end
    <2>. QED  BY Zenon, <1>1, <1>2, <1>4, <1>6, <2>1, <2>2, StartRoundInv
  <1>. QED  BY Zenon, <1>3, <1>5, <1>6

\* The facts about a round under way that its steps use.
LEMMA RoundFacts ==
    ASSUME BroadcastInv, phase = "running"
    PROVE  /\ begin \in Nat /\ checkpoint_hi \in Nat /\ lo \in Nat /\ EndCp \in Nat
           /\ ingest.next \in Nat /\ ingest.end \in Nat /\ StreamsFrom \in Nat
           /\ begin <= checkpoint_hi /\ checkpoint_hi < EndCp
           /\ checkpoint_hi <= ingest.next /\ ingest.next <= StreamsFrom
           /\ StreamsFrom <= lo /\ StreamsFrom <= EndCp
           /\ ingest.end <= StreamsFrom
           /\ \A c \in ingest.fetching : c \in Nat /\ checkpoint_hi <= c /\ c < ingest.next
  <1>1. /\ begin \in Nat /\ checkpoint_hi \in Nat /\ lo \in Nat /\ EndCp \in Nat
        /\ ingest.next \in Nat /\ ingest.end \in Nat
    BY Zenon, EndCpIsNat DEF BroadcastInv, BroadcastTypes
  <1>2. /\ begin <= checkpoint_hi /\ checkpoint_hi < EndCp /\ ingest.end <= EndCp
        /\ checkpoint_hi <= ingest.next /\ ingest.next <= StreamsFrom
        /\ ingest.fetching \subseteq checkpoint_hi .. ingest.next - 1
        /\ StreamsFrom <= lo
    BY Zenon DEF BroadcastInv, RoundInv
  <1>3. StreamsFrom \in Nat /\ StreamsFrom <= EndCp /\ ingest.end <= StreamsFrom
    BY <1>1, <1>2 DEF StreamsFrom, Higher
  <1>. QED  BY <1>1, <1>2, <1>3

\* A checkpoint is sent: it has not been before, and it is the only one to
\* become sent in this step.
LEMMA SendOnce ==
    ASSUME BroadcastInv, NEW c \in Cps, Send(c), ~Sent(c), Sent(c)',
           \A d \in Cps : d # c => (Sent(d)' <=> Sent(d))
    PROVE  /\ sent' \in [Cps -> Nat]
           /\ \A d \in Cps : sent'[d] = IF Sent(d)' THEN 1 ELSE 0
  <1>1. sent \in [Cps -> Nat] /\ \A d \in Cps : sent[d] = IF Sent(d) THEN 1 ELSE 0
    BY Zenon DEF BroadcastInv, BroadcastTypes
  <1>2. sent' = [sent EXCEPT ![c] = sent[c] + 1]
    BY Zenon DEF Send
  <1>3. sent[c] = 0
    BY Zenon, <1>1
  <1>4. sent' = [sent EXCEPT ![c] = 1]
    BY <1>2, <1>3
  <1>5. sent' \in [Cps -> Nat]
    BY Zenon, <1>1, <1>4
  <1>6. ASSUME NEW d \in Cps  PROVE sent'[d] = IF Sent(d)' THEN 1 ELSE 0
    <2>1. CASE d = c
      <3>1. sent'[d] = 1
        BY Zenon, <1>1, <1>4, <2>1
      <3>. QED  BY Zenon, <2>1, <3>1
    <2>2. CASE d # c
      <3>1. sent'[d] = sent[d]
        BY Zenon, <1>1, <1>4, <2>2
      <3>. QED  BY Zenon, <1>1, <2>2, <3>1
    <2>. QED  BY Zenon, <2>1, <2>2
  <1>. QED  BY Zenon, <1>5, <1>6

LEMMA FetchInv ==
    ASSUME BroadcastInv, Fetch
    PROVE  BroadcastInv'
  <1>0. /\ phase = "running" /\ ingest.next < ingest.end
        /\ ingest' = [ingest EXCEPT !.next = ingest.next + 1, !.fetching = ingest.fetching \cup {ingest.next}]
        /\ UNCHANGED <<begin, network, checkpoint_hi, backoff, phase, streaming, lo, sent>>
    BY Zenon DEF Fetch
  <1>1. ingest \in [next : Nat, end : Nat, fetching : SUBSET Nat]
    BY Zenon DEF BroadcastInv, BroadcastTypes
  <1>2. /\ ingest'.next = ingest.next + 1 /\ ingest'.end = ingest.end
        /\ ingest'.fetching = ingest.fetching \cup {ingest.next}
        /\ ingest' \in [next : Nat, end : Nat, fetching : SUBSET Nat]
    <2>. DEFINE next == ingest.next
                fetching == ingest.fetching
    <2>1. next \in Nat /\ ingest.end \in Nat /\ fetching \subseteq Nat
      BY Zenon, <1>1
    <2>2. next + 1 \in Nat /\ fetching \cup {next} \in SUBSET Nat
      BY <2>1
    <2>3. ingest' = [next |-> next + 1, end |-> ingest.end, fetching |-> fetching \cup {next}]
      BY Zenon, <1>0, <1>1
    <2>. HIDE DEF next, fetching
    <2>4. ingest' \in [next : Nat, end : Nat, fetching : SUBSET Nat]
      BY Zenon, <2>1, <2>2, <2>3
    <2>. QED  BY Zenon, <2>3, <2>4 DEF next, fetching
  <1>3. StreamsFrom' = StreamsFrom
    BY Zenon, <1>0, <1>2 DEF StreamsFrom
  <1>4. BroadcastTypes'
    BY Zenon, <1>0, <1>2 DEF BroadcastInv, BroadcastTypes
  <1>5. RoundInv'
    <2>1. /\ checkpoint_hi < EndCp /\ ingest.end <= EndCp /\ (streaming => lo < EndCp)
      BY Zenon, <1>0 DEF BroadcastInv, RoundInv
    <2>2. ingest'.next <= StreamsFrom /\ checkpoint_hi <= ingest'.next
      BY <1>0, <1>2, RoundFacts
    <2>3. ingest'.fetching \subseteq checkpoint_hi .. ingest'.next - 1
      BY <1>0, <1>2, RoundFacts
    <2>4. begin <= checkpoint_hi /\ StreamsFrom <= lo
      BY Zenon, <1>0, RoundFacts
    <2>. QED  BY Zenon, <1>0, <1>2, <1>3, <2>1, <2>2, <2>3, <2>4 DEF RoundInv
  <1>6. ASSUME NEW c \in Cps  PROVE Sent(c)' <=> Sent(c)
    <2>1. c \in Nat
      BY EndCpIsNat
    <2>2. c < ingest'.next /\ c \notin ingest'.fetching <=> c < ingest.next /\ c \notin ingest.fetching
      BY <1>0, <1>2, <2>1, RoundFacts
    <2>. QED  BY Zenon, <1>0, <1>3, <2>2 DEF Sent
  <1>. QED  BY Zenon, <1>0, <1>4, <1>5, <1>6 DEF BroadcastInv

LEMMA FetchedInv ==
    ASSUME BroadcastInv, NEW c \in ingest.fetching, Fetched(c)
    PROVE  BroadcastInv'
  <1>0. /\ Send(c) /\ ingest' = [ingest EXCEPT !.fetching = ingest.fetching \ {c}]
        /\ UNCHANGED <<begin, network, checkpoint_hi, backoff, phase, streaming, lo>>
    BY Zenon DEF Fetched
  <1>1. ingest \in [next : Nat, end : Nat, fetching : SUBSET Nat] /\ phase = "running"
    <2>1. phase # "running" => ingest.fetching = {}
      BY Zenon DEF BroadcastInv, RoundInv
    <2>. QED  BY Zenon, <2>1 DEF BroadcastInv, BroadcastTypes
  <1>2. /\ ingest'.next = ingest.next /\ ingest'.end = ingest.end
        /\ ingest'.fetching = ingest.fetching \ {c}
        /\ ingest' \in [next : Nat, end : Nat, fetching : SUBSET Nat]
    BY Zenon, <1>0, <1>1
  <1>3. StreamsFrom' = StreamsFrom
    BY Zenon, <1>0, <1>2 DEF StreamsFrom
  <1>4. /\ c \in Nat /\ checkpoint_hi <= c /\ c < ingest.next /\ c < EndCp
        /\ ~(c < checkpoint_hi) /\ ~(StreamsFrom <= c) /\ c \in Cps
    BY <1>1, RoundFacts, EndCpIsNat
  <1>5. ~Sent(c) /\ Sent(c)'
    BY Zenon, <1>0, <1>1, <1>2, <1>4 DEF Sent
  <1>6. ASSUME NEW d \in Cps, d # c  PROVE Sent(d)' <=> Sent(d)
    <2>1. d \in ingest'.fetching <=> d \in ingest.fetching
      BY Zenon, <1>2, <1>6
    <2>. QED  BY Zenon, <1>0, <1>2, <1>3, <2>1 DEF Sent
  <1>7. /\ sent' \in [Cps -> Nat]
        /\ \A d \in Cps : sent'[d] = IF Sent(d)' THEN 1 ELSE 0
    BY Zenon, <1>0, <1>4, <1>5, <1>6, SendOnce
  <1>8. BroadcastTypes'
    BY Zenon, <1>0, <1>2, <1>7 DEF BroadcastInv, BroadcastTypes
  <1>9. RoundInv'
    <2>1. ingest'.fetching \subseteq ingest.fetching
      BY Zenon, <1>2
    <2>2. /\ begin <= checkpoint_hi /\ checkpoint_hi < EndCp /\ ingest.end <= EndCp
          /\ checkpoint_hi <= ingest.next /\ ingest.next <= StreamsFrom
          /\ ingest'.fetching \subseteq checkpoint_hi .. ingest.next - 1
          /\ StreamsFrom <= lo /\ (streaming => lo < EndCp)
      BY Zenon, <1>1, <2>1 DEF BroadcastInv, RoundInv
    <2>. QED  BY Zenon, <1>0, <1>1, <1>2, <1>3, <2>2 DEF RoundInv
  <1>. QED  BY Zenon, <1>7, <1>8, <1>9 DEF BroadcastInv

LEMMA StreamedInv ==
    ASSUME BroadcastInv, NEW c, Streamed(c)
    PROVE  BroadcastInv'
  <1>0. streaming /\ UNCHANGED <<begin, network, checkpoint_hi, backoff, phase, ingest>>
    BY Zenon DEF Streamed
  <1>1. phase = "running" /\ lo < EndCp /\ begin <= checkpoint_hi
    BY Zenon, <1>0 DEF BroadcastInv, RoundInv
  <1>2. StreamsFrom' = StreamsFrom
    BY Zenon, <1>0 DEF StreamsFrom
  <1>3. /\ checkpoint_hi < EndCp /\ ingest.end <= EndCp
        /\ checkpoint_hi <= ingest.next /\ ingest.next <= StreamsFrom
        /\ ingest.fetching \subseteq checkpoint_hi .. ingest.next - 1
        /\ StreamsFrom <= lo
    BY Zenon, <1>1 DEF BroadcastInv, RoundInv
  <1>4. CASE c = lo /\ Send(lo) /\ lo' = lo + 1 /\ streaming' = (lo' < EndCp)
    <2>1. /\ lo \in Nat /\ lo \in Cps /\ lo < lo' /\ lo' \in Nat /\ StreamsFrom <= lo'
          /\ ~(lo < checkpoint_hi) /\ ~(lo < ingest.next) /\ ~(lo < lo)
      BY <1>1, <1>4, RoundFacts, EndCpIsNat
    <2>2. ~Sent(lo)
      BY Zenon, <2>1 DEF Sent
    <2>3. ASSUME NEW d \in Cps  PROVE Sent(d)' <=> Sent(d) \/ d = lo
      <3>1. d \in Nat
        BY EndCpIsNat
      <3>2. d < lo' <=> d < lo \/ d = lo
        BY <1>4, <2>1, <3>1
      <3>. QED  BY Zenon, <1>0, <1>1, <1>2, <1>3, <3>2 DEF Sent
    <2>4. /\ sent' \in [Cps -> Nat]
          /\ \A d \in Cps : sent'[d] = IF Sent(d)' THEN 1 ELSE 0
      BY Zenon, <1>4, <2>1, <2>2, <2>3, SendOnce
    <2>5. streaming' \in BOOLEAN /\ (streaming' => lo' < EndCp)
      <3>1. (lo' < EndCp) \in BOOLEAN
        BY <2>1, EndCpIsNat
      <3>. QED  BY Zenon, <1>4, <3>1
    <2>6. BroadcastTypes'
      BY Zenon, <1>0, <2>1, <2>4, <2>5 DEF BroadcastInv, BroadcastTypes
    <2>7. RoundInv'
      BY Zenon, <1>0, <1>1, <1>2, <1>3, <2>1, <2>5 DEF RoundInv
    <2>. QED  BY Zenon, <2>4, <2>6, <2>7 DEF BroadcastInv
  <1>5. CASE UNCHANGED <<sent, lo>> /\ (streaming' = FALSE \/ streaming' = streaming)
    <2>1. streaming' \in BOOLEAN /\ (streaming' => lo' < EndCp)
      BY Zenon, <1>0, <1>1, <1>5 DEF BroadcastInv, BroadcastTypes
    <2>2. BroadcastTypes'
      BY Zenon, <1>0, <1>5, <2>1 DEF BroadcastInv, BroadcastTypes
    <2>3. RoundInv'
      BY Zenon, <1>0, <1>1, <1>2, <1>3, <1>5, <2>1 DEF RoundInv
    <2>4. \A d \in Cps : Sent(d)' <=> Sent(d)
      BY Zenon, <1>0, <1>2, <1>5 DEF Sent
    <2>. QED  BY Zenon, <1>5, <2>2, <2>3, <2>4 DEF BroadcastInv
  <1>. QED  BY Zenon, <1>4, <1>5 DEF Streamed

\* Whatever changes none of the broadcaster's state, or only ends a stream.
LEMMA QuietInv ==
    ASSUME BroadcastInv, UNCHANGED <<begin, checkpoint_hi, backoff, phase, ingest, lo, sent>>,
           network' \in Nat, streaming' = streaming \/ streaming' = FALSE
    PROVE  BroadcastInv'
  <1>1. StreamsFrom' = StreamsFrom
    BY Zenon DEF StreamsFrom
  <1>2. streaming' \in BOOLEAN /\ (streaming' => streaming)
    <2>1. streaming \in BOOLEAN
      BY Zenon DEF BroadcastInv, BroadcastTypes
    <2>2. CASE streaming' = streaming
      BY Zenon, <2>1, <2>2
    <2>3. CASE streaming' = FALSE
      BY Zenon, <2>3
    <2>. QED  BY Zenon, <2>2, <2>3
  <1>3. BroadcastTypes'
    BY Zenon, <1>2 DEF BroadcastInv, BroadcastTypes
  <1>4. RoundInv'
    BY Zenon, <1>1, <1>2 DEF BroadcastInv, RoundInv
  <1>5. \A d \in Cps : Sent(d)' <=> Sent(d)
    BY Zenon, <1>1 DEF Sent
  <1>. QED  BY Zenon, <1>3, <1>4, <1>5 DEF BroadcastInv

LEMMA EndRoundInv ==
    ASSUME BroadcastInv, EndRound
    PROVE  BroadcastInv'
  <1>1. /\ phase = "running" /\ ingest.next >= ingest.end /\ ingest.fetching = {} /\ ~streaming
        /\ checkpoint_hi' = lo /\ phase' = IF lo < EndCp THEN "setup" ELSE "done"
        /\ UNCHANGED <<begin, network, backoff, ingest, streaming, lo, sent>>
    BY Zenon DEF EndRound
  <1>2. phase' \in {"setup", "done"} /\ (phase' = "setup" => lo < EndCp) /\ phase' # "running"
    BY Zenon, <1>1
  <1>3. BroadcastTypes'
    BY Zenon, <1>1, <1>2 DEF BroadcastInv, BroadcastTypes
  <1>4. begin <= lo
    BY <1>1, RoundFacts
  <1>5. RoundInv'
    BY Zenon, <1>1, <1>2, <1>4 DEF RoundInv
  <1>6. ASSUME NEW c \in Cps  PROVE Sent(c)' <=> Sent(c)
    <2>1. c \in Nat
      BY EndCpIsNat
    <2>2. StreamsFrom <= ingest.next
      BY Zenon, <1>1, RoundFacts DEF StreamsFrom, Higher
    <2>3. begin <= c /\ c < lo <=> \/ begin <= c /\ c < checkpoint_hi
                                   \/ checkpoint_hi <= c /\ c < ingest.next
                                   \/ StreamsFrom <= c /\ c < lo
      BY <1>1, <2>1, <2>2, RoundFacts
    <2>. QED  BY Zenon, <1>1, <1>2, <2>3 DEF Sent
  <1>. QED  BY Zenon, <1>1, <1>3, <1>5, <1>6 DEF BroadcastInv

LEMMA RestartBroadcastInv ==
    ASSUME BroadcastInv, NEW b \in Nat, RestartBroadcaster(b)
    PROVE  BroadcastInv'
  <1>1. /\ begin' = b /\ checkpoint_hi' = b /\ backoff' = InitialBackoff /\ lo' = b
        /\ phase' = (IF b < EndCp THEN "setup" ELSE "done")
        /\ ingest' = [next |-> b, end |-> b, fetching |-> {}]
        /\ streaming' = FALSE /\ sent' = [c \in Cps |-> 0] /\ network' = network
    BY Zenon DEF RestartBroadcaster
  <1>2. phase' \in {"setup", "done"} /\ (phase' = "setup" => b < EndCp) /\ phase' # "running"
    BY Zenon, <1>1
  <1>3. ingest' \in [next : Nat, end : Nat, fetching : SUBSET Nat] /\ ingest'.fetching = {}
    BY Zenon, <1>1
  <1>4. BroadcastTypes'
    BY Zenon, <1>1, <1>2, <1>3, EndCpIsNat DEF BroadcastInv, BroadcastTypes
  <1>5. RoundInv'
    BY <1>1, <1>2, <1>3 DEF RoundInv
  <1>6. ASSUME NEW c \in Cps  PROVE sent'[c] = 0 /\ ~Sent(c)'
    <2>1. c \in Nat /\ ~(b <= c /\ c < b)
      BY EndCpIsNat
    <2>2. ~Sent(c)'
      BY Zenon, <1>1, <1>2, <2>1 DEF Sent
    <2>. QED  BY Zenon, <1>1, <2>2
  <1>. QED  BY Zenon, <1>4, <1>5, <1>6 DEF BroadcastInv

LEMMA InitBroadcastInv ==
    ASSUME Init
    PROVE  BroadcastInv
  <1>1. /\ begin = 0 /\ checkpoint_hi = 0 /\ backoff = InitialBackoff /\ lo = 0
        /\ phase = (IF EndCp > 0 THEN "setup" ELSE "done")
        /\ ingest = [next |-> 0, end |-> 0, fetching |-> {}]
        /\ streaming = FALSE /\ sent = [c \in Cps |-> 0] /\ network \in Cps
    BY Zenon DEF Init, BroadcasterInit
  <1>2. phase \in {"setup", "done"} /\ (phase = "setup" => 0 < EndCp) /\ phase # "running"
    BY Zenon, <1>1, EndCpIsNat
  <1>3. ingest \in [next : Nat, end : Nat, fetching : SUBSET Nat] /\ ingest.fetching = {}
    BY Zenon, <1>1
  <1>4. BroadcastTypes
    <2>1. network \in Nat /\ InitialBackoff \in Nat \ {0}
      BY <1>1, EndCpIsNat
    <2>2. sent \in [Cps -> Nat]
      BY Zenon, <1>1
    <2>3. streaming \in BOOLEAN
      BY Zenon, <1>1
    <2>4. begin \in Nat /\ checkpoint_hi \in Nat /\ lo \in Nat
      BY Zenon, <1>1
    <2>. QED  BY Zenon, <1>1, <1>2, <1>3, <2>1, <2>2, <2>3, <2>4 DEF BroadcastTypes
  <1>5. RoundInv
    BY <1>1, <1>2, <1>3 DEF RoundInv
  <1>6. ASSUME NEW c \in Cps  PROVE sent[c] = 0 /\ ~Sent(c)
    <2>1. c \in Nat /\ ~(0 <= c /\ c < 0)
      BY EndCpIsNat
    <2>2. ~Sent(c)
      BY Zenon, <1>1, <1>2, <2>1 DEF Sent
    <2>. QED  BY Zenon, <1>1, <2>2
  <1>. QED  BY Zenon, <1>4, <1>5, <1>6 DEF BroadcastInv

LEMMA NextBroadcastInv ==
    ASSUME BroadcastInv, hi \in Nat \cup {-1}, [Next]_vars
    PROVE  BroadcastInv'
  <1>0. network \in Nat /\ lo \in Nat
    BY Zenon DEF BroadcastInv, BroadcastTypes
  <1>1. CASE UNCHANGED broadcasterVars
    BY Zenon, <1>0, <1>1, QuietInv DEF broadcasterVars
  <1>2. CASE Broadcast
    <2>1. CASE NetworkAdvances
      BY <1>0, <2>1, QuietInv DEF NetworkAdvances
    <2>2. CASE Fetches
      BY Zenon, <2>2, FetchedInv DEF Fetches
    <2>3. CASE Delivers
      BY Zenon, <2>3, StreamedInv DEF Delivers
    <2>4. CASE StreamBreaks
      BY Zenon, <1>0, <2>4, QuietInv DEF StreamBreaks
    <2>. QED  BY Zenon, <1>2, <2>1, <2>2, <2>3, <2>4, NoClientInv, FallbackInv, ConnectInv, FetchInv, EndRoundInv
              DEF Broadcast
  <1>3. CASE Restart
    <2>1. PICK b \in StartsAt(hi) : RestartBroadcaster(b)
      BY Zenon, <1>3 DEF Restart
    <2>2. b \in Nat
      BY DEF StartsAt
    <2>. QED  BY Zenon, <2>1, <2>2, RestartBroadcastInv
  <1>4. CASE Collects
    BY Zenon, <1>1, <1>4 DEF Collects, Collect
  <1>. QED  BY Zenon, <1>1, <1>2, <1>3, <1>4
            DEF Next, vars, Tick, Flush, Commit, CommitFails

----------------------------------------------------------------------------
(* The sequential pipeline: what is committed.                             *)

INSTANCE SequenceTheorems

\* A checkpoint range on its way to the committer.
Batch == {b \in Nat \X Nat : b[1] <= b[2]}

\* The batches are contiguous and end where the collector goes on.  The first of
\* them continues what is committed, or is being repeated.
QueueInv ==
    /\ batches \in Seq(Batch)
    /\ \A i \in 1 .. Len(batches) - 1 : batches[i + 1][1] = batches[i][2] + 1
    /\ batches = <<>> => next_checkpoint = hi + 1
    /\ batches # <<>> =>
         /\ next_checkpoint = batches[Len(batches)][2] + 1
         /\ \/ batches[1][1] = hi + 1
            \/ unacknowledged /\ batches[1][2] = hi

\* The last checkpoint committed is the one of the watermark.
CommittedInv ==
    /\ hi \in Nat \cup {-1}
    /\ unacknowledged \in BOOLEAN
    /\ committed \in Seq(Nat)
    /\ committed = <<>> => hi = -1
    /\ committed # <<>> => committed[Len(committed)] = hi
    /\ CommittedWithoutGaps

CommitInv == CommittedInv /\ QueueInv

\* The flush loop takes a prefix of what is pending: there always is a longest one.
LEMMA BatchEndExists ==
    ASSUME next_checkpoint \in Nat
    PROVE  /\ BatchEnd \in Int /\ BatchEnd >= next_checkpoint - 1
           /\ next_checkpoint .. BatchEnd \subseteq pending
  <1>. DEFINE top == next_checkpoint + MaxBatchCheckpoints - 1
              S == {c \in next_checkpoint - 1 .. top : next_checkpoint .. c \subseteq pending}
              T == {top - c : c \in S}
  <1>0. MaxBatchCheckpoints \in Nat \ {0} /\ top \in Nat
    BY SequentialAssumption
  <1>1. next_checkpoint - 1 \in S
    BY <1>0
  <1>2. T \subseteq Nat /\ T # {}
    BY <1>0, <1>1
  <1>3. PICK r \in T : \A s \in T : ~ (<<s, r>> \in OpToRel(<, Nat))
    BY Zenon, <1>2, NatLessThanWellFounded, WFMin
  <1>4. \A s \in T : ~ (s < r)
    BY Zenon, <1>2, <1>3 DEF OpToRel
  <1>5. PICK c \in S : r = top - c
    BY Zenon, <1>3
  <1>6. \A d \in S : c >= d
    <2>. SUFFICES ASSUME NEW d \in S
                  PROVE  c >= d
      BY Zenon
    <2>1. top - d \in T
      BY Zenon
    <2>2. ~ (top - d < top - c)
      BY Zenon, <1>4, <1>5, <2>1
    <2>. QED  BY <1>0, <2>2
  <1>7. Max(S) \in S
    <2>. HIDE DEF S
    <2>. QED  BY Zenon, <1>5, <1>6 DEF Max
  <1>. QED  BY <1>0, <1>7 DEF BatchEnd

\* A sequence and the checkpoints of a batch, as they are committed.
Run(a, z) == [i \in 1 .. z - a + 1 |-> a + i - 1]
Then(s, a, z) == s \o Run(a, z)

\* A run of checkpoints put after a sequence.
LEMMA Extended ==
    ASSUME NEW s \in Seq(Nat), NEW a \in Nat, NEW z \in Nat, a <= z
    PROVE  /\ Then(s, a, z) \in Seq(Nat) /\ Len(s) \in Nat
           /\ Len(Then(s, a, z)) = Len(s) + (z - a + 1)
           /\ DOMAIN s = 1 .. Len(s) /\ DOMAIN Then(s, a, z) = 1 .. Len(Then(s, a, z))
           /\ \A i \in 1 .. Len(s) : Then(s, a, z)[i] = s[i] /\ s[i] \in Nat
           /\ \A i \in Len(s) + 1 .. Len(Then(s, a, z)) :
                 Then(s, a, z)[i] = a + (i - Len(s)) - 1
  <1>. DEFINE t == Then(s, a, z)
              n == z - a + 1
              run == Run(a, z)
  <1>1. n \in Nat /\ \A i \in 1 .. n : a + i - 1 \in Nat
    OBVIOUS
  <1>2. run \in Seq(Nat) /\ Len(run) = n
    <2>1. run \in [1 .. n -> Nat]
      BY Zenon, <1>1 DEF Run
    <2>. QED  BY <1>1, <2>1, IsASeq
  <1>3. \A i \in 1 .. n : run[i] = a + i - 1
    BY Zenon DEF Run
  <1>4. t = s \o run
    BY Zenon DEF Then
  <1>. HIDE DEF run, n, t
  <1>5. /\ t \in Seq(Nat) /\ Len(t) = Len(s) + n
        /\ \A i \in 1 .. Len(s) + n : t[i] = IF i <= Len(s) THEN s[i] ELSE run[i - Len(s)]
    <2>1. /\ s \o run \in Seq(Nat) /\ Len(s \o run) = Len(s) + Len(run)
          /\ \A i \in 1 .. Len(s) + Len(run) :
                 (s \o run)[i] = IF i <= Len(s) THEN s[i] ELSE run[i - Len(s)]
      BY Zenon, <1>2, ConcatProperties
    <2>. QED  BY Zenon, <1>2, <1>4, <2>1
  <1>6. Len(s) \in Nat /\ DOMAIN s = 1 .. Len(s) /\ DOMAIN t = 1 .. Len(t)
    BY Zenon, <1>5, LenProperties
  <1>7. ASSUME NEW i \in 1 .. Len(s)  PROVE t[i] = s[i] /\ s[i] \in Nat
    <2>1. i \in 1 .. Len(s) + n /\ i <= Len(s)
      BY <1>1, <1>6
    <2>2. t[i] = s[i]
      BY Zenon, <1>5, <2>1
    <2>. QED  BY Zenon, <2>2, ElementOfSeq
  <1>8. ASSUME NEW i \in Len(s) + 1 .. Len(t)  PROVE t[i] = a + (i - Len(s)) - 1
    <2>1. i \in 1 .. Len(s) + n /\ ~(i <= Len(s)) /\ i - Len(s) \in 1 .. n
      BY <1>1, <1>5, <1>6
    <2>2. t[i] = run[i - Len(s)]
      BY Zenon, <1>5, <2>1
    <2>. QED  BY Zenon, <1>3, <2>1, <2>2
  <1>. QED  BY Zenon, <1>5, <1>6, <1>7, <1>8 DEF n, t

\* The sequence reads like the natural numbers, with steps back at most: a run that
\* continues it, or repeats its end, keeps it so.
Covers(s, w) ==
    /\ {s[i] : i \in DOMAIN s} = 0 .. w
    /\ \A i \in DOMAIN s \ {1} : s[i] <= s[i - 1] + 1

LEMMA ExtendedCovers ==
    ASSUME NEW s \in Seq(Nat), NEW a \in Nat, NEW z \in Nat, a <= z,
           NEW w \in Nat \cup {-1}, Covers(s, w),
           s = <<>> => w = -1, s # <<>> => s[Len(s)] = w,
           a = w + 1 \/ z = w
    PROVE  /\ Covers(Then(s, a, z), z) /\ Then(s, a, z) # <<>>
           /\ Then(s, a, z)[Len(Then(s, a, z))] = z
  <1>. DEFINE t == Then(s, a, z)
              len == Len(s)
              all == Len(t)
  <1>1. /\ t \in Seq(Nat) /\ len \in Nat /\ all = len + (z - a + 1)
        /\ DOMAIN s = 1 .. len /\ DOMAIN t = 1 .. all
    BY Zenon, Extended
  <1>2. \A i \in 1 .. len : t[i] = s[i] /\ s[i] \in Nat
    BY Zenon, Extended
  <1>3. \A i \in len + 1 .. all : t[i] = a + (i - len) - 1
    BY Zenon, Extended
  <1>4. s = <<>> <=> len = 0
    BY Zenon, EmptySeq
  <1>5. t = <<>> => all = 0
    BY Zenon, EmptySeq
  <1>. HIDE DEF len, all, t
  <1>6. all \in Nat /\ len < all
    BY <1>1
  <1>7. t # <<>> /\ t[all] = z
    <2>1. all \in len + 1 .. all /\ a + (all - len) - 1 = z
      BY <1>1, <1>6
    <2>2. t[all] = z
      BY Zenon, <1>3, <2>1
    <2>. QED  BY <1>1, <1>5, <1>6, <2>2
  <1>8. {s[i] : i \in 1 .. len} = 0 .. w
    BY Zenon, <1>1 DEF Covers
  <1>9. ASSUME NEW i \in 1 .. all  PROVE t[i] \in 0 .. z
    <2>1. CASE i \in 1 .. len
      <3>1. t[i] \in 0 .. w
        BY Zenon, <1>2, <1>8, <2>1
      <3>. QED  BY <3>1
    <2>2. CASE i \in len + 1 .. all
      <3>1. t[i] = a + (i - len) - 1
        BY Zenon, <1>3, <2>2
      <3>. QED  BY <1>1, <2>2, <3>1
    <2>3. i \in 1 .. len \/ i \in len + 1 .. all
      BY <1>1, <1>6
    <2>. QED  BY Zenon, <2>1, <2>2, <2>3
  <1>10. ASSUME NEW c \in 0 .. z  PROVE \E i \in 1 .. all : t[i] = c
    <2>1. CASE c <= w
      <3>1. c \in 0 .. w
        BY <2>1
      <3>2. PICK i \in 1 .. len : s[i] = c
        BY Zenon, <1>8, <3>1
      <3>3. i \in 1 .. all
        BY <1>1, <1>6
      <3>. QED  BY Zenon, <1>2, <3>2, <3>3
    <2>2. CASE ~(c <= w)
      <3>. DEFINE j == len + (c - a) + 1
      <3>1. j \in len + 1 .. all /\ j \in 1 .. all /\ a + (j - len) - 1 = c
        BY <1>1, <1>6, <2>2
      <3>. HIDE DEF j
      <3>. QED  BY Zenon, <1>3, <3>1
    <2>. QED  BY Zenon, <2>1, <2>2
  <1>11. {t[i] : i \in DOMAIN t} = 0 .. z
    BY ZenonT(30), <1>1, <1>9, <1>10
  <1>12. ASSUME NEW i \in DOMAIN t \ {1}  PROVE t[i] <= t[i - 1] + 1
    <2>0. i \in 2 .. all
      BY <1>1, <1>6
    <2>1. CASE i <= len
      <3>1. i \in 1 .. len /\ i - 1 \in 1 .. len /\ i # 1
        BY <1>1, <2>0, <2>1
      <3>2. s[i] <= s[i - 1] + 1
        BY Zenon, <1>1, <3>1 DEF Covers
      <3>. QED  BY Zenon, <1>2, <3>1, <3>2
    <2>2. CASE i = len + 1
      <3>1. s # <<>> /\ i \in len + 1 .. all /\ len \in 1 .. len /\ i - 1 = len
        BY <1>1, <1>4, <2>0, <2>2
      <3>2. t[i] = a + (i - len) - 1 /\ t[i - 1] = s[len] /\ s[len] = w
        BY Zenon, <1>2, <1>3, <3>1 DEF len
      <3>3. a <= w + 1
        OBVIOUS
      <3>. QED  BY <1>1, <2>2, <3>2, <3>3
    <2>3. CASE i > len + 1
      <3>1. i \in len + 1 .. all /\ i - 1 \in len + 1 .. all
        BY <1>1, <1>6, <2>0, <2>3
      <3>2. t[i] = a + (i - len) - 1 /\ t[i - 1] = a + ((i - 1) - len) - 1
        BY Zenon, <1>3, <3>1
      <3>3. len \in Int /\ i \in Int
        BY <1>1, <2>0
      <3>4. a + (i - len) - 1 <= (a + ((i - 1) - len) - 1) + 1
        BY <3>3
      <3>. QED  BY Zenon, <3>2, <3>4
    <2>4. i <= len \/ i = len + 1 \/ i > len + 1
      BY <1>1, <2>0
    <2>. QED  BY Zenon, <2>1, <2>2, <2>3, <2>4
  <1>. QED  BY Zenon, <1>7, <1>11, <1>12 DEF Covers, all, t

LEMMA ExtendedExactly ==
    ASSUME NEW a \in Nat, NEW z \in Nat, a <= z,
           NEW s \in Seq(Nat), Len(s) = a, \A i \in 1 .. a : s[i] = i - 1
    PROVE  Then(s, a, z) = [i \in 1 .. z + 1 |-> i - 1]
  <1>. DEFINE t == Then(s, a, z)
  <1>1. /\ t \in Seq(Nat) /\ Len(s) \in Nat /\ Len(t) = Len(s) + (z - a + 1)
    BY Zenon, Extended
  <1>2. \A i \in 1 .. Len(s) : t[i] = s[i]
    <2>1. \A i \in 1 .. Len(s) : t[i] = s[i] /\ s[i] \in Nat
      BY ZenonT(30), Extended
    <2>. QED  BY Zenon, <2>1
  <1>3. \A i \in Len(s) + 1 .. Len(t) : t[i] = a + (i - Len(s)) - 1
    BY Zenon, Extended
  <1>. HIDE DEF t
  <1>4. Len(t) = z + 1
    BY <1>1
  <1>5. ASSUME NEW i \in 1 .. z + 1  PROVE t[i] = i - 1
    <2>1. CASE i \in 1 .. a
      BY Zenon, <1>2, <2>1
    <2>2. CASE i \in a + 1 .. z + 1
      <3>1. t[i] = a + (i - a) - 1
        BY Zenon, <1>3, <1>4, <2>2
      <3>. QED  BY <3>1
    <2>. QED  BY <2>1, <2>2
  <1>6. t \in [1 .. z + 1 -> Nat]
    BY Zenon, <1>1, <1>4, LenProperties
  <1>7. t = [i \in 1 .. z + 1 |-> t[i]]
    BY Zenon, <1>6
  <1>. QED  BY Zenon, <1>5, <1>7 DEF t

\* A transaction commits a batch: the one after the watermark, or again the one
\* that ends there.
LEMMA TransactionInv ==
    ASSUME CommittedInv, NEW b \in Batch, Transaction(b),
           b[1] = hi + 1 \/ (unacknowledged /\ b[2] = hi),
           unacknowledged' \in BOOLEAN, unacknowledged => unacknowledged'
    PROVE  CommittedInv' /\ hi' = b[2]
  <1>1. b[1] \in Nat /\ b[2] \in Nat /\ b[1] <= b[2]
    BY Zenon DEF Batch
  <1>2. /\ hi \in Nat \cup {-1} /\ committed \in Seq(Nat)
        /\ committed = <<>> => hi = -1
        /\ committed # <<>> => committed[Len(committed)] = hi
        /\ Covers(committed, hi)
    BY Zenon DEF CommittedInv, CommittedWithoutGaps, Covers
  <1>3. committed' = Then(committed, b[1], b[2])
    BY Zenon DEF Transaction, Run, Then
  <1>4. hi' = b[2]
    BY <1>1, <1>2 DEF Transaction
  <1>5. b[1] = hi + 1 \/ b[2] = hi
    BY Zenon
  <1>6. committed' \in Seq(Nat)
    BY Zenon, <1>1, <1>2, <1>3, Extended
  <1>7. /\ Covers(committed', b[2]) /\ committed' # <<>>
        /\ committed'[Len(committed')] = b[2]
    BY ZenonT(30), <1>1, <1>2, <1>3, <1>5, ExtendedCovers
  <1>8. ~unacknowledged' => committed' = [i \in 1 .. b[2] + 1 |-> i - 1]
    <2>. SUFFICES ASSUME ~unacknowledged'
                  PROVE  committed' = [i \in 1 .. b[2] + 1 |-> i - 1]
      BY Zenon
    <2>1. committed = [i \in 1 .. b[1] |-> i - 1] /\ b[1] = hi + 1
      BY Zenon DEF CommittedInv, CommittedWithoutGaps
    <2>2. \A i \in 1 .. b[1] : committed[i] = i - 1
      BY Zenon, <2>1
    <2>3. DOMAIN committed = 1 .. b[1] /\ DOMAIN committed = 1 .. Len(committed) /\ Len(committed) \in Nat
      <3>1. DOMAIN committed = 1 .. b[1]
        BY Zenon, <2>1
      <3>. QED  BY Zenon, <1>2, <3>1, LenProperties
    <2>4. Len(committed) = b[1]
      BY <1>1, <2>3
    <2>. QED  BY ZenonT(30), <1>1, <1>2, <1>3, <2>2, <2>4, ExtendedExactly
  <1>9. CommittedWithoutGaps'
    BY Zenon, <1>4, <1>7, <1>8 DEF CommittedWithoutGaps, Covers
  <1>10. hi' \in Nat \cup {-1}
    BY Zenon, <1>1, <1>4
  <1>. QED  BY Zenon, <1>4, <1>6, <1>7, <1>9, <1>10 DEF CommittedInv

LEMMA QueueFacts ==
    ASSUME CommitInv, batches # <<>>
    PROVE  /\ Head(batches) \in Batch /\ Head(batches) = batches[1]
           /\ \/ Head(batches)[1] = hi + 1
              \/ unacknowledged /\ Head(batches)[2] = hi
           /\ Len(batches) \in Nat \ {0}
           /\ \A i \in 1 .. Len(batches) : batches[i] \in Batch /\ batches[i][2] \in Nat
  <1>1. batches \in Seq(Batch) /\ Len(batches) \in Nat \ {0}
    BY Zenon, EmptySeq, LenProperties DEF CommitInv, QueueInv
  <1>2. \A i \in 1 .. Len(batches) : batches[i] \in Batch /\ batches[i][2] \in Nat
    BY <1>1, ElementOfSeq DEF Batch
  <1>3. Head(batches) = batches[1]
    BY <1>1
  <1>. QED  BY <1>1, <1>2, <1>3 DEF CommitInv, QueueInv

LEMMA NextCheckpointIsNat ==
    ASSUME CommitInv
    PROVE  next_checkpoint \in Nat
  <1>1. CASE batches = <<>>
    BY <1>1 DEF CommitInv, QueueInv, CommittedInv
  <1>2. CASE batches # <<>>
    BY <1>2, QueueFacts DEF CommitInv, QueueInv
  <1>. QED  BY Zenon, <1>1, <1>2

\* Committing the first batch and taking it off the queue.
LEMMA CommitCommitInv ==
    ASSUME CommitInv, Commit
    PROVE  CommitInv'
  <1>. DEFINE b == Head(batches)
  <1>1. batches # <<>> /\ Transaction(b) /\ batches' = Tail(batches)
        /\ unacknowledged' = unacknowledged /\ next_checkpoint' = next_checkpoint
    BY Zenon DEF Commit, collectorVars
  <1>2. b \in Batch /\ b = batches[1] /\ (b[1] = hi + 1 \/ (unacknowledged /\ b[2] = hi))
    BY Zenon, <1>1, QueueFacts
  <1>. HIDE DEF b
  <1>3. CommittedInv' /\ hi' = b[2]
    <2>1. CommittedInv /\ unacknowledged \in BOOLEAN
      BY Zenon DEF CommitInv, CommittedInv
    <2>2. unacknowledged' \in BOOLEAN /\ (unacknowledged => unacknowledged')
      BY Zenon, <1>1, <2>1
    <2>. QED  BY Zenon, <1>1, <1>2, <2>1, <2>2, TransactionInv
  <1>4. /\ batches \in Seq(Batch) /\ Len(batches) \in Nat \ {0}
        /\ \A i \in 1 .. Len(batches) - 1 : batches[i + 1][1] = batches[i][2] + 1
        /\ next_checkpoint = batches[Len(batches)][2] + 1
    BY Zenon, <1>1, QueueFacts DEF CommitInv, QueueInv
  <1>5. /\ batches' \in Seq(Batch) /\ Len(batches') = Len(batches) - 1
        /\ \A i \in 1 .. Len(batches') : batches'[i] = batches[i + 1]
    BY Zenon, <1>1, <1>4, HeadTailProperties
  <1>6. QueueInv'
    <2>1. \A i \in 1 .. Len(batches') - 1 : batches'[i + 1][1] = batches'[i][2] + 1
      BY <1>4, <1>5
    <2>2. CASE Len(batches) = 1
      <3>1. batches' = <<>> /\ next_checkpoint' = hi' + 1
        BY <1>1, <1>2, <1>3, <1>4, <1>5, <2>2, EmptySeq
      <3>. QED  BY Zenon, <1>5, <2>1, <3>1 DEF QueueInv
    <2>3. CASE Len(batches) # 1
      <3>1. Len(batches') \in Nat \ {0} /\ batches' # <<>>
        BY <1>4, <1>5, <2>3, EmptySeq
      <3>2. next_checkpoint' = batches'[Len(batches')][2] + 1
        BY <1>1, <1>4, <1>5, <3>1
      <3>3. batches'[1][1] = hi' + 1
        BY <1>2, <1>3, <1>4, <1>5, <3>1
      <3>. QED  BY Zenon, <1>5, <2>1, <3>1, <3>2, <3>3 DEF QueueInv
    <2>. QED  BY Zenon, <2>2, <2>3
  <1>. QED  BY Zenon, <1>3, <1>6 DEF CommitInv

\* A transaction that reports an error leaves its batch in front.
LEMMA CommitFailsCommitInv ==
    ASSUME CommitInv, CommitFails
    PROVE  CommitInv'
  <1>. DEFINE b == Head(batches)
  <1>1. batches # <<>> /\ batches' = batches /\ next_checkpoint' = next_checkpoint
    BY Zenon DEF CommitFails, collectorVars
  <1>2. CASE UNCHANGED database
    BY ZenonT(30), <1>1, <1>2 DEF CommitInv, CommittedInv, QueueInv, CommittedWithoutGaps, database
  <1>3. CASE Transaction(b) /\ unacknowledged' = TRUE
    <2>1. b \in Batch /\ b = batches[1] /\ (b[1] = hi + 1 \/ (unacknowledged /\ b[2] = hi))
      BY Zenon, <1>1, QueueFacts
    <2>. HIDE DEF b
    <2>2. CommittedInv' /\ hi' = b[2]
      BY Zenon, <1>3, <2>1, TransactionInv DEF CommitInv
    <2>. QED  BY Zenon, <1>1, <1>3, <2>1, <2>2 DEF CommitInv, QueueInv
  <1>. QED  BY Zenon, <1>2, <1>3 DEF CommitFails

LEMMA FlushCommitInv ==
    ASSUME CommitInv, Flush
    PROVE  CommitInv'
  <1>. DEFINE next == next_checkpoint
              b == <<next, BatchEnd>>
  <1>1. UNCHANGED <<hi, committed, unacknowledged>>
    BY Zenon DEF Flush, database
  <1>2. next \in Nat /\ BatchEnd \in Int
    BY Zenon, NextCheckpointIsNat, BatchEndExists
  <1>3. CommittedInv'
    BY Zenon, <1>1 DEF CommitInv, CommittedInv, CommittedWithoutGaps
  <1>4. CASE next .. BatchEnd = {}
    <2>1. UNCHANGED <<next_checkpoint, batches>>
      BY Zenon, <1>4 DEF Flush
    <2>. QED  BY Zenon, <1>1, <1>3, <2>1 DEF CommitInv, QueueInv
  <1>5. CASE next .. BatchEnd # {}
    <2>1. batches' = Append(batches, b) /\ next_checkpoint' = BatchEnd + 1
      BY Zenon, <1>5 DEF Flush
    <2>2. b \in Batch /\ b[1] = next /\ b[2] = BatchEnd
      BY <1>2, <1>5 DEF Batch
    <2>3. /\ batches \in Seq(Batch) /\ Len(batches) \in Nat
          /\ \A i \in 1 .. Len(batches) - 1 : batches[i + 1][1] = batches[i][2] + 1
      BY Zenon, LenProperties DEF CommitInv, QueueInv
    <2>. HIDE DEF b
    <2>4. /\ batches' \in Seq(Batch) /\ batches' # <<>> /\ Len(batches') = Len(batches) + 1
          /\ \A i \in 1 .. Len(batches) : batches'[i] = batches[i]
          /\ batches'[Len(batches) + 1] = b
      BY <2>1, <2>2, <2>3, AppendProperties
    <2>5. next_checkpoint' = batches'[Len(batches')][2] + 1
      BY Zenon, <2>1, <2>2, <2>4
    <2>6. CASE batches = <<>>
      <3>1. next = hi + 1 /\ Len(batches) = 0
        BY Zenon, <2>6 DEF CommitInv, QueueInv
      <3>2. batches'[1][1] = hi' + 1 /\ Len(batches') = 1
        BY <1>1, <2>2, <2>4, <3>1
      <3>3. \A i \in 1 .. Len(batches') - 1 : batches'[i + 1][1] = batches'[i][2] + 1
        BY <3>2
      <3>. QED  BY Zenon, <1>3, <2>4, <2>5, <3>2, <3>3 DEF CommitInv, QueueInv
    <2>7. CASE batches # <<>>
      <3>1. /\ Len(batches) \in Nat \ {0} /\ next = batches[Len(batches)][2] + 1
            /\ batches[1][1] = hi + 1 \/ (unacknowledged /\ batches[1][2] = hi)
        BY Zenon, <2>7, QueueFacts DEF CommitInv, QueueInv
      <3>2. batches'[1] = batches[1]
        BY <2>4, <3>1
      <3>3. ASSUME NEW i \in 1 .. Len(batches') - 1
            PROVE  batches'[i + 1][1] = batches'[i][2] + 1
        <4>1. CASE i = Len(batches)
          BY <2>2, <2>4, <3>1, <4>1
        <4>2. CASE i # Len(batches)
          <5>1. i \in 1 .. Len(batches) - 1 /\ i + 1 \in 1 .. Len(batches) /\ i \in 1 .. Len(batches)
            BY <2>3, <2>4, <4>2
          <5>. QED  BY Zenon, <2>3, <2>4, <5>1
        <4>. QED  BY Zenon, <4>1, <4>2
      <3>. QED  BY Zenon, <1>1, <1>3, <2>4, <2>5, <3>1, <3>2, <3>3 DEF CommitInv, QueueInv
    <2>. QED  BY Zenon, <2>6, <2>7
  <1>. QED  BY Zenon, <1>4, <1>5

LEMMA NextCommitInv ==
    ASSUME CommitInv, [Next]_vars
    PROVE  CommitInv'
  <1>1. CASE UNCHANGED <<hi, committed, unacknowledged, next_checkpoint, batches>>
    BY ZenonT(30), <1>1 DEF CommitInv, CommittedInv, QueueInv, CommittedWithoutGaps
  <1>2. CASE Broadcast
    <2>1. UNCHANGED <<database, collectorVars, batches>>
      BY Zenon, <1>2 DEF Broadcast, Feeds
    <2>. QED  BY Zenon, <1>1, <2>1 DEF database, collectorVars
  <1>3. CASE Collects
    <2>1. UNCHANGED <<database, next_checkpoint, batches>>
      BY Zenon, <1>3 DEF Collects, Collect
    <2>. QED  BY Zenon, <1>1, <2>1 DEF database
  <1>4. CASE Tick
    BY Zenon, <1>1, <1>4 DEF Tick, database
  <1>5. CASE Flush
    BY Zenon, <1>5, FlushCommitInv
  <1>6. CASE Commit
    BY Zenon, <1>6, CommitCommitInv
  <1>7. CASE CommitFails
    BY Zenon, <1>7, CommitFailsCommitInv
  <1>8. CASE Restart
    <2>1. /\ batches' = <<>> /\ next_checkpoint' = hi + 1
          /\ UNCHANGED <<hi, committed, unacknowledged>>
      BY Zenon, <1>8 DEF Restart, ResumesAt, database
    <2>2. QueueInv'
      BY <2>1 DEF QueueInv
    <2>. QED  BY Zenon, <2>1, <2>2 DEF CommitInv, CommittedInv, CommittedWithoutGaps
  <1>9. CASE UNCHANGED vars
    BY Zenon, <1>1, <1>9 DEF vars, database, collectorVars
  <1>. QED
    BY Zenon, <1>2, <1>3, <1>4, <1>5, <1>6, <1>7, <1>8, <1>9 DEF Next

LEMMA CommitInvAlways == Spec => []CommitInv
  <1>1. Init => CommitInv
    <2>. SUFFICES ASSUME Init
                  PROVE  CommitInv
      BY Zenon
    <2>1. /\ hi = -1 /\ committed = <<>> /\ unacknowledged = FALSE
          /\ next_checkpoint = 0 /\ batches = <<>>
      BY Zenon DEF Init
    <2>2. QueueInv
      BY <2>1 DEF QueueInv
    <2>3. CommittedWithoutGaps
      BY <2>1 DEF CommittedWithoutGaps
    <2>4. committed \in Seq(Nat) /\ hi \in Nat \cup {-1}
      BY <2>1
    <2>5. CommittedInv
      BY Zenon, <2>1, <2>3, <2>4 DEF CommittedInv
    <2>. QED  BY Zenon, <2>2, <2>5 DEF CommitInv
  <1>2. CommitInv /\ [Next]_vars => CommitInv'
    BY Zenon, NextCommitInv
  <1>. QED  BY <1>1, <1>2, PTL DEF Spec

\* What a sequential pipeline has committed is every checkpoint up to its
\* watermark, in order and once, whatever the batches, the failed transactions
\* and the restarts; one whose acknowledgement was lost may repeat some of them.
THEOREM CommittedWithoutGapsAlways == Spec => []CommittedWithoutGaps
  <1>1. CommitInv => CommittedWithoutGaps
    BY Zenon DEF CommitInv, CommittedInv
  <1>. QED  BY <1>1, CommitInvAlways, PTL

\* The pipelines get every checkpoint of a range exactly once, whichever of the
\* broadcaster's ingestion and its streams delivers it, for every end of the range,
\* concurrency, backoff and threshold, and over any number of restarts.
THEOREM EachCheckpointOnceAlways == Spec => []EachCheckpointOnce
  <1>1. Init => BroadcastInv
    BY Zenon, InitBroadcastInv
  <1>2. BroadcastInv /\ CommitInv /\ [Next]_vars => BroadcastInv'
    BY Zenon, NextBroadcastInv DEF CommitInv, CommittedInv
  <1>3. BroadcastInv => EachCheckpointOnce
    <2>. SUFFICES ASSUME BroadcastInv
                  PROVE  EachCheckpointOnce
      BY Zenon
    <2>1. \A c \in Cps : sent[c] <= 1
      BY DEF BroadcastInv
    <2>2. ASSUME phase # "running", NEW c \in Cps
          PROVE  sent[c] = IF c \in begin .. Lower(checkpoint_hi, EndCp) - 1 THEN 1 ELSE 0
      <3>1. c \in Nat /\ begin \in Nat /\ checkpoint_hi \in Nat /\ EndCp \in Nat
        BY EndCpIsNat DEF BroadcastInv, BroadcastTypes
      <3>2. c \in begin .. Lower(checkpoint_hi, EndCp) - 1
            <=> c < EndCp /\ begin <= c /\ c < checkpoint_hi
        BY <3>1 DEF Lower
      <3>3. Sent(c) <=> c < EndCp /\ begin <= c /\ c < checkpoint_hi
        BY Zenon, <2>2 DEF Sent
      <3>. QED  BY Zenon, <3>2, <3>3 DEF BroadcastInv
    <2>. QED  BY Zenon, <2>1, <2>2 DEF EachCheckpointOnce
  <1>. QED  BY <1>1, <1>2, <1>3, CommitInvAlways, PTL DEF Spec

----------------------------------------------------------------------------
(* The sequential pipeline's collector: the rows it counts.                *)

INSTANCE FiniteSetTheorems

\* The rows of checkpoints.
Rows(S) == UNION {{c} \X (1 .. RowsOf[c]) : c \in S}

LEMMA RowsAreFinite ==
    ASSUME NEW S \in SUBSET Checkpoints
    PROVE  IsFiniteSet(Rows(S))
  <1>. DEFINE f == [c \in S |-> {c} \X (1 .. RowsOf[c])]
              T == {{c} \X (1 .. RowsOf[c]) : c \in S}
  <1>1. IsFiniteSet(S)
    <2>1. 0 \in Int /\ EndCp - 1 \in Int
      BY EndCpIsNat
    <2>. QED  BY Zenon, <2>1, FS_Interval, FS_Subset DEF Checkpoints
  <1>2. f \in Surjection(S, T)
    BY Zenon DEF Surjection
  <1>3. IsFiniteSet(T)
    BY Zenon, <1>1, <1>2, FS_Surjection
  <1>4. ASSUME NEW c \in S  PROVE IsFiniteSet({c} \X (1 .. RowsOf[c]))
    <2>1. 1 \in Int /\ RowsOf[c] \in Int
      BY SequentialAssumption
    <2>2. IsFiniteSet({c}) /\ IsFiniteSet(1 .. RowsOf[c])
      BY Zenon, <2>1, FS_Singleton, FS_Interval
    <2>. QED  BY Zenon, <2>2, FS_Product
  <1>5. \A X \in T : IsFiniteSet(X)
    BY Zenon, <1>4
  <1>. QED  BY Zenon, <1>3, <1>5, FS_UNION DEF Rows

\* What is added to the rows counted, or taken off them, is what the checkpoints
\* received, or batched and dropped, have.
LEMMA RowsOfDisjoint ==
    ASSUME NEW S \in SUBSET Checkpoints, NEW T \in SUBSET Checkpoints, S \cap T = {}
    PROVE  /\ RowsOfAll(S) \in Nat /\ RowsOfAll(T) \in Nat
           /\ RowsOfAll(S \cup T) = RowsOfAll(S) + RowsOfAll(T)
  <1>1. IsFiniteSet(Rows(S)) /\ IsFiniteSet(Rows(T))
    BY Zenon, RowsAreFinite
  <1>2. Rows(S \cup T) = Rows(S) \cup Rows(T)
    BY Zenon DEF Rows
  <1>3. Rows(S) \cap Rows(T) = {}
    <2>1. ASSUME NEW r \in Rows(S), r \in Rows(T)  PROVE FALSE
      <3>1. PICK c \in S : r \in {c} \X (1 .. RowsOf[c])
        BY Zenon DEF Rows
      <3>2. PICK d \in T : r \in {d} \X (1 .. RowsOf[d])
        BY Zenon, <2>1 DEF Rows
      <3>. QED  BY Zenon, <3>1, <3>2
    <2>. QED  BY Zenon, <2>1
  <1>4. /\ Cardinality(Rows(S)) \in Nat /\ Cardinality(Rows(T)) \in Nat
        /\ Cardinality(Rows(S) \cap Rows(T)) = 0
        /\ Cardinality(Rows(S) \cup Rows(T)) = Cardinality(Rows(S)) + Cardinality(Rows(T))
                                               - Cardinality(Rows(S) \cap Rows(T))
    BY ZenonT(30), <1>1, <1>3, FS_CardinalityType, FS_EmptySet, FS_Union
  <1>5. Cardinality(Rows(S \cup T)) = Cardinality(Rows(S)) + Cardinality(Rows(T))
    <2>1. Cardinality(Rows(S \cup T)) = Cardinality(Rows(S) \cup Rows(T))
      BY Zenon, <1>2
    <2>. QED  BY <1>4, <2>1
  <1>. QED  BY Zenon, <1>4, <1>5 DEF RowsOfAll, Rows

\* Nothing is both pending and on its way, and what is either was sent.
PendingInv ==
    /\ PendingRowsAreCounted
    /\ processing \cap pending = {}
    /\ \A c \in processing \cup pending : c \in Checkpoints /\ c \in Cps /\ sent[c] = 1

LEMMA RowsOfNone == RowsOfAll({}) = 0
  <1>. DEFINE none == {}
  <1>1. \A c : c \notin none
    BY Zenon
  <1>. HIDE DEF none
  <1>2. \A r : r \notin Rows(none)
    BY Zenon, <1>1 DEF Rows
  <1>3. Rows(none) = {}
    BY Zenon, <1>2
  <1>4. RowsOfAll(none) = 0
    BY Zenon, <1>3, FS_EmptySet DEF RowsOfAll, Rows
  <1>. QED  BY Zenon, <1>4 DEF none

\* What the broadcaster sends is new to the pipeline.
LEMMA BroadcastPendingInv ==
    ASSUME BroadcastInv, BroadcastInv', PendingInv, Broadcast
    PROVE  PendingInv'
  <1>1. UNCHANGED <<pending, pending_rows>> /\ processing' = processing \cup {c \in Cps : sent'[c] # sent[c]}
    BY Zenon DEF Broadcast, Feeds, collectorVars
  <1>2. \A c \in Cps : sent[c] = 1 => sent'[c] = 1
    <2>1. CASE UNCHANGED sent
      BY Zenon, <2>1
    <2>2. ASSUME NEW d, Send(d)
          PROVE  \A c \in Cps : sent[c] = 1 => sent'[c] = 1
      <3>. SUFFICES ASSUME NEW c \in Cps, sent[c] = 1
                    PROVE  sent'[c] = 1
        BY Zenon
      <3>1. sent \in [Cps -> Nat] /\ sent'[c] \in {0, 1}
        BY Zenon DEF BroadcastInv, BroadcastTypes
      <3>2. sent'[c] = sent[c] \/ sent'[c] = sent[c] + 1
        BY Zenon, <2>2, <3>1 DEF Send
      <3>. QED  BY <3>1, <3>2
    <2>3. UNCHANGED sent \/ \E d : Send(d)
      BY Zenon DEF Broadcast, NetworkAdvances, NoClient, Fallback, Connect, Fetch, Fetches, Fetched, Delivers,
                   Streamed, StreamBreaks, EndRound
    <2>. QED  BY Zenon, <2>1, <2>2, <2>3
  <1>3. ASSUME NEW c \in Cps, sent'[c] # sent[c]
        PROVE  c \in Checkpoints /\ sent'[c] = 1 /\ sent[c] = 0
    <2>1. sent[c] = (IF Sent(c) THEN 1 ELSE 0) /\ sent'[c] = (IF Sent(c)' THEN 1 ELSE 0)
      BY Zenon DEF BroadcastInv
    <2>2. sent[c] = 0 /\ sent'[c] = 1 /\ Sent(c)'
      BY Zenon, <1>2, <1>3, <2>1
    <2>3. c < EndCp
      BY Zenon, <2>2 DEF Sent
    <2>. QED  BY <2>2, <2>3, EndCpIsNat DEF Checkpoints
  <1>4. processing' \cap pending' = {}
    <2>1. ASSUME NEW c \in pending, c \in processing'  PROVE FALSE
      <3>1. c \in Cps /\ sent[c] = 1 /\ c \notin processing
        BY Zenon DEF PendingInv
      <3>2. sent'[c] # sent[c]
        BY Zenon, <1>1, <2>1, <3>1
      <3>. QED  BY Zenon, <1>3, <3>1, <3>2
    <2>. QED  BY Zenon, <1>1, <2>1
  <1>5. \A c \in processing' \cup pending' : c \in Checkpoints /\ c \in Cps /\ sent'[c] = 1
    BY Zenon, <1>1, <1>2, <1>3 DEF PendingInv
  <1>6. PendingRowsAreCounted'
    BY Zenon, <1>1 DEF PendingInv, PendingRowsAreCounted, RowsOfAll
  <1>. QED  BY Zenon, <1>4, <1>5, <1>6 DEF PendingInv

LEMMA CollectPendingInv ==
    ASSUME PendingInv, NEW S \in SUBSET processing, Collect(S)
    PROVE  PendingInv'
  <1>1. /\ processing' = processing \ S /\ pending' = pending \cup S
        /\ pending_rows' = pending_rows + RowsOfAll(S) /\ sent' = sent
    BY Zenon DEF Collect, broadcasterVars
  <1>2. pending \in SUBSET Checkpoints /\ S \in SUBSET Checkpoints /\ pending \cap S = {}
    BY Zenon DEF PendingInv
  <1>3. RowsOfAll(pending \cup S) = RowsOfAll(pending) + RowsOfAll(S)
    BY Zenon, <1>2, RowsOfDisjoint
  <1>4. PendingRowsAreCounted'
    <2>1. pending_rows' = RowsOfAll(pending \cup S)
      BY Zenon, <1>1, <1>3 DEF PendingInv, PendingRowsAreCounted
    <2>. QED  BY Zenon, <1>1, <2>1 DEF PendingRowsAreCounted, RowsOfAll
  <1>5. processing' \cap pending' = {}
    BY Zenon, <1>1 DEF PendingInv
  <1>6. \A c \in processing' \cup pending' : c \in Checkpoints /\ c \in Cps /\ sent'[c] = 1
    BY Zenon, <1>1 DEF PendingInv
  <1>. QED  BY Zenon, <1>4, <1>5, <1>6 DEF PendingInv

\* A batch and what is dropped on the way are two parts of what is pending.
LEMMA FlushPendingInv ==
    ASSUME PendingInv, next_checkpoint \in Nat, Flush
    PROVE  PendingInv'
  <1>. DEFINE batch == next_checkpoint .. BatchEnd
              kept == pending \ Stale
              rest == kept \ batch
  <1>1. processing' = processing /\ sent' = sent
    BY Zenon DEF Flush, broadcasterVars
  <1>2. BatchEnd \in Int /\ batch \subseteq pending
    BY Zenon, BatchEndExists
  <1>3. batch \cap Stale = {} /\ Stale \subseteq pending
    BY <1>2 DEF Stale
  <1>4. pending \subseteq Checkpoints /\ pending_rows = RowsOfAll(pending)
    BY Zenon DEF PendingInv, PendingRowsAreCounted
  <1>. HIDE DEF batch
  <1>5. /\ kept \in SUBSET Checkpoints /\ Stale \in SUBSET Checkpoints /\ kept \cap Stale = {}
        /\ rest \in SUBSET Checkpoints /\ batch \in SUBSET Checkpoints /\ rest \cap batch = {}
        /\ kept \cup Stale = pending /\ rest \cup batch = kept
    BY Zenon, <1>2, <1>3, <1>4
  <1>. HIDE DEF kept, rest
  <1>6. /\ RowsOfAll(pending) = RowsOfAll(kept) + RowsOfAll(Stale)
        /\ RowsOfAll(kept) \in Nat /\ RowsOfAll(Stale) \in Nat
    BY Zenon, <1>5, RowsOfDisjoint
  <1>7. /\ RowsOfAll(kept) = RowsOfAll(rest) + RowsOfAll(batch)
        /\ RowsOfAll(rest) \in Nat /\ RowsOfAll(batch) \in Nat
    BY Zenon, <1>5, RowsOfDisjoint
  <1>8. CASE batch = {}
    <2>1. pending' = kept /\ pending_rows' = pending_rows - RowsOfAll(Stale)
      BY Zenon, <1>8 DEF Flush, StaleRows, batch, kept
    <2>2. pending_rows' = RowsOfAll(kept)
      BY <1>4, <1>6, <2>1
    <2>. QED  BY Zenon, <1>1, <1>5, <2>1, <2>2 DEF PendingInv, PendingRowsAreCounted, RowsOfAll
  <1>9. CASE batch # {}
    <2>1. /\ pending' = rest
          /\ pending_rows' = pending_rows - RowsOfAll(Stale) - RowsOfAll(batch)
      BY Zenon, <1>9 DEF Flush, StaleRows, batch, kept, rest
    <2>2. pending_rows' = RowsOfAll(rest)
      BY <1>4, <1>6, <1>7, <2>1
    <2>. QED  BY Zenon, <1>1, <1>5, <2>1, <2>2 DEF PendingInv, PendingRowsAreCounted, RowsOfAll
  <1>. QED  BY Zenon, <1>8, <1>9

LEMMA NextPendingInv ==
    ASSUME BroadcastInv, BroadcastInv', CommitInv, PendingInv, [Next]_vars
    PROVE  PendingInv'
  <1>1. CASE UNCHANGED <<sent, processing, pending, pending_rows>>
    BY Zenon, <1>1 DEF PendingInv, PendingRowsAreCounted, RowsOfAll
  <1>2. CASE Broadcast
    BY Zenon, <1>2, BroadcastPendingInv
  <1>3. CASE Collects
    BY Zenon, <1>3, CollectPendingInv DEF Collects
  <1>4. CASE Flush
    BY Zenon, <1>4, NextCheckpointIsNat, FlushPendingInv
  <1>5. CASE Restart
    <2>1. processing' = {} /\ pending' = {} /\ pending_rows' = 0
      BY Zenon, <1>5 DEF Restart
    <2>2. PendingRowsAreCounted'
      BY Zenon, <2>1, RowsOfNone DEF PendingRowsAreCounted, RowsOfAll
    <2>. QED  BY Zenon, <2>1, <2>2 DEF PendingInv
  <1>. QED  BY Zenon, <1>1, <1>2, <1>3, <1>4, <1>5
            DEF Next, vars, broadcasterVars, collectorVars, Tick, Commit, CommitFails

\* The collector's count of pending rows is at all times the number of rows of what
\* is pending, though checkpoints from the past are dropped on the way and batches
\* cut short: the subtractions never go below zero.
THEOREM PendingRowsAreCountedAlways == Spec => []PendingRowsAreCounted
  <1>1. Init => PendingInv
    <2>. SUFFICES ASSUME Init
                  PROVE  PendingInv
      BY Zenon
    <2>1. processing = {} /\ pending = {} /\ pending_rows = 0
      BY Zenon DEF Init
    <2>. QED  BY Zenon, <2>1, RowsOfNone DEF PendingInv, PendingRowsAreCounted
  <1>2. Init => BroadcastInv
    BY Zenon, InitBroadcastInv
  <1>3. BroadcastInv /\ CommitInv /\ [Next]_vars => BroadcastInv'
    BY Zenon, NextBroadcastInv DEF CommitInv, CommittedInv
  <1>4. BroadcastInv /\ BroadcastInv' /\ CommitInv /\ PendingInv /\ [Next]_vars
        => PendingInv'
    BY Zenon, NextPendingInv
  <1>5. PendingInv => PendingRowsAreCounted
    BY Zenon DEF PendingInv
  <1>. QED  BY <1>1, <1>2, <1>3, <1>4, <1>5, CommitInvAlways, PTL DEF Spec
=============================================================================

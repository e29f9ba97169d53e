--------------------------- MODULE Proposer_proof ---------------------------
(***************************************************************************)
(* Proofs about Proposer, for any committee, any number of rounds and any  *)
(* number of restarts, retries and delays.                                 *)
(***************************************************************************)
EXTENDS Proposer, TLAPS

Refs == [author : Authorities, round : 0 .. MaxRound, life : Nat]
Clocks == [round : Nat \ {0}, seen : SUBSET Authorities]

CoreTypes ==
    /\ faults \in [starts : Nat, others : Nat]
    /\ DOMAIN ancestors \subseteq Refs
    /\ dag \in [Authorities -> SUBSET DOMAIN ancestors]
    /\ stored \in [Authorities -> SUBSET DOMAIN ancestors]
    /\ clock \in [Authorities -> Clocks]
    /\ last_included \in [Authorities -> [Authorities -> Int]]
    /\ stopped \in [Authorities -> BOOLEAN]
    /\ last_signaled \in [Authorities -> Nat]
    /\ sent \subseteq DOMAIN ancestors
    /\ panicked \in BOOLEAN

TaskTypes ==
    /\ known \in [Authorities -> Nat \cup {None}]
    /\ sync \in [Authorities -> [on : BOOLEAN, replied : SUBSET Authorities, highest : Nat]]
    /\ delayed \in [Authorities -> BOOLEAN]
    /\ timer \in [Authorities -> [round : Nat, fired : {"none", "min", "max"}]]

\* A quorum of authors has a block of round r in D.
HasQuorum(D, r) == ReachesQuorum(Authors(At(D, r)))

\* A set of blocks with all their ancestors.
Closed(A, D) ==
    /\ Genesis \subseteq D /\ D \subseteq DOMAIN A
    /\ \A b \in D : A[b] \subseteq D

\* The clock c is what the blocks D amount to.
Follows(c, D) ==
    /\ c \in Clocks
    /\ c.seen = Authors(At(D, c.round))
    /\ ~ReachesQuorum(c.seen)
    /\ \A b \in D : b.round <= c.round
    /\ HasQuorum(D, c.round - 1)

\* Every signed block has a quorum of parents, and one that its author has not in
\* storage is of an earlier life.
BlocksInv ==
    \A b \in DOMAIN ancestors :
        /\ ancestors[b] \subseteq DOMAIN ancestors
        /\ \A x \in ancestors[b] : x.round < b.round
        /\ b.round > 0 => HasQuorum(ancestors[b], b.round - 1)
        /\ b.round = 0 => b \in Genesis
        /\ b.life <= faults.starts
        /\ b \notin stored[b.author] => b.life < faults.starts

ValidatorInv(v) ==
    /\ Closed(ancestors, dag[v]) /\ Closed(ancestors, stored[v]) /\ stored[v] \subseteq dag[v]
    /\ Follows(clock[v], dag[v])
    /\ v \in Up => \A a \in Authorities : last_included[v][a] < last_proposed_round(v, dag[v])

DagInv == CoreTypes /\ TaskTypes /\ BlocksInv /\ \A v \in Authorities : ValidatorInv(v)

Lost(v) == {b \in DOMAIN ancestors : /\ b.author = v /\ b.round > 0
                                     /\ b \notin stored[v] /\ b \notin forgotten}

\* A quorum has had the block b of v in storage before v asked for it.
Remembered(v, b) ==
    \E Q \in SUBSET Authorities :
        /\ ReachesQuorum(Q)
        /\ \A p \in Q \ {v} : /\ b \in stored[p]
                              /\ p \in sync[v].replied => b.round <= sync[v].highest

OwnInv ==
    /\ forgotten \subseteq DOMAIN ancestors
    /\ \A x, y \in DOMAIN ancestors \ forgotten :
           x.author = y.author /\ x.round = y.round /\ x.round > 0 => x = y
    /\ \A v \in Authorities :
         /\ v \notin sync[v].replied
         /\ \A b \in Lost(v) : /\ v \in Amnesiac
                               /\ known[v] # None => b.round <= known[v]
                               /\ Remembered(v, b)

PanicInv ==
    /\ NeverPanics
    /\ \A v \in Up \ SyncOwnBlock : \E b \in stored[v] : b.author = v /\ b.round > 0

RoundOf(v, r) == r = 0 \/ \E b \in sent : b.author = v /\ b.round = r

SentInv == \A b \in sent : ancestors[b] \subseteq sent

\* A round is signalled as soon as the clock is there, and what a running
\* validator has accepted can be fetched by the others.
SignalInv(v) ==
    /\ last_signaled[v] = clock[v].round
    /\ timer[v].round <= clock[v].round
    /\ ~stopped[v] => dag[v] \subseteq sent

\* The own round that peers reported is that of a block all can get.
KnownInv(v) ==
    /\ known[v] # None => RoundOf(v, known[v])
    /\ RoundOf(v, sync[v].highest)
    /\ sync[v].on \/ known[v] # None

\* After the last timer of a round, only what a later forced proposal waits for
\* keeps a validator from having a block of that round.
ForcedInv(v) ==
    (/\ timer[v].round = clock[v].round /\ timer[v].fired = "max"
     /\ should_propose(clock[v].round, known[v], delayed[v])
     /\ clock[v].round <= MaxRound)
        => last_proposed_round(v, dag[v]) >= clock[v].round

RestInv == SentInv /\ \A v \in Up : SignalInv(v) /\ KnownInv(v) /\ ForcedInv(v)

-----------------------------------------------------------------------------
(* Stake, and the last block of an authority.                               *)

LEMMA StakeMonotone ==
    ASSUME NEW A, NEW B, A \subseteq B, B \subseteq Authorities
    PROVE  Stake[A] \in Nat /\ Stake[B] \in Nat /\ Stake[A] <= Stake[B]
  <1>1. /\ A \in SUBSET Authorities /\ B \ A \in SUBSET Authorities /\ B \in SUBSET Authorities
        /\ A \cup (B \ A) = B /\ A \cap (B \ A) = {}
    BY Zenon
  <1>2. Stake[A] \in Nat /\ Stake[B] \in Nat /\ Stake[B \ A] \in Nat
    BY Zenon, <1>1, StakeAssumption
  <1>3. Stake[A \cup (B \ A)] + Stake[A \cap (B \ A)] = Stake[A] + Stake[B \ A]
    BY Zenon, <1>1, StakeAssumption
  <1>4. Stake[B] + 0 = Stake[A] + Stake[B \ A]
    BY Zenon, <1>1, <1>3, StakeAssumption
  <1>. QED  BY <1>2, <1>4

LEMMA QuorumGrows ==
    ASSUME NEW A, NEW B, A \subseteq B, B \subseteq Authorities, ReachesQuorum(A)
    PROVE  ReachesQuorum(B)
  <1>1. Stake[A] \in Nat /\ Stake[B] \in Nat /\ Stake[A] <= Stake[B]
    BY Zenon, StakeMonotone
  <1>2. committee.quorum \in Nat
    BY Zenon, ProposerAssumption
  <1>. QED  BY <1>1, <1>2 DEF ReachesQuorum

LEMMA NoQuorumOfNone == ~ReachesQuorum({})
  BY StakeAssumption, ProposerAssumption DEF ReachesQuorum

LEMMA AuthorsAreAuthorities ==
    ASSUME NEW D, D \subseteq Refs, NEW r
    PROVE  Authors(D) \subseteq Authorities /\ Authors(At(D, r)) \subseteq Authorities
  BY Zenon DEF Refs, Authors, At

LEMMA HasQuorumGrows ==
    ASSUME NEW D, NEW E, D \subseteq E, E \subseteq Refs, NEW r, HasQuorum(D, r)
    PROVE  HasQuorum(E, r)
  <1>1. Authors(At(D, r)) \subseteq Authors(At(E, r))
    BY Zenon DEF Authors, At
  <1>. QED  BY Zenon, <1>1, AuthorsAreAuthorities, QuorumGrows DEF HasQuorum

\* Nat is well ordered; taken from the library where the lemmas are put together.
LowestExists == \A T \in SUBSET Nat : T # {} => \E m \in T : \A x \in T : ~ (x < m)

\* A nonempty set of rounds has a highest one.
LEMMA HighestExists ==
    ASSUME LowestExists, NEW T, T \subseteq 0 .. MaxRound, T # {}
    PROVE  \E m \in T : \A x \in T : x <= m
  <1>. DEFINE U == {MaxRound - x : x \in T}
  <1>0. MaxRound \in Nat
    BY Zenon, ProposerAssumption
  <1>1. \A x \in 0 .. MaxRound : x \in Nat /\ MaxRound - x \in Nat
    BY <1>0
  <1>2. U \subseteq Nat /\ U # {}
    BY Zenon, <1>1
  <1>3. PICK u \in U : \A w \in U : ~ (w < u)
    BY Zenon, <1>2 DEF LowestExists
  <1>4. PICK m \in T : u = MaxRound - m
    BY Zenon
  <1>5. \A x \in T : ~ (MaxRound - x < MaxRound - m)
    BY Zenon, <1>3, <1>4
  <1>6. \A x, y \in Nat : ~ (MaxRound - x < MaxRound - y) => x <= y
    BY <1>0
  <1>. QED  BY Zenon, <1>1, <1>5, <1>6

LEMMA LatestIs ==
    ASSUME LowestExists, NEW D, D \subseteq Refs, Genesis \subseteq D,
           NEW a \in Authorities, NEW r \in Nat \ {0}
    PROVE  /\ Latest(D, a, r) \in D
           /\ Latest(D, a, r).author = a /\ Latest(D, a, r).round < r
           /\ \A x \in D : x.author = a /\ x.round < r => x.round <= Latest(D, a, r).round
  <1>. DEFINE S == {x \in D : x.author = a /\ x.round < r}
              T == {x.round : x \in S}
  <1>1. Ref(a, 0, 0) \in S
    BY DEF Genesis, Ref
  <1>2. T \subseteq 0 .. MaxRound /\ T # {}
    BY Zenon, <1>1 DEF Refs
  <1>3. PICK m \in T : \A t \in T : t <= m
    BY Zenon, <1>2, HighestExists
  <1>4. PICK b \in S : m = b.round
    BY Zenon
  <1>5. /\ b \in D /\ b.author = a /\ b.round < r
        /\ \A x \in D : x.author = a /\ x.round < r => x.round <= b.round
    BY Zenon, <1>3, <1>4
  <1>. QED  BY Zenon, <1>5 DEF Latest

LEMMA LastProposed ==
    ASSUME LowestExists, NEW D, D \subseteq Refs, NEW v \in Authorities, Genesis \subseteq D
    PROVE  /\ last_proposed_round(v, D) \in 0 .. MaxRound /\ last_proposed_round(v, D) \in Nat
           /\ Latest(D, v, MaxRound + 1) \in D
           /\ Latest(D, v, MaxRound + 1).author = v
           /\ Latest(D, v, MaxRound + 1).round = last_proposed_round(v, D)
           /\ \A x \in D : x.author = v => x.round <= last_proposed_round(v, D)
  <1>1. MaxRound + 1 \in Nat \ {0} /\ MaxRound \in Nat
    BY ProposerAssumption
  <1>2. \A x \in D : x.round < MaxRound + 1 /\ x.round \in 0 .. MaxRound
    BY <1>1 DEF Refs
  <1>. QED  BY <1>1, <1>2, LatestIs DEF last_proposed_round

LEMMA LastProposedGrows ==
    ASSUME LowestExists, NEW D, NEW E, Genesis \subseteq D, D \subseteq E, E \subseteq Refs,
           NEW v \in Authorities
    PROVE  /\ last_proposed_round(v, D) <= last_proposed_round(v, E)
           /\ last_proposed_round(v, D) \in Nat /\ last_proposed_round(v, E) \in Nat
  <1>1. PICK b \in D : b.author = v /\ b.round = last_proposed_round(v, D)
    BY Zenon, LastProposed
  <1>2. Genesis \subseteq E /\ b \in E /\ D \subseteq Refs
    BY Zenon
  <1>. QED  BY <1>1, <1>2, LastProposed

-----------------------------------------------------------------------------
(* The clock.                                                               *)

\* One more block, whose parents are there, keeps the clock in step with the
\* blocks: no round can be skipped.
LEMMA AddedBlock ==
    ASSUME NEW D, D \subseteq Refs, NEW b \in Refs, NEW c, Follows(c, D),
           b.round > 0 => HasQuorum(D, b.round - 1)
    PROVE  Follows(add_block(c, b), D \cup {b})
  <1>. DEFINE E == D \cup {b}
  <1>1. c \in Clocks /\ c.round \in Nat \ {0} /\ c.seen \subseteq Authorities /\ E \subseteq Refs
        /\ b.round \in Nat /\ b.author \in Authorities /\ (\A x \in D : x.round \in Nat)
    BY ProposerAssumption DEF Follows, Clocks, Refs
  <1>2. HasQuorum(E, c.round - 1)
    BY <1>1, HasQuorumGrows DEF Follows
  <1>3. ASSUME b.round < c.round  PROVE Follows(add_block(c, b), E)
    <2>1. add_block(c, b) = c
      BY <1>1, <1>3 DEF add_block
    <2>2. Authors(At(E, c.round)) = Authors(At(D, c.round))
      BY <1>1, <1>3 DEF At, Authors
    <2>3. \A x \in E : x.round <= c.round
      BY <1>1, <1>3 DEF Follows
    <2>. QED  BY Zenon, <1>2, <2>1, <2>2, <2>3 DEF Follows
  <1>4. ASSUME b.round = c.round  PROVE Follows(add_block(c, b), E)
    <2>1. Authors(At(E, c.round)) = c.seen \cup {b.author}
      BY Zenon, <1>4 DEF At, Authors, Follows
    <2>2. \A x \in E : x.round <= c.round
      BY <1>1, <1>4 DEF Follows
    <2>3. ASSUME ReachesQuorum(c.seen \cup {b.author})  PROVE Follows(add_block(c, b), E)
      <3>. DEFINE n == [round |-> b.round + 1, seen |-> {}]
      <3>1. add_block(c, b) = n
        BY <1>1, <1>4, <2>3 DEF add_block
      <3>2. n \in Clocks /\ n.round - 1 = c.round /\ n.seen = {}
        BY <1>1, <1>4 DEF Clocks
      <3>3. At(E, n.round) = {}
        BY <1>1, <1>4, <2>2 DEF At
      <3>4. n.seen = Authors(At(E, n.round))
        BY Zenon, <3>3 DEF Authors
      <3>5. HasQuorum(E, n.round - 1)
        BY Zenon, <2>1, <2>3, <3>2 DEF HasQuorum
      <3>6. \A x \in E : x.round <= n.round
        BY <1>1, <1>4, <2>2
      <3>. HIDE DEF n, E
      <3>. QED  BY Zenon, <3>1, <3>2, <3>4, <3>5, <3>6, NoQuorumOfNone DEF Follows
    <2>4. ASSUME ~ReachesQuorum(c.seen \cup {b.author})  PROVE Follows(add_block(c, b), E)
      <3>. DEFINE n == [round |-> b.round, seen |-> c.seen \cup {b.author}]
      <3>1. add_block(c, b) = n
        BY <1>1, <1>4, <2>4 DEF add_block
      <3>2. n \in Clocks /\ n.round = c.round /\ n.seen = c.seen \cup {b.author}
        BY Zenon, <1>1, <1>4 DEF Clocks
      <3>. HIDE DEF n, E
      <3>. QED  BY Zenon, <1>2, <2>1, <2>2, <2>4, <3>1, <3>2 DEF Follows
    <2>. QED  BY Zenon, <2>3, <2>4
  <1>5. ASSUME b.round > c.round  PROVE FALSE
    <2>1. HasQuorum(D, b.round - 1) /\ b.round - 1 >= c.round
      BY <1>1, <1>5
    <2>2. CASE b.round - 1 = c.round
      BY Zenon, <2>1, <2>2 DEF HasQuorum, Follows
    <2>3. CASE b.round - 1 > c.round
      <3>1. Authors(At(D, b.round - 1)) = {}
        BY <1>1, <2>3 DEF Authors, At, Follows
      <3>. QED  BY Zenon, <2>1, <3>1, NoQuorumOfNone DEF HasQuorum
    <2>. QED  BY <1>1, <2>1, <2>2, <2>3
  <1>. QED  BY <1>1, <1>3, <1>4, <1>5

\* What DagState::new makes of the blocks in storage; shown below.
ClockRecovers ==
    \A n \in Nat, D \in SUBSET Refs :
        (/\ Genesis \subseteq D
         /\ \A b \in D : b.life <= n
         /\ \A b \in D : b.round > 0 => HasQuorum(D, b.round - 1))
            => Follows(RecoveredClock(D), D)

-----------------------------------------------------------------------------
(* The ancestors of a new block.                                            *)

\* Whoever is excluded, the parents of a proposal have a quorum of stake: what was
\* included before is older than the last own block.
LEMMA ProposalHasParents ==
    ASSUME LowestExists, NEW D, D \subseteq Refs, Genesis \subseteq D, NEW v \in Authorities,
           NEW r \in 1 .. MaxRound, HasQuorum(D, r - 1), r > last_proposed_round(v, D),
           NEW li \in [Authorities -> Int],
           \A a \in Authorities : li[a] < last_proposed_round(v, D),
           NEW X, X \in {{}, LowScoring \ {v}},
           NEW parents, parents \in AncestorsToPropose(v, D, r, li, X)
    PROVE  /\ parents \subseteq D
           /\ \A x \in parents : x.round < r
           /\ HasQuorum(parents, r - 1)
  <1>. DEFINE Inc == IncludedAncestors(v, D, r, li, X)
              Cand == Candidates(v, D, r, li)
              Exc == Cand \ Inc
              own == Latest(D, v, MaxRound + 1)
  <1>0. /\ r \in Nat \ {0} /\ r - 1 \in Nat /\ MaxRound \in Nat
        /\ LowScoring \subseteq Authorities
        /\ \A x \in D : x.round \in Nat /\ x.author \in Authorities
    BY ProposerAssumption DEF Refs
  <1>1. /\ own \in D /\ own.author = v /\ own.round = last_proposed_round(v, D)
        /\ own.round \in Nat /\ own.round < r
        /\ \A x \in D : x.author = v => x.round <= own.round
    BY <1>0, LastProposed
  <1>2. \A a \in Authorities : /\ Latest(D, a, r) \in D
                               /\ Latest(D, a, r).author = a /\ Latest(D, a, r).round < r
                               /\ \A x \in D : x.author = a /\ x.round < r => x.round <= Latest(D, a, r).round
    BY Zenon, <1>0, LatestIs
  <1>3. Cand \subseteq D /\ \A x \in Cand : x.round < r
    BY ZenonT(30), <1>2 DEF Candidates
  <1>4. Inc \subseteq D /\ (\A x \in Inc : x.round < r) /\ own \in Inc
    BY Zenon, <1>1, <1>3 DEF IncludedAncestors
  <1>5. \A x \in Exc : x.author \in LowScoring
    BY Zenon DEF IncludedAncestors
  <1>a. parents \in UNION {{Inc \cup S \cup AcceptedByQuorum(D, Exc \ S, li, low) :
                               low \in [LowScoring -> 0 .. r - 1]} : S \in Fillers(Inc, Exc, r)}
    BY Zenon DEF AncestorsToPropose
  <1>. HIDE DEF Inc, Exc, Cand, own
  <1>6. PICK S \in Fillers(Inc, Exc, r), low \in [LowScoring -> 0 .. r - 1] :
            parents = Inc \cup S \cup AcceptedByQuorum(D, Exc \ S, li, low)
    <2>. DEFINE Of(S) == {Inc \cup S \cup AcceptedByQuorum(D, Exc \ S, li, low) :
                              low \in [LowScoring -> 0 .. r - 1]}
                F == Fillers(Inc, Exc, r)
    <2>1. parents \in UNION {Of(S) : S \in F}
      BY Zenon, <1>a
    <2>. HIDE DEF Of, F
    <2>2. PICK S \in F : parents \in Of(S)
      BY Zenon, <2>1
    <2>3. \E low \in [LowScoring -> 0 .. r - 1] :
              parents = Inc \cup S \cup AcceptedByQuorum(D, Exc \ S, li, low)
      BY Zenon, <2>2 DEF Of
    <2>. QED  BY Zenon, <2>3 DEF F
  <1>7. S \subseteq At(Exc, r - 1)
        /\ (ReachesQuorum(Authors(At(Inc, r - 1) \cup S)) \/ S = At(Exc, r - 1))
    BY Zenon DEF Fillers
  <1>8. AcceptedByQuorum(D, Exc \ S, li, low) \subseteq D
    BY Zenon DEF AcceptedByQuorum
  <1>9. \A x \in AcceptedByQuorum(D, Exc \ S, li, low) : x.round < r
    <2>. SUFFICES ASSUME NEW x \in AcceptedByQuorum(D, Exc \ S, li, low)  PROVE x.round < r
      BY Zenon
    <2>1. x \in D /\ x.author \in Authors(Exc \ S) /\ x = Latest(D, x.author, low[x.author] + 1)
      BY Zenon DEF AcceptedByQuorum
    <2>2. x.author \in LowScoring
      BY Zenon, <1>5, <2>1 DEF Authors
    <2>3. low[x.author] \in 0 .. r - 1 /\ x.author \in Authorities
      BY Zenon, <1>0, <2>2
    <2>4. low[x.author] + 1 \in Nat \ {0} /\ low[x.author] + 1 <= r
      BY <1>0, <2>3
    <2>5. Latest(D, x.author, low[x.author] + 1).round < low[x.author] + 1
      BY Zenon, <2>3, <2>4, LatestIs
    <2>. QED  BY <1>0, <2>1, <2>3, <2>4, <2>5
  <1>10. parents \subseteq D /\ \A x \in parents : x.round < r
    <2>1. S \subseteq Exc /\ Exc \subseteq Cand
      BY Zenon, <1>7 DEF At, Exc
    <2>. QED  BY Zenon, <1>3, <1>4, <1>6, <1>8, <1>9, <2>1
  <1>11. ReachesQuorum(Authors(At(Inc, r - 1) \cup S))
    <2>. SUFFICES ASSUME S = At(Exc, r - 1)  PROVE ReachesQuorum(Authors(At(Inc, r - 1) \cup S))
      BY Zenon, <1>7
    <2>1. ASSUME NEW x \in At(D, r - 1)
          PROVE  \E y \in At(Inc, r - 1) \cup S : y.author = x.author
      <3>1. x \in D /\ x.round = r - 1 /\ x.author \in Authorities
        BY Zenon, <1>0 DEF At
      <3>2. CASE x.author = v
        <4>1. own.round = r - 1
          BY <1>0, <1>1, <3>1, <3>2
        <4>. QED  BY Zenon, <1>1, <1>4, <3>2, <4>1 DEF At
      <3>3. CASE x.author # v
        <4>. DEFINE l == Latest(D, x.author, r)
        <4>1. l \in D /\ l.author = x.author /\ l.round < r /\ x.round <= l.round
          BY <1>0, <1>2, <3>1
        <4>2. l.round = r - 1
          BY <1>0, <3>1, <4>1
        <4>3. li[x.author] \in Int /\ li[x.author] < own.round
          BY Zenon, <1>1, <3>1
        <4>4. l.round > li[l.author]
          BY <1>0, <1>1, <4>1, <4>2, <4>3
        <4>5. l \in Cand
          BY Zenon, <3>1, <3>3, <4>4 DEF Candidates, Cand
        <4>6. l \in Inc \/ l \in Exc
          BY Zenon, <4>5 DEF Exc
        <4>. QED  BY Zenon, <4>1, <4>2, <4>6 DEF At
      <3>. QED  BY Zenon, <3>2, <3>3
    <2>2. Authors(At(D, r - 1)) \subseteq Authors(At(Inc, r - 1) \cup S)
      BY <2>1 DEF Authors
    <2>3. Authors(At(Inc, r - 1) \cup S) \subseteq Authorities
      <3>1. At(Inc, r - 1) \cup S \subseteq D
        BY Zenon, <1>3, <1>4 DEF At, Exc
      <3>. QED  BY ZenonT(30), <1>0, <3>1 DEF Authors
    <2>. QED  BY Zenon, <2>2, <2>3, QuorumGrows DEF HasQuorum
  <1>12. Authors(At(Inc, r - 1) \cup S) \subseteq Authors(At(parents, r - 1))
    BY Zenon, <1>6, <1>7 DEF Authors, At
  <1>13. parents \subseteq Refs
    BY Zenon, <1>10
  <1>14. ReachesQuorum(Authors(At(parents, r - 1)))
    <2>1. Authors(At(parents, r - 1)) \subseteq Authorities
      BY Zenon, <1>13, AuthorsAreAuthorities
    <2>. QED  BY Zenon, <1>11, <1>12, <2>1, QuorumGrows
  <1>. QED  BY Zenon, <1>10, <1>14 DEF HasQuorum

-----------------------------------------------------------------------------
(* What a step of Core does, once its ancestors are known to suffice.       *)

\* What Core has when it tries to propose, in a state where faults and the other
\* tasks have been updated.
Prepared(v, D, c, li) ==
    /\ Closed(ancestors, D)
    /\ \A b \in DOMAIN ancestors : b.author = v /\ b.life = faults'.starts => b \in D
    /\ Follows(c, D)
    /\ li \in [Authorities -> Int]
    /\ \A a \in Authorities : li[a] < last_proposed_round(v, D)

\* A block is signed.
Signs(v, D, c, signaled, parents, li, b) ==
    /\ b = Ref(v, c.round, faults'.starts)
    /\ c.round <= MaxRound /\ c.round > last_proposed_round(v, D)
    /\ should_propose(c.round, known'[v], delayed'[v])
    /\ parents \subseteq D /\ \A x \in parents : x.round < c.round
    /\ HasQuorum(parents, c.round - 1)
    /\ li \in [Authorities -> Int] /\ \A a \in Authorities : li[a] < c.round
    /\ dag' = [dag EXCEPT ![v] = D \cup {b}]
    /\ stored' = [stored EXCEPT ![v] = D \cup {b}]
    /\ clock' = [clock EXCEPT ![v] = add_block(c, b)]
    /\ ancestors' = [x \in DOMAIN ancestors \cup {b} |-> IF x = b THEN parents ELSE ancestors[x]]
    /\ last_included' = [last_included EXCEPT ![v] = li]
    /\ BroadcastOrStop(v, D, b)
    /\ try_signal_new_round(v, add_block(c, b), signaled)
    /\ panicked' = panicked

LEMMA NewBlockSigns ==
    ASSUME LowestExists, DagInv, NEW v \in Up, NEW D, NEW c, NEW li, NEW force, NEW signaled,
           Prepared(v, D, c, li), MayPropose(v, D, c, known'[v], delayed'[v]),
           NewBlock(v, D, c, li, force, signaled)
    PROVE  \E parents, l, b : Signs(v, D, c, signaled, parents, l, b)
  <1>0. v \in Authorities
    BY Zenon, ProposerAssumption
  <1>1. D \subseteq Refs /\ Genesis \subseteq D
    BY Zenon DEF Prepared, Closed, DagInv, CoreTypes
  <1>2. /\ c.round \in Nat \ {0} /\ HasQuorum(D, c.round - 1)
        /\ c.round > last_proposed_round(v, D) /\ c.round <= MaxRound
        /\ should_propose(c.round, known'[v], delayed'[v])
    BY Zenon DEF Prepared, Follows, Clocks, MayPropose
  <1>3. c.round \in 1 .. MaxRound /\ last_proposed_round(v, D) \in Nat
    BY <1>0, <1>1, <1>2, LastProposed
  <1>. DEFINE b == Ref(v, c.round, faults'.starts)
  <1>x. PICK X \in {{}, LowScoring \ {v}} :
            \E parents \in AncestorsToPropose(v, D, c.round, li, X) :
                /\ dag' = [dag EXCEPT ![v] = D \cup {b}]
                /\ stored' = [stored EXCEPT ![v] = D \cup {b}]
                /\ clock' = [clock EXCEPT ![v] = add_block(c, b)]
                /\ ancestors' = [x \in DOMAIN ancestors \cup {b} |-> IF x = b THEN parents ELSE ancestors[x]]
                /\ last_included' = [last_included EXCEPT ![v] = NowIncluded(li, parents)]
                /\ BroadcastOrStop(v, D, b)
                /\ try_signal_new_round(v, add_block(c, b), signaled)
                /\ panicked' = (panicked \/ ~ReachesQuorum(Authors(At(parents, c.round - 1))))
    BY Zenon DEF NewBlock
  <1>4. PICK parents \in AncestorsToPropose(v, D, c.round, li, X) :
            /\ dag' = [dag EXCEPT ![v] = D \cup {b}]
            /\ stored' = [stored EXCEPT ![v] = D \cup {b}]
            /\ clock' = [clock EXCEPT ![v] = add_block(c, b)]
            /\ ancestors' = [x \in DOMAIN ancestors \cup {b} |-> IF x = b THEN parents ELSE ancestors[x]]
            /\ last_included' = [last_included EXCEPT ![v] = NowIncluded(li, parents)]
            /\ BroadcastOrStop(v, D, b)
            /\ try_signal_new_round(v, add_block(c, b), signaled)
            /\ panicked' = (panicked \/ ~ReachesQuorum(Authors(At(parents, c.round - 1))))
    BY Zenon, <1>x
  <1>. HIDE DEF b
  <1>5. li \in [Authorities -> Int] /\ \A a \in Authorities : li[a] < last_proposed_round(v, D)
    BY Zenon DEF Prepared
  <1>6. parents \subseteq D /\ (\A x \in parents : x.round < c.round) /\ HasQuorum(parents, c.round - 1)
    <2>1. /\ D \subseteq Refs /\ Genesis \subseteq D /\ v \in Authorities
          /\ c.round \in 1 .. MaxRound /\ HasQuorum(D, c.round - 1) /\ c.round > last_proposed_round(v, D)
          /\ li \in [Authorities -> Int] /\ \A a \in Authorities : li[a] < last_proposed_round(v, D)
          /\ X \in {{}, LowScoring \ {v}} /\ parents \in AncestorsToPropose(v, D, c.round, li, X)
      BY Zenon, <1>0, <1>1, <1>2, <1>3, <1>5
    <2>. QED  BY <2>1, ProposalHasParents
  <1>. DEFINE l == NowIncluded(li, parents)
  <1>7. l \in [Authorities -> Int] /\ \A a \in Authorities : l[a] < c.round
    <2>1. ASSUME NEW a \in Authorities  PROVE l[a] \in Int /\ l[a] < c.round
      <3>1. CASE a \in Authors(parents)
        <4>1. \E x \in parents : x.author = a
          BY Zenon, <3>1 DEF Authors
        <4>2. (CHOOSE x \in parents : x.author = a) \in parents
          BY Zenon, <4>1
        <4>3. l[a] = (CHOOSE x \in parents : x.author = a).round
          BY Zenon, <3>1 DEF NowIncluded
        <4>4. \A x \in parents : x.round \in Int
          BY <1>1, <1>6, ProposerAssumption DEF Refs
        <4>. QED  BY Zenon, <1>6, <4>2, <4>3, <4>4
      <3>2. CASE a \notin Authors(parents)
        <4>1. l[a] = li[a]
          BY Zenon, <3>2 DEF NowIncluded
        <4>. QED  BY <1>2, <1>3, <1>5, <4>1
      <3>. QED  BY Zenon, <3>1, <3>2
    <2>2. l = [a \in Authorities |-> l[a]]
      BY DEF NowIncluded
    <2>. HIDE DEF l
    <2>. QED  BY Zenon, <2>1, <2>2
  <1>8. panicked' = panicked
    <2>1. ReachesQuorum(Authors(At(parents, c.round - 1)))
      BY Zenon, <1>6 DEF HasQuorum
    <2>2. panicked \in BOOLEAN
      BY Zenon DEF DagInv, CoreTypes
    <2>. QED  BY Zenon, <1>4, <2>1, <2>2
  <1>. HIDE DEF l
  <1>9. last_included' = [last_included EXCEPT ![v] = l]
    BY Zenon, <1>4 DEF l
  <1>. QED  BY Zenon, <1>2, <1>4, <1>6, <1>7, <1>8, <1>9 DEF Signs, b

\* No block is signed.
Accepts(v, D, c, li, signaled) ==
    /\ NoBlock(v, D, c, li, signaled)
    /\ (stored[v] \subseteq D /\ stored' = stored) \/ stored' = [stored EXCEPT ![v] = D]
    /\ sent' = sent \/ sent' = sent \cup D
    /\ stopped' = stopped \/ stopped' = [stopped EXCEPT ![v] = FALSE]
    /\ panicked' \in BOOLEAN

LEMMA ClosedStays ==
    ASSUME NEW A, NEW D, Closed(A, D), NEW B, DOMAIN A \subseteq DOMAIN B,
           \A x \in DOMAIN A : B[x] = A[x]
    PROVE  Closed(B, D)
  BY Zenon DEF Closed

LEMMA ClosedHasQuorums ==
    ASSUME DagInv, NEW D, Closed(ancestors, D), NEW b \in DOMAIN ancestors,
           ancestors[b] \subseteq D, b.round > 0
    PROVE  HasQuorum(D, b.round - 1)
  <1>1. D \subseteq Refs /\ HasQuorum(ancestors[b], b.round - 1)
    BY Zenon DEF DagInv, CoreTypes, BlocksInv, Closed
  <1>. QED  BY <1>1, HasQuorumGrows

\* A new block keeps everything but its own slot.
LEMMA SignedBlockIsNew ==
    ASSUME LowestExists, DagInv, NEW v \in Up, NEW D, NEW c, NEW li, Prepared(v, D, c, li),
           NEW signaled, NEW parents, NEW l, NEW b, Signs(v, D, c, signaled, parents, l, b),
           faults'.starts \in Nat
    PROVE  /\ b \notin DOMAIN ancestors /\ b \in Refs
           /\ b.author = v /\ b.round = c.round /\ b.life = faults'.starts /\ b.round > 0
           /\ DOMAIN ancestors' = DOMAIN ancestors \cup {b}
           /\ ancestors'[b] = parents
           /\ \A x \in DOMAIN ancestors : ancestors'[x] = ancestors[x]
           /\ HasQuorum(D, b.round - 1)
  <1>0. v \in Authorities
    BY Zenon, ProposerAssumption
  <1>1. D \subseteq Refs /\ Genesis \subseteq D /\ parents \subseteq D
    BY Zenon DEF Prepared, Closed, DagInv, CoreTypes, Signs
  <1>2. b.author = v /\ b.round = c.round /\ b.life = faults'.starts /\ b = Ref(v, c.round, faults'.starts)
    BY Zenon DEF Signs, Ref
  <1>3. c.round \in Nat \ {0} /\ c.round <= MaxRound /\ c.round > last_proposed_round(v, D)
    BY Zenon DEF Prepared, Follows, Clocks, Signs
  <1>4. b \in Refs
    BY <1>0, <1>2, <1>3, ProposerAssumption DEF Ref, Refs
  <1>5. b \notin DOMAIN ancestors
    <2>. SUFFICES ASSUME b \in DOMAIN ancestors  PROVE FALSE
      BY Zenon
    <2>1. b \in D
      BY Zenon, <1>2 DEF Prepared
    <2>2. b.round <= last_proposed_round(v, D) /\ last_proposed_round(v, D) \in Nat
      BY Zenon, <1>0, <1>1, <1>2, <2>1, LastProposed
    <2>. QED  BY <1>2, <1>3, <2>2
  <1>6. ancestors' = [x \in DOMAIN ancestors \cup {b} |-> IF x = b THEN parents ELSE ancestors[x]]
    BY Zenon DEF Signs
  <1>7. HasQuorum(D, b.round - 1)
    BY <1>1, <1>2, HasQuorumGrows DEF Signs
  <1>. QED  BY <1>2, <1>3, <1>4, <1>5, <1>6, <1>7

LEMMA SignsKeepsDagInv ==
    ASSUME LowestExists, DagInv, NEW v \in Up, NEW D, NEW c, NEW li, Prepared(v, D, c, li),
           NEW signaled \in Nat, NEW parents, NEW l, NEW b, Signs(v, D, c, signaled, parents, l, b),
           faults' \in [starts : Nat, others : Nat],
           faults'.starts \in {faults.starts, faults.starts + 1}, TaskTypes'
    PROVE  DagInv'
  <1>. DEFINE E == D \cup {b}
              k == add_block(c, b)
  <1>0. v \in Authorities /\ faults'.starts \in Nat /\ faults.starts \in Nat
        /\ faults.starts <= faults'.starts
    BY ProposerAssumption DEF DagInv, CoreTypes
  <1>1. /\ b \notin DOMAIN ancestors /\ b \in Refs
        /\ b.author = v /\ b.round = c.round /\ b.life = faults'.starts /\ b.round > 0
        /\ DOMAIN ancestors' = DOMAIN ancestors \cup {b}
        /\ ancestors'[b] = parents
        /\ \A x \in DOMAIN ancestors : ancestors'[x] = ancestors[x]
        /\ HasQuorum(D, b.round - 1)
    BY Zenon, <1>0, SignedBlockIsNew
  <1>2. /\ Genesis \subseteq D /\ D \subseteq DOMAIN ancestors /\ D \subseteq Refs
        /\ (\A x \in D : ancestors[x] \subseteq D) /\ Closed(ancestors, D) /\ Follows(c, D)
        /\ \A x \in DOMAIN ancestors : x.author = v /\ x.life = faults'.starts => x \in D
    BY Zenon DEF Prepared, Closed, DagInv, CoreTypes
  <1>3. /\ parents \subseteq D /\ (\A x \in parents : x.round < b.round)
        /\ HasQuorum(parents, b.round - 1)
        /\ l \in [Authorities -> Int] /\ \A a \in Authorities : l[a] < b.round
    BY Zenon, <1>1 DEF Signs
  <1>4. /\ dag' = [dag EXCEPT ![v] = E]
        /\ stored' = [stored EXCEPT ![v] = E]
        /\ clock' = [clock EXCEPT ![v] = k]
        /\ last_included' = [last_included EXCEPT ![v] = l]
        /\ panicked' = panicked
    BY Zenon DEF Signs
  <1>5. Follows(k, E)
    BY Zenon, <1>1, <1>2, AddedBlock
  <1>6. Closed(ancestors', E)
    <2>1. Genesis \subseteq E /\ E \subseteq DOMAIN ancestors'
      BY Zenon, <1>1, <1>2
    <2>2. \A x \in E : ancestors'[x] \subseteq E
      BY Zenon, <1>1, <1>2, <1>3
    <2>. QED  BY Zenon, <2>1, <2>2 DEF Closed
  <1>7. k \in Clocks /\ k.round \in Nat
    BY Zenon, <1>5 DEF Follows, Clocks
  <1>8. last_proposed_round(v, E) >= b.round /\ last_proposed_round(v, E) \in Nat /\ b.round \in Nat
    <2>1. E \subseteq Refs /\ Genesis \subseteq E /\ b \in E
      BY Zenon, <1>1, <1>2
    <2>2. b.round \in Nat
      BY <1>1, ProposerAssumption DEF Refs
    <2>. HIDE DEF E
    <2>. QED  BY Zenon, <1>0, <1>1, <2>1, <2>2, LastProposed
  <1>. HIDE DEF E, k
  <1>9. CoreTypes'
    <2>1. DOMAIN ancestors' \subseteq Refs
      BY Zenon, <1>1 DEF DagInv, CoreTypes
    <2>2. E \subseteq DOMAIN ancestors'
      BY Zenon, <1>6 DEF Closed
    <2>3. dag' \in [Authorities -> SUBSET DOMAIN ancestors']
      BY Zenon, <1>1, <1>4, <2>2 DEF DagInv, CoreTypes
    <2>4. stored' \in [Authorities -> SUBSET DOMAIN ancestors']
      BY Zenon, <1>1, <1>4, <2>2 DEF DagInv, CoreTypes
    <2>5. clock' \in [Authorities -> Clocks]
      BY Zenon, <1>4, <1>7 DEF DagInv, CoreTypes
    <2>6. last_included' \in [Authorities -> [Authorities -> Int]]
      BY Zenon, <1>3, <1>4 DEF DagInv, CoreTypes
    <2>7. stopped' \in [Authorities -> BOOLEAN] /\ sent' \subseteq DOMAIN ancestors'
      <3>1. BroadcastOrStop(v, D, b)
        BY Zenon DEF Signs
      <3>2. /\ stopped' = [stopped EXCEPT ![v] = FALSE] \/ stopped' = [stopped EXCEPT ![v] = TRUE]
            /\ sent' = sent \cup D \cup {b} \/ sent' = sent
        BY Zenon, <3>1 DEF BroadcastOrStop
      <3>. QED  BY Zenon, <1>1, <1>2, <3>2 DEF DagInv, CoreTypes
    <2>8. last_signaled' \in [Authorities -> Nat]
      <3>1. try_signal_new_round(v, k, signaled)
        BY Zenon DEF Signs, k
      <3>. QED  BY Zenon, <1>7, <3>1 DEF try_signal_new_round, DagInv, CoreTypes
    <2>9. panicked' \in BOOLEAN
      BY Zenon, <1>4 DEF DagInv, CoreTypes
    <2>. QED  BY Zenon, <2>1, <2>3, <2>4, <2>5, <2>6, <2>7, <2>8, <2>9 DEF CoreTypes
  <1>10. BlocksInv'
    <2>. SUFFICES ASSUME NEW x \in DOMAIN ancestors'
                  PROVE  /\ ancestors'[x] \subseteq DOMAIN ancestors'
                         /\ \A y \in ancestors'[x] : y.round < x.round
                         /\ x.round > 0 => HasQuorum(ancestors'[x], x.round - 1)
                         /\ x.round = 0 => x \in Genesis
                         /\ x.life <= faults'.starts
                         /\ x \notin stored'[x.author] => x.life < faults'.starts
      BY Zenon DEF BlocksInv, HasQuorum
    <2>1. CASE x = b
      <3>1. stored'[v] = E /\ b \in E
        BY Zenon, <1>0, <1>4 DEF DagInv, CoreTypes, E
      <3>. QED  BY <1>0, <1>1, <1>2, <1>3, <2>1, <3>1
    <2>2. CASE x # b
      <3>1. /\ x \in DOMAIN ancestors /\ ancestors'[x] = ancestors[x]
            /\ x.author \in Authorities /\ x.life \in Nat
        BY Zenon, <1>1, <2>2 DEF DagInv, CoreTypes, Refs
      <3>2. /\ ancestors[x] \subseteq DOMAIN ancestors
            /\ (\A y \in ancestors[x] : y.round < x.round)
            /\ x.round > 0 => HasQuorum(ancestors[x], x.round - 1)
            /\ x.round = 0 => x \in Genesis
            /\ x.life <= faults.starts
            /\ x \notin stored[x.author] => x.life < faults.starts
        BY Zenon, <3>1 DEF DagInv, BlocksInv
      <3>3. x \notin stored'[x.author] => x.life < faults'.starts
        <4>1. CASE x.author = v
          <5>1. stored'[v] = E /\ D \subseteq E
            BY Zenon, <1>0, <1>4 DEF DagInv, CoreTypes, E
          <5>2. x.life = faults'.starts => x \in D
            BY Zenon, <1>2, <3>1, <4>1
          <5>. QED  BY <1>0, <3>1, <3>2, <4>1, <5>1, <5>2
        <4>2. CASE x.author # v
          <5>1. stored'[x.author] = stored[x.author]
            BY Zenon, <1>4, <3>1, <4>2 DEF DagInv, CoreTypes
          <5>. QED  BY SMTT(30), <1>0, <3>1, <3>2, <5>1
        <4>. QED  BY Zenon, <4>1, <4>2
      <3>. QED  BY SMTT(30), <1>0, <1>1, <3>1, <3>2, <3>3
    <2>. QED  BY Zenon, <2>1, <2>2
  <1>11. ASSUME NEW w \in Authorities  PROVE ValidatorInv(w)'
    <2>1. CASE w = v
      <3>1. dag'[v] = E /\ stored'[v] = E /\ clock'[v] = k /\ last_included'[v] = l
        BY Zenon, <1>0, <1>4 DEF DagInv, CoreTypes
      <3>2. \A a \in Authorities : last_included'[v][a] < last_proposed_round(v, dag'[v])
        BY <1>3, <1>8, <3>1
      <3>. QED  BY Zenon, <1>5, <1>6, <2>1, <3>1, <3>2 DEF ValidatorInv, Follows, HasQuorum
    <2>2. CASE w # v
      <3>1. /\ dag'[w] = dag[w] /\ stored'[w] = stored[w] /\ clock'[w] = clock[w]
            /\ last_included'[w] = last_included[w]
        BY Zenon, <1>4, <2>2 DEF DagInv, CoreTypes
      <3>2. ValidatorInv(w)
        BY Zenon DEF DagInv
      <3>3. Closed(ancestors', dag[w]) /\ Closed(ancestors', stored[w])
        BY ZenonT(30), <1>1, <3>2, ClosedStays DEF ValidatorInv
      <3>. QED  BY Zenon, <3>1, <3>2, <3>3 DEF ValidatorInv, Follows, HasQuorum
    <2>. QED  BY Zenon, <2>1, <2>2
  <1>. QED  BY Zenon, <1>9, <1>10, <1>11 DEF DagInv

LEMMA AcceptsKeepsDagInv ==
    ASSUME DagInv, NEW v \in Up, NEW D, NEW c, NEW li, Prepared(v, D, c, li),
           NEW signaled \in Nat, Accepts(v, D, c, li, signaled),
           faults' \in [starts : Nat, others : Nat],
           faults'.starts \in {faults.starts, faults.starts + 1}, TaskTypes'
    PROVE  DagInv'
  <1>0. v \in Authorities /\ faults'.starts \in Nat /\ faults.starts \in Nat
        /\ faults.starts <= faults'.starts
    BY SMTT(30), ProposerAssumption DEF DagInv, CoreTypes
  <1>1. /\ Closed(ancestors, D) /\ Follows(c, D) /\ D \subseteq DOMAIN ancestors
        /\ li \in [Authorities -> Int]
        /\ (\A a \in Authorities : li[a] < last_proposed_round(v, D))
        /\ \A x \in DOMAIN ancestors : x.author = v /\ x.life = faults'.starts => x \in D
        /\ c \in Clocks /\ c.round \in Nat
    BY Zenon DEF Prepared, Closed, Follows, Clocks
  <1>2. /\ dag' = [dag EXCEPT ![v] = D]
        /\ clock' = [clock EXCEPT ![v] = c]
        /\ last_included' = [last_included EXCEPT ![v] = li]
        /\ try_signal_new_round(v, c, signaled)
        /\ ancestors' = ancestors
        /\ (stored[v] \subseteq D /\ stored' = stored) \/ stored' = [stored EXCEPT ![v] = D]
        /\ sent' = sent \/ sent' = sent \cup D
        /\ stopped' = stopped \/ stopped' = [stopped EXCEPT ![v] = FALSE]
        /\ panicked' \in BOOLEAN
    BY Zenon DEF Accepts, NoBlock
  <1>3. CoreTypes'
    <2>1. dag' \in [Authorities -> SUBSET DOMAIN ancestors] /\ sent' \subseteq DOMAIN ancestors
      BY Zenon, <1>1, <1>2 DEF DagInv, CoreTypes
    <2>2. stored' \in [Authorities -> SUBSET DOMAIN ancestors]
      BY SMTT(30), <1>1, <1>2 DEF DagInv, CoreTypes
    <2>3. clock' \in [Authorities -> Clocks] /\ stopped' \in [Authorities -> BOOLEAN]
      BY Zenon, <1>1, <1>2 DEF DagInv, CoreTypes
    <2>4. last_included' \in [Authorities -> [Authorities -> Int]]
      BY Zenon, <1>1, <1>2 DEF DagInv, CoreTypes
    <2>5. last_signaled' \in [Authorities -> Nat]
      BY Zenon, <1>1, <1>2 DEF try_signal_new_round, DagInv, CoreTypes
    <2>6. DOMAIN ancestors' \subseteq Refs
      BY Zenon, <1>2 DEF DagInv, CoreTypes
    <2>. QED  BY Zenon, <1>2, <2>1, <2>2, <2>3, <2>4, <2>5, <2>6 DEF CoreTypes
  <1>4. \A x \in DOMAIN ancestors : x \notin stored'[x.author] => x.life < faults'.starts
    <2>. SUFFICES ASSUME NEW x \in DOMAIN ancestors, x \notin stored'[x.author]
                  PROVE  x.life < faults'.starts
      BY Zenon
    <2>1. /\ x.author \in Authorities /\ x.life \in Nat /\ x.life <= faults.starts
          /\ x \notin stored[x.author] => x.life < faults.starts
      BY Zenon DEF DagInv, CoreTypes, BlocksInv, Refs
    <2>2. CASE x.author = v /\ stored' = [stored EXCEPT ![v] = D]
      <3>1. stored'[v] = D
        BY Zenon, <1>0, <2>2 DEF DagInv, CoreTypes
      <3>2. x.life # faults'.starts
        BY Zenon, <1>1, <2>2, <3>1
      <3>. QED  BY <1>0, <2>1, <3>2
    <2>3. CASE x.author # v \/ stored' = stored
      <3>1. stored'[x.author] = stored[x.author]
        BY Zenon, <1>2, <2>1, <2>3 DEF DagInv, CoreTypes
      <3>. QED  BY SMTT(30), <1>0, <2>1, <3>1
    <2>. QED  BY Zenon, <1>2, <2>2, <2>3
  <1>5. BlocksInv'
    <2>1. \A x \in DOMAIN ancestors :
              /\ ancestors[x] \subseteq DOMAIN ancestors
              /\ \A y \in ancestors[x] : y.round < x.round
              /\ x.round > 0 => HasQuorum(ancestors[x], x.round - 1)
              /\ x.round = 0 => x \in Genesis
              /\ x.life <= faults.starts /\ x.life \in Nat
      BY Zenon DEF DagInv, CoreTypes, BlocksInv, Refs
    <2>2. \A x \in DOMAIN ancestors : x.life <= faults'.starts
      BY SMTT(30), <1>0, <2>1
    <2>. QED  BY Zenon, <1>2, <1>4, <2>1, <2>2 DEF BlocksInv, HasQuorum
  <1>6. ASSUME NEW w \in Authorities  PROVE ValidatorInv(w)'
    <2>0. ValidatorInv(w)
      BY Zenon DEF DagInv
    <2>1. CASE w = v
      <3>1. dag'[v] = D /\ clock'[v] = c /\ last_included'[v] = li
        BY Zenon, <1>0, <1>2 DEF DagInv, CoreTypes
      <3>2. stored'[v] \subseteq D /\ Closed(ancestors, stored'[v])
        <4>1. (stored'[v] = stored[v] /\ stored[v] \subseteq D) \/ stored'[v] = D
          BY Zenon, <1>0, <1>2 DEF DagInv, CoreTypes
        <4>. QED  BY Zenon, <1>1, <2>0, <2>1, <4>1 DEF ValidatorInv
      <3>. QED  BY Zenon, <1>1, <1>2, <2>1, <3>1, <3>2 DEF ValidatorInv, Follows, HasQuorum
    <2>2. CASE w # v
      <3>1. /\ dag'[w] = dag[w] /\ stored'[w] = stored[w] /\ clock'[w] = clock[w]
            /\ last_included'[w] = last_included[w]
        BY Zenon, <1>2, <2>2 DEF DagInv, CoreTypes
      <3>. QED  BY ZenonT(30), <1>2, <2>0, <3>1 DEF ValidatorInv, Follows, HasQuorum
    <2>. QED  BY Zenon, <2>1, <2>2
  <1>. QED  BY Zenon, <1>3, <1>5, <1>6 DEF DagInv

-----------------------------------------------------------------------------
(* The steps of a validator.                                                *)

\* The blocks D and the clock c of v, perhaps with one block more.
Grown(v, D, c) ==
    \/ D = dag[v] /\ c = clock[v]
    \/ \E b \in sent \ dag[v] : /\ ancestors[b] \subseteq dag[v]
                                /\ D = dag[v] \cup {b} /\ c = add_block(clock[v], b)

Live(v, D, c, force) ==
    /\ Grown(v, D, c) /\ ~stopped[v]
    /\ faults' = faults /\ forgotten' = forgotten
    /\ TryPropose(v, D, c, known'[v], delayed'[v], force)

Idle ==
    /\ UNCHANGED <<dag, stored, clock, last_included, stopped, last_signaled, ancestors, sent, forgotten>>
    /\ faults'.starts = faults.starts
    /\ panicked' \in BOOLEAN
    /\ \/ panicked' = panicked
       \/ \E v \in Up : \E b \in sent \ dag[v], x \in dag[v] :
              b.author = v /\ x.author = v /\ x.round = b.round

LEMMA GrownPrepared ==
    ASSUME LowestExists, DagInv, NEW v \in Up, NEW D, NEW c, Grown(v, D, c), faults' = faults
    PROVE  /\ Prepared(v, D, c, last_included[v])
           /\ dag[v] \subseteq D /\ stored[v] \subseteq D
  <1>0. v \in Authorities /\ ValidatorInv(v) /\ dag[v] \subseteq Refs /\ dag[v] \subseteq DOMAIN ancestors
    BY Zenon, ProposerAssumption DEF DagInv, CoreTypes
  <1>1. dag[v] \subseteq D /\ stored[v] \subseteq D
    BY Zenon, <1>0 DEF Grown, ValidatorInv
  <1>2. Closed(ancestors, D) /\ Follows(c, D)
    <2>1. CASE D = dag[v] /\ c = clock[v]
      BY Zenon, <1>0, <2>1 DEF ValidatorInv
    <2>2. ASSUME NEW b \in sent \ dag[v], ancestors[b] \subseteq dag[v],
                 D = dag[v] \cup {b}, c = add_block(clock[v], b)
          PROVE  Closed(ancestors, D) /\ Follows(c, D)
      <3>1. b \in DOMAIN ancestors /\ b \in Refs
        BY Zenon DEF DagInv, CoreTypes
      <3>2. Closed(ancestors, D)
        BY Zenon, <1>0, <2>2, <3>1 DEF ValidatorInv, Closed
      <3>3. Closed(ancestors, dag[v]) /\ Follows(clock[v], dag[v])
        BY Zenon, <1>0 DEF ValidatorInv
      <3>4. b.round > 0 => HasQuorum(dag[v], b.round - 1)
        BY ZenonT(30), <2>2, <3>1, <3>3, ClosedHasQuorums
      <3>5. Follows(add_block(clock[v], b), dag[v] \cup {b})
        BY ZenonT(30), <1>0, <3>1, <3>3, <3>4, AddedBlock
      <3>. QED  BY Zenon, <2>2, <3>2, <3>5
    <2>. QED  BY Zenon, <2>1, <2>2 DEF Grown
  <1>3. \A b \in DOMAIN ancestors : b.author = v /\ b.life = faults'.starts => b \in D
    <2>. SUFFICES ASSUME NEW b \in DOMAIN ancestors, b.author = v, b.life = faults'.starts, b \notin stored[v]
                  PROVE  FALSE
      BY Zenon, <1>1
    <2>1. b.life < faults.starts /\ b.life = faults.starts /\ faults.starts \in Nat
      BY Zenon DEF DagInv, BlocksInv, CoreTypes
    <2>. QED  BY <2>1
  <1>4. last_included[v] \in [Authorities -> Int]
    BY Zenon, <1>0 DEF DagInv, CoreTypes
  <1>5. \A a \in Authorities : last_included[v][a] < last_proposed_round(v, D)
    <2>1. D \subseteq Refs /\ Genesis \subseteq dag[v]
      BY Zenon, <1>0, <1>2 DEF Closed, ValidatorInv, DagInv, CoreTypes
    <2>2. /\ last_proposed_round(v, dag[v]) <= last_proposed_round(v, D)
          /\ last_proposed_round(v, dag[v]) \in Nat /\ last_proposed_round(v, D) \in Nat
      BY Zenon, <1>0, <1>1, <2>1, LastProposedGrows
    <2>3. \A a \in Authorities : last_included[v][a] < last_proposed_round(v, dag[v])
      BY Zenon, <1>0 DEF ValidatorInv
    <2>. QED  BY SMTT(30), <1>4, <2>2, <2>3
  <1>. QED  BY ZenonT(30), <1>1, <1>2, <1>3, <1>4, <1>5 DEF Prepared

LEMMA StartPrepared ==
    ASSUME LowestExists, DagInv, ClockRecovers, NEW v \in Up, NEW D, Closed(ancestors, D),
           faults'.starts = faults.starts + 1
    PROVE  Prepared(v, D, RecoveredClock(D), NothingIncluded)
  <1>0. v \in Authorities /\ D \subseteq Refs /\ Genesis \subseteq D /\ D \subseteq DOMAIN ancestors
    BY Zenon, ProposerAssumption DEF DagInv, CoreTypes, Closed
  <1>1. faults.starts \in Nat /\ \A b \in DOMAIN ancestors : b.life <= faults.starts /\ b.life \in Nat
    BY Zenon DEF DagInv, CoreTypes, BlocksInv, Refs
  <1>2. \A b \in D : b.round > 0 => HasQuorum(D, b.round - 1)
    BY Zenon, <1>0, ClosedHasQuorums DEF Closed
  <1>3. Follows(RecoveredClock(D), D)
    BY Zenon, <1>0, <1>1, <1>2 DEF ClockRecovers
  <1>4. \A b \in DOMAIN ancestors : b.life # faults'.starts
    BY <1>1
  <1>5. last_proposed_round(v, D) \in Nat
    BY Zenon, <1>0, LastProposed
  <1>6. /\ NothingIncluded \in [Authorities -> Int]
        /\ \A a \in Authorities : NothingIncluded[a] < last_proposed_round(v, D)
    BY <1>5 DEF NothingIncluded
  <1>. QED  BY Zenon, <1>3, <1>4, <1>6 DEF Prepared

LEMMA TasksKept ==
    ASSUME LowestExists, DagInv, NEW v \in Up, Run(v) \/ DelayTooHigh(v)
    PROVE  /\ TaskTypes'
           /\ faults' \in [starts : Nat, others : Nat] /\ faults'.starts = faults.starts
           /\ forgotten' = forgotten
  <1>. USE DEF TaskTypes
  <1>0. v \in Authorities /\ TaskTypes /\ faults \in [starts : Nat, others : Nat]
        /\ last_signaled[v] \in Nat
    BY Zenon, ProposerAssumption DEF DagInv, CoreTypes
  <1>1. CASE AddBlock(v)
    BY Zenon, <1>0, <1>1 DEF AddBlock
  <1>2. CASE NewRound(v)
    BY Zenon, <1>0, <1>2 DEF NewRound
  <1>3. CASE MinTimeout(v)
    BY SMTT(30), <1>0, <1>3 DEF MinTimeout
  <1>4. CASE MaxTimeout(v)
    BY <1>0, <1>4 DEF MaxTimeout
  <1>5. CASE DelayAcceptable(v)
    BY Zenon, <1>0, <1>5 DEF DelayAcceptable
  <1>6. CASE FetchOwnLastBlock(v)
    <2>1. PICK p \in Up \ ({v} \cup sync[v].replied) :
            /\ sync' = [sync EXCEPT ![v] =
                                    [on |-> TRUE, replied |-> sync[v].replied \cup {p},
                                     highest |-> IF last_proposed_round(v, dag[p]) > sync[v].highest
                                                 THEN last_proposed_round(v, dag[p]) ELSE sync[v].highest]]
            /\ UNCHANGED <<core, known, timer, delayed, faults, forgotten>>
      BY Zenon, <1>6 DEF FetchOwnLastBlock
    <2>2. p \in Authorities /\ last_proposed_round(v, dag[p]) \in Nat
      <3>1. p \in Authorities
        BY Zenon, ProposerAssumption
      <3>2. dag[p] \subseteq Refs /\ Genesis \subseteq dag[p]
        BY Zenon, <3>1 DEF DagInv, CoreTypes, ValidatorInv, Closed
      <3>. QED  BY ZenonT(30), <1>0, <3>1, <3>2, LastProposed
    <2>3. sync' \in [Authorities -> [on : BOOLEAN, replied : SUBSET Authorities, highest : Nat]]
      BY <1>0, <2>1, <2>2
    <2>. QED  BY Zenon, <1>0, <2>1, <2>3
  <1>7. CASE EndFetchOwnLastBlock(v)
    <2>0. timer' = timer /\ delayed' = delayed /\ forgotten' = forgotten
      BY Zenon, <1>7 DEF EndFetchOwnLastBlock
    <2>n. /\ NotSyncing \in [on : BOOLEAN, replied : SUBSET Authorities, highest : Nat]
          /\ Syncing \in [on : BOOLEAN, replied : SUBSET Authorities, highest : Nat]
      BY Zenon DEF NotSyncing, Syncing
    <2>1. CASE EnoughReplies(sync[v].replied)
      <3>1. /\ sync' = [sync EXCEPT ![v] = NotSyncing]
            /\ known' = [known EXCEPT ![v] = sync[v].highest]
            /\ faults' = faults
        BY Zenon, <1>7, <2>1 DEF EndFetchOwnLastBlock
      <3>2. sync[v].highest \in Nat
        BY Zenon, <1>0
      <3>. QED  BY Zenon, <1>0, <2>0, <2>n, <3>1, <3>2
    <2>2. CASE ~EnoughReplies(sync[v].replied)
      <3>1. /\ sync' = [sync EXCEPT ![v] = Syncing] /\ known' = known
            /\ faults' = [faults EXCEPT !.others = @ + 1]
        BY Zenon, <1>7, <2>2 DEF EndFetchOwnLastBlock
      <3>2. faults' \in [starts : Nat, others : Nat] /\ faults'.starts = faults.starts
        BY <1>0, <3>1
      <3>. QED  BY ZenonT(30), <1>0, <2>0, <2>n, <3>1, <3>2
    <2>. QED  BY Zenon, <2>1, <2>2
  <1>8. CASE DelayTooHigh(v)
    BY <1>0, <1>8 DEF DelayTooHigh
  <1>. QED  BY ZenonT(30), <1>1, <1>2, <1>3, <1>4, <1>5, <1>6, <1>7, <1>8 DEF Run

\* Apart from starts, Core tries to propose on the blocks that it has and one more
\* at most, or does nothing.
LEMMA RunKinds ==
    ASSUME LowestExists, DagInv, NEW v \in Up, Run(v) \/ DelayTooHigh(v)
    PROVE  Idle \/ \E D, c, force : Live(v, D, c, force)
  <1>0. v \in Authorities /\ known \in [Authorities -> Nat \cup {None}]
        /\ delayed \in [Authorities -> BOOLEAN] /\ sync[v].highest \in Nat
        /\ panicked \in BOOLEAN
    BY Zenon, ProposerAssumption DEF DagInv, TaskTypes, CoreTypes
  <1>c. (UNCHANGED core /\ forgotten' = forgotten /\ faults'.starts = faults.starts) => Idle
    BY Zenon, <1>0 DEF core, Idle
  <1>g. Grown(v, dag[v], clock[v])
    BY Zenon DEF Grown
  <1>1. CASE AddBlock(v)
    <2>1. PICK b \in sent \ dag[v] :
            /\ ~stopped[v] /\ ancestors[b] \subseteq dag[v]
            /\ UNCHANGED <<known, timer, sync, delayed, faults, forgotten>>
            /\ \/ /\ panicked' = TRUE
                  /\ b.author = v /\ \E x \in dag[v] : x.author = v /\ x.round = b.round
                  /\ UNCHANGED <<dag, stored, clock, last_included, stopped, last_signaled, ancestors, sent>>
               \/ TryPropose(v, dag[v] \cup {b}, add_block(clock[v], b), known[v], delayed[v], FALSE)
      BY Zenon, <1>1 DEF AddBlock
    <2>2. CASE /\ panicked' = TRUE
               /\ b.author = v /\ \E x \in dag[v] : x.author = v /\ x.round = b.round
               /\ UNCHANGED <<dag, stored, clock, last_included, stopped, last_signaled, ancestors, sent>>
      BY Zenon, <2>1, <2>2 DEF Idle
    <2>3. CASE TryPropose(v, dag[v] \cup {b}, add_block(clock[v], b), known[v], delayed[v], FALSE)
      <3>1. Grown(v, dag[v] \cup {b}, add_block(clock[v], b))
        BY Zenon, <2>1 DEF Grown
      <3>2. known' = known /\ delayed' = delayed /\ faults' = faults /\ forgotten' = forgotten
        BY Zenon, <2>1
      <3>3. Live(v, dag[v] \cup {b}, add_block(clock[v], b), FALSE)
        BY Zenon, <2>1, <2>3, <3>1, <3>2 DEF Live
      <3>. QED  BY Zenon, <3>3
    <2>. QED  BY Zenon, <2>1, <2>2, <2>3
  <1>2. CASE NewRound(v)
    BY Zenon, <1>2, <1>c DEF NewRound
  <1>3. ASSUME NEW force, NEW r, NewBlockCommand(v, r, force), ~stopped[v],
               UNCHANGED <<known, sync, delayed, faults, forgotten>>
        PROVE  Idle \/ \E D, c, f : Live(v, D, c, f)
    <2>1. CASE UNCHANGED core
      BY ZenonT(30), <1>3, <1>c, <2>1
    <2>2. CASE TryPropose(v, dag[v], clock[v], known[v], delayed[v], force)
      <3>1. Live(v, dag[v], clock[v], force)
        BY Zenon, <1>3, <1>g, <2>2 DEF Live
      <3>. QED  BY Zenon, <3>1
    <2>. QED  BY Zenon, <1>3, <2>1, <2>2 DEF NewBlockCommand
  <1>4. CASE MinTimeout(v)
    BY Zenon, <1>3, <1>4 DEF MinTimeout
  <1>5. CASE MaxTimeout(v)
    BY Zenon, <1>3, <1>5 DEF MaxTimeout
  <1>6. CASE DelayAcceptable(v)
    <2>1. /\ ~stopped[v] /\ UNCHANGED <<known, faults, forgotten>> /\ delayed'[v] = FALSE
          /\ TryPropose(v, dag[v], clock[v], known[v], FALSE, TRUE)
      BY Zenon, <1>0, <1>6 DEF DelayAcceptable
    <2>2. Live(v, dag[v], clock[v], TRUE)
      BY Zenon, <1>g, <2>1 DEF Live
    <2>. QED  BY Zenon, <2>2
  <1>7. CASE FetchOwnLastBlock(v)
    BY Zenon, <1>7, <1>c DEF FetchOwnLastBlock
  <1>8. CASE EndFetchOwnLastBlock(v)
    <2>1. CASE EnoughReplies(sync[v].replied)
      <3>1. /\ ~stopped[v] /\ UNCHANGED <<faults, delayed, forgotten>> /\ known'[v] = sync[v].highest
            /\ TryPropose(v, dag[v], clock[v], sync[v].highest, delayed[v], TRUE)
        BY Zenon, <1>0, <1>8, <2>1 DEF EndFetchOwnLastBlock
      <3>2. Live(v, dag[v], clock[v], TRUE)
        BY Zenon, <1>g, <3>1 DEF Live
      <3>. QED  BY Zenon, <3>2
    <2>2. CASE ~EnoughReplies(sync[v].replied)
      <3>1. UNCHANGED core /\ forgotten' = forgotten
        BY Zenon, <1>8, <2>2 DEF EndFetchOwnLastBlock
      <3>2. faults'.starts = faults.starts
        BY ZenonT(30), <1>8, TasksKept DEF Run
      <3>. QED  BY ZenonT(30), <1>c, <3>1, <3>2
    <2>. QED  BY ZenonT(30), <2>1, <2>2
  <1>9. CASE DelayTooHigh(v)
    <2>1. UNCHANGED core /\ forgotten' = forgotten
      BY Zenon, <1>9 DEF DelayTooHigh
    <2>2. faults'.starts = faults.starts
      BY Zenon, <1>9, TasksKept
    <2>. QED  BY Zenon, <1>c, <2>1, <2>2
  <1>. QED  BY ZenonT(30), <1>1, <1>2, <1>4, <1>5, <1>6, <1>7, <1>8, <1>9 DEF Run

LEMMA LiveKinds ==
    ASSUME LowestExists, DagInv, NEW v \in Up, NEW D, NEW c, NEW force, Live(v, D, c, force)
    PROVE  /\ Prepared(v, D, c, last_included[v])
           /\ dag[v] \subseteq D /\ stored[v] \subseteq D
           /\ \/ \E parents, l, b : Signs(v, D, c, last_signaled[v], parents, l, b)
              \/ /\ Accepts(v, D, c, last_included[v], last_signaled[v])
                 /\ UNCHANGED <<stored, stopped, sent, panicked>>
                 /\ ~force \/ ~MayPropose(v, D, c, known'[v], delayed'[v])
  <1>1. /\ Prepared(v, D, c, last_included[v])
        /\ dag[v] \subseteq D /\ stored[v] \subseteq D
    BY Zenon, GrownPrepared DEF Live
  <1>2. CASE /\ MayPropose(v, D, c, known'[v], delayed'[v])
             /\ NewBlock(v, D, c, last_included[v], force, last_signaled[v])
    BY Zenon, <1>1, <1>2, NewBlockSigns
  <1>3. CASE /\ ~force \/ ~MayPropose(v, D, c, known'[v], delayed'[v])
             /\ NoBlock(v, D, c, last_included[v], last_signaled[v])
             /\ UNCHANGED <<stored, stopped, sent, panicked>>
    <2>1. panicked \in BOOLEAN
      BY Zenon DEF DagInv, CoreTypes
    <2>. QED  BY Zenon, <1>1, <1>3, <2>1 DEF Accepts
  <1>. QED  BY Zenon, <1>1, <1>2, <1>3 DEF Live, TryPropose

LEMMA StartTasks ==
    ASSUME LowestExists, DagInv, NEW v \in Up, NEW D, Closed(ancestors, D), Start(v, D)
    PROVE  /\ TaskTypes'
           /\ known'[v] = IF v \in SyncOwnBlock THEN None ELSE 0
           /\ sync'[v].replied = {} /\ sync'[v].highest = 0
           /\ (sync'[v].on <=> v \in SyncOwnBlock)
           /\ delayed'[v] = FALSE
           /\ timer'[v] = [round |-> last_proposed_round(v, D), fired |-> "none"]
           /\ \A w \in Authorities \ {v} : /\ known'[w] = known[w] /\ sync'[w] = sync[w]
                                           /\ timer'[w] = timer[w] /\ delayed'[w] = delayed[w]
  <1>0. v \in Authorities /\ TaskTypes
    BY Zenon, ProposerAssumption DEF DagInv
  <1>1. last_proposed_round(v, D) \in Nat
    <2>1. D \subseteq Refs /\ Genesis \subseteq D
      BY Zenon DEF DagInv, CoreTypes, Closed
    <2>. QED  BY Zenon, <1>0, <2>1, LastProposed
  <1>2. /\ known' = [known EXCEPT ![v] = IF v \in SyncOwnBlock THEN None ELSE 0]
        /\ sync' = [sync EXCEPT ![v] = IF v \in SyncOwnBlock THEN Syncing ELSE NotSyncing]
        /\ timer' = [timer EXCEPT ![v] = [round |-> last_proposed_round(v, D), fired |-> "none"]]
        /\ delayed' = [delayed EXCEPT ![v] = FALSE]
    BY Zenon DEF Start, last_proposed_round
  <1>3. known' \in [Authorities -> Nat \cup {None}] /\ delayed' \in [Authorities -> BOOLEAN]
    BY ZenonT(30), <1>0, <1>2 DEF TaskTypes
  <1>4. sync' \in [Authorities -> [on : BOOLEAN, replied : SUBSET Authorities, highest : Nat]]
    BY ZenonT(30), <1>0, <1>2 DEF TaskTypes, Syncing, NotSyncing
  <1>5. timer' \in [Authorities -> [round : Nat, fired : {"none", "min", "max"}]]
    BY ZenonT(30), <1>0, <1>1, <1>2 DEF TaskTypes
  <1>6. sync'[v].replied = {} /\ sync'[v].highest = 0 /\ (sync'[v].on <=> v \in SyncOwnBlock)
    <2>1. CASE v \in SyncOwnBlock
      <3>1. sync'[v] = Syncing
        BY ZenonT(30), <1>0, <1>2, <2>1 DEF TaskTypes
      <3>2. sync'[v].replied = {} /\ sync'[v].highest = 0 /\ sync'[v].on
        BY <3>1 DEF Syncing
      <3>. QED  BY Zenon, <2>1, <3>2
    <2>2. CASE v \notin SyncOwnBlock
      <3>1. sync'[v] = NotSyncing
        BY SMTT(30), <1>0, <1>2, <2>2 DEF TaskTypes
      <3>2. sync'[v].replied = {} /\ sync'[v].highest = 0 /\ ~sync'[v].on
        BY <3>1 DEF NotSyncing
      <3>. QED  BY Zenon, <2>2, <3>2
    <2>. QED  BY Zenon, <2>1, <2>2
  <1>. QED  BY SMTT(30), <1>0, <1>2, <1>3, <1>4, <1>5, <1>6 DEF TaskTypes

LEMMA StartKinds ==
    ASSUME LowestExists, DagInv, ClockRecovers, NEW v \in Up, NEW D, Closed(ancestors, D), Start(v, D),
           faults'.starts = faults.starts + 1
    PROVE  LET c == RecoveredClock(D)
               last == last_proposed_round(v, D)
           IN  /\ Prepared(v, D, c, NothingIncluded) /\ last \in Nat
               /\ \/ \E parents, l, b : Signs(v, D, c, last, parents, l, b)
                  \/ /\ Accepts(v, D, c, NothingIncluded, last)
                     /\ ~MayPropose(v, D, c, known'[v], delayed'[v])
                     /\ stored' = [stored EXCEPT ![v] = D]
                     /\ sent' = sent \cup D
                     /\ stopped' = [stopped EXCEPT ![v] = FALSE]
                     /\ panicked' = (panicked \/ (should_propose(c.round, known'[v], FALSE) /\ last = 0))
  <1>. DEFINE c == RecoveredClock(D)
              last == last_proposed_round(v, D)
  <1>0. v \in Authorities
    BY Zenon, ProposerAssumption
  <1>1. Prepared(v, D, c, NothingIncluded)
    BY Zenon, StartPrepared
  <1>2. last \in Nat
    <2>1. D \subseteq Refs /\ Genesis \subseteq D
      BY Zenon DEF DagInv, CoreTypes, Closed
    <2>. QED  BY Zenon, <1>0, <2>1, LastProposed
  <1>3. known'[v] = (IF v \in SyncOwnBlock THEN None ELSE 0) /\ delayed'[v] = FALSE
    BY Zenon, StartTasks
  <1>4. \/ /\ MayPropose(v, D, c, known'[v], delayed'[v])
           /\ NewBlock(v, D, c, NothingIncluded, TRUE, last)
        \/ /\ ~MayPropose(v, D, c, known'[v], delayed'[v])
           /\ NoBlock(v, D, c, NothingIncluded, last)
           /\ stored' = [stored EXCEPT ![v] = D]
           /\ sent' = sent \cup D
           /\ stopped' = [stopped EXCEPT ![v] = FALSE]
           /\ panicked' = (panicked \/ (should_propose(c.round, known'[v], FALSE) /\ last = 0))
    BY Zenon, <1>3 DEF Start, last_proposed_round
  <1>. HIDE DEF c, last
  <1>5. CASE /\ MayPropose(v, D, c, known'[v], delayed'[v])
             /\ NewBlock(v, D, c, NothingIncluded, TRUE, last)
    <2>1. \E parents, l, b : Signs(v, D, c, last, parents, l, b)
      BY Zenon, <1>1, <1>5, NewBlockSigns
    <2>. QED  BY Zenon, <1>1, <1>2, <2>1 DEF c, last
  <1>6. CASE /\ ~MayPropose(v, D, c, known'[v], delayed'[v])
             /\ NoBlock(v, D, c, NothingIncluded, last)
             /\ stored' = [stored EXCEPT ![v] = D]
             /\ sent' = sent \cup D
             /\ stopped' = [stopped EXCEPT ![v] = FALSE]
             /\ panicked' = (panicked \/ (should_propose(c.round, known'[v], FALSE) /\ last = 0))
    <2>1. panicked' \in BOOLEAN
      BY Zenon, <1>6
    <2>2. Accepts(v, D, c, NothingIncluded, last)
      BY Zenon, <1>6, <2>1 DEF Accepts
    <2>. QED  BY Zenon, <1>1, <1>2, <1>6, <2>2 DEF c, last
  <1>. QED  BY Zenon, <1>4, <1>5, <1>6

\* The blocks that a validator starts with.
LEMMA RestartsFrom ==
    ASSUME DagInv, NEW v \in Up, Restart(v) \/ Wipe(v)
    PROVE  /\ faults' \in [starts : Nat, others : Nat] /\ faults'.starts = faults.starts + 1
           /\ \E D : /\ Closed(ancestors, D) /\ Start(v, D) /\ D \subseteq dag[v]
                     /\ \/ Restart(v) /\ stored[v] \subseteq D /\ forgotten' = forgotten
                        \/ Wipe(v) /\ D = Genesis
  <1>0. v \in Authorities /\ ValidatorInv(v) /\ faults \in [starts : Nat, others : Nat]
    BY Zenon, ProposerAssumption DEF DagInv, CoreTypes
  <1>1. faults' = [faults EXCEPT !.starts = @ + 1]
    BY Zenon DEF Restart, Wipe
  <1>2. faults' \in [starts : Nat, others : Nat] /\ faults'.starts = faults.starts + 1
    BY <1>0, <1>1
  <1>3. CASE Restart(v)
    <2>1. PICK flushed \in SUBSET (dag[v] \ stored[v]) :
            /\ \A b \in flushed : ancestors[b] \subseteq stored[v] \cup flushed
            /\ Start(v, stored[v] \cup flushed)
      BY Zenon, <1>3 DEF Restart
    <2>2. Closed(ancestors, stored[v] \cup flushed) /\ stored[v] \cup flushed \subseteq dag[v]
      BY Zenon, <1>0, <2>1 DEF Closed, ValidatorInv
    <2>3. forgotten' = forgotten
      BY <1>3 DEF Restart
    <2>4. stored[v] \subseteq stored[v] \cup flushed
      BY Zenon
    <2>. QED  BY Zenon, <1>2, <1>3, <2>1, <2>2, <2>3, <2>4
  <1>4. CASE Wipe(v)
    <2>1. Genesis \subseteq dag[v] /\ dag[v] \subseteq DOMAIN ancestors
      BY Zenon, <1>0 DEF ValidatorInv, Closed
    <2>2. ASSUME NEW g \in Genesis  PROVE ancestors[g] \subseteq Genesis
      <3>1. g.round = 0 /\ g \in DOMAIN ancestors
        BY <2>1 DEF Genesis, Ref
      <3>2. ancestors[g] \subseteq DOMAIN ancestors /\ \A x \in ancestors[g] : x.round < 0
        BY Zenon, <3>1 DEF DagInv, BlocksInv
      <3>3. \A x \in DOMAIN ancestors : x.round \in Nat
        BY ProposerAssumption DEF DagInv, CoreTypes, Refs
      <3>. QED  BY <3>2, <3>3
    <2>3. Closed(ancestors, Genesis)
      BY Zenon, <2>1, <2>2 DEF Closed
    <2>4. Start(v, Genesis)
      BY Zenon, <1>4 DEF Wipe
    <2>. QED  BY Zenon, <1>2, <1>4, <2>1, <2>3, <2>4
  <1>. QED  BY ZenonT(30), <1>3, <1>4

LEMMA NextDagInv ==
    ASSUME LowestExists, DagInv, ClockRecovers, [Next]_vars
    PROVE  DagInv'
  <1>1. CASE UNCHANGED vars
    BY Zenon, <1>1 DEF vars, core, DagInv, CoreTypes, TaskTypes, BlocksInv, ValidatorInv, Follows, HasQuorum, Closed
  <1>2. ASSUME NEW v \in Up, Run(v) \/ DelayTooHigh(v)  PROVE DagInv'
    <2>1. /\ TaskTypes'
          /\ faults' \in [starts : Nat, others : Nat] /\ faults'.starts = faults.starts
      BY Zenon, <1>2, TasksKept
    <2>2. CASE Idle
      BY Zenon, <2>1, <2>2 DEF Idle, DagInv, CoreTypes, BlocksInv, ValidatorInv, Follows, HasQuorum, Closed
    <2>3. ASSUME NEW D, NEW c, NEW force, Live(v, D, c, force)  PROVE DagInv'
      <3>1. last_signaled[v] \in Nat /\ v \in Authorities
        BY Zenon, ProposerAssumption DEF DagInv, CoreTypes
      <3>2. /\ Prepared(v, D, c, last_included[v])
            /\ \/ \E parents, l, b : Signs(v, D, c, last_signaled[v], parents, l, b)
               \/ Accepts(v, D, c, last_included[v], last_signaled[v])
        BY Zenon, <2>3, LiveKinds
      <3>. QED  BY Zenon, <2>1, <3>1, <3>2, SignsKeepsDagInv, AcceptsKeepsDagInv
    <2>. QED  BY Zenon, <1>2, <2>2, <2>3, RunKinds
  <1>3. ASSUME NEW v \in Up, Restart(v) \/ Wipe(v)  PROVE DagInv'
    <2>1. faults' \in [starts : Nat, others : Nat] /\ faults'.starts = faults.starts + 1
      BY Zenon, <1>3, RestartsFrom
    <2>2. PICK D : Closed(ancestors, D) /\ Start(v, D)
      BY Zenon, <1>3, RestartsFrom
    <2>3. TaskTypes'
      BY Zenon, <2>2, StartTasks
    <2>4. /\ Prepared(v, D, RecoveredClock(D), NothingIncluded) /\ last_proposed_round(v, D) \in Nat
          /\ \/ \E parents, l, b : Signs(v, D, RecoveredClock(D), last_proposed_round(v, D), parents, l, b)
             \/ Accepts(v, D, RecoveredClock(D), NothingIncluded, last_proposed_round(v, D))
      BY Zenon, <2>1, <2>2, StartKinds
    <2>. QED  BY Zenon, <2>1, <2>3, <2>4, SignsKeepsDagInv, AcceptsKeepsDagInv
  <1>. QED  BY Zenon, <1>1, <1>2, <1>3 DEF Next

LEMMA GenesisHasQuorum == HasQuorum(Genesis, 0) /\ Genesis \subseteq Refs
  <1>1. Genesis \subseteq Refs
    BY ProposerAssumption DEF Genesis, Ref, Refs
  <1>2. Authors(At(Genesis, 0)) = Authorities
    <2>1. \A a \in Authorities : Ref(a, 0, 0) \in At(Genesis, 0) /\ Ref(a, 0, 0).author = a
      BY Zenon DEF At, Genesis, Ref
    <2>2. \A b \in At(Genesis, 0) : b.author \in Authorities
      BY DEF At, Genesis, Ref
    <2>. QED  BY Zenon, <2>1, <2>2 DEF Authors
  <1>3. Up \subseteq Authorities /\ ReachesQuorum(Up)
    BY Zenon, ProposerAssumption DEF ReachesQuorum
  <1>. QED  BY Zenon, <1>1, <1>2, <1>3, QuorumGrows DEF HasQuorum

LEMMA InitDagInv ==
    ASSUME LowestExists, Init, ClockRecovers
    PROVE  DagInv
  <1>. DEFINE F == UNION {FirstBlock(v) : v \in Authorities}
  <1>1. ASSUME NEW v \in Authorities, NEW b \in FirstBlock(v)
        PROVE  /\ b \in Refs /\ b.author = v /\ b.round = 1 /\ b.life = 0 /\ b \notin Genesis
               /\ v \in Up /\ v \notin SyncOwnBlock
    BY ProposerAssumption DEF FirstBlock, Ref, Refs, Genesis
  <1>2. \A b \in Genesis : b.round = 0 /\ b.life = 0 /\ b.author \in Authorities
    BY DEF Genesis, Ref
  <1>3. /\ DOMAIN ancestors = Genesis \cup F
        /\ \A b \in Genesis : ancestors[b] = {}
        /\ \A b \in F : ancestors[b] = Genesis
    <2>1. \A b \in F : b \notin Genesis
      BY <1>1
    <2>2. ancestors = [b \in Genesis \cup F |-> IF b \in Genesis THEN {} ELSE Genesis]
      BY Zenon DEF Init
    <2>. HIDE DEF F
    <2>. QED  BY Zenon, <2>1, <2>2
  <1>4. \A v \in Authorities : dag[v] = Genesis \cup FirstBlock(v) /\ stored[v] = Genesis \cup FirstBlock(v)
    BY Zenon DEF Init
  <1>5. ASSUME NEW v \in Authorities
        PROVE  /\ dag[v] \subseteq Refs /\ Genesis \subseteq dag[v] /\ dag[v] \subseteq DOMAIN ancestors
               /\ Closed(ancestors, dag[v])
               /\ Follows(RecoveredClock(dag[v]), dag[v])
    <2>1. dag[v] \subseteq Refs /\ Genesis \subseteq dag[v] /\ dag[v] \subseteq DOMAIN ancestors
      BY <1>1, <1>3, <1>4, GenesisHasQuorum
    <2>2. Closed(ancestors, dag[v])
      BY <1>3, <1>4, <2>1 DEF Closed
    <2>3. \A b \in dag[v] : b.life = 0 /\ (b.round > 0 => b.round - 1 = 0)
      BY <1>1, <1>2, <1>4
    <2>4. HasQuorum(dag[v], 0)
      BY Zenon, <2>1, GenesisHasQuorum, HasQuorumGrows
    <2>5. Follows(RecoveredClock(dag[v]), dag[v])
      BY <2>1, <2>3, <2>4 DEF ClockRecovers
    <2>. QED  BY Zenon, <2>1, <2>2, <2>5
  <1>6. \A v \in Authorities : RecoveredClock(dag[v]) \in Clocks /\ RecoveredClock(dag[v]).round \in Nat
    BY Zenon, <1>5 DEF Follows, Clocks
  <1>7. CoreTypes
    <2>1. DOMAIN ancestors \subseteq Refs
      <3>1. \A b \in F : b \in Refs
        BY <1>1
      <3>. HIDE DEF F
      <3>. QED  BY ZenonT(30), <1>3, <3>1, GenesisHasQuorum
    <2>2. /\ dag \in [Authorities -> SUBSET DOMAIN ancestors]
          /\ stored \in [Authorities -> SUBSET DOMAIN ancestors]
      <3>1. stored = dag /\ dag = [v \in Authorities |-> dag[v]]
        BY Zenon DEF Init
      <3>2. \A v \in Authorities : dag[v] \in SUBSET DOMAIN ancestors
        BY Zenon, <1>5
      <3>. QED  BY Zenon, <3>1, <3>2
    <2>3. clock \in [Authorities -> Clocks] /\ last_signaled \in [Authorities -> Nat]
      BY Zenon, <1>6 DEF Init, Clocks
    <2>4. last_included \in [Authorities -> [Authorities -> Int]]
      BY DEF Init, NothingIncluded
    <2>. QED  BY Zenon, <2>1, <2>2, <2>3, <2>4 DEF CoreTypes, Init
  <1>8. TaskTypes
    BY Zenon DEF Init, TaskTypes, Syncing, NotSyncing
  <1>9. BlocksInv
    <2>0. faults.starts = 0
      BY Zenon DEF Init
    <2>1. ASSUME NEW b \in Genesis
          PROVE  /\ b.round = 0 /\ b.life = 0 /\ ancestors[b] = {} /\ b \in stored[b.author]
      BY <1>2, <1>3, <1>4
    <2>2. ASSUME NEW b \in F
          PROVE  /\ b.round = 1 /\ b.life = 0 /\ ancestors[b] = Genesis /\ b \in stored[b.author]
      BY <1>1, <1>3, <1>4
    <2>3. \A b \in F : /\ b.round - 1 = 0 /\ HasQuorum(ancestors[b], b.round - 1)
                       /\ \A x \in ancestors[b] : x.round < b.round
      BY SMTT(30), <1>2, <2>2, GenesisHasQuorum
    <2>. HIDE DEF F
    <2>. QED  BY <1>3, <2>0, <2>1, <2>2, <2>3 DEF BlocksInv
  <1>10. ASSUME NEW v \in Authorities  PROVE ValidatorInv(v)
    <2>1. stored[v] = dag[v] /\ clock[v] = RecoveredClock(dag[v])
      BY Zenon DEF Init
    <2>2. last_proposed_round(v, dag[v]) \in Nat
      BY Zenon, <1>5, LastProposed
    <2>3. ASSUME v \in Up, NEW a \in Authorities
          PROVE  last_included[v][a] < last_proposed_round(v, dag[v])
      <3>1. CASE v \in SyncOwnBlock
        BY SMTT(30), <2>2, <3>1 DEF Init, NothingIncluded
      <3>2. CASE v \notin SyncOwnBlock
        <4>1. Ref(v, 1, 0) \in dag[v] /\ Ref(v, 1, 0).author = v /\ Ref(v, 1, 0).round = 1
          BY ZenonT(30), <1>4, <2>3, <3>2 DEF FirstBlock, Ref
        <4>2. last_proposed_round(v, dag[v]) >= 1
          BY Zenon, <1>5, <4>1, LastProposed
        <4>. QED  BY <2>2, <3>2, <4>2 DEF Init
      <3>. QED  BY <3>1, <3>2
    <2>. QED  BY Zenon, <1>5, <2>1, <2>3 DEF ValidatorInv
  <1>. QED  BY Zenon, <1>7, <1>8, <1>9, <1>10 DEF DagInv

-----------------------------------------------------------------------------
(* One block per round.                                                     *)

\* What a step does to the answers and to the last known own round.
TaskStep ==
    \A w \in Authorities :
        /\ w \notin sync'[w].replied
        /\ \A p \in sync'[w].replied :
              \/ p \in sync[w].replied /\ sync[w].highest <= sync'[w].highest
              \/ \A x \in dag[p] : x.author = w => x.round <= sync'[w].highest
        /\ known'[w] # None =>
              \/ known'[w] = known[w]
              \/ w \notin SyncOwnBlock
              \/ known'[w] = sync[w].highest /\ EnoughReplies(sync[w].replied)

LEMMA TaskSteps ==
    ASSUME LowestExists, DagInv, OwnInv, [Next]_vars
    PROVE  TaskStep
  <1>0. /\ known \in [Authorities -> Nat \cup {None}] /\ Up \subseteq Authorities
        /\ sync \in [Authorities -> [on : BOOLEAN, replied : SUBSET Authorities, highest : Nat]]
        /\ \A w \in Authorities : w \notin sync[w].replied
        /\ \A w \in Authorities : sync[w].highest \in Nat
    BY Zenon, ProposerAssumption DEF DagInv, TaskTypes, OwnInv
  <1>1. (sync' = sync /\ known' = known) => TaskStep
    BY <1>0 DEF TaskStep
  <1>2. CASE UNCHANGED vars
    BY Zenon, <1>1, <1>2 DEF vars
  <1>3. ASSUME NEW v \in Up, Run(v) \/ DelayTooHigh(v)  PROVE TaskStep
    <2>1. CASE FetchOwnLastBlock(v)
      <3>1. PICK p \in Up \ ({v} \cup sync[v].replied) :
              /\ sync' = [sync EXCEPT ![v] =
                                      [on |-> TRUE, replied |-> sync[v].replied \cup {p},
                                       highest |-> IF last_proposed_round(v, dag[p]) > sync[v].highest
                                                   THEN last_proposed_round(v, dag[p]) ELSE sync[v].highest]]
              /\ UNCHANGED <<core, known, timer, delayed, faults, forgotten>>
        BY Zenon, <2>1 DEF FetchOwnLastBlock
      <3>2. /\ last_proposed_round(v, dag[p]) \in Nat
            /\ \A x \in dag[p] : x.author = v => x.round <= last_proposed_round(v, dag[p])
            /\ \A x \in dag[p] : x.round \in Nat
        <4>1. p \in Authorities /\ v \in Authorities
          BY Zenon, ProposerAssumption
        <4>2. dag[p] \subseteq Refs /\ Genesis \subseteq dag[p]
          BY Zenon, <4>1 DEF DagInv, CoreTypes, ValidatorInv, Closed
        <4>3. \A x \in dag[p] : x.round \in Nat
          BY SMTT(30), <4>2, ProposerAssumption DEF Refs
        <4>. QED  BY Zenon, <4>1, <4>2, <4>3, LastProposed
      <3>3. /\ \A w \in Authorities \ {v} : sync'[w] = sync[w]
            /\ sync'[v].replied = sync[v].replied \cup {p}
            /\ sync'[v].highest = IF last_proposed_round(v, dag[p]) > sync[v].highest
                                  THEN last_proposed_round(v, dag[p]) ELSE sync[v].highest
        BY Zenon, <1>0, <3>1
      <3>4. /\ sync[v].highest <= sync'[v].highest
            /\ last_proposed_round(v, dag[p]) <= sync'[v].highest /\ sync'[v].highest \in Nat
        BY SMTT(30), <1>0, <3>2, <3>3
      <3>5. \A x \in dag[p] : x.author = v => x.round <= sync'[v].highest
        BY SMTT(30), <3>2, <3>4
      <3>6. known' = known
        BY Zenon, <3>1
      <3>. QED  BY SMTT(30), <1>0, <3>1, <3>3, <3>4, <3>5, <3>6 DEF TaskStep
    <2>2. CASE EndFetchOwnLastBlock(v)
      <3>1. /\ sync' = [sync EXCEPT ![v] = NotSyncing] \/ sync' = [sync EXCEPT ![v] = Syncing]
            /\ \/ known' = known
               \/ known' = [known EXCEPT ![v] = sync[v].highest] /\ EnoughReplies(sync[v].replied)
        BY Zenon, <2>2 DEF EndFetchOwnLastBlock
      <3>2. (\A w \in Authorities \ {v} : sync'[w] = sync[w]) /\ sync'[v].replied = {}
        BY <1>0, <3>1 DEF Syncing, NotSyncing
      <3>3. /\ \A w \in Authorities \ {v} : known'[w] = known[w]
            /\ known'[v] = known[v] \/ (known'[v] = sync[v].highest /\ EnoughReplies(sync[v].replied))
        BY Zenon, <1>0, <3>1
      <3>. QED  BY SMTT(30), <1>0, <3>2, <3>3 DEF TaskStep
    <2>3. CASE ~FetchOwnLastBlock(v) /\ ~EndFetchOwnLastBlock(v)
      <3>1. sync' = sync /\ known' = known
        BY Zenon, <1>3, <2>3 DEF Run, AddBlock, NewRound, MinTimeout, MaxTimeout, DelayAcceptable, DelayTooHigh
      <3>. QED  BY Zenon, <1>1, <3>1
    <2>. QED  BY ZenonT(30), <2>1, <2>2, <2>3
  <1>4. ASSUME NEW v \in Up, Restart(v) \/ Wipe(v)  PROVE TaskStep
    <2>1. PICK D : Closed(ancestors, D) /\ Start(v, D)
      BY Zenon, <1>4, RestartsFrom
    <2>2. /\ known'[v] = IF v \in SyncOwnBlock THEN None ELSE 0
          /\ sync'[v].replied = {}
          /\ \A w \in Authorities \ {v} : known'[w] = known[w] /\ sync'[w] = sync[w]
      BY Zenon, <2>1, StartTasks
    <2>. QED  BY <1>0, <2>2 DEF TaskStep
  <1>. QED  BY ZenonT(30), <1>2, <1>3, <1>4 DEF Next

\* f+1 stake of answers meets every quorum.
LEMMA AnswersMeetQuorum ==
    ASSUME NEW Q \in SUBSET Authorities, NEW R \in SUBSET Authorities,
           ReachesQuorum(Q), EnoughReplies(R)
    PROVE  \E p \in Q : p \in R
  <1>. SUFFICES ASSUME Q \cap R = {}  PROVE FALSE
    BY Zenon
  <1>1. Stake[Q \cup R] + Stake[Q \cap R] = Stake[Q] + Stake[R] /\ Stake[{}] = 0
    BY Zenon, StakeAssumption
  <1>2. Stake[Q \cup R] \in Nat /\ Stake[Authorities] \in Nat /\ Stake[Q \cup R] <= Stake[Authorities]
    <2>1. Q \cup R \subseteq Authorities
      BY Zenon
    <2>. QED  BY Zenon, <2>1, StakeMonotone
  <1>3. Stake[Q] \in Nat /\ Stake[R] \in Nat
    BY Zenon, StakeAssumption
  <1>4. /\ Stake[Q] >= committee.quorum /\ Stake[R] >= committee.validity
        /\ committee.validity + committee.quorum > Stake[Authorities]
        /\ committee.validity \in Nat /\ committee.quorum \in Nat
    BY Zenon, ProposerAssumption, AmnesiaAssumption DEF ReachesQuorum, EnoughReplies
  <1>. QED  BY <1>1, <1>2, <1>3, <1>4

LEMMA LostIsKnown ==
    ASSUME DagInv, OwnInv, TaskStep, NEW w \in Authorities, NEW b \in Lost(w), known'[w] # None
    PROVE  b.round <= known'[w]
  <1>1. /\ w \in Amnesiac /\ Remembered(w, b) /\ w \notin sync[w].replied
        /\ known[w] # None => b.round <= known[w]
    BY Zenon DEF OwnInv
  <1>2. w \in SyncOwnBlock
    BY <1>1, AmnesiaAssumption
  <1>3. CASE known'[w] = known[w]
    BY Zenon, <1>1, <1>3
  <1>4. CASE known'[w] = sync[w].highest /\ EnoughReplies(sync[w].replied)
    <2>1. PICK Q \in SUBSET Authorities :
            /\ ReachesQuorum(Q)
            /\ \A p \in Q \ {w} : p \in sync[w].replied => b.round <= sync[w].highest
      BY Zenon, <1>1 DEF Remembered
    <2>2. sync[w].replied \in SUBSET Authorities
      BY Zenon DEF DagInv, TaskTypes
    <2>3. PICK p \in Q : p \in sync[w].replied
      BY Zenon, <1>4, <2>1, <2>2, AnswersMeetQuorum
    <2>. QED  BY SMTT(30), <1>1, <1>4, <2>1, <2>3
  <1>. QED  BY Zenon, <1>2, <1>3, <1>4 DEF TaskStep

\* What a step of v does to the signed and the stored blocks.
OwnStep(v) ==
    /\ \A p \in Authorities \ {v} : stored'[p] = stored[p]
    /\ \/ DOMAIN ancestors' = DOMAIN ancestors
       \/ \E b : /\ DOMAIN ancestors' = DOMAIN ancestors \cup {b}
                 /\ b.author = v /\ b \in stored'[v]
                 /\ \A y \in DOMAIN ancestors \ forgotten :
                        y.author = v /\ y.round > 0 => y.round # b.round
    /\ \/ stored[v] \subseteq stored'[v] /\ forgotten' = forgotten
       \/ Wipe(v)

LEMMA OwnStepKeepsOwnInv ==
    ASSUME LowestExists, DagInv, OwnInv, TaskStep, NEW v \in Up, OwnStep(v), TaskTypes'
    PROVE  OwnInv'
  <1>0. v \in Authorities
    BY Zenon, ProposerAssumption
  <1>1. forgotten \subseteq forgotten' /\ forgotten' \subseteq DOMAIN ancestors
        /\ DOMAIN ancestors \subseteq DOMAIN ancestors'
    <2>1. stored[v] \subseteq DOMAIN ancestors /\ forgotten \subseteq DOMAIN ancestors
      BY Zenon, <1>0 DEF DagInv, CoreTypes, OwnInv
    <2>. QED  BY Zenon, <2>1 DEF OwnStep, Wipe
  <1>2. ASSUME NEW x \in DOMAIN ancestors' \ forgotten', NEW y \in DOMAIN ancestors' \ forgotten',
               x.author = y.author, x.round = y.round, x.round > 0
        PROVE  x = y
    <2>1. CASE x \in DOMAIN ancestors /\ y \in DOMAIN ancestors
      BY Zenon, <1>1, <1>2, <2>1 DEF OwnInv
    <2>2. CASE x \notin DOMAIN ancestors \/ y \notin DOMAIN ancestors
      <3>1. PICK b : /\ DOMAIN ancestors' = DOMAIN ancestors \cup {b} /\ b.author = v
                     /\ \A z \in DOMAIN ancestors \ forgotten :
                            z.author = v /\ z.round > 0 => z.round # b.round
        BY Zenon, <2>2 DEF OwnStep
      <3>. QED  BY Zenon, <1>1, <1>2, <2>2, <3>1
    <2>. QED  BY Zenon, <2>1, <2>2
  <1>3. ASSUME NEW w \in Authorities, NEW b \in Lost(w)'
        PROVE  /\ w \in Amnesiac
               /\ known'[w] # None => b.round <= known'[w]
               /\ Remembered(w, b)'
    <2>1. /\ b \in DOMAIN ancestors' /\ b.author = w /\ b.round > 0
          /\ b \notin stored'[w] /\ b \notin forgotten'
      BY Zenon, <1>3 DEF Lost
    <2>2. b \in DOMAIN ancestors
      BY Zenon, <2>1 DEF OwnStep
    <2>3. ASSUME b \in Lost(w)
          PROVE  /\ w \in Amnesiac
                 /\ known'[w] # None => b.round <= known'[w]
                 /\ Remembered(w, b)'
      <3>1. w \in Amnesiac /\ Remembered(w, b)
        BY Zenon, <2>3 DEF OwnInv
      <3>2. \A p \in Authorities \ {w} : stored[p] \subseteq stored'[p]
        <4>1. CASE Wipe(v)
          <5>1. v = w
            BY Zenon, <3>1, <4>1, AmnesiaAssumption DEF Wipe
          <5>. QED  BY Zenon, <5>1 DEF OwnStep
        <4>2. CASE ~Wipe(v)
          BY Zenon, <4>2 DEF OwnStep
        <4>. QED  BY Zenon, <4>1, <4>2
      <3>3. PICK Q \in SUBSET Authorities :
              /\ ReachesQuorum(Q)
              /\ \A p \in Q \ {w} : b \in stored[p] /\ (p \in sync[w].replied => b.round <= sync[w].highest)
        BY Zenon, <3>1 DEF Remembered
      <3>4. ASSUME NEW p \in Q \ {w}, p \in sync'[w].replied  PROVE b.round <= sync'[w].highest
        <4>1. \/ p \in sync[w].replied /\ sync[w].highest <= sync'[w].highest
              \/ \A x \in dag[p] : x.author = w => x.round <= sync'[w].highest
          BY ZenonT(30), <3>4 DEF TaskStep
        <4>2. b \in dag[p]
          BY Zenon, <3>3 DEF DagInv, ValidatorInv
        <4>3. CASE p \in sync[w].replied /\ sync[w].highest <= sync'[w].highest
          <5>1. b.round <= sync[w].highest
            BY ZenonT(30), <3>3, <4>3
          <5>2. b.round \in Int
            BY SMTT(30), <2>2, ProposerAssumption DEF DagInv, CoreTypes, Refs
          <5>3. sync[w].highest \in Int /\ sync'[w].highest \in Int
            BY DEF DagInv, TaskTypes
          <5>. QED  BY SMTT(30), <4>3, <5>1, <5>2, <5>3
        <4>. QED  BY ZenonT(30), <2>1, <4>1, <4>2, <4>3
      <3>5. Remembered(w, b)'
        <4>1. \A p \in Q \ {w} : b \in stored'[p]
          BY ZenonT(30), <3>2, <3>3
        <4>. QED  BY ZenonT(30), <3>3, <3>4, <4>1 DEF Remembered, ReachesQuorum
      <3>. QED  BY SMTT(30), <2>3, <3>1, <3>5, LostIsKnown
    <2>4. ASSUME b \notin Lost(w)
          PROVE  /\ w \in Amnesiac /\ known'[w] = None
                 /\ Remembered(w, b)'
      <3>1. b \in stored[w]
        BY ZenonT(30), <1>1, <2>1, <2>2, <2>4 DEF Lost
      <3>2. w = v /\ Wipe(v)
        BY Zenon, <2>1, <3>1 DEF OwnStep
      <3>3. v \in Amnesiac /\ v \in SyncOwnBlock
        BY <3>2, AmnesiaAssumption DEF Wipe
      <3>. DEFINE Q == {p \in Authorities : b \in stored[p]}
      <3>4. ReachesQuorum(Q)
        BY ZenonT(30), <2>1, <3>1, <3>2 DEF Wipe
      <3>5. known'[v] = None /\ sync'[v].replied = {}
        <4>1. PICK D : Closed(ancestors, D) /\ Start(v, D)
          BY Zenon, <3>2, RestartsFrom
        <4>. QED  BY Zenon, <3>3, <4>1, StartTasks
      <3>6. \A p \in Q \ {v} : b \in stored'[p]
        BY Zenon DEF OwnStep
      <3>. QED  BY ZenonT(30), <3>2, <3>3, <3>4, <3>5, <3>6 DEF Remembered, ReachesQuorum
    <2>. QED  BY Zenon, <2>3, <2>4
  <1>4. \A w \in Authorities : w \notin sync'[w].replied
    BY Zenon DEF TaskStep
  <1>. QED  BY SMTT(30), <1>1, <1>2, <1>3, <1>4 DEF OwnInv

LEMMA SignsOwnStep ==
    ASSUME LowestExists, DagInv, OwnInv, TaskStep, NEW v \in Up, NEW D, NEW c, NEW li, Prepared(v, D, c, li),
           NEW signaled, NEW parents, NEW l, NEW b, Signs(v, D, c, signaled, parents, l, b),
           faults'.starts \in Nat, TaskTypes',
           stored[v] \subseteq D /\ forgotten' = forgotten
    PROVE  OwnStep(v)
  <1>0. v \in Authorities /\ faults'.starts \in Nat
    BY Zenon, ProposerAssumption
  <1>1. /\ b \notin DOMAIN ancestors /\ b \in Refs
        /\ b.author = v /\ b.round = c.round /\ b.life = faults'.starts /\ b.round > 0
        /\ DOMAIN ancestors' = DOMAIN ancestors \cup {b}
        /\ ancestors'[b] = parents
        /\ \A x \in DOMAIN ancestors : ancestors'[x] = ancestors[x]
        /\ HasQuorum(D, b.round - 1)
    BY Zenon, <1>0, SignedBlockIsNew
  <1>a. b.round \in Nat
    BY SMTT(30), <1>1, ProposerAssumption DEF Refs
  <1>2. stored' = [stored EXCEPT ![v] = D \cup {b}]
    BY Zenon DEF Signs
  <1>3. /\ \A p \in Authorities \ {v} : stored'[p] = stored[p]
        /\ stored'[v] = D \cup {b}
    BY Zenon, <1>0, <1>2 DEF DagInv, CoreTypes
  <1>4. ASSUME NEW y \in DOMAIN ancestors \ forgotten, y.author = v, y.round > 0
        PROVE  y.round # b.round
    <2>0. y.round \in Nat
      BY SMTT(30), ProposerAssumption DEF DagInv, CoreTypes, Refs
    <2>1. CASE y \in D
      <3>1. D \subseteq Refs /\ Genesis \subseteq D
        BY Zenon DEF Prepared, Closed, DagInv, CoreTypes
      <3>2. y.round <= last_proposed_round(v, D) /\ last_proposed_round(v, D) \in Nat
        BY Zenon, <1>0, <1>4, <2>1, <3>1, LastProposed
      <3>3. b.round > last_proposed_round(v, D)
        BY Zenon, <1>1 DEF Signs
      <3>. QED  BY SMTT(30), <1>a, <2>0, <3>2, <3>3
    <2>2. CASE y \notin D
      <3>1. y \in Lost(v)
        BY ZenonT(30), <1>4, <2>2 DEF Lost
      <3>2. known'[v] # None /\ b.round > known'[v]
        BY Zenon, <1>1 DEF Signs, should_propose
      <3>3. y.round <= known'[v]
        BY Zenon, <1>0, <3>1, <3>2, LostIsKnown
      <3>4. known'[v] \in Nat
        BY Zenon, <1>0, <3>2 DEF TaskTypes
      <3>. QED  BY SMTT(30), <1>a, <2>0, <3>2, <3>3, <3>4
    <2>. QED  BY ZenonT(30), <2>1, <2>2
  <1>. QED  BY Zenon, <1>1, <1>3, <1>4 DEF OwnStep

LEMMA AcceptsOwnStep ==
    ASSUME DagInv, NEW v \in Up, NEW D, NEW c, NEW li, NEW signaled,
           Accepts(v, D, c, li, signaled),
           (stored[v] \subseteq D /\ forgotten' = forgotten) \/ Wipe(v)
    PROVE  OwnStep(v)
  <1>0. v \in Authorities
    BY ProposerAssumption
  <1>1. /\ ancestors' = ancestors
        /\ stored' = stored \/ stored' = [stored EXCEPT ![v] = D]
    BY Zenon DEF Accepts, NoBlock
  <1>2. /\ \A p \in Authorities \ {v} : stored'[p] = stored[p]
        /\ stored'[v] = stored[v] \/ stored'[v] = D
    BY ZenonT(30), <1>0, <1>1 DEF DagInv, CoreTypes
  <1>. QED  BY Zenon, <1>1, <1>2 DEF OwnStep

LEMMA OwnSteps ==
    ASSUME LowestExists, DagInv, OwnInv, ClockRecovers, TaskStep, NEW v \in Up,
           Run(v) \/ DelayTooHigh(v) \/ Restart(v) \/ Wipe(v)
    PROVE  OwnStep(v)
  <1>1. CASE Run(v) \/ DelayTooHigh(v)
    <2>1. /\ TaskTypes' /\ faults' \in [starts : Nat, others : Nat] /\ faults'.starts \in Nat
          /\ forgotten' = forgotten
      BY Zenon, <1>1, TasksKept
    <2>2. CASE Idle
      BY Zenon, <2>2 DEF Idle, OwnStep
    <2>3. ASSUME NEW D, NEW c, NEW force, Live(v, D, c, force)  PROVE OwnStep(v)
      <3>1. /\ Prepared(v, D, c, last_included[v]) /\ stored[v] \subseteq D
            /\ \/ \E parents, l, b : Signs(v, D, c, last_signaled[v], parents, l, b)
               \/ Accepts(v, D, c, last_included[v], last_signaled[v])
        BY Zenon, <2>3, LiveKinds
      <3>. QED  BY Zenon, <2>1, <3>1, SignsOwnStep, AcceptsOwnStep
    <2>. QED  BY Zenon, <1>1, <2>2, <2>3, RunKinds
  <1>2. CASE Restart(v) \/ Wipe(v)
    <2>1. faults'.starts = faults.starts + 1 /\ faults'.starts \in Nat
      BY Zenon, <1>2, RestartsFrom
    <2>2. PICK D : /\ Closed(ancestors, D) /\ Start(v, D)
                   /\ (stored[v] \subseteq D /\ forgotten' = forgotten) \/ Wipe(v)
      BY Zenon, <1>2, RestartsFrom
    <2>3. TaskTypes' /\ known'[v] = IF v \in SyncOwnBlock THEN None ELSE 0
      BY Zenon, <2>2, StartTasks
    <2>4. /\ Prepared(v, D, RecoveredClock(D), NothingIncluded)
          /\ \/ \E parents, l, b : Signs(v, D, RecoveredClock(D), last_proposed_round(v, D), parents, l, b)
             \/ Accepts(v, D, RecoveredClock(D), NothingIncluded, last_proposed_round(v, D))
      BY Zenon, <2>1, <2>2, StartKinds
    <2>5. CASE Accepts(v, D, RecoveredClock(D), NothingIncluded, last_proposed_round(v, D))
      BY Zenon, <2>2, <2>5, AcceptsOwnStep
    <2>6. ASSUME NEW parents, NEW l, NEW b,
                 Signs(v, D, RecoveredClock(D), last_proposed_round(v, D), parents, l, b)
          PROVE  OwnStep(v)
      <3>1. v \notin SyncOwnBlock
        BY Zenon, <2>3, <2>6 DEF Signs, should_propose
      <3>2. ~Wipe(v)
        BY Zenon, <3>1, AmnesiaAssumption DEF Wipe
      <3>. QED  BY Zenon, <2>1, <2>2, <2>3, <2>4, <2>6, <3>2, SignsOwnStep
    <2>. QED  BY Zenon, <2>4, <2>5, <2>6
  <1>. QED  BY Zenon, <1>1, <1>2

LEMMA NextOwnInv ==
    ASSUME LowestExists, DagInv, DagInv', OwnInv, ClockRecovers, [Next]_vars
    PROVE  OwnInv'
  <1>1. TaskStep
    BY ZenonT(30), TaskSteps
  <1>2. CASE UNCHANGED vars
    BY SMTT(30), <1>2 DEF vars, core, OwnInv, Lost, Remembered, ReachesQuorum
  <1>3. ASSUME NEW v \in Up, Run(v) \/ DelayTooHigh(v) \/ Restart(v) \/ Wipe(v)  PROVE OwnInv'
    <2>1. OwnStep(v)
      BY Zenon, <1>1, <1>3, OwnSteps
    <2>2. TaskTypes'
      BY Zenon DEF DagInv
    <2>. QED  BY Zenon, <1>1, <2>1, <2>2, OwnStepKeepsOwnInv
  <1>. QED  BY Zenon, <1>2, <1>3 DEF Next

LEMMA InitOwnInv ==
    ASSUME Init, DagInv
    PROVE  OwnInv
  <1>1. ASSUME NEW b \in DOMAIN ancestors, b.round > 0
        PROVE  b.author \in Authorities /\ b = Ref(b.author, 1, 0) /\ b \in stored[b.author]
    <2>1. \A g \in Genesis : g.round = 0
      BY DEF Genesis, Ref
    <2>2. DOMAIN ancestors = Genesis \cup UNION {FirstBlock(v) : v \in Authorities}
      BY Zenon DEF Init
    <2>3. PICK v \in Authorities : b \in FirstBlock(v)
      BY <1>1, <2>1, <2>2
    <2>4. b = Ref(v, 1, 0) /\ b.author = v
      BY SMTT(30), <2>3 DEF FirstBlock, Ref
    <2>5. stored[v] = Genesis \cup FirstBlock(v)
      BY Zenon DEF Init
    <2>. QED  BY Zenon, <2>3, <2>4, <2>5
  <1>2. \A v \in Authorities : Lost(v) = {}
    BY Zenon, <1>1 DEF Lost
  <1>3. \A v \in Authorities : v \notin sync[v].replied
    BY Zenon DEF Init, Syncing, NotSyncing
  <1>4. forgotten = {}
    BY Zenon DEF Init
  <1>. QED  BY <1>1, <1>2, <1>3, <1>4 DEF OwnInv

-----------------------------------------------------------------------------
(* The asserts.                                                             *)

LEMMA NextPanicInv ==
    ASSUME LowestExists, DagInv, OwnInv, ClockRecovers, PanicInv, [Next]_vars
    PROVE  PanicInv'
  <1>1. CASE UNCHANGED vars
    BY Zenon, <1>1 DEF vars, core, PanicInv, NeverPanics
  <1>2. ASSUME NEW v \in Up, Run(v) \/ DelayTooHigh(v) \/ Restart(v) \/ Wipe(v)  PROVE PanicInv'
    <2>0. v \in Authorities /\ OwnStep(v)
      BY Zenon, <1>2, TaskSteps, OwnSteps, ProposerAssumption DEF Next
    <2>1. ASSUME NEW w \in Up \ SyncOwnBlock
          PROVE  \E b \in stored'[w] : b.author = w /\ b.round > 0
      <3>1. w \in Authorities
        BY Zenon, ProposerAssumption
      <3>2. stored[w] \subseteq stored'[w]
        BY ZenonT(30), <3>1, <2>0, AmnesiaAssumption DEF OwnStep, Wipe
      <3>. QED  BY <2>1, <3>2 DEF PanicInv
    <2>2. ASSUME forgotten' = {}  PROVE ~panicked'
      <3>1. forgotten = {}
        BY Zenon, <2>0, <2>2 DEF OwnStep, Wipe
      <3>2. ~panicked
        BY Zenon, <3>1 DEF PanicInv, NeverPanics
      <3>3. CASE Run(v) \/ DelayTooHigh(v)
        <4>1. CASE Idle
          <5>. SUFFICES ASSUME NEW u \in Up, NEW b \in sent \ dag[u], NEW x \in dag[u],
                               b.author = u, x.author = u, x.round = b.round
                        PROVE  FALSE
            BY ZenonT(30), <3>2, <4>1 DEF Idle
          <5>1. u \in Authorities
            BY ZenonT(30), ProposerAssumption
          <5>2. b \in DOMAIN ancestors /\ x \in DOMAIN ancestors /\ Genesis \subseteq dag[u] /\ b.round \in Nat
            BY SMTT(30), <5>1, ProposerAssumption DEF DagInv, CoreTypes, ValidatorInv, Closed, Refs
          <5>3. b.round # 0
            BY Zenon, <5>2 DEF DagInv, BlocksInv
          <5>4. b = x
            BY SMTT(30), <3>1, <5>2, <5>3 DEF OwnInv
          <5>. QED  BY Zenon, <5>4
        <4>2. ASSUME NEW D, NEW c, NEW force, Live(v, D, c, force)  PROVE panicked' = panicked
          <5>1. \/ \E parents, l, b : Signs(v, D, c, last_signaled[v], parents, l, b)
                \/ UNCHANGED <<stored, stopped, sent, panicked>>
            BY Zenon, <4>2, LiveKinds
          <5>. QED  BY Zenon, <5>1 DEF Signs
        <4>. QED  BY Zenon, <3>2, <3>3, <4>1, <4>2, RunKinds
      <3>4. CASE Restart(v) \/ Wipe(v)
        <4>1. PICK D : /\ Closed(ancestors, D) /\ Start(v, D)
                       /\ stored[v] \subseteq D \/ Wipe(v)
          BY Zenon, <3>4, RestartsFrom
        <4>2. faults'.starts = faults.starts + 1
          BY Zenon, <3>4, RestartsFrom
        <4>3. known'[v] = IF v \in SyncOwnBlock THEN None ELSE 0
          BY Zenon, <4>1, StartTasks
        <4>. DEFINE c == RecoveredClock(D)
                    last == last_proposed_round(v, D)
        <4>4. \/ \E parents, l, b : Signs(v, D, c, last, parents, l, b)
              \/ panicked' = (panicked \/ (should_propose(c.round, known'[v], FALSE) /\ last = 0))
          BY ZenonT(30), <4>1, <4>2, StartKinds
        <4>5. CASE \E parents, l, b : Signs(v, D, c, last, parents, l, b)
          BY SMTT(30), <3>2, <4>5 DEF Signs
        <4>6. ASSUME should_propose(c.round, known'[v], FALSE), last = 0  PROVE FALSE
          <5>1. v \notin SyncOwnBlock
            BY ZenonT(30), <4>3, <4>6 DEF should_propose
          <5>2. stored[v] \subseteq D
            BY ZenonT(30), <4>1, <5>1, AmnesiaAssumption DEF Wipe
          <5>3. PICK b \in D : b.author = v /\ b.round > 0
            BY ZenonT(30), <5>1, <5>2 DEF PanicInv
          <5>4. D \subseteq Refs /\ Genesis \subseteq D /\ b.round \in Nat
            BY SMTT(30), <4>1, ProposerAssumption DEF Closed, DagInv, CoreTypes, Refs
          <5>5. b.round <= last /\ last \in Nat
            BY Zenon, <2>0, <5>3, <5>4, LastProposed
          <5>. QED  BY <4>6, <5>3, <5>4, <5>5
        <4>. HIDE DEF c, last
        <4>. QED  BY Zenon, <3>2, <4>4, <4>5, <4>6
      <3>. QED  BY ZenonT(30), <1>2, <3>3, <3>4
    <2>. QED  BY ZenonT(30), <2>1, <2>2 DEF PanicInv, NeverPanics
  <1>. QED  BY Zenon, <1>1, <1>2 DEF Next

LEMMA InitPanicInv ==
    ASSUME Init
    PROVE  PanicInv
  <1>1. NeverPanics
    BY Zenon DEF Init, NeverPanics
  <1>2. ASSUME NEW v \in Up \ SyncOwnBlock
        PROVE  \E b \in stored[v] : b.author = v /\ b.round > 0
    <2>1. v \in Authorities
      BY ZenonT(30), ProposerAssumption
    <2>2. Ref(v, 1, 0) \in stored[v] /\ Ref(v, 1, 0).author = v /\ Ref(v, 1, 0).round > 0
      BY SMTT(30), <2>1 DEF Init, FirstBlock, Ref
    <2>. QED  BY Zenon, <2>2
  <1>. QED  BY Zenon, <1>1, <1>2 DEF PanicInv

-----------------------------------------------------------------------------
(* Progress.                                                                *)

\* More blocks never take the clock back.
LEMMA ClockGrows ==
    ASSUME NEW D, NEW E, D \subseteq E, E \subseteq Refs, NEW c, NEW e, Follows(c, D), Follows(e, E)
    PROVE  c.round <= e.round /\ c.round \in Nat \ {0} /\ e.round \in Nat \ {0}
  <1>0. c.round \in Nat \ {0} /\ e.round \in Nat \ {0}
    BY Zenon DEF Follows, Clocks
  <1>1. HasQuorum(E, c.round - 1)
    BY HasQuorumGrows DEF Follows
  <1>2. PICK b \in E : b.round = c.round - 1
    <2>. SUFFICES ASSUME At(E, c.round - 1) = {}  PROVE FALSE
      BY Zenon DEF At
    <2>1. Authors(At(E, c.round - 1)) = {}
      BY Zenon DEF Authors
    <2>. QED  BY Zenon, <1>1, <2>1, NoQuorumOfNone DEF HasQuorum
  <1>3. c.round - 1 <= e.round
    BY Zenon, <1>2 DEF Follows
  <1>4. c.round - 1 # e.round
    BY Zenon, <1>1 DEF Follows, HasQuorum
  <1>. QED  BY <1>0, <1>3, <1>4

\* What a step of v does to what it has accepted and to what others can get.
CoreStep(v) ==
    /\ \A w \in Authorities \ {v} : /\ dag'[w] = dag[w] /\ clock'[w] = clock[w]
                                    /\ stopped'[w] = stopped[w] /\ last_signaled'[w] = last_signaled[w]
    /\ sent \subseteq sent' /\ SentInv'
    /\ last_signaled'[v] = clock'[v].round
    /\ ~stopped'[v] => dag'[v] \subseteq sent'

LEMMA SignsCoreStep ==
    ASSUME LowestExists, DagInv, SentInv, NEW v \in Up, NEW D, NEW c, NEW li, Prepared(v, D, c, li),
           NEW signaled \in Nat, signaled <= c.round,
           NEW parents, NEW l, NEW b, Signs(v, D, c, signaled, parents, l, b),
           faults'.starts \in Nat
    PROVE  /\ CoreStep(v)
           /\ b \in dag'[v] /\ b.author = v /\ b.round = c.round
  <1>. DEFINE k == add_block(c, b)
  <1>0. v \in Authorities /\ faults'.starts \in Nat
    BY Zenon, ProposerAssumption
  <1>1. /\ b \notin DOMAIN ancestors /\ b \in Refs
        /\ b.author = v /\ b.round = c.round /\ b.life = faults'.starts /\ b.round > 0
        /\ DOMAIN ancestors' = DOMAIN ancestors \cup {b}
        /\ ancestors'[b] = parents
        /\ \A x \in DOMAIN ancestors : ancestors'[x] = ancestors[x]
        /\ HasQuorum(D, b.round - 1)
    BY Zenon, <1>0, SignedBlockIsNew
  <1>2. /\ dag' = [dag EXCEPT ![v] = D \cup {b}]
        /\ clock' = [clock EXCEPT ![v] = k]
        /\ last_signaled' = [last_signaled EXCEPT ![v] = IF k.round > signaled THEN k.round ELSE signaled]
        /\ \/ sent' = sent \cup D \cup {b} /\ stopped' = [stopped EXCEPT ![v] = FALSE]
           \/ sent' = sent /\ stopped' = [stopped EXCEPT ![v] = TRUE]
        /\ parents \subseteq D
    BY Zenon DEF Signs, BroadcastOrStop, try_signal_new_round
  <1>3. /\ D \subseteq Refs /\ D \subseteq DOMAIN ancestors /\ (\A x \in D : ancestors[x] \subseteq D)
        /\ Follows(c, D) /\ c.round \in Nat
    BY Zenon DEF Prepared, Closed, DagInv, CoreTypes, Follows, Clocks
  <1>4. Follows(k, D \cup {b})
    BY Zenon, <1>1, <1>3, AddedBlock
  <1>5. c.round <= k.round /\ k.round \in Nat
    <2>1. D \subseteq D \cup {b} /\ D \cup {b} \subseteq Refs
      BY Zenon, <1>1, <1>3
    <2>. HIDE DEF k
    <2>. QED  BY Zenon, <1>3, <1>4, <2>1, ClockGrows
  <1>. HIDE DEF k
  <1>6. last_signaled'[v] = k.round /\ clock'[v] = k /\ dag'[v] = D \cup {b}
    <2>1. last_signaled'[v] = IF k.round > signaled THEN k.round ELSE signaled
      BY Zenon, <1>0, <1>2 DEF DagInv, CoreTypes
    <2>2. clock'[v] = k /\ dag'[v] = D \cup {b}
      BY Zenon, <1>0, <1>2 DEF DagInv, CoreTypes
    <2>. QED  BY SMTT(30), <1>3, <1>5, <2>1, <2>2
  <1>7. \A w \in Authorities \ {v} : /\ dag'[w] = dag[w] /\ clock'[w] = clock[w]
                                     /\ stopped'[w] = stopped[w] /\ last_signaled'[w] = last_signaled[w]
    BY Zenon, <1>2 DEF DagInv, CoreTypes
  <1>8. ~stopped'[v] => dag'[v] \subseteq sent'
    BY Zenon, <1>0, <1>2, <1>6 DEF DagInv, CoreTypes
  <1>9. SentInv'
    <2>1. sent \subseteq DOMAIN ancestors
      BY Zenon DEF DagInv, CoreTypes
    <2>. QED  BY Zenon, <1>1, <1>2, <1>3, <2>1 DEF SentInv
  <1>. QED  BY Zenon, <1>1, <1>2, <1>6, <1>7, <1>8, <1>9 DEF CoreStep

LEMMA AcceptsCoreStep ==
    ASSUME DagInv, SentInv, NEW v \in Up, NEW D, NEW c, NEW li, Prepared(v, D, c, li),
           NEW signaled \in Nat, signaled <= c.round, Accepts(v, D, c, li, signaled),
           ~stopped'[v] => D \subseteq sent'
    PROVE  /\ CoreStep(v)
           /\ dag'[v] = D /\ clock'[v] = c
  <1>0. v \in Authorities
    BY Zenon, ProposerAssumption
  <1>1. /\ dag' = [dag EXCEPT ![v] = D]
        /\ clock' = [clock EXCEPT ![v] = c]
        /\ last_signaled' = [last_signaled EXCEPT ![v] = IF c.round > signaled THEN c.round ELSE signaled]
        /\ ancestors' = ancestors
        /\ sent' = sent \/ sent' = sent \cup D
        /\ stopped' = stopped \/ stopped' = [stopped EXCEPT ![v] = FALSE]
    BY Zenon DEF Accepts, NoBlock, try_signal_new_round
  <1>2. (\A x \in D : ancestors[x] \subseteq D) /\ c.round \in Nat
    BY Zenon DEF Prepared, Closed, Follows, Clocks
  <1>3. dag'[v] = D /\ clock'[v] = c /\ last_signaled'[v] = c.round
    <2>1. last_signaled'[v] = IF c.round > signaled THEN c.round ELSE signaled
      BY Zenon, <1>0, <1>1 DEF DagInv, CoreTypes
    <2>2. dag'[v] = D /\ clock'[v] = c
      BY Zenon, <1>0, <1>1 DEF DagInv, CoreTypes
    <2>. QED  BY <1>2, <2>1, <2>2
  <1>4. \A w \in Authorities \ {v} : /\ dag'[w] = dag[w] /\ clock'[w] = clock[w]
                                     /\ stopped'[w] = stopped[w] /\ last_signaled'[w] = last_signaled[w]
    BY Zenon, <1>1 DEF DagInv, CoreTypes
  <1>5. SentInv'
    BY Zenon, <1>1, <1>2 DEF SentInv
  <1>. QED  BY Zenon, <1>1, <1>3, <1>4, <1>5 DEF CoreStep

LEMMA LiveCoreStep ==
    ASSUME LowestExists, DagInv, RestInv, NEW v \in Up, NEW D, NEW c, NEW force, Live(v, D, c, force)
    PROVE  /\ CoreStep(v) /\ dag[v] \subseteq dag'[v]
           /\ \/ \E b \in dag'[v] : b.author = v /\ b.round = c.round
              \/ dag'[v] = D /\ clock'[v] = c /\ (~force \/ ~MayPropose(v, D, c, known'[v], delayed'[v]))
  <1>0. v \in Authorities /\ last_signaled[v] \in Nat /\ last_signaled[v] = clock[v].round
        /\ dag[v] \subseteq sent /\ SentInv
    BY Zenon, ProposerAssumption DEF RestInv, SignalInv, DagInv, CoreTypes, Live
  <1>1. /\ Prepared(v, D, c, last_included[v]) /\ dag[v] \subseteq D
        /\ faults' = faults
    BY Zenon, LiveKinds DEF Live
  <1>2. last_signaled[v] <= c.round
    <2>1. D \subseteq Refs /\ Follows(c, D) /\ Follows(clock[v], dag[v])
      BY Zenon, <1>0, <1>1 DEF Prepared, Closed, DagInv, CoreTypes, ValidatorInv
    <2>. QED  BY Zenon, <1>0, <1>1, <2>1, ClockGrows
  <1>3. faults'.starts \in Nat
    BY Zenon, <1>1 DEF DagInv, CoreTypes
  <1>4. ASSUME NEW parents, NEW l, NEW b, Signs(v, D, c, last_signaled[v], parents, l, b)
        PROVE  /\ CoreStep(v) /\ dag[v] \subseteq dag'[v]
               /\ \E x \in dag'[v] : x.author = v /\ x.round = c.round
    <2>1. CoreStep(v) /\ b \in dag'[v] /\ b.author = v /\ b.round = c.round
      BY SMTT(30), <1>0, <1>1, <1>2, <1>3, <1>4, SignsCoreStep
    <2>2. dag' = [dag EXCEPT ![v] = D \cup {b}]
      BY Zenon, <1>4 DEF Signs
    <2>3. dag'[v] = D \cup {b}
      BY Zenon, <1>0, <2>2 DEF DagInv, CoreTypes
    <2>. QED  BY ZenonT(30), <1>1, <2>1, <2>3
  <1>5. CASE /\ Accepts(v, D, c, last_included[v], last_signaled[v])
             /\ UNCHANGED <<stored, stopped, sent, panicked>>
             /\ ~force \/ ~MayPropose(v, D, c, known'[v], delayed'[v])
    <2>1. D \subseteq sent'
      BY Zenon, <1>0, <1>5 DEF Live, Grown
    <2>2. CoreStep(v) /\ dag'[v] = D /\ clock'[v] = c
      BY ZenonT(30), <1>0, <1>1, <1>2, <1>5, <2>1, AcceptsCoreStep
    <2>. QED  BY Zenon, <1>1, <1>5, <2>2
  <1>. QED  BY Zenon, <1>4, <1>5, LiveKinds

LEMMA StartCoreStep ==
    ASSUME LowestExists, DagInv, SentInv, ClockRecovers, NEW v \in Up, Restart(v) \/ Wipe(v),
           NEW D, Closed(ancestors, D), Start(v, D)
    PROVE  CoreStep(v) /\ D \subseteq dag'[v]
  <1>. DEFINE c == RecoveredClock(D)
              last == last_proposed_round(v, D)
  <1>0. v \in Authorities /\ D \subseteq Refs /\ Genesis \subseteq D
    BY Zenon, ProposerAssumption DEF DagInv, CoreTypes, Closed
  <1>1. faults'.starts \in Nat /\ faults'.starts = faults.starts + 1
    BY Zenon, RestartsFrom
  <1>2. /\ Prepared(v, D, c, NothingIncluded) /\ last \in Nat
        /\ \/ \E parents, l, b : Signs(v, D, c, last, parents, l, b)
           \/ /\ Accepts(v, D, c, NothingIncluded, last)
              /\ sent' = sent \cup D
    BY Zenon, <1>1, StartKinds
  <1>3. last <= c.round
    <2>1. \E x \in D : x.round = last
      BY Zenon, <1>0, LastProposed
    <2>. QED  BY Zenon, <1>2, <2>1 DEF Prepared, Follows
  <1>. HIDE DEF c, last
  <1>4. ASSUME NEW parents, NEW l, NEW b, Signs(v, D, c, last, parents, l, b)
        PROVE  CoreStep(v) /\ D \subseteq dag'[v]
    <2>1. CoreStep(v)
      BY Zenon, <1>1, <1>2, <1>3, <1>4, SignsCoreStep
    <2>2. dag' = [dag EXCEPT ![v] = D \cup {b}]
      BY Zenon, <1>4 DEF Signs
    <2>3. dag'[v] = D \cup {b}
      BY Zenon, <1>0, <2>2 DEF DagInv, CoreTypes
    <2>. QED  BY Zenon, <2>1, <2>3
  <1>5. CASE Accepts(v, D, c, NothingIncluded, last) /\ sent' = sent \cup D
    <2>1. D \subseteq sent'
      BY Zenon, <1>5
    <2>. QED  BY Zenon, <1>2, <1>3, <1>5, <2>1, AcceptsCoreStep
  <1>. QED  BY Zenon, <1>2, <1>4, <1>5

LEMMA OthersAtRest ==
    ASSUME RestInv, NEW v \in Up, CoreStep(v), NEW w \in Up, w # v,
           known'[w] = known[w], sync'[w] = sync[w], timer'[w] = timer[w], delayed'[w] = delayed[w]
    PROVE  SignalInv(w)' /\ KnownInv(w)' /\ ForcedInv(w)'
  <1>0. w \in Authorities \ {v} /\ SignalInv(w) /\ KnownInv(w) /\ ForcedInv(w)
    BY Zenon, ProposerAssumption DEF RestInv
  <1>1. /\ dag'[w] = dag[w] /\ clock'[w] = clock[w] /\ stopped'[w] = stopped[w]
        /\ last_signaled'[w] = last_signaled[w] /\ sent \subseteq sent'
    BY Zenon, <1>0 DEF CoreStep
  <1>2. SignalInv(w)'
    BY Zenon, <1>0, <1>1 DEF SignalInv
  <1>3. KnownInv(w)'
    BY Zenon, <1>0, <1>1 DEF KnownInv, RoundOf
  <1>4. ForcedInv(w)'
    BY Zenon, <1>0, <1>1 DEF ForcedInv, should_propose
  <1>. QED  BY Zenon, <1>2, <1>3, <1>4

LEMMA RunCoreStep ==
    ASSUME LowestExists, DagInv, RestInv, NEW v \in Up, Run(v) \/ DelayTooHigh(v)
    PROVE  CoreStep(v) /\ dag[v] \subseteq dag'[v]
  <1>1. CASE Idle
    BY Zenon, <1>1, ProposerAssumption DEF Idle, CoreStep, RestInv, SentInv, SignalInv
  <1>2. CASE \E D, c, force : Live(v, D, c, force)
    BY Zenon, <1>2, LiveCoreStep
  <1>. QED  BY Zenon, <1>1, <1>2, RunKinds

\* The clock of a running validator does not go back.
LEMMA ClockForward ==
    ASSUME LowestExists, DagInv, DagInv', NEW v \in Up, dag[v] \subseteq dag'[v]
    PROVE  /\ clock[v].round <= clock'[v].round
           /\ clock[v].round \in Nat \ {0} /\ clock'[v].round \in Nat \ {0}
           /\ timer[v].round \in Nat
           /\ last_proposed_round(v, dag[v]) <= last_proposed_round(v, dag'[v])
           /\ last_proposed_round(v, dag[v]) \in Nat /\ last_proposed_round(v, dag'[v]) \in Nat
           /\ \A x \in dag'[v] : x.author = v => x.round <= last_proposed_round(v, dag'[v])
           /\ \A x \in dag'[v] : x.round \in Nat
  <1>0. v \in Authorities
    BY Zenon, ProposerAssumption
  <1>1. Follows(clock[v], dag[v]) /\ Genesis \subseteq dag[v]
    BY Zenon, <1>0 DEF DagInv, ValidatorInv, Closed
  <1>2. Follows(clock'[v], dag'[v])
    BY Zenon, <1>0 DEF DagInv, ValidatorInv, Follows, HasQuorum
  <1>3. dag'[v] \subseteq Refs /\ timer[v].round \in Nat
    BY Zenon, <1>0 DEF DagInv, CoreTypes, TaskTypes
  <1>4. \A x \in dag'[v] : x.round \in Nat
    BY SMTT(30), <1>3, ProposerAssumption DEF Refs
  <1>5. clock[v].round <= clock'[v].round /\ clock[v].round \in Nat \ {0} /\ clock'[v].round \in Nat \ {0}
    BY Zenon, <1>1, <1>2, <1>3, ClockGrows
  <1>6. Genesis \subseteq dag'[v]
    BY ZenonT(30), <1>1
  <1>. QED  BY Zenon, <1>0, <1>1, <1>3, <1>4, <1>5, <1>6, LastProposed, LastProposedGrows

LEMMA QuietStep ==
    ASSUME LowestExists, DagInv, DagInv', RestInv, NEW v \in Up, dag[v] \subseteq dag'[v],
           timer'[v] = timer[v], known'[v] = known[v], delayed'[v] = delayed[v]
    PROVE  ForcedInv(v)'
  <1>. SUFFICES ASSUME timer[v].round = clock'[v].round, timer[v].fired = "max",
                       should_propose(clock'[v].round, known[v], delayed[v]), clock'[v].round <= MaxRound
                PROVE  last_proposed_round(v, dag'[v]) >= clock'[v].round
    BY Zenon DEF ForcedInv, should_propose, last_proposed_round, Latest
  <1>1. /\ clock[v].round <= clock'[v].round
        /\ clock[v].round \in Nat /\ clock'[v].round \in Nat
        /\ last_proposed_round(v, dag[v]) <= last_proposed_round(v, dag'[v])
        /\ last_proposed_round(v, dag[v]) \in Nat /\ last_proposed_round(v, dag'[v]) \in Nat
    BY Zenon, ClockForward
  <1>2. timer[v].round <= clock[v].round
    BY Zenon DEF RestInv, SignalInv
  <1>3. clock'[v].round = clock[v].round
    BY <1>1, <1>2
  <1>4. last_proposed_round(v, dag[v]) >= clock[v].round
    BY Zenon, <1>3 DEF RestInv, ForcedInv
  <1>. QED  BY <1>1, <1>3, <1>4

LEMMA ForcedStep ==
    ASSUME LowestExists, DagInv, DagInv', RestInv, NEW v \in Up, Live(v, dag[v], clock[v], TRUE),
           timer'[v].round = timer[v].round
    PROVE  ForcedInv(v)'
  <1>. SUFFICES ASSUME timer[v].round = clock'[v].round,
                       should_propose(clock'[v].round, known'[v], delayed'[v]), clock'[v].round <= MaxRound
                PROVE  last_proposed_round(v, dag'[v]) >= clock'[v].round
    BY Zenon DEF ForcedInv, should_propose, last_proposed_round, Latest
  <1>1. /\ dag[v] \subseteq dag'[v]
        /\ \/ \E b \in dag'[v] : b.author = v /\ b.round = clock[v].round
           \/ /\ dag'[v] = dag[v] /\ clock'[v] = clock[v]
              /\ ~MayPropose(v, dag[v], clock[v], known'[v], delayed'[v])
    <2>1. /\ CoreStep(v) /\ dag[v] \subseteq dag'[v]
          /\ \/ \E b \in dag'[v] : b.author = v /\ b.round = clock[v].round
             \/ /\ dag'[v] = dag[v] /\ clock'[v] = clock[v]
                /\ ~TRUE \/ ~MayPropose(v, dag[v], clock[v], known'[v], delayed'[v])
      BY Zenon, LiveCoreStep
    <2>. QED  BY Zenon, <2>1
  <1>2. /\ clock[v].round <= clock'[v].round
        /\ clock[v].round \in Nat /\ clock'[v].round \in Nat
        /\ last_proposed_round(v, dag'[v]) \in Nat
        /\ \A x \in dag'[v] : x.author = v => x.round <= last_proposed_round(v, dag'[v])
    BY Zenon, <1>1, ClockForward
  <1>3. timer[v].round <= clock[v].round
    BY Zenon DEF RestInv, SignalInv
  <1>4. clock'[v].round = clock[v].round
    BY SMTT(30), <1>2, <1>3
  <1>5. CASE \E b \in dag'[v] : b.author = v /\ b.round = clock[v].round
    BY ZenonT(30), <1>2, <1>4, <1>5
  <1>6. CASE /\ dag'[v] = dag[v] /\ clock'[v] = clock[v]
             /\ ~MayPropose(v, dag[v], clock[v], known'[v], delayed'[v])
    BY <1>2, <1>6 DEF MayPropose
  <1>. QED  BY Zenon, <1>1, <1>5, <1>6

LEMMA RunForced ==
    ASSUME LowestExists, DagInv, DagInv', RestInv, NEW v \in Up, Run(v) \/ DelayTooHigh(v)
    PROVE  ForcedInv(v)'
  <1>0. v \in Authorities /\ TaskTypes /\ TaskTypes' /\ dag[v] \subseteq dag'[v]
    BY Zenon, RunCoreStep, ProposerAssumption DEF DagInv
  <1>1. CASE timer'[v].fired # "max" \/ delayed'[v]
    BY Zenon, <1>1 DEF ForcedInv, should_propose
  <1>2. CASE timer' = timer /\ known' = known /\ delayed' = delayed
    BY Zenon, <1>0, <1>2, QuietStep
  <1>g. Grown(v, dag[v], clock[v])
    BY Zenon DEF Grown
  <1>3. CASE MaxTimeout(v)
    <2>1. /\ ~stopped[v] /\ timer'[v].round = timer[v].round
          /\ UNCHANGED <<known, sync, delayed, faults, forgotten>>
      BY ZenonT(30), <1>0, <1>3 DEF MaxTimeout, TaskTypes
    <2>2. CASE TryPropose(v, dag[v], clock[v], known[v], delayed[v], TRUE)
      <3>1. Live(v, dag[v], clock[v], TRUE)
        BY Zenon, <1>g, <2>1, <2>2 DEF Live
      <3>. QED  BY Zenon, <2>1, <3>1, ForcedStep
    <2>3. CASE last_proposed_round(v, dag[v]) >= timer[v].round /\ UNCHANGED core
      BY Zenon, <2>1, <2>3 DEF ForcedInv, core
    <2>. QED  BY Zenon, <1>3, <2>2, <2>3 DEF MaxTimeout, NewBlockCommand
  <1>4. CASE DelayAcceptable(v)
    <2>1. /\ ~stopped[v] /\ timer'[v].round = timer[v].round
          /\ UNCHANGED <<known, faults, forgotten>> /\ delayed'[v] = FALSE
          /\ TryPropose(v, dag[v], clock[v], known[v], FALSE, TRUE)
      BY Zenon, <1>0, <1>4 DEF DelayAcceptable, TaskTypes
    <2>2. Live(v, dag[v], clock[v], TRUE)
      BY Zenon, <1>g, <2>1 DEF Live
    <2>. QED  BY Zenon, <2>1, <2>2, ForcedStep
  <1>5. CASE EndFetchOwnLastBlock(v) /\ EnoughReplies(sync[v].replied)
    <2>1. /\ ~stopped[v] /\ timer'[v].round = timer[v].round
          /\ UNCHANGED <<faults, delayed, forgotten>> /\ known'[v] = sync[v].highest
          /\ TryPropose(v, dag[v], clock[v], sync[v].highest, delayed[v], TRUE)
      BY Zenon, <1>0, <1>5 DEF EndFetchOwnLastBlock, TaskTypes
    <2>2. Live(v, dag[v], clock[v], TRUE)
      BY Zenon, <1>g, <2>1 DEF Live
    <2>. QED  BY Zenon, <2>1, <2>2, ForcedStep
  <1>6. CASE AddBlock(v) \/ FetchOwnLastBlock(v) \/ (EndFetchOwnLastBlock(v) /\ ~EnoughReplies(sync[v].replied))
    BY Zenon, <1>2, <1>6 DEF AddBlock, FetchOwnLastBlock, EndFetchOwnLastBlock
  <1>7. CASE NewRound(v) \/ MinTimeout(v) \/ DelayTooHigh(v)
    <2>1. CASE NewRound(v)
      BY Zenon, <1>0, <1>1, <2>1 DEF NewRound, TaskTypes
    <2>2. CASE MinTimeout(v)
      BY ZenonT(30), <1>0, <1>1, <2>2 DEF MinTimeout, TaskTypes
    <2>3. CASE DelayTooHigh(v)
      BY Zenon, <1>0, <1>1, <2>3 DEF DelayTooHigh, TaskTypes
    <2>. QED  BY Zenon, <1>7, <2>1, <2>2, <2>3
  <1>. QED  BY Zenon, <1>3, <1>4, <1>5, <1>6, <1>7 DEF Run

LEMMA RunKnown ==
    ASSUME LowestExists, DagInv, RestInv, NEW v \in Up, Run(v) \/ DelayTooHigh(v)
    PROVE  KnownInv(v)'
  <1>0. v \in Authorities /\ TaskTypes /\ KnownInv(v) /\ sent \subseteq sent'
    BY Zenon, RunCoreStep, ProposerAssumption DEF DagInv, RestInv, CoreStep
  <1>1. CASE known' = known /\ sync' = sync
    BY Zenon, <1>0, <1>1 DEF KnownInv, RoundOf
  <1>2. CASE FetchOwnLastBlock(v)
    <2>1. PICK p \in Up \ ({v} \cup sync[v].replied) :
            /\ ~stopped[p] /\ known' = known /\ sync[v].on
            /\ sync' = [sync EXCEPT ![v] =
                                    [on |-> TRUE, replied |-> sync[v].replied \cup {p},
                                     highest |-> IF last_proposed_round(v, dag[p]) > sync[v].highest
                                                 THEN last_proposed_round(v, dag[p]) ELSE sync[v].highest]]
      BY Zenon, <1>2 DEF FetchOwnLastBlock
    <2>2. sync'[v].on /\ sync'[v].highest \in {last_proposed_round(v, dag[p]), sync[v].highest}
      BY Zenon, <1>0, <2>1 DEF TaskTypes
    <2>3. dag[p] \subseteq sent /\ p \in Authorities
      BY Zenon, <2>1, ProposerAssumption DEF RestInv, SignalInv
    <2>4. \E b \in dag[p] : b.author = v /\ b.round = last_proposed_round(v, dag[p])
      <3>1. dag[p] \subseteq Refs /\ Genesis \subseteq dag[p]
        BY Zenon, <2>3 DEF DagInv, CoreTypes, ValidatorInv, Closed
      <3>. QED  BY Zenon, <1>0, <3>1, LastProposed
    <2>5. sync'[v].highest = 0 \/ \E b \in sent' : b.author = v /\ b.round = sync'[v].highest
      BY ZenonT(30), <1>0, <2>2, <2>3, <2>4 DEF KnownInv, RoundOf
    <2>. QED  BY Zenon, <1>0, <2>1, <2>2, <2>5 DEF KnownInv, RoundOf
  <1>3. CASE EndFetchOwnLastBlock(v)
    <2>1. \/ known'[v] = sync[v].highest /\ sync'[v] = NotSyncing
          \/ known' = known /\ sync'[v] = Syncing
      BY ZenonT(30), <1>0, <1>3 DEF EndFetchOwnLastBlock, TaskTypes
    <2>2. sync[v].highest # None
      BY SMTT(30), <1>0, ProposerAssumption DEF TaskTypes
    <2>. QED  BY SMTT(30), <1>0, <2>1, <2>2 DEF KnownInv, RoundOf, Syncing, NotSyncing
  <1>4. CASE \/ AddBlock(v) \/ NewRound(v) \/ MinTimeout(v) \/ MaxTimeout(v)
             \/ DelayAcceptable(v) \/ DelayTooHigh(v)
    BY Zenon, <1>1, <1>4 DEF AddBlock, NewRound, MinTimeout, MaxTimeout, DelayAcceptable, DelayTooHigh
  <1>. QED  BY Zenon, <1>2, <1>3, <1>4 DEF Run

LEMMA RunTimers ==
    ASSUME DagInv, NEW v \in Up, Run(v) \/ DelayTooHigh(v)
    PROVE  /\ timer'[v].round \in {timer[v].round, last_signaled[v]}
           /\ \A w \in Authorities \ {v} : /\ known'[w] = known[w] /\ sync'[w] = sync[w]
                                           /\ timer'[w] = timer[w] /\ delayed'[w] = delayed[w]
  <1>0. v \in Authorities /\ TaskTypes
    BY Zenon, ProposerAssumption DEF DagInv
  <1>1. CASE AddBlock(v)
    BY Zenon, <1>0, <1>1 DEF AddBlock, TaskTypes
  <1>2. CASE NewRound(v)
    BY Zenon, <1>0, <1>2 DEF NewRound, TaskTypes
  <1>3. CASE MinTimeout(v)
    BY Zenon, <1>0, <1>3 DEF MinTimeout, TaskTypes
  <1>4. CASE MaxTimeout(v)
    BY Zenon, <1>0, <1>4 DEF MaxTimeout, TaskTypes
  <1>5. CASE DelayAcceptable(v)
    BY Zenon, <1>0, <1>5 DEF DelayAcceptable, TaskTypes
  <1>6. CASE FetchOwnLastBlock(v)
    BY ZenonT(30), <1>0, <1>6 DEF FetchOwnLastBlock, TaskTypes
  <1>7. CASE EndFetchOwnLastBlock(v)
    BY Zenon, <1>0, <1>7 DEF EndFetchOwnLastBlock, TaskTypes
  <1>8. CASE DelayTooHigh(v)
    BY Zenon, <1>0, <1>8 DEF DelayTooHigh, TaskTypes
  <1>. QED  BY Zenon, <1>1, <1>2, <1>3, <1>4, <1>5, <1>6, <1>7, <1>8 DEF Run

LEMMA NextRestInv ==
    ASSUME LowestExists, DagInv, DagInv', RestInv, ClockRecovers, [Next]_vars
    PROVE  RestInv'
  <1>1. CASE UNCHANGED vars
    BY ZenonT(30), <1>1 DEF vars, core, RestInv, SentInv, SignalInv, KnownInv, ForcedInv, RoundOf, should_propose
  <1>2. ASSUME NEW v \in Up, Run(v) \/ DelayTooHigh(v)  PROVE RestInv'
    <2>1. CoreStep(v) /\ dag[v] \subseteq dag'[v]
      BY Zenon, <1>2, RunCoreStep
    <2>2. ForcedInv(v)' /\ KnownInv(v)'
      BY Zenon, <1>2, RunForced, RunKnown
    <2>3. SignalInv(v)'
      <3>1. /\ clock[v].round <= clock'[v].round
            /\ clock[v].round \in Nat /\ clock'[v].round \in Nat /\ timer[v].round \in Nat
        BY Zenon, <2>1, ClockForward
      <3>2. timer[v].round <= clock[v].round /\ last_signaled[v] = clock[v].round
        BY Zenon DEF RestInv, SignalInv
      <3>3. timer'[v].round \in {timer[v].round, last_signaled[v]}
        BY ZenonT(30), <1>2, RunTimers
      <3>4. timer'[v].round <= clock'[v].round
        BY <3>1, <3>2, <3>3
      <3>. QED  BY Zenon, <2>1, <3>4 DEF SignalInv, CoreStep
    <2>4. ASSUME NEW w \in Up, w # v  PROVE SignalInv(w)' /\ KnownInv(w)' /\ ForcedInv(w)'
      <3>1. w \in Authorities \ {v}
        BY Zenon, <2>4, ProposerAssumption
      <3>. QED  BY Zenon, <1>2, <2>1, <2>4, <3>1, RunTimers, OthersAtRest
    <2>. QED  BY Zenon, <2>1, <2>2, <2>3, <2>4 DEF RestInv, CoreStep
  <1>3. ASSUME NEW v \in Up, Restart(v) \/ Wipe(v)  PROVE RestInv'
    <2>0. PICK D : Closed(ancestors, D) /\ Start(v, D)
      BY Zenon, <1>3, RestartsFrom
    <2>1. CoreStep(v) /\ D \subseteq dag'[v]
      BY Zenon, <1>3, <2>0, StartCoreStep DEF RestInv
    <2>2. /\ known'[v] = IF v \in SyncOwnBlock THEN None ELSE 0
          /\ sync'[v].highest = 0 /\ (sync'[v].on <=> v \in SyncOwnBlock)
          /\ timer'[v] = [round |-> last_proposed_round(v, D), fired |-> "none"]
          /\ \A w \in Authorities \ {v} : /\ known'[w] = known[w] /\ sync'[w] = sync[w]
                                          /\ timer'[w] = timer[w] /\ delayed'[w] = delayed[w]
      BY ZenonT(30), <2>0, StartTasks
    <2>3. KnownInv(v)' /\ ForcedInv(v)'
      BY SMTT(30), <2>2, ProposerAssumption DEF KnownInv, ForcedInv, RoundOf
    <2>4. SignalInv(v)'
      <3>1. v \in Authorities /\ D \subseteq Refs /\ Genesis \subseteq D
        BY Zenon, <2>0, ProposerAssumption DEF DagInv, CoreTypes, Closed
      <3>2. PICK x \in D : x.round = last_proposed_round(v, D)
        BY Zenon, <3>1, LastProposed
      <3>3. \A y \in dag'[v] : y.round <= clock'[v].round
        BY ZenonT(30), <3>1 DEF DagInv, ValidatorInv, Follows
      <3>4. timer'[v].round <= clock'[v].round
        <4>. DEFINE lp == last_proposed_round(v, D)
        <4>1. timer'[v] = [round |-> lp, fired |-> "none"]
          BY Zenon, <2>2
        <4>. HIDE DEF lp
        <4>2. timer'[v].round = lp
          BY SMTT(30), <4>1
        <4>. QED  BY Zenon, <2>1, <3>2, <3>3, <4>2 DEF lp
      <3>. QED  BY Zenon, <2>1, <3>4 DEF SignalInv, CoreStep
    <2>5. ASSUME NEW w \in Up, w # v  PROVE SignalInv(w)' /\ KnownInv(w)' /\ ForcedInv(w)'
      <3>1. w \in Authorities \ {v}
        BY Zenon, <2>5, ProposerAssumption
      <3>. QED  BY Zenon, <2>1, <2>2, <2>5, <3>1, OthersAtRest
    <2>. QED  BY Zenon, <2>1, <2>3, <2>4, <2>5 DEF RestInv, CoreStep
  <1>. QED  BY Zenon, <1>1, <1>2, <1>3 DEF Next

LEMMA InitRestInv ==
    ASSUME Init, DagInv
    PROVE  RestInv
  <1>1. SentInv
    <2>1. Genesis \subseteq sent /\ \A b \in sent : ancestors[b] \in {{}, Genesis}
      BY Zenon DEF Init
    <2>. QED  BY Zenon, <2>1 DEF SentInv
  <1>2. ASSUME NEW v \in Up  PROVE SignalInv(v) /\ KnownInv(v) /\ ForcedInv(v)
    <2>1. v \in Authorities
      BY Zenon, ProposerAssumption
    <2>2. timer[v] = [round |-> 0, fired |-> "none"] /\ last_signaled[v] = clock[v].round
      BY Zenon, <2>1 DEF Init
    <2>3. /\ known[v] = IF v \in SyncOwnBlock THEN None ELSE 0
          /\ sync[v] = IF v \in SyncOwnBlock THEN Syncing ELSE NotSyncing
      BY Zenon, <2>1 DEF Init
    <2>4. clock[v].round \in Nat
      BY Zenon, <2>1 DEF DagInv, CoreTypes, Clocks
    <2>5. dag[v] \subseteq sent
      BY Zenon, <2>1 DEF Init
    <2>6. SignalInv(v)
      BY SMTT(30), <2>2, <2>4, <2>5 DEF SignalInv
    <2>7. KnownInv(v)
      <3>1. sync[v].highest = 0 /\ (v \in SyncOwnBlock => sync[v].on)
        BY SMTT(30), <2>3 DEF Syncing, NotSyncing
      <3>2. 0 # None
        BY SMTT(30), ProposerAssumption
      <3>. QED  BY Zenon, <2>3, <3>1, <3>2 DEF KnownInv, RoundOf
    <2>8. ForcedInv(v)
      BY SMTT(30), <2>2 DEF ForcedInv
    <2>. QED  BY Zenon, <2>6, <2>7, <2>8
  <1>. QED  BY Zenon, <1>1, <1>2 DEF RestInv

\* At rest every validator has every block that was broadcast.
LEMMA AllAccepted ==
    ASSUME LowestExists, DagInv, RestInv, NEW v \in Up, AtRest(v)
    PROVE  dag[v] = sent
  <1>0. v \in Authorities /\ dag[v] \subseteq sent /\ SentInv
    BY Zenon, ProposerAssumption DEF RestInv, SignalInv, AtRest
  <1>. SUFFICES ASSUME sent \ dag[v] # {}  PROVE FALSE
    BY ZenonT(30), <1>0
  <1>. DEFINE T == {b.round : b \in sent \ dag[v]}
  <1>1. \A b \in sent : b \in DOMAIN ancestors /\ b.round \in Nat
    BY SMTT(30), ProposerAssumption DEF DagInv, CoreTypes, Refs
  <1>2. T \subseteq Nat /\ T # {}
    BY Zenon, <1>1
  <1>4. PICK r \in T : \A t \in T : ~ (t < r)
    BY Zenon, <1>2 DEF LowestExists
  <1>5. PICK b \in sent \ dag[v] : b.round = r
    BY Zenon
  <1>6. \A x \in ancestors[b] : x \in sent /\ x.round < r
    BY Zenon, <1>0, <1>1, <1>5 DEF SentInv, DagInv, BlocksInv
  <1>7. ancestors[b] \subseteq dag[v]
    BY Zenon, <1>4, <1>6
  <1>. QED  BY Zenon, <1>5, <1>7 DEF AtRest

LEMMA RestIsTheEnd ==
    ASSUME LowestExists, DagInv, RestInv
    PROVE  NobodyGetsStuck
  <1>. SUFFICES ASSUME \A w \in Up : AtRest(w), NEW v \in Up, ~(clock[v].round > MaxRound)
                PROVE  FALSE
    BY Zenon DEF NobodyGetsStuck
  <1>. DEFINE r == clock[v].round
  <1>0. Up \subseteq Authorities /\ MaxRound \in Nat /\ sent \subseteq Refs
    BY Zenon, ProposerAssumption DEF DagInv, CoreTypes
  <1>1. \A w \in Up : dag[w] = sent /\ Follows(clock[w], sent)
    BY ZenonT(30), <1>0, AllAccepted DEF DagInv, ValidatorInv
  <1>2. \A w \in Up : clock[w].round = r /\ r \in Nat \ {0}
    <2>1. \A w \in Up : /\ clock[w].round <= r /\ r <= clock[w].round
                        /\ clock[w].round \in Nat \ {0} /\ r \in Nat \ {0}
      BY Zenon, <1>0, <1>1, ClockGrows
    <2>2. \A x, y \in Nat \ {0} : x <= y /\ y <= x => x = y
      OBVIOUS
    <2>. QED  BY Zenon, <2>1, <2>2
  <1>3. r <= MaxRound
    <2>1. \A x, y \in Nat : ~(x > y) => x <= y
      OBVIOUS
    <2>2. r \in Nat
      BY Zenon, <1>2
    <2>. HIDE DEF r
    <2>. QED  BY Zenon, <1>0, <2>1, <2>2 DEF r
  <1>4. ASSUME NEW w \in Up  PROVE \E b \in sent : b.author = w /\ b.round = r
    <2>1. /\ timer[w].round = r /\ timer[w].fired = "max" /\ ~delayed[w]
          /\ known[w] # None /\ RoundOf(w, known[w])
      <3>1. AtRest(w) /\ SignalInv(w) /\ KnownInv(w)
        BY Zenon DEF RestInv
      <3>2. timer[w].round = last_signaled[w] /\ timer[w].fired = "max" /\ ~delayed[w] /\ ~sync[w].on
        BY SMTT(30), <3>1 DEF AtRest
      <3>. QED  BY Zenon, <1>2, <3>1, <3>2 DEF SignalInv, KnownInv
    <2>2. known[w] \in Nat
      BY Zenon, <1>0, <2>1 DEF DagInv, TaskTypes
    <2>3. \A b \in sent : b.round <= r
      BY Zenon, <1>1 DEF Follows
    <2>4. CASE r > known[w]
      <3>1. last_proposed_round(w, dag[w]) >= r
        BY Zenon, <1>2, <1>3, <2>1, <2>4 DEF RestInv, ForcedInv, should_propose
      <3>2. dag[w] \subseteq Refs /\ Genesis \subseteq dag[w]
        BY Zenon, <1>0, <1>1 DEF DagInv, ValidatorInv, Closed
      <3>3. PICK b \in sent : b.author = w /\ b.round = last_proposed_round(w, dag[w])
        BY Zenon, <1>0, <1>1, <3>2, LastProposed
      <3>4. b.round \in Nat
        BY <1>0 DEF Refs
      <3>. QED  BY SMTT(30), <1>2, <2>3, <3>1, <3>3, <3>4
    <2>5. CASE known[w] >= r
      <3>1. PICK b \in sent : b.author = w /\ b.round = known[w]
        BY SMTT(30), <1>2, <2>1, <2>5 DEF RoundOf
      <3>. QED  BY SMTT(30), <1>2, <2>2, <2>3, <2>5, <3>1
    <2>. QED  BY <1>2, <2>2, <2>4, <2>5
  <1>5. Up \subseteq Authors(At(sent, r))
    BY Zenon, <1>4 DEF Authors, At
  <1>6. HasQuorum(sent, r)
    BY Zenon, <1>0, <1>5, AuthorsAreAuthorities, QuorumGrows, ProposerAssumption DEF HasQuorum, ReachesQuorum
  <1>. QED  BY Zenon, <1>1, <1>6 DEF Follows, HasQuorum

-----------------------------------------------------------------------------
(* The clock after a start.                                                 *)

INSTANCE FiniteSetTheorems

LEMMA NatIsWellOrdered == LowestExists
  <1>. SUFFICES ASSUME NEW T \in SUBSET Nat, T # {}  PROVE \E m \in T : \A x \in T : ~ (x < m)
    BY Zenon DEF LowestExists
  <1>1. PICK m \in T : \A x \in T : ~ (<<x, m>> \in OpToRel(<, Nat))
    BY Zenon, NatLessThanWellFounded, WFMin
  <1>. QED  BY ZenonT(30), <1>1 DEF OpToRel

LEMMA RefsAreFinite ==
    ASSUME NEW n \in Nat, NEW D \in SUBSET Refs, \A b \in D : b.life <= n
    PROVE  IsFiniteSet(D)
  <1>. DEFINE P == (Authorities \X (0 .. MaxRound)) \X (0 .. n)
              T == [author : Authorities, round : 0 .. MaxRound, life : 0 .. n]
              f == [p \in P |-> [author |-> p[1][1], round |-> p[1][2], life |-> p[2]]]
  <1>1. IsFiniteSet(P)
    <2>1. IsFiniteSet(0 .. MaxRound) /\ IsFiniteSet(0 .. n)
      BY SMTT(30), FS_Interval, ProposerAssumption
    <2>2. IsFiniteSet(Authorities \X (0 .. MaxRound))
      BY Zenon, <2>1, FS_Product, ProposerAssumption
    <2>. QED  BY ZenonT(30), <2>1, <2>2, FS_Product
  <1>2. f \in Surjection(P, T)
    <2>1. f \in [P -> T]
      BY Zenon
    <2>2. ASSUME NEW t \in T  PROVE \E p \in P : f[p] = t
      <3>1. <<<<t.author, t.round>>, t.life>> \in P
        BY ZenonT(30)
      <3>2. f[<<<<t.author, t.round>>, t.life>>] = t
        BY Zenon, <3>1
      <3>. QED  BY ZenonT(30), <3>1, <3>2
    <2>. QED  BY Zenon, <2>1, <2>2 DEF Surjection
  <1>. HIDE DEF P, f
  <1>3. IsFiniteSet(T)
    BY ZenonT(30), <1>1, <1>2, FS_Surjection
  <1>4. D \in SUBSET T
    BY DEF Refs
  <1>. QED  BY ZenonT(30), <1>3, <1>4, FS_Subset

LastOf(S) == CHOOSE b \in S : \A x \in S : x.round <= b.round

\* The function g on the sets of W is the recursion of RecoveredClock.
Recovery(W, g) ==
    g = [S \in W |-> IF S = {} THEN NewClock ELSE add_block(g[S \ {LastOf(S)}], LastOf(S))]

LEMMA RecoveredClockIs ==
    ASSUME NEW D
    PROVE  RecoveredClock(D) = (CHOOSE g : Recovery(SUBSET D, g))[D]
  BY Zenon DEF RecoveredClock, Recovery, LastOf

LEMMA LastOfIs ==
    ASSUME NEW S \in SUBSET Refs, S # {}
    PROVE  LastOf(S) \in S /\ \A x \in S : x.round <= LastOf(S).round
  <1>. DEFINE T == {x.round : x \in S}
  <1>1. T \subseteq 0 .. MaxRound /\ T # {}
    BY Zenon DEF Refs
  <1>2. PICK m \in T : \A t \in T : t <= m
    BY Zenon, <1>1, NatIsWellOrdered, HighestExists
  <1>3. \E b \in S : \A x \in S : x.round <= b.round
    BY ZenonT(30), <1>2
  <1>. QED  BY Zenon, <1>3 DEF LastOf

\* The recursion goes down to smaller sets, and so defines a function.
LEMMA RecoveryExists ==
    ASSUME NEW D \in SUBSET Refs, IsFiniteSet(D)
    PROVE  \E g : Recovery(SUBSET D, g)
  <1>. DEFINE Sub(k) == {S \in SUBSET D : Cardinality(S) <= k}
              Bad == {k \in Nat : ~ \E g : Recovery(Sub(k), g)}
  <1>1. \A S \in SUBSET D : IsFiniteSet(S) /\ Cardinality(S) \in Nat /\ Cardinality(S) <= Cardinality(D)
    BY ZenonT(30), FS_Subset, FS_CardinalityType
  <1>2. Cardinality(D) \in Nat
    BY ZenonT(30), FS_CardinalityType
  <1>3. \A S \in SUBSET D : S # {} => /\ S \ {LastOf(S)} \in SUBSET D
                                      /\ Cardinality(S \ {LastOf(S)}) = Cardinality(S) - 1
    <2>. SUFFICES ASSUME NEW S \in SUBSET D, S # {}
                  PROVE  Cardinality(S \ {LastOf(S)}) = Cardinality(S) - 1
      BY Zenon
    <2>1. LastOf(S) \in S
      BY ZenonT(30), LastOfIs
    <2>. QED  BY SMTT(30), <1>1, <2>1, FS_RemoveElement
  <1>4. Sub(Cardinality(D)) = SUBSET D
    BY ZenonT(30), <1>1
  <1>5. Bad = {}
    <2>. SUFFICES ASSUME Bad # {}  PROVE FALSE
      BY Zenon
    <2>1. PICK k \in Bad : \A j \in Bad : ~ (j < k)
      <3>1. Bad \subseteq Nat
        BY Zenon
      <3>. HIDE DEF Bad
      <3>. QED  BY ZenonT(30), <3>1, NatIsWellOrdered DEF LowestExists
    <2>2. k \in Nat /\ \A j \in Bad : ~ (j < k)
      BY Zenon, <2>1
    <2>3. ~ \E g : Recovery(Sub(k), g)
      BY Zenon, <2>1
    <2>4. CASE k = 0
      <3>. DEFINE g == [S \in Sub(0) |-> NewClock]
      <3>1. \A S \in Sub(0) : S = {}
        BY SMTT(30), <1>1, FS_EmptySet
      <3>2. Recovery(Sub(0), g)
        BY Zenon, <3>1 DEF Recovery
      <3>. HIDE DEF g
      <3>. QED  BY ZenonT(30), <2>3, <2>4, <3>2
    <2>5. CASE k # 0
      <3>1. k - 1 \in Nat /\ k - 1 < k
        BY <2>2, <2>5
      <3>2. PICK h : Recovery(Sub(k - 1), h)
        BY ZenonT(30), <2>2, <3>1
      <3>. DEFINE g == [S \in Sub(k) |->
                          IF S = {} THEN NewClock ELSE add_block(h[S \ {LastOf(S)}], LastOf(S))]
      <3>3. Sub(k - 1) \subseteq Sub(k)
        BY SMTT(30), <1>1, <2>2
      <3>4. \A S \in Sub(k) : S # {} => S \ {LastOf(S)} \in Sub(k - 1)
        <4>. SUFFICES ASSUME NEW S \in Sub(k), S # {}
                      PROVE  S \ {LastOf(S)} \in SUBSET D /\ Cardinality(S \ {LastOf(S)}) <= k - 1
          BY Zenon
        <4>1. Cardinality(S) \in Nat /\ Cardinality(S) <= k
              /\ S \ {LastOf(S)} \in SUBSET D /\ Cardinality(S \ {LastOf(S)}) = Cardinality(S) - 1
          BY ZenonT(30), <1>1, <1>3
        <4>. QED  BY SMTT(30), <2>2, <4>1
      <3>. HIDE DEF Sub
      <3>5. \A S \in Sub(k - 1) :
                h[S] = IF S = {} THEN NewClock ELSE add_block(h[S \ {LastOf(S)}], LastOf(S))
        BY Zenon, <3>2 DEF Recovery
      <3>6. \A S \in Sub(k - 1) : g[S] = h[S]
        BY Zenon, <3>3, <3>5
      <3>7. \A S \in Sub(k) :
                g[S] = IF S = {} THEN NewClock ELSE add_block(g[S \ {LastOf(S)}], LastOf(S))
        <4>. SUFFICES ASSUME NEW S \in Sub(k), S # {}
                      PROVE  g[S] = add_block(g[S \ {LastOf(S)}], LastOf(S))
          BY Zenon
        <4>1. g[S] = add_block(h[S \ {LastOf(S)}], LastOf(S))
          BY Zenon
        <4>2. g[S \ {LastOf(S)}] = h[S \ {LastOf(S)}]
          BY Zenon, <3>4, <3>6
        <4>. QED  BY Zenon, <4>1, <4>2
      <3>8. DOMAIN g = Sub(k) /\ g = [S \in DOMAIN g |-> g[S]]
        BY Zenon
      <3>. HIDE DEF g
      <3>9. Recovery(Sub(k), g)
        BY ZenonT(30), <3>7, <3>8 DEF Recovery
      <3>. QED  BY ZenonT(30), <2>3, <3>9
    <2>. QED  BY Zenon, <2>4, <2>5
  <1>6. \E g : Recovery(Sub(Cardinality(D)), g)
    BY Zenon, <1>2, <1>5
  <1>. HIDE DEF Sub
  <1>. QED  BY Zenon, <1>4, <1>6

\* The blocks are added in the order of their rounds, so the parents of each are
\* there, and the genesis blocks count as if they had been added first.
LEMMA RecoveredInOrder ==
    ASSUME NEW D \in SUBSET Refs, IsFiniteSet(D), NEW g, Recovery(SUBSET D, g),
           \A b \in D : b.round > 0 => HasQuorum(D, b.round - 1)
    PROVE  \A S \in SUBSET D :
               (\A b \in S, x \in D : x.round < b.round => x \in S) => Follows(g[S], S \cup Genesis)
  <1>. DEFINE Prefix(S) == \A b \in S, x \in D : x.round < b.round => x \in S
              Bad == {S \in SUBSET D : Prefix(S) /\ ~Follows(g[S], S \cup Genesis)}
              Sizes == {Cardinality(S) : S \in Bad}
  <1>0. \A x \in D : x.round \in Nat
    BY ProposerAssumption DEF Refs
  <1>1. \A S \in SUBSET D : IsFiniteSet(S) /\ Cardinality(S) \in Nat
    BY Zenon, FS_Subset, FS_CardinalityType
  <1>. SUFFICES ASSUME Bad # {}  PROVE FALSE
    BY Zenon
  <1>2. Sizes \subseteq Nat /\ Sizes # {}
    BY Zenon, <1>1
  <1>4. PICK k \in Sizes : \A j \in Sizes : ~ (j < k)
    <2>. HIDE DEF Sizes
    <2>. QED  BY ZenonT(30), <1>2, NatIsWellOrdered DEF LowestExists
  <1>5. PICK S \in Bad : k = Cardinality(S)
    BY Zenon
  <1>6. S \in SUBSET D /\ Prefix(S) /\ ~Follows(g[S], S \cup Genesis)
    BY Zenon
  <1>7. \A R \in SUBSET D : Prefix(R) /\ Cardinality(R) < Cardinality(S) => Follows(g[R], R \cup Genesis)
    BY Zenon, <1>4, <1>5
  <1>. HIDE DEF Bad, Sizes
  <1>8. g[S] = IF S = {} THEN NewClock ELSE add_block(g[S \ {LastOf(S)}], LastOf(S))
    BY Zenon, <1>6 DEF Recovery
  <1>9. CASE S = {}
    <2>1. NewClock \in Clocks /\ NewClock.round = 1 /\ NewClock.seen = {}
      BY SMTT(30) DEF NewClock, Clocks
    <2>2. At(Genesis, 1) = {} /\ \A b \in Genesis : b.round <= 1
      BY DEF At, Genesis, Ref
    <2>3. Authors(At(Genesis, 1)) = {}
      BY ZenonT(30), <2>2 DEF Authors
    <2>4. Follows(NewClock, Genesis)
      BY SMTT(30), <2>1, <2>2, <2>3, NoQuorumOfNone, GenesisHasQuorum DEF Follows
    <2>. QED  BY ZenonT(30), <1>6, <1>8, <1>9, <2>4
  <1>10. CASE S # {}
    <2>. DEFINE b == LastOf(S)
                R == S \ {b}
                E == R \cup Genesis
    <2>1. b \in S /\ \A x \in S : x.round <= b.round
      BY ZenonT(30), <1>6, <1>10, LastOfIs
    <2>2. R \in SUBSET D /\ b \in D /\ b \in Refs
      BY ZenonT(30), <1>6, <2>1
    <2>. HIDE DEF b
    <2>3. Cardinality(R) < Cardinality(S)
      <3>1. Cardinality(R) = Cardinality(S) - 1
        BY ZenonT(30), <1>1, <1>6, <2>1, FS_RemoveElement
      <3>. QED  BY <1>1, <1>6, <3>1
    <2>4. Prefix(R)
      <3>. SUFFICES ASSUME NEW y \in R, NEW x \in D, x.round < y.round  PROVE x \in R
        BY ZenonT(30)
      <3>1. x \in S /\ y.round <= b.round
        BY ZenonT(30), <1>6, <2>1
      <3>2. x # b
        BY <1>0, <2>2, <3>1
      <3>. QED  BY ZenonT(30), <3>1, <3>2
    <2>5. Follows(g[R], E)
      BY ZenonT(30), <1>7, <2>2, <2>3, <2>4
    <2>6. E \subseteq Refs
      BY ZenonT(30), <2>2, GenesisHasQuorum
    <2>7. b.round > 0 => HasQuorum(E, b.round - 1)
      <3>. SUFFICES ASSUME b.round > 0  PROVE HasQuorum(E, b.round - 1)
        BY ZenonT(30)
      <3>1. HasQuorum(D, b.round - 1)
        BY ZenonT(30), <2>2
      <3>2. At(D, b.round - 1) \subseteq E
        <4>. SUFFICES ASSUME NEW x \in D, x.round = b.round - 1  PROVE x \in R
          BY Zenon DEF At
        <4>1. x.round < b.round /\ x # b
          BY SMTT(30), <1>0, <2>2
        <4>. QED  BY ZenonT(30), <1>6, <2>1, <4>1
      <3>3. Authors(At(D, b.round - 1)) \subseteq Authors(At(E, b.round - 1))
        BY Zenon, <3>2 DEF Authors, At
      <3>. HIDE DEF E
      <3>4. Authors(At(E, b.round - 1)) \subseteq Authorities
        BY Zenon, <2>6, AuthorsAreAuthorities
      <3>. QED  BY ZenonT(30), <3>1, <3>3, <3>4, QuorumGrows DEF HasQuorum
    <2>8. S \cup Genesis = E \cup {b}
      BY Zenon, <2>1
    <2>9. g[S] = add_block(g[R], b)
      BY ZenonT(30), <1>8, <1>10 DEF b
    <2>. HIDE DEF E, R
    <2>10. Follows(add_block(g[R], b), E \cup {b})
      BY ZenonT(30), <2>2, <2>5, <2>6, <2>7, AddedBlock
    <2>. QED  BY ZenonT(30), <1>6, <2>8, <2>9, <2>10
  <1>. QED  BY ZenonT(30), <1>9, <1>10

\* DagState::new brings the clock to where the blocks in storage put it.
LEMMA ClockIsRecovered == ClockRecovers
  <1>. SUFFICES ASSUME NEW n \in Nat, NEW D \in SUBSET Refs, Genesis \subseteq D,
                       \A b \in D : b.life <= n,
                       \A b \in D : b.round > 0 => HasQuorum(D, b.round - 1)
                PROVE  Follows(RecoveredClock(D), D)
    BY Zenon DEF ClockRecovers
  <1>1. IsFiniteSet(D)
    BY Zenon, RefsAreFinite
  <1>. DEFINE g == CHOOSE h : Recovery(SUBSET D, h)
  <1>2. Recovery(SUBSET D, g)
    BY Zenon, <1>1, RecoveryExists
  <1>3. RecoveredClock(D) = g[D]
    BY Zenon, RecoveredClockIs
  <1>. HIDE DEF g
  <1>4. Follows(g[D], D \cup Genesis)
    <2>1. D \in SUBSET D /\ \A b \in D, x \in D : x.round < b.round => x \in D
      BY Zenon
    <2>. QED  BY ZenonT(30), <1>1, <1>2, <2>1, RecoveredInOrder
  <1>5. D \cup Genesis = D
    BY Zenon
  <1>. QED  BY Zenon, <1>3, <1>4, <1>5

-----------------------------------------------------------------------------
(* The theorems.                                                            *)

Inv == DagInv /\ OwnInv /\ PanicInv /\ RestInv

LEMMA InitInv == Init => Inv
  BY ZenonT(30), NatIsWellOrdered, ClockIsRecovered, InitDagInv, InitOwnInv, InitPanicInv, InitRestInv DEF Inv

LEMMA NextInv == Inv /\ [Next]_vars => Inv'
  BY ZenonT(30), NatIsWellOrdered, ClockIsRecovered, NextDagInv, NextOwnInv, NextPanicInv, NextRestInv DEF Inv

LEMMA SpecInv == Spec => []Inv
  BY InitInv, NextInv, PTL DEF Spec

\* The incremental ThresholdClock is where the accepted blocks put it, whatever the
\* order in which they came and whatever was recovered from storage.
THEOREM ClockFollowsTheDagHolds == Spec => []ClockFollowsTheDag
  <1>1. Inv => ClockFollowsTheDag
    BY ZenonT(30) DEF Inv, DagInv, ValidatorInv, Follows, HasQuorum, ClockFollowsTheDag
  <1>. QED  BY <1>1, SpecInv, PTL

\* No assert on the proposal path fails unless a validator has lost a block that no
\* quorum had in storage.
THEOREM NeverPanicsHolds == Spec => []NeverPanics
  <1>1. Inv => NeverPanics
    BY ZenonT(30) DEF Inv, PanicInv
  <1>. QED  BY <1>1, SpecInv, PTL

\* A validator signs one block of a round at most, through every restart, and through
\* the loss of its storage unless the lost block had not reached a quorum.
THEOREM OneBlockPerRoundHolds == Spec => []OneBlockPerRound
  <1>1. Inv => OneBlockPerRound
    <2>. SUFFICES ASSUME Inv, NEW v \in Authorities, NEW r \in 1 .. MaxRound
                  PROVE  Cardinality(SlotBlocks(v, r) \ forgotten) <= 1
      BY ZenonT(30) DEF OneBlockPerRound
    <2>1. \A x, y \in SlotBlocks(v, r) \ forgotten : x = y
      BY SMTT(30), ProposerAssumption DEF Inv, OwnInv, SlotBlocks
    <2>2. CASE SlotBlocks(v, r) \ forgotten = {}
      BY <2>2, FS_EmptySet
    <2>3. CASE SlotBlocks(v, r) \ forgotten # {}
      <3>1. PICK x : SlotBlocks(v, r) \ forgotten = {x}
        BY ZenonT(30), <2>1, <2>3
      <3>2. Cardinality({x}) = 1
        BY ZenonT(30), FS_Singleton
      <3>. QED  BY <3>1, <3>2
    <2>. QED  BY Zenon, <2>2, <2>3
  <1>. QED  BY <1>1, SpecInv, PTL

\* Validators come to rest after the last round only: what a timer could not do
\* because proposing was not allowed yet is done when it becomes so.
THEOREM NobodyGetsStuckHolds == Spec => []NobodyGetsStuck
  <1>1. Inv => NobodyGetsStuck
    BY Zenon, NatIsWellOrdered, RestIsTheEnd DEF Inv
  <1>. QED  BY <1>1, SpecInv, PTL
=============================================================================

------------------------ MODULE FlexCommitter_proof -------------------------
(* Agreement of the commit rule of consensus v3, for every committee, every  *)
(* DAG, every set of validators and any number of restarts.                  *)
(*                                                                           *)
(* First the decisions: what each one rests on, why no two of them differ,   *)
(* and why they determine the commits, which is about sets of decisions and  *)
(* sequences of commits, not about behaviours; and the log of commits: every *)
(* step of FlexCommitter is one of CommitLog, or changes neither the log nor *)
(* a copy of it.  Then the inductive invariant and the theorems.             *)
EXTENDS FlexCommitter, Dag_proof

\* What a certificate and quorums have in common.
LEMMA CertificationFacts ==
    /\ committee.certification + committee.quorum >= Stake[Authorities] + committee.f + 1
    /\ committee.quorum * 2 >= Stake[Authorities] + committee.f + committee.certification
  BY Zenon, CommitteeAssumption, CertificationAssumption
    DEF CertificateMeetsQuorum, CertificateSurvivesQuorum


-----------------------------------------------------------------------------
(* What a decision of the direct rule rests on, and what the indirect rule   *)
(* makes of it.                                                             *)

\* A quorum of blocks of the next round, all with a vote for b.
CommitEvidence(slot, b) ==
    /\ b \in BlocksAt(Blocks, slot)
    /\ \E V \in SUBSET Blocks : /\ \A x \in V : Round[x] = slot[1] + 1 /\ b \in Ancestors[x]
                                /\ ReachesQuorum(V)

\* For each block of the slot, a quorum of blocks without a vote for it.
SkipEvidence(slot) ==
    \A b \in BlocksAt(Blocks, slot) :
        \E V \in SUBSET Blocks : /\ \A x \in V : Round[x] = slot[1] + 1 /\ b \notin Ancestors[x]
                                 /\ ReachesQuorum(V)

DirectEvidence(slot, d) ==
    \/ d \in Blocks /\ CommitEvidence(slot, d)
    \/ d = Skip /\ SkipEvidence(slot)

\* Votes of one block for two blocks of a slot are votes for the same block.
LEMMA OneVotePerSlot ==
    ASSUME NEW slot \in Slots, NEW b \in BlocksAt(Blocks, slot), NEW c \in BlocksAt(Blocks, slot),
           NEW x \in Blocks, b \in Ancestors[x], c \in Ancestors[x]
    PROVE  b = c
  <1>1. Author[b] = Author[c]
    BY Zenon DEF BlocksAt
  <1>2. VerifiedBlock(x)
    BY Zenon, DagAssumption
  <1>. QED  BY Zenon, <1>1, <1>2 DEF VerifiedBlock

LEMMA CertificateMeetsVotes ==
    ASSUME NEW r, NEW V \in SUBSET Blocks, NEW W \in SUBSET Blocks,
           \A x \in V \cup W : Round[x] = r,
           ReachesQuorum(V), ReachesQuorum(W) \/ ReachesCertification(W)
    PROVE  \E x \in V : x \in W
  <1>1. /\ Authors(V) \in SUBSET Authorities /\ Authors(W) \in SUBSET Authorities
        /\ Stake[Authors(V)] \in Nat /\ Stake[Authors(W)] \in Nat
    BY Zenon, AuthorsAreAuthorities, StakeAssumption
  <1>2. Stake[Authors(V)] + Stake[Authors(W)] >= Stake[Authorities] + committee.f + 1
    BY <1>1, CommitteeFacts, CertificationFacts DEF ReachesQuorum, ReachesCertification
  <1>. QED  BY ZenonT(30), <1>2, CommonBlock

\* The direct rule decides a slot in one way only.
LEMMA DirectIsUnique ==
    ASSUME NEW slot \in Slots, NEW d, NEW e, DirectEvidence(slot, d), DirectEvidence(slot, e)
    PROVE  d = e
  <1>1. ASSUME NEW b \in Blocks, NEW c \in Blocks, CommitEvidence(slot, b), CommitEvidence(slot, c)
        PROVE  b = c
    <2>1. PICK V \in SUBSET Blocks : /\ \A x \in V : Round[x] = slot[1] + 1 /\ b \in Ancestors[x]
                                     /\ ReachesQuorum(V)
      BY Zenon, <1>1 DEF CommitEvidence
    <2>2. PICK W \in SUBSET Blocks : /\ \A x \in W : Round[x] = slot[1] + 1 /\ c \in Ancestors[x]
                                     /\ ReachesQuorum(W)
      BY Zenon, <1>1 DEF CommitEvidence
    <2>3. PICK x \in V : x \in W
      BY Zenon, <2>1, <2>2, CertificateMeetsVotes
    <2>. QED  BY Zenon, <1>1, <2>1, <2>2, <2>3, OneVotePerSlot DEF CommitEvidence
  <1>2. ASSUME NEW b \in Blocks, CommitEvidence(slot, b), SkipEvidence(slot)
        PROVE  FALSE
    <2>1. PICK V \in SUBSET Blocks : /\ \A x \in V : Round[x] = slot[1] + 1 /\ b \in Ancestors[x]
                                     /\ ReachesQuorum(V)
      BY Zenon, <1>2 DEF CommitEvidence
    <2>2. PICK W \in SUBSET Blocks : /\ \A x \in W : Round[x] = slot[1] + 1 /\ b \notin Ancestors[x]
                                     /\ ReachesQuorum(W)
      BY Zenon, <1>2 DEF CommitEvidence, SkipEvidence
    <2>3. PICK x \in V : x \in W
      BY ZenonT(30), <2>1, <2>2, CertificateMeetsVotes
    <2>. QED  BY Zenon, <2>1, <2>2, <2>3
  <1>. QED  BY Zenon, <1>1, <1>2 DEF DirectEvidence

\* The votes on the slot that an anchor sees.
AnchorVotes(k, slot, b) ==
    Voting({x \in Visited(k, slot) : Round[x] = slot[1] + 1}, b)

LEMMA AnchorVotesAreBlocks ==
    ASSUME NEW slot \in Slots, NEW k \in Blocks, NEW b
    PROVE  /\ AnchorVotes(k, slot, b) \in SUBSET Blocks
           /\ \A x \in AnchorVotes(k, slot, b) : Round[x] = slot[1] + 1 /\ b \in Ancestors[x]
  BY Zenon, DagAssumption DEF AnchorVotes, Voting, Visited

LEMMA CertifiedByVotes ==
    ASSUME NEW slot \in Slots, NEW k \in Blocks, NEW D \in SUBSET Blocks, NEW b
    PROVE  b \in Certified(D, k, slot)
           <=> b \in BlocksAt(D, slot) /\ ReachesCertification(AnchorVotes(k, slot, b))
  BY Zenon DEF Certified, AnchorVotes

LEMMA SlotRound ==
    ASSUME NEW slot \in Slots
    PROVE  slot[1] \in Nat \ {0} /\ slot[2] \in Authorities /\ slot = <<slot[1], slot[2]>>
  BY DagAssumption DEF Slots, Rounds

\* A directly committed block has a certificate in the past of every anchor:
\* the honest voters that its quorum shares with the anchor's.
LEMMA CommitIsCertified ==
    ASSUME NEW slot \in Slots, NEW b \in Blocks, CommitEvidence(slot, b),
           NEW k \in Blocks, Round[k] >= slot[1] + 2
    PROVE  ReachesCertification(AnchorVotes(k, slot, b))
  <1>1. PICK V \in SUBSET Blocks : /\ \A x \in V : Round[x] = slot[1] + 1 /\ b \in Ancestors[x]
                                   /\ ReachesQuorum(V)
    BY Zenon DEF CommitEvidence
  <1>2. PICK P \in SUBSET Past[k] : /\ \A x \in P : x \in Blocks /\ Round[x] = slot[1] + 1
                                    /\ ReachesQuorum(P)
    BY Zenon, SlotRound, PastHoldsQuorum
  <1>. DEFINE A == Authors(V)
              B == Authors(P)
              C == Authors(AnchorVotes(k, slot, b))
  <1>3. /\ A \in SUBSET Authorities /\ B \in SUBSET Authorities /\ C \in SUBSET Authorities
        /\ A \cap B \in SUBSET Authorities /\ (A \cap B) \ Byzantine \in SUBSET Authorities
        /\ Byzantine \in SUBSET Authorities
    <2>1. P \in SUBSET Blocks
      BY Zenon, <1>2
    <2>. QED  BY Zenon, <2>1, AuthorsAreAuthorities, AnchorVotesAreBlocks, CommitteeAssumption
  <1>4. (A \cap B) \ Byzantine \subseteq C
    <2>. SUFFICES ASSUME NEW a \in A \cap B, a \notin Byzantine  PROVE a \in C
      BY Zenon
    <2>1. PICK x \in V : Author[x] = a
      BY Zenon DEF Authors
    <2>2. PICK y \in P : Author[y] = a
      BY Zenon DEF Authors
    <2>3. x = y
      BY <1>1, <1>2, <2>1, <2>2, DagAssumption
    <2>4. slot[1] \in Nat
      BY Zenon, SlotRound
    <2>5. x \in AnchorVotes(k, slot, b)
      BY <1>1, <1>2, <2>1, <2>2, <2>3, <2>4 DEF AnchorVotes, Voting, Visited
    <2>. QED  BY Zenon, <2>1, <2>5 DEF Authors
  <1>5. Stake[(A \cap B) \ Byzantine] <= Stake[C] /\ Stake[C] \in Nat
    BY Zenon, <1>3, <1>4, StakeMonotone
  <1>6. /\ Stake[(A \cap B) \ Byzantine] \in Nat
        /\ Stake[(A \cap B) \ Byzantine] >= Stake[A \cap B] - Stake[Byzantine]
    BY Zenon, <1>3, StakeWithout
  <1>7. /\ Stake[A \cap B] \in Nat /\ Stake[A] \in Nat /\ Stake[B] \in Nat
        /\ Stake[A \cap B] >= Stake[A] + Stake[B] - Stake[Authorities]
    BY ZenonT(30), <1>3, SharedStake
  <1>8. Stake[A] >= committee.quorum /\ Stake[B] >= committee.quorum
    BY Zenon, <1>1, <1>2 DEF ReachesQuorum
  <1>9. Stake[Byzantine] \in Nat /\ Stake[Byzantine] <= committee.f
    BY Zenon, <1>3, CommitteeAssumption, StakeAssumption
  <1>. HIDE DEF A, B, C
  <1>10. Stake[C] >= committee.certification
    BY <1>5, <1>6, <1>7, <1>8, <1>9, CommitteeFacts, CertificationFacts
  <1>. QED  BY Zenon, <1>10 DEF ReachesCertification, C

\* With an anchor two rounds above, the indirect rule comes to the decision of
\* the direct rule.
LEMMA IndirectFollowsDirect ==
    ASSUME NEW slot \in Slots, NEW d, DirectEvidence(slot, d),
           NEW k \in Blocks, Round[k] >= slot[1] + 2
    PROVE  try_indirect_decide(Blocks, k, slot) = d
  <1>1. CASE d \in Blocks /\ CommitEvidence(slot, d)
    <2>1. d \in Certified(Blocks, k, slot)
      BY Zenon, <1>1, CommitIsCertified, CertifiedByVotes DEF CommitEvidence
    <2>2. ASSUME NEW c \in Certified(Blocks, k, slot)  PROVE c = d
      <3>1. PICK V \in SUBSET Blocks : /\ \A x \in V : Round[x] = slot[1] + 1 /\ d \in Ancestors[x]
                                       /\ ReachesQuorum(V)
        BY Zenon, <1>1 DEF CommitEvidence
      <3>2. c \in BlocksAt(Blocks, slot) /\ ReachesCertification(AnchorVotes(k, slot, c))
        BY Zenon, <2>2, CertifiedByVotes
      <3>. DEFINE W == AnchorVotes(k, slot, c)
      <3>5. /\ W \in SUBSET Blocks
            /\ \A x \in W : Round[x] = slot[1] + 1 /\ c \in Ancestors[x]
        BY Zenon, AnchorVotesAreBlocks
      <3>6. ReachesCertification(W)
        BY Zenon, <3>2
      <3>. HIDE DEF W
      <3>3. PICK x \in V : x \in W
        BY ZenonT(30), <3>1, <3>5, <3>6, CertificateMeetsVotes
      <3>4. x \in Blocks /\ d \in Ancestors[x] /\ c \in Ancestors[x]
        BY ZenonT(30), <3>1, <3>3, <3>5
      <3>. QED  BY ZenonT(30), <1>1, <3>2, <3>4, OneVotePerSlot DEF CommitEvidence
    <2>3. Certified(Blocks, k, slot) = {d}
      BY Zenon, <2>1, <2>2
    <2>. QED  BY Zenon, <2>3 DEF try_indirect_decide
  <1>2. CASE d = Skip /\ SkipEvidence(slot)
    <2>1. ASSUME NEW c \in Certified(Blocks, k, slot)  PROVE FALSE
      <3>2. c \in BlocksAt(Blocks, slot) /\ ReachesCertification(AnchorVotes(k, slot, c))
        BY Zenon, <2>1, CertifiedByVotes
      <3>1. PICK V \in SUBSET Blocks : /\ \A x \in V : Round[x] = slot[1] + 1 /\ c \notin Ancestors[x]
                                       /\ ReachesQuorum(V)
        BY ZenonT(30), <1>2, <3>2 DEF SkipEvidence
      <3>. DEFINE W == AnchorVotes(k, slot, c)
      <3>5. /\ W \in SUBSET Blocks
            /\ \A x \in W : Round[x] = slot[1] + 1 /\ c \in Ancestors[x]
        BY Zenon, AnchorVotesAreBlocks
      <3>6. ReachesCertification(W)
        BY Zenon, <3>2
      <3>. HIDE DEF W
      <3>3. PICK x \in V : x \in W
        BY ZenonT(30), <3>1, <3>5, <3>6, CertificateMeetsVotes
      <3>. QED  BY ZenonT(30), <3>1, <3>3, <3>5
    <2>. QED  BY Zenon, <1>2, <2>1 DEF try_indirect_decide
  <1>. QED  BY Zenon, <1>1, <1>2 DEF DirectEvidence

-----------------------------------------------------------------------------
(* The rules on what one validator has accepted. Above the gc round that is  *)
(* closed under ancestors, and gives the same answers as the whole DAG.      *)

LEMMA VoteInView ==
    ASSUME NEW g \in Nat, NEW D \in SUBSET Blocks, ClosedAbove(D, g),
           NEW slot \in Slots, slot[1] > g, NEW b \in BlocksAt(Blocks, slot),
           NEW x \in D, b \in Ancestors[x]
    PROVE  b \in BlocksAt(D, slot)
  <1>1. Round[b] = slot[1]
    BY Zenon DEF BlocksAt
  <1>. QED  BY Zenon, <1>1 DEF BlocksAt, ClosedAbove

LEMMA DirectDecision ==
    ASSUME NEW g \in Nat, NEW D \in SUBSET Blocks, ClosedAbove(D, g),
           NEW slot \in Slots, slot[1] > g,
           NEW d, d = try_direct_decide(D, slot), d # Undecided
    PROVE  /\ DirectEvidence(slot, d)
           /\ d \in BlocksAt(D, slot) \cup {Skip}
  <1>. DEFINE V == VotingBlocks(D, slot)
  <1>1. ReachesQuorum(V)
    BY Zenon DEF try_direct_decide
  <1>2. V \in SUBSET Blocks /\ \A x \in V : Round[x] = slot[1] + 1 /\ x \in D
    BY Zenon DEF VotingBlocks
  <1>3. CASE DirectlyCommitted(D, slot) # {}
    <2>1. d \in DirectlyCommitted(D, slot)
      BY ZenonT(30), <1>1, <1>3 DEF try_direct_decide
    <2>2. d \in BlocksAt(D, slot) /\ ReachesQuorum(Voting(V, d))
      BY Zenon, <2>1 DEF DirectlyCommitted
    <2>3. d \in Blocks /\ d \in BlocksAt(Blocks, slot)
      BY Zenon, <2>2 DEF BlocksAt
    <2>4. Voting(V, d) \in SUBSET Blocks
          /\ \A x \in Voting(V, d) : Round[x] = slot[1] + 1 /\ d \in Ancestors[x]
      <3>. HIDE DEF V
      <3>. QED  BY Zenon, <1>2 DEF Voting
    <2>5. CommitEvidence(slot, d)
      BY ZenonT(30), <2>2, <2>3, <2>4 DEF CommitEvidence
    <2>. QED  BY ZenonT(30), <2>2, <2>3, <2>5 DEF DirectEvidence
  <1>4. CASE DirectlyCommitted(D, slot) = {}
    <2>1. d = Skip /\ BlocksAt(D, slot) \subseteq DirectlySkipped(D, slot)
      BY ZenonT(30), <1>1, <1>4 DEF try_direct_decide
    <2>2. ASSUME NEW b \in BlocksAt(Blocks, slot)
          PROVE  \E W \in SUBSET Blocks : /\ \A x \in W : Round[x] = slot[1] + 1 /\ b \notin Ancestors[x]
                                          /\ ReachesQuorum(W)
      <3>. DEFINE W == V \ Voting(V, b)
      <3>1. W \in SUBSET Blocks /\ \A x \in W : Round[x] = slot[1] + 1 /\ b \notin Ancestors[x]
        <4>. HIDE DEF V
        <4>. QED  BY ZenonT(30), <1>2 DEF Voting
      <3>2. CASE b \in BlocksAt(D, slot)
        <4>1. ReachesQuorum(W)
          BY ZenonT(30), <2>1, <3>2 DEF DirectlySkipped
        <4>. QED  BY ZenonT(30), <3>1, <4>1
      <3>3. CASE b \notin BlocksAt(D, slot)
        <4>1. \A x \in V : b \notin Ancestors[x]
          BY ZenonT(30), <1>2, <3>3, VoteInView
        <4>. QED  BY ZenonT(30), <1>1, <1>2, <4>1
      <3>. QED  BY ZenonT(30), <3>2, <3>3
    <2>. QED  BY ZenonT(30), <2>1, <2>2 DEF DirectEvidence, SkipEvidence
  <1>. QED  BY ZenonT(30), <1>3, <1>4

\* "Block cannot be both committed and skipped" holds.
LEMMA DirectNeverPanics ==
    ASSUME NEW D \in SUBSET Blocks, NEW slot \in Slots
    PROVE  ~DirectPanics(D, slot)
  <1>. SUFFICES ASSUME DirectPanics(D, slot)  PROVE FALSE
    BY Zenon
  <1>. DEFINE V == VotingBlocks(D, slot)
  <1>1. V \in SUBSET Blocks /\ \A x \in V : Round[x] = slot[1] + 1
    BY Zenon DEF VotingBlocks
  <1>2. PICK b \in DirectlyCommitted(D, slot) : b \in DirectlySkipped(D, slot)
    BY Zenon DEF DirectPanics
  <1>3. ReachesQuorum(Voting(V, b)) /\ ReachesQuorum(V \ Voting(V, b))
    BY Zenon, <1>2 DEF DirectlyCommitted, DirectlySkipped
  <1>. HIDE DEF V
  <1>4. Voting(V, b) \in SUBSET Blocks /\ V \ Voting(V, b) \in SUBSET Blocks
        /\ \A x \in Voting(V, b) \cup (V \ Voting(V, b)) : Round[x] = slot[1] + 1
    BY Zenon, <1>1 DEF Voting
  <1>5. \E x \in Voting(V, b) : x \in V \ Voting(V, b)
    BY ZenonT(30), <1>3, <1>4, CertificateMeetsVotes
  <1>. QED  BY ZenonT(30), <1>5

LEMMA VisitedInView ==
    ASSUME NEW g \in Nat, NEW D \in SUBSET Blocks, ClosedAbove(D, g),
           NEW slot \in Slots, slot[1] > g, NEW k \in D
    PROVE  Visited(k, slot) \subseteq D
  <1>. SUFFICES ASSUME NEW x \in Visited(k, slot)  PROVE x \in D
    BY Zenon
  <1>1. x \in Past[k] /\ Round[x] > slot[1] /\ slot[1] \in Nat
    BY ZenonT(30), SlotRound DEF Visited
  <1>2. x \in Blocks /\ Round[x] \in Nat
    BY ZenonT(30), <1>1, DagAssumption
  <1>3. Round[x] > g
    BY <1>1, <1>2
  <1>. QED  BY ZenonT(30), <1>1, <1>3, PastInClosedSet

LEMMA IndirectInView ==
    ASSUME NEW g \in Nat, NEW D \in SUBSET Blocks, ClosedAbove(D, g),
           NEW slot \in Slots, slot[1] > g, NEW k \in D
    PROVE  try_indirect_decide(D, k, slot) = try_indirect_decide(Blocks, k, slot)
  <1>1. ASSUME NEW b \in Certified(Blocks, k, slot)  PROVE b \in Certified(D, k, slot)
    <2>1. b \in BlocksAt(Blocks, slot) /\ ReachesCertification(AnchorVotes(k, slot, b))
      BY ZenonT(30), <1>1, CertifiedByVotes
    <2>2. AnchorVotes(k, slot, b) # {}
      <3>. SUFFICES ASSUME AnchorVotes(k, slot, b) = {}  PROVE FALSE
        BY Zenon
      <3>1. Authors(AnchorVotes(k, slot, b)) = {}
        BY ZenonT(30) DEF Authors
      <3>. QED  BY <2>1, <3>1, CommitteeFacts, StakeAssumption DEF ReachesCertification
    <2>3. PICK x \in AnchorVotes(k, slot, b) : TRUE
      BY ZenonT(30), <2>2
    <2>4. x \in Visited(k, slot) /\ b \in Ancestors[x]
      BY ZenonT(30), <2>3 DEF AnchorVotes, Voting
    <2>5. x \in D
      BY ZenonT(30), <2>4, VisitedInView
    <2>6. b \in BlocksAt(D, slot)
      BY ZenonT(30), <2>1, <2>4, <2>5, VoteInView
    <2>. QED  BY ZenonT(30), <2>1, <2>6, CertifiedByVotes
  <1>2. Certified(D, k, slot) \subseteq Certified(Blocks, k, slot)
    BY Zenon DEF Certified, BlocksAt
  <1>3. Certified(D, k, slot) = Certified(Blocks, k, slot)
    BY ZenonT(30), <1>1, <1>2
  <1>. QED  BY ZenonT(30), <1>3 DEF try_indirect_decide

LEMMA IndirectDecision ==
    ASSUME NEW D \in SUBSET Blocks, NEW slot \in Slots, NEW k \in Blocks
    PROVE  try_indirect_decide(D, k, slot) \in BlocksAt(D, slot) \cup {Skip}
  <1>1. Certified(D, k, slot) \subseteq BlocksAt(D, slot)
    BY Zenon DEF Certified
  <1>. QED  BY ZenonT(30), <1>1 DEF try_indirect_decide

-----------------------------------------------------------------------------
(* The decisions taken by all validators so far, Dec.                       *)

LEMMA SlotsOfFacts ==
    ASSUME NEW s \in Schedules
    PROVE  SlotsOf(s) \in SUBSET Slots
  BY ZenonT(30), ScheduleAssumption DEF SlotsOf, Slots

\* The anchor k at slot t was found for slot: everything before it is skipped.
AnchoredAt(Dec, s, slot, t, k) ==
    /\ t \in SlotsOf(s) /\ t[1] >= slot[1] + 2
    /\ k \in Blocks /\ <<s, t, k>> \in Dec
    /\ \A o \in SlotsOf(s) : o[1] >= slot[1] + 2 /\ Earlier(s, o, t) => <<s, o, Skip>> \in Dec

IndirectEvidence(Dec, s, slot, d) ==
    \E t \in Slots : \E k \in Blocks :
        AnchoredAt(Dec, s, slot, t, k) /\ d = try_indirect_decide(Blocks, k, slot)

Evidence(Dec, s, slot, d) ==
    /\ slot \in SlotsOf(s)
    /\ d \in BlocksAt(Blocks, slot) \cup {Skip}
    /\ DirectEvidence(slot, d) \/ IndirectEvidence(Dec, s, slot, d)

Agreed(Dec) ==
    \A s \in Schedules : \A slot \in Slots : \A d, e \in Blocks \cup {Skip} :
        <<s, slot, d>> \in Dec /\ <<s, slot, e>> \in Dec => d = e

DecisionsInv(Dec) ==
    /\ Dec \in SUBSET (Schedules \X Slots \X (Blocks \cup {Skip}))
    /\ \A s \in Schedules : \A slot \in Slots : \A d \in Blocks \cup {Skip} :
           <<s, slot, d>> \in Dec => Evidence(Dec, s, slot, d)
    /\ Agreed(Dec)

LEMMA SlotOrderIsTotal ==
    ASSUME NEW s \in Schedules, NEW t \in Slots, NEW u \in Slots, t # u
    PROVE  Earlier(s, t, u) \/ Earlier(s, u, t)
  <1>1. /\ t[1] \in Nat /\ u[1] \in Nat /\ t[1] \in Rounds /\ u[1] \in Rounds
        /\ t[2] \in Authorities /\ u[2] \in Authorities
        /\ t = <<t[1], t[2]>> /\ u = <<u[1], u[2]>>
    BY ZenonT(30), SlotRound DEF Slots
  <1>2. CASE t[1] # u[1]
    BY <1>1, <1>2 DEF Earlier
  <1>3. CASE t[1] = u[1]
    <2>1. t[2] # u[2]
      BY ZenonT(30), <1>1, <1>3
    <2>2. Rank[s][<<t[1], t[2]>>] # Rank[s][<<t[1], u[2]>>]
      BY <1>1, <2>1, ScheduleAssumption
    <2>3. Rank[s][t] # Rank[s][u]
      BY Zenon, <1>1, <1>3, <2>2
    <2>4. Rank[s][t] \in Nat /\ Rank[s][u] \in Nat
      BY ZenonT(30), ScheduleAssumption
    <2>. QED  BY <1>3, <2>3, <2>4 DEF Earlier
  <1>. QED  BY ZenonT(30), <1>2, <1>3

\* find_anchor_block: every validator selects the same anchor block.
LEMMA AnchorIsUnique ==
    ASSUME NEW Dec, DecisionsInv(Dec), NEW s \in Schedules, NEW slot \in Slots,
           NEW t \in Slots, NEW k \in Blocks, AnchoredAt(Dec, s, slot, t, k),
           NEW u \in Slots, NEW l \in Blocks, AnchoredAt(Dec, s, slot, u, l)
    PROVE  k = l
  <1>1. ASSUME NEW x \in Slots, NEW m \in Blocks, AnchoredAt(Dec, s, slot, x, m),
               NEW y \in Slots, NEW n \in Blocks, AnchoredAt(Dec, s, slot, y, n),
               Earlier(s, x, y)
        PROVE  FALSE
    <2>1. <<s, x, m>> \in Dec /\ <<s, x, Skip>> \in Dec
      BY ZenonT(30), <1>1 DEF AnchoredAt
    <2>2. m = Skip
      BY ZenonT(30), <2>1 DEF DecisionsInv, Agreed
    <2>. QED  BY ZenonT(30), <2>2, ConfigAssumption
  <1>2. t = u
    BY ZenonT(30), <1>1, SlotOrderIsTotal
  <1>3. <<s, t, k>> \in Dec /\ <<s, t, l>> \in Dec
    BY ZenonT(30), <1>2 DEF AnchoredAt
  <1>. QED  BY ZenonT(30), <1>3 DEF DecisionsInv, Agreed

LEMMA AnchorRound ==
    ASSUME NEW Dec, DecisionsInv(Dec), NEW s \in Schedules, NEW slot \in Slots,
           NEW t \in Slots, NEW k \in Blocks, AnchoredAt(Dec, s, slot, t, k)
    PROVE  Round[k] >= slot[1] + 2
  <1>1. <<s, t, k>> \in Dec /\ t[1] >= slot[1] + 2
    BY ZenonT(30) DEF AnchoredAt
  <1>2. k \in BlocksAt(Blocks, t) \cup {Skip}
    BY ZenonT(30), <1>1 DEF DecisionsInv, Evidence
  <1>. QED  BY ZenonT(30), <1>1, <1>2, ConfigAssumption DEF BlocksAt

\* Evidence for a decision that is there already is evidence for the same.
LEMMA EvidenceAgrees ==
    ASSUME NEW Dec, DecisionsInv(Dec), NEW s \in Schedules, NEW slot \in Slots,
           NEW d \in Blocks \cup {Skip}, Evidence(Dec, s, slot, d),
           NEW e \in Blocks \cup {Skip}, Evidence(Dec, s, slot, e)
    PROVE  d = e
  <1>1. ASSUME NEW x, NEW y, DirectEvidence(slot, x), IndirectEvidence(Dec, s, slot, y)
        PROVE  x = y
    <2>1. PICK t \in Slots, k \in Blocks :
              AnchoredAt(Dec, s, slot, t, k) /\ y = try_indirect_decide(Blocks, k, slot)
      BY ZenonT(30), <1>1 DEF IndirectEvidence
    <2>2. Round[k] >= slot[1] + 2
      BY ZenonT(30), <2>1, AnchorRound
    <2>. QED  BY ZenonT(30), <1>1, <2>1, <2>2, IndirectFollowsDirect
  <1>2. ASSUME IndirectEvidence(Dec, s, slot, d), IndirectEvidence(Dec, s, slot, e)
        PROVE  d = e
    <2>1. PICK t \in Slots, k \in Blocks :
              AnchoredAt(Dec, s, slot, t, k) /\ d = try_indirect_decide(Blocks, k, slot)
      BY ZenonT(30), <1>2 DEF IndirectEvidence
    <2>2. PICK u \in Slots, l \in Blocks :
              AnchoredAt(Dec, s, slot, u, l) /\ e = try_indirect_decide(Blocks, l, slot)
      BY ZenonT(30), <1>2 DEF IndirectEvidence
    <2>3. k = l
      BY ZenonT(30), <2>1, <2>2, AnchorIsUnique
    <2>. QED  BY ZenonT(30), <2>1, <2>2, <2>3
  <1>3. ASSUME DirectEvidence(slot, d), DirectEvidence(slot, e)  PROVE d = e
    BY ZenonT(30), <1>3, DirectIsUnique
  <1>. QED  BY ZenonT(30), <1>1, <1>2, <1>3 DEF Evidence

LEMMA EvidenceStays ==
    ASSUME NEW Dec, NEW More, Dec \subseteq More, NEW s, NEW slot, NEW d,
           Evidence(Dec, s, slot, d)
    PROVE  Evidence(More, s, slot, d)
  BY ZenonT(30) DEF Evidence, IndirectEvidence, AnchoredAt

\* Decisions may be added for which there is evidence in those before.
LEMMA DecisionsAdded ==
    ASSUME NEW Dec, DecisionsInv(Dec), NEW s \in Schedules, NEW More,
           More \subseteq {s} \X Slots \X (Blocks \cup {Skip}),
           \A slot \in Slots : \A d \in Blocks \cup {Skip} :
               <<s, slot, d>> \in More => Evidence(Dec, s, slot, d)
    PROVE  DecisionsInv(Dec \cup More)
  <1>1. Dec \cup More \in SUBSET (Schedules \X Slots \X (Blocks \cup {Skip}))
    BY ZenonT(30) DEF DecisionsInv
  <1>2. ASSUME NEW x \in Schedules, NEW slot \in Slots, NEW d \in Blocks \cup {Skip},
               <<x, slot, d>> \in Dec \cup More
        PROVE  Evidence(Dec, x, slot, d)
    BY ZenonT(30), <1>2 DEF DecisionsInv
  <1>3. ASSUME NEW x \in Schedules, NEW slot \in Slots, NEW d \in Blocks \cup {Skip},
               <<x, slot, d>> \in Dec \cup More
        PROVE  Evidence(Dec \cup More, x, slot, d)
    BY ZenonT(30), <1>2, <1>3, EvidenceStays
  <1>4. Agreed(Dec \cup More)
    BY <1>2, EvidenceAgrees DEF Agreed
  <1>. QED  BY ZenonT(30), <1>1, <1>3, <1>4 DEF DecisionsInv

LEMMA ScheduleFacts ==
    ASSUME NEW cs \in Seq(Commits)
    PROVE  /\ schedule(cs) \in Schedules
           /\ min_next_leader_round(cs) = last_commit_round(cs) + 1
           /\ LeaderSlots(cs) = SlotsOf(schedule(cs))
           /\ LeaderSlots(cs) \in SUBSET Slots
  <1>1. /\ Len(cs) \in Nat /\ DOMAIN cs = 1 .. Len(cs)
        /\ \A i \in 1 .. Len(cs) : cs[i] \in Commits
    BY ZenonT(30), SequenceOfCommits
  <1>2. UNION {cs[i].leaders : i \in DOMAIN cs} \in SUBSET Blocks
    BY ZenonT(30), <1>1 DEF Commits
  <1>3. schedule(cs) \in Schedules
    BY ZenonT(30), <1>2, ScheduleAssumption DEF schedule
  <1>. QED  BY ZenonT(30), <1>3, SlotsOfFacts DEF min_next_leader_round, LeaderSlots

-----------------------------------------------------------------------------
(* What the decisions say of the commits.                                   *)

\* Commit c follows the commits P: its round is the first one with a leader
\* that is not skipped, and all leaders of that round are decided.
Justified(Dec, P, c) ==
    LET s == schedule(P)
    IN  /\ Follows(P, c)
        /\ \A slot \in SlotsOf(s) :
               slot[1] > last_commit_round(P) /\ slot[1] < c.round => <<s, slot, Skip>> \in Dec
        /\ \A slot \in SlotsOf(s) :
               slot[1] = c.round => \E d \in Blocks \cup {Skip} :
                   <<s, slot, d>> \in Dec /\ (d \in Blocks => d \in c.leaders)
        /\ \A b \in c.leaders : \E slot \in SlotsOf(s) : slot[1] = c.round /\ <<s, slot, b>> \in Dec

AllJustified(Dec, cs) == \A i \in 1 .. Len(cs) : Justified(Dec, Before(cs, i), cs[i])

StoreInv(Dec, D, cs) == AllJustified(Dec, cs) /\ Chain(D, cs)

LEMMA AllJustifiedStays ==
    ASSUME NEW Dec, NEW More, Dec \subseteq More, NEW cs, AllJustified(Dec, cs)
    PROVE  AllJustified(More, cs)
  <1>1. ASSUME NEW P, NEW c, Justified(Dec, P, c)  PROVE Justified(More, P, c)
    BY ZenonT(30), <1>1 DEF Justified
  <1>. QED  BY ZenonT(30), <1>1 DEF AllJustified

LEMMA StoreInvStays ==
    ASSUME NEW Dec, NEW More, Dec \subseteq More, NEW D, NEW cs, StoreInv(Dec, D, cs)
    PROVE  StoreInv(More, D, cs)
  BY ZenonT(30), AllJustifiedStays DEF StoreInv

\* The next commit is the same for all validators.
LEMMA NextCommitIsUnique ==
    ASSUME NEW Dec, DecisionsInv(Dec), NEW P \in Seq(Commits),
           NEW c \in Commits, NEW d \in Commits, Justified(Dec, P, c), Justified(Dec, P, d)
    PROVE  c = d
  <1>. DEFINE s == schedule(P)
              l == last_commit_round(P)
  <1>1. s \in Schedules /\ l \in Nat
    BY ZenonT(30), CommittedFacts, ScheduleFacts
  <1>2. ASSUME NEW x \in Commits, NEW y \in Commits, Justified(Dec, P, x), Justified(Dec, P, y)
        PROVE  ~(x.round < y.round)
    <2>. SUFFICES ASSUME x.round < y.round  PROVE FALSE
      BY ZenonT(30)
    <2>1. PICK b \in x.leaders : TRUE
      BY Zenon, <1>2 DEF Justified, Follows
    <2>2. PICK slot \in SlotsOf(s) : slot[1] = x.round /\ <<s, slot, b>> \in Dec
      BY Zenon, <1>2, <2>1 DEF Justified
    <2>3. x.round > l
      BY Zenon, <1>2 DEF Justified, Follows
    <2>4. <<s, slot, Skip>> \in Dec
      BY ZenonT(30), <1>2, <2>2, <2>3 DEF Justified
    <2>5. b \in Blocks /\ slot \in Slots
      BY ZenonT(30), <1>1, <2>1, <2>2, SlotsOfFacts DEF Commits
    <2>6. b = Skip
      BY ZenonT(30), <1>1, <2>2, <2>4, <2>5 DEF DecisionsInv, Agreed
    <2>. QED  BY ZenonT(30), <2>5, <2>6, ConfigAssumption
  <1>3. c.round = d.round
    <2>1. c.round \in Nat /\ d.round \in Nat
      BY ZenonT(30), DagAssumption DEF Commits, Rounds
    <2>2. ~(c.round < d.round) /\ ~(d.round < c.round)
      BY ZenonT(30), <1>2
    <2>. QED  BY <2>1, <2>2
  <1>4. ASSUME NEW x \in Commits, NEW y \in Commits, Justified(Dec, P, x), Justified(Dec, P, y),
               x.round = y.round
        PROVE  x.leaders \subseteq y.leaders
    <2>. SUFFICES ASSUME NEW b \in x.leaders  PROVE b \in y.leaders
      BY ZenonT(30)
    <2>1. PICK slot \in SlotsOf(s) : slot[1] = x.round /\ <<s, slot, b>> \in Dec
      BY ZenonT(30), <1>4 DEF Justified
    <2>2. PICK e \in Blocks \cup {Skip} : <<s, slot, e>> \in Dec /\ (e \in Blocks => e \in y.leaders)
      BY ZenonT(30), <1>4, <2>1 DEF Justified
    <2>3. b \in Blocks /\ slot \in Slots
      BY ZenonT(30), <1>1, <2>1, SlotsOfFacts DEF Commits
    <2>4. b = e
      BY ZenonT(30), <1>1, <2>1, <2>2, <2>3 DEF DecisionsInv, Agreed
    <2>. QED  BY ZenonT(30), <2>2, <2>3, <2>4
  <1>5. c.leaders = d.leaders
    BY ZenonT(30), <1>3, <1>4
  <1>6. c.blocks = d.blocks
    BY Zenon, <1>5 DEF Justified, Follows
  <1>. QED  BY <1>3, <1>5, <1>6 DEF Commits

LEMMA JustifiedCommitsAgree ==
    ASSUME NEW Dec, DecisionsInv(Dec), NEW cs \in Seq(Commits), NEW ds \in Seq(Commits),
           AllJustified(Dec, cs), AllJustified(Dec, ds),
           NEW n \in 1 .. Len(cs), n \in 1 .. Len(ds)
    PROVE  cs[n] = ds[n]
  <1>. DEFINE Bad == {i \in 1 .. Len(cs) : i \in 1 .. Len(ds) /\ cs[i] # ds[i]}
  <1>0. Len(cs) \in Nat /\ Len(ds) \in Nat
    BY SequenceOfCommits
  <1>1. Bad = {}
    <2>. SUFFICES ASSUME Bad # {}  PROVE FALSE
      BY ZenonT(30)
    <2>1. Bad \subseteq Nat
      BY <1>0
    <2>2. PICK i \in Bad : \A j \in Bad : ~ (<<j, i>> \in OpToRel(<, Nat))
      BY ZenonT(30), <2>1, NatLessThanWellFounded, WFMin
    <2>3. \A j \in Bad : ~ (j < i)
      BY ZenonT(30), <2>1, <2>2 DEF OpToRel
    <2>4. i \in Nat /\ i \in 1 .. Len(cs) /\ i \in 1 .. Len(ds) /\ cs[i] # ds[i]
      BY <1>0
    <2>5. \A j \in 1 .. i - 1 : cs[j] = ds[j]
      <3>. SUFFICES ASSUME NEW j \in 1 .. i - 1  PROVE cs[j] = ds[j]
        OBVIOUS
      <3>1. j \in 1 .. Len(cs) /\ j \in 1 .. Len(ds) /\ j < i
        BY <1>0, <2>4
      <3>. QED  BY ZenonT(30), <2>3, <3>1
    <2>. HIDE DEF Bad
    <2>6. i \in 1 .. Len(cs) + 1 /\ i \in 1 .. Len(ds) + 1
      BY <1>0, <2>4
    <2>7. Before(cs, i) = Before(ds, i) /\ Before(cs, i) \in Seq(Commits)
      BY ZenonT(30), <2>5, <2>6, EqualBefore, BeforeProperties
    <2>8. cs[i] \in Commits /\ ds[i] \in Commits
      BY ZenonT(30), <2>4, SequenceOfCommits
    <2>9. Justified(Dec, Before(cs, i), cs[i]) /\ Justified(Dec, Before(cs, i), ds[i])
      BY ZenonT(30), <2>4, <2>7 DEF AllJustified
    <2>. QED  BY ZenonT(30), <2>4, <2>7, <2>8, <2>9, NextCommitIsUnique
  <1>. QED  BY ZenonT(30), <1>1

\* A justified commit extends what a validator has, once its blocks are there.
LEMMA StoreExtended ==
    ASSUME NEW Dec, NEW D \in SUBSET Blocks, NEW cs \in Seq(Commits),
           StoreInv(Dec, D, cs), NEW c \in Commits, Justified(Dec, cs, c)
    PROVE  /\ StoreInv(Dec, D \cup c.blocks, Append(cs, c))
           /\ c.blocks \cap Committed(cs) = {}
           /\ c.leaders \cap Committed(cs) = {}
  <1>. DEFINE ds == Append(cs, c)
  <1>1. AllJustified(Dec, ds)
    <2>. SUFFICES ASSUME NEW i \in 1 .. Len(ds)  PROVE Justified(Dec, Before(ds, i), ds[i])
      BY DEF AllJustified
    <2>1. Len(cs) \in Nat /\ Len(ds) = Len(cs) + 1
      BY ZenonT(30), SequenceOfCommits, OneMoreCommit
    <2>2. i \in 1 .. Len(cs) + 1
      BY ZenonT(30), <2>1
    <2>3. /\ Before(ds, i) = Before(cs, i)
          /\ i <= Len(cs) => ds[i] = cs[i]
          /\ ds[Len(cs) + 1] = c
      BY ZenonT(30), <2>2, BeforeAppend
    <2>4. CASE i <= Len(cs)
      <3>1. i \in 1 .. Len(cs)
        BY SMTT(30), <2>1, <2>2, <2>4
      <3>. QED  BY ZenonT(30), <2>3, <2>4, <3>1 DEF StoreInv, AllJustified
    <2>5. CASE i = Len(cs) + 1
      BY ZenonT(30), <2>3, <2>5, BeforeTheEnd
    <2>. QED  BY <2>1, <2>2, <2>4, <2>5
  <1>2. Follows(cs, c) /\ Chain(D, cs)
    BY ZenonT(30) DEF Justified, StoreInv
  <1>. QED  BY ZenonT(30), <1>1, <1>2, ChainExtended DEF StoreInv

\* Storage may be written when the blocks of a certified commit are accepted and
\* the commit is not added yet.
LEMMA StoreWithBlocks ==
    ASSUME NEW Dec, NEW D \in SUBSET Blocks, NEW cs \in Seq(Commits),
           StoreInv(Dec, D, cs), NEW c \in Commits, Justified(Dec, cs, c)
    PROVE  StoreInv(Dec, D \cup c.blocks, cs)
  <1>1. Follows(cs, c) /\ Chain(D, cs) /\ AllJustified(Dec, cs)
    BY Zenon DEF Justified, StoreInv
  <1>. QED  BY ZenonT(30), <1>1, ChainWithBlocks DEF StoreInv

-----------------------------------------------------------------------------
(* The log of commits and the copies of it.                                *)

\* What a validator has committed was produced, and what it has stored is the
\* beginning of that. CommitsAgree says nothing of the copies, this does.
CopyInv(v) ==
    /\ commits[v] \in produced \cup {<<>>}
    /\ flushed[v].commits \in produced \cup {<<>>}
    /\ Begins(flushed[v].commits, commits[v])

CopiesInv == \A v \in Validators : CopyInv(v)

CommitTypes ==
    /\ commits \in [Validators -> Seq(Commits)]
    /\ flushed \in [Validators -> [dag : SUBSET Blocks, commits : Seq(Commits)]]
    /\ produced \subseteq Seq(Commits)

-----------------------------------------------------------------------------

\* The steps that make a commit.
LEMMA PostCommitCopies ==
    ASSUME CommitTypes, CopiesInv, NEW v \in Validators, NEW commit,
           PostCommit(v, commit),
           \/ flushed' = flushed
           \/ \E D : flushed' = [flushed EXCEPT ![v] = [dag |-> D, commits |-> commits[v]]]
    PROVE  CopiesInv'
  <1>. DEFINE cs == Append(commits[v], commit)
  <1>1. /\ commits' = [commits EXCEPT ![v] = cs]
        /\ produced' = produced \cup {cs}
    BY ZenonT(30) DEF PostCommit
  <1>2. commits'[v] = cs /\ Begins(commits[v], cs) /\ commits[v] \in Seq(Commits)
    BY ZenonT(30), <1>1, AppendFacts DEF CommitTypes
  <1>3. ASSUME NEW w \in Validators, w # v  PROVE CopyInv(w)'
    <2>1. commits'[w] = commits[w] /\ flushed'[w] = flushed[w]
      BY ZenonT(30), <1>1, <1>3 DEF CommitTypes
    <2>. QED  BY SMTT(30), <1>1, <2>1 DEF CopiesInv, CopyInv
  <1>4. flushed'[v] = flushed[v] \/ flushed'[v].commits = commits[v]
    BY SMTT(30) DEF CommitTypes
  <1>5. Begins(flushed[v].commits, cs)
    BY SMTT(30), <1>2, AppendFacts DEF CopiesInv, CopyInv, Begins, CommitTypes
  <1>6. CopyInv(v)'
    <2>1. flushed'[v].commits \in produced \cup {<<>>}
      BY ZenonT(30), <1>4 DEF CopiesInv, CopyInv
    <2>2. Begins(flushed'[v].commits, cs)
      BY ZenonT(30), <1>2, <1>4, <1>5
    <2>. QED  BY SMTT(30), <1>1, <1>2, <2>1, <2>2 DEF CopyInv
  <1>. QED  BY ZenonT(30), <1>3, <1>6 DEF CopiesInv

LEMMA NextCopies ==
    ASSUME CommitTypes, CopiesInv, [Next]_vars
    PROVE  CopiesInv'
  <1>1. CASE UNCHANGED <<commits, produced, flushed>>
    BY ZenonT(30), <1>1 DEF CopiesInv, CopyInv
  <1>2. ASSUME NEW v \in Validators, BuildCommit(v)  PROVE CopiesInv'
    <2>1. (\E commit : PostCommit(v, commit)) /\ flushed' = flushed
      BY Zenon, <1>2 DEF BuildCommit
    <2>. QED  BY ZenonT(30), <2>1, PostCommitCopies
  <1>3. ASSUME NEW v \in Validators, AddCertifiedCommit(v)  PROVE CopiesInv'
    <2>1. \E commit : PostCommit(v, commit)
      BY Zenon, <1>3 DEF AddCertifiedCommit
    <2>2. \/ flushed' = flushed
          \/ \E D : flushed' = [flushed EXCEPT ![v] = [dag |-> D, commits |-> commits[v]]]
      BY Zenon, <1>3 DEF AddCertifiedCommit
    <2>. QED  BY ZenonT(30), <2>1, <2>2, PostCommitCopies
  <1>4. ASSUME NEW v \in Validators, Flush(v)  PROVE CopiesInv'
    <2>1. /\ flushed' = [flushed EXCEPT ![v] = [dag |-> dag[v], commits |-> commits[v]]]
          /\ commits' = commits /\ produced' = produced
      BY ZenonT(30), <1>4 DEF Flush, core
    <2>2. Begins(commits[v], commits[v])
      BY SMTT(30), SequenceOfCommits DEF Begins, CommitTypes
    <2>3. ASSUME NEW w \in Validators  PROVE CopyInv(w)'
      BY ZenonT(30), <2>1, <2>2 DEF CopiesInv, CopyInv, CommitTypes
    <2>. QED  BY ZenonT(30), <2>3 DEF CopiesInv
  <1>5. ASSUME NEW v \in Validators, Restart(v)  PROVE CopiesInv'
    <2>1. /\ commits' = [commits EXCEPT ![v] = flushed[v].commits]
          /\ flushed' = flushed /\ produced' = produced
      BY ZenonT(30), <1>5 DEF Restart
    <2>2. Begins(flushed[v].commits, flushed[v].commits)
      BY SequenceOfCommits DEF Begins, CommitTypes
    <2>3. ASSUME NEW w \in Validators  PROVE CopyInv(w)'
      BY ZenonT(30), <2>1, <2>2 DEF CopiesInv, CopyInv, CommitTypes
    <2>. QED  BY Zenon, <2>3 DEF CopiesInv
  <1>6. ASSUME NEW v \in Validators,
               \/ AddBlock(v) \/ TryDirectCommit(v) \/ StartIndirectCommit(v)
               \/ TryIndirectCommit(v) \/ EndIndirectCommit(v) \/ EndTryCommit(v)
        PROVE  UNCHANGED <<commits, produced, flushed>>
    BY Zenon, <1>6 DEF AddBlock, TryDirectCommit, StartIndirectCommit, TryIndirectCommit,
                       EndIndirectCommit, EndTryCommit
  <1>7. CASE UNCHANGED vars
    BY ZenonT(30), <1>1, <1>7 DEF vars, core
  <1>. QED  BY ZenonT(30), <1>1, <1>2, <1>3, <1>4, <1>5, <1>6, <1>7 DEF Next, TryCommit

-----------------------------------------------------------------------------

\* A commit extends the log, or is the entry of the log, and extends the copy.
LEMMA PostCommitExtends ==
    ASSUME CommitTypes, CopiesInv, Agree(produced)', NEW v \in Validators, NEW commit,
           PostCommit(v, commit)
    PROVE  Log!Extend(v)
  <1>. DEFINE cs == Append(commits[v], commit)
  <1>1. /\ commits' = [commits EXCEPT ![v] = Append(@, commit)]
        /\ commits'[v] = cs
        /\ produced' = produced \cup {cs}
    BY Zenon DEF PostCommit, CommitTypes
  <1>2. commits[v] \in Seq(Commits) /\ commits[v] \in produced \cup {<<>>}
    BY Zenon DEF CommitTypes, CopiesInv, CopyInv
  <1>3. Agree(produced \cup {cs})
    BY ZenonT(30), <1>1
  <1>4. LogExtended(produced, commits[v], commit)
    BY Zenon, <1>2, <1>3, EntryAdded
  <1>5. EntriesOf(produced)' = EntriesOf(produced \cup {cs})
    BY ZenonT(30), <1>1
  <1>. QED  BY Zenon, <1>1, <1>4, <1>5 DEF LogExtended, Log!Extend

\* Every step is a step of the log or changes nothing of it.
LEMMA NextIsLogStep ==
    ASSUME CommitTypes, CopiesInv, Agree(produced)', [Next]_vars
    PROVE  [Log!LogNext]_Log!logVars
  <1>1. CASE UNCHANGED <<commits, produced>>
    BY ZenonT(30), <1>1 DEF Log!logVars, EntriesOf
  <1>2. ASSUME NEW v \in Validators, \E commit : PostCommit(v, commit)
        PROVE  Log!LogNext
    BY ZenonT(30), <1>2, PostCommitExtends DEF Log!LogNext
  <1>3. ASSUME NEW v \in Validators, Restart(v)  PROVE Log!LogNext
    <2>1. /\ commits' = [commits EXCEPT ![v] = flushed[v].commits]
          /\ produced' = produced
      BY ZenonT(30), <1>3 DEF Restart
    <2>2. PICK n \in 0 .. Len(commits[v]) : flushed[v].commits = SubSeq(commits[v], 1, n)
      BY BeginningIsSubSeq DEF CopiesInv, CopyInv, CommitTypes
    <2>3. commits' = [commits EXCEPT ![v] = SubSeq(@, 1, n)] /\ EntriesOf(produced)' = EntriesOf(produced)
      BY Zenon, <2>1, <2>2
    <2>. QED  BY Zenon, <2>2, <2>3 DEF Log!LogNext, Log!CutBack
  <1>4. ASSUME NEW v \in Validators, BuildCommit(v) \/ AddCertifiedCommit(v)
        PROVE  \E commit : PostCommit(v, commit)
    BY Zenon, <1>4 DEF BuildCommit, AddCertifiedCommit
  <1>5. ASSUME NEW v \in Validators,
               \/ AddBlock(v) \/ TryDirectCommit(v) \/ StartIndirectCommit(v) \/ Flush(v)
               \/ TryIndirectCommit(v) \/ EndIndirectCommit(v) \/ EndTryCommit(v)
        PROVE  UNCHANGED <<commits, produced>>
    BY Zenon, <1>5 DEF AddBlock, TryDirectCommit, StartIndirectCommit, TryIndirectCommit,
                       EndIndirectCommit, EndTryCommit, Flush, core
  <1>6. CASE UNCHANGED vars
    BY ZenonT(30), <1>1, <1>6 DEF vars, core
  <1>. QED  BY ZenonT(30), <1>1, <1>2, <1>3, <1>4, <1>5, <1>6 DEF Next, TryCommit

-----------------------------------------------------------------------------
(* The inductive invariant.                                                 *)

\* What is decided in the pending state st was recorded as a decision under the
\* current schedule, and the committed blocks of it have been accepted.
StatusInv(Dec, st, cs, D) ==
    \A slot \in Slots : st[slot] # Undecided =>
        /\ slot \in LeaderSlots(cs)
        /\ slot[1] >= min_next_leader_round(cs)
        /\ <<schedule(cs), slot, st[slot]>> \in Dec
        /\ st[slot] \in Blocks => st[slot] \in D

ValidatorInv(v) ==
    /\ StoreInv(decisions, dag[v], commits[v])
    /\ StoreInv(decisions, flushed[v].dag, flushed[v].commits)
    /\ StatusInv(decisions, status[v], commits[v], dag[v])

\* Commits that were lost in a restart were justified, too.
ProducedInv == \A cs \in produced : AllJustified(decisions, cs)

IInv ==
    /\ TypeOK
    /\ NeverPanics
    /\ DecisionsInv(decisions)
    /\ \A v \in Validators : ValidatorInv(v)
    /\ ProducedInv

Statuses == [Slots -> Blocks \cup {Skip, Undecided}]

LEMMA StatusRefreshed ==
    ASSUME NEW Dec, NEW D, NEW E, D \subseteq E, NEW old \in Seq(Commits), NEW cs \in Seq(Commits),
           NEW st \in Statuses, StatusInv(Dec, st, old, D),
           NEW next, next = maybe_refresh_pending_commit_state(st, old, cs)
    PROVE  next \in Statuses /\ StatusInv(Dec, next, cs, E)
  <1>1. CASE schedule(cs) # schedule(old)
    BY ZenonT(30), <1>1 DEF maybe_refresh_pending_commit_state, NothingDecided, Statuses, StatusInv
  <1>2. CASE schedule(cs) = schedule(old)
    <2>1. next = [slot \in Slots |-> IF slot[1] < min_next_leader_round(cs) THEN Undecided
                                     ELSE st[slot]]
      BY <1>2 DEF maybe_refresh_pending_commit_state
    <2>2. next \in Statuses
      BY ZenonT(30), <2>1 DEF Statuses
    <2>3. ASSUME NEW slot \in Slots, next[slot] # Undecided
          PROVE  /\ slot \in LeaderSlots(cs)
                 /\ slot[1] >= min_next_leader_round(cs)
                 /\ <<schedule(cs), slot, next[slot]>> \in Dec
                 /\ next[slot] \in Blocks => next[slot] \in E
      <3>1. ~(slot[1] < min_next_leader_round(cs)) /\ next[slot] = st[slot]
        BY ZenonT(30), <2>1, <2>3
      <3>2. slot[1] \in Nat /\ min_next_leader_round(cs) \in Nat
        BY SlotRound, CommittedFacts, ScheduleFacts
      <3>3. LeaderSlots(cs) = LeaderSlots(old)
        BY ZenonT(30), <1>2 DEF LeaderSlots
      <3>. QED  BY <1>2, <2>3, <3>1, <3>2, <3>3 DEF StatusInv
    <2>. QED  BY ZenonT(30), <2>2, <2>3 DEF StatusInv
  <1>. QED  BY ZenonT(30), <1>1, <1>2

\* update_slot_decision, with outcomes for which there is evidence.
LEMMA UpdatedInv ==
    ASSUME IInv, NEW v \in Validators, NEW S \in SUBSET LeaderSlots(commits[v]),
           NEW outcome,
           \A slot \in S : slot[1] >= min_next_leader_round(commits[v]),
           \A slot \in S : outcome[slot] # Undecided =>
               /\ Evidence(decisions, schedule(commits[v]), slot, outcome[slot])
               /\ outcome[slot] \in Blocks => outcome[slot] \in dag[v],
           Updated(v, S, outcome), UNCHANGED <<dag, commits, flushed, produced>>
    PROVE  /\ status' \in [Validators -> Statuses]
           /\ decisions' \in SUBSET (Schedules \X Slots \X (Blocks \cup {Skip}))
           /\ DecisionsInv(decisions')
           /\ \A w \in Validators : ValidatorInv(w)'
           /\ ProducedInv'
  <1>. DEFINE s == schedule(commits[v])
              T == {x \in S : status[v][x] = Undecided /\ outcome[x] # Undecided}
              More == {<<s, slot, outcome[slot]>> : slot \in T}
              st == [slot \in Slots |-> IF slot \in S /\ status[v][slot] = Undecided
                                        THEN outcome[slot] ELSE status[v][slot]]
  <1>1. /\ status \in [Validators -> Statuses]
        /\ commits \in [Validators -> Seq(Commits)]
        /\ s \in Schedules /\ LeaderSlots(commits[v]) = SlotsOf(s)
    BY ZenonT(30), ScheduleFacts DEF IInv, TypeOK, Statuses
  <1>2. status' = [status EXCEPT ![v] = st] /\ decisions' = decisions \cup More
    BY ZenonT(30) DEF Updated
  <1>3. \A slot \in S : slot \in Slots
    BY ZenonT(30), <1>1, SlotsOfFacts
  <1>4. \A slot \in S : outcome[slot] \in Blocks \cup {Skip, Undecided}
    BY ZenonT(30), <1>3 DEF Evidence, BlocksAt
  <1>5. st \in Statuses
    BY <1>1, <1>4 DEF Statuses
  <1>6. More \subseteq {s} \X Slots \X (Blocks \cup {Skip})
    BY <1>3, <1>4
  <1>7. ASSUME NEW slot \in Slots, NEW d \in Blocks \cup {Skip}, <<s, slot, d>> \in More
        PROVE  Evidence(decisions, s, slot, d)
    BY ZenonT(30), <1>7
  <1>8. DecisionsInv(decisions) 
    BY ZenonT(30) DEF IInv
  <1>9. DecisionsInv(decisions')
    <2>. HIDE DEF More, s
    <2>. QED  BY Zenon, <1>1, <1>2, <1>6, <1>7, <1>8, DecisionsAdded
  <1>10. StatusInv(decisions', st, commits[v], dag[v])
    <2>. SUFFICES ASSUME NEW slot \in Slots, st[slot] # Undecided
                  PROVE  /\ slot \in LeaderSlots(commits[v])
                         /\ slot[1] >= min_next_leader_round(commits[v])
                         /\ <<s, slot, st[slot]>> \in decisions'
                         /\ st[slot] \in Blocks => st[slot] \in dag[v]
      BY DEF StatusInv
    <2>1. CASE slot \in S /\ status[v][slot] = Undecided
      <3>1. st[slot] = outcome[slot] /\ slot \in T
        BY ZenonT(30), <2>1
      <3>. QED  BY ZenonT(30), <1>2, <2>1, <3>1
    <2>2. CASE ~(slot \in S /\ status[v][slot] = Undecided)
      <3>1. st[slot] = status[v][slot]
        BY ZenonT(30), <2>2
      <3>. QED  BY ZenonT(30), <1>2, <3>1 DEF IInv, ValidatorInv, StatusInv
    <2>. QED  BY Zenon, <2>1, <2>2
  <1>11. ASSUME NEW w \in Validators  PROVE ValidatorInv(w)'
    <2>1. /\ StoreInv(decisions', dag[w], commits[w])
          /\ StoreInv(decisions', flushed[w].dag, flushed[w].commits)
      <3>1. decisions \subseteq decisions'
        BY ZenonT(30), <1>2
      <3>2. /\ StoreInv(decisions, dag[w], commits[w])
            /\ StoreInv(decisions, flushed[w].dag, flushed[w].commits)
        BY DEF IInv, ValidatorInv
      <3>. QED  BY ZenonT(30), <3>1, <3>2, StoreInvStays
    <2>2. StatusInv(decisions', status'[w], commits[w], dag[w])
      <3>1. CASE w = v
        <4>1. status'[w] = st
          BY ZenonT(30), <1>1, <1>2, <3>1
        <4>. QED  BY ZenonT(30), <1>10, <3>1, <4>1
      <3>2. CASE w # v
        <4>1. status'[w] = status[w]
          BY ZenonT(30), <1>1, <1>2, <3>2
        <4>2. decisions \subseteq decisions'
          BY Zenon, <1>2
        <4>3. StatusInv(decisions, status[w], commits[w], dag[w])
          BY ZenonT(30) DEF IInv, ValidatorInv
        <4>. QED  BY ZenonT(30), <4>1, <4>2, <4>3 DEF StatusInv
      <3>. QED  BY ZenonT(30), <3>1, <3>2
    <2>. QED  BY ZenonT(30), <2>1, <2>2 DEF ValidatorInv
  <1>12. ProducedInv'
    <2>1. decisions \subseteq decisions' /\ produced' = produced
      BY ZenonT(30), <1>2
    <2>. QED  BY ZenonT(30), <2>1, AllJustifiedStays DEF IInv, ProducedInv
  <1>. QED  BY ZenonT(30), <1>1, <1>2, <1>5, <1>9, <1>11, <1>12 DEF DecisionsInv

-----------------------------------------------------------------------------
(* Every action preserves it.                                               *)

LEMMA ViewFacts ==
    ASSUME IInv, NEW v \in Validators
    PROVE  /\ dag[v] \in SUBSET Blocks /\ commits[v] \in Seq(Commits) /\ status[v] \in Statuses
           /\ ClosedAbove(dag[v], gc_round(commits[v])) /\ gc_round(commits[v]) \in Nat
           /\ min_next_leader_round(commits[v]) \in Nat
           /\ gc_round(commits[v]) < min_next_leader_round(commits[v])
           /\ schedule(commits[v]) \in Schedules
           /\ LeaderSlots(commits[v]) = SlotsOf(schedule(commits[v]))
           /\ LeaderSlots(commits[v]) \in SUBSET Slots
  <1>1. dag[v] \in SUBSET Blocks /\ commits[v] \in Seq(Commits) /\ status[v] \in Statuses
    BY ZenonT(30) DEF IInv, TypeOK, Statuses
  <1>2. /\ last_commit_round(commits[v]) \in Nat /\ gc_round(commits[v]) \in Nat
        /\ min_next_leader_round(commits[v]) = last_commit_round(commits[v]) + 1
        /\ gc_round(commits[v]) <= last_commit_round(commits[v])
        /\ schedule(commits[v]) \in Schedules
        /\ LeaderSlots(commits[v]) = SlotsOf(schedule(commits[v]))
        /\ LeaderSlots(commits[v]) \in SUBSET Slots
    BY ZenonT(30), <1>1, CommittedFacts, ScheduleFacts
  <1>3. ClosedAbove(dag[v], gc_round(commits[v]))
    BY ZenonT(30) DEF IInv, ValidatorInv, StoreInv, Chain
  <1>. QED  BY <1>1, <1>2, <1>3

LEMMA TryDirectCommitInv ==
    ASSUME IInv, NEW v \in Validators, TryDirectCommit(v)
    PROVE  IInv'
  <1>. DEFINE S == {slot \in LeaderSlots(commits[v]) :
                       /\ slot[1] >= min_next_leader_round(commits[v])
                       /\ \E b \in dag[v] : slot[1] < Round[b]
                       /\ status[v][slot] = Undecided}
              outcome == [slot \in S |-> try_direct_decide(dag[v], slot)]
  <1>1. /\ Updated(v, S, outcome)
        /\ panicked' = (panicked \/ \E slot \in S : DirectPanics(dag[v], slot))
        /\ phase' = [phase EXCEPT ![v] = "find after direct"]
        /\ UNCHANGED <<dag, commits, cursor, flushed, crashes, produced>>
    BY Zenon DEF TryDirectCommit
  <1>2. /\ dag[v] \in SUBSET Blocks
        /\ ClosedAbove(dag[v], gc_round(commits[v])) /\ gc_round(commits[v]) \in Nat
        /\ min_next_leader_round(commits[v]) \in Nat
        /\ gc_round(commits[v]) < min_next_leader_round(commits[v])
        /\ LeaderSlots(commits[v]) = SlotsOf(schedule(commits[v]))
        /\ LeaderSlots(commits[v]) \in SUBSET Slots
    BY Zenon, ViewFacts
  <1>3. /\ S \in SUBSET LeaderSlots(commits[v])
        /\ \A slot \in S : slot \in Slots /\ slot[1] >= min_next_leader_round(commits[v])
    BY Zenon, <1>2
  <1>4. ASSUME NEW slot \in S, outcome[slot] # Undecided
        PROVE  /\ Evidence(decisions, schedule(commits[v]), slot, outcome[slot])
               /\ outcome[slot] \in Blocks => outcome[slot] \in dag[v]
    <2>1. outcome[slot] = try_direct_decide(dag[v], slot)
      BY Zenon
    <2>2. slot \in Slots /\ slot[1] > gc_round(commits[v]) /\ slot \in SlotsOf(schedule(commits[v]))
      <3>1. slot \in Slots /\ slot[1] >= min_next_leader_round(commits[v])
            /\ slot \in SlotsOf(schedule(commits[v]))
        BY Zenon, <1>2, <1>3
      <3>2. slot[1] \in Nat
        BY ZenonT(30), <3>1, SlotRound
      <3>. QED  BY SMTT(30), <1>2, <3>1, <3>2
    <2>. HIDE DEF outcome, S
    <2>3. DirectEvidence(slot, outcome[slot]) /\ outcome[slot] \in BlocksAt(dag[v], slot) \cup {Skip}
      BY Zenon, <1>2, <1>4, <2>1, <2>2, DirectDecision
    <2>. QED  BY ZenonT(30), <1>2, <2>2, <2>3, ConfigAssumption DEF Evidence, BlocksAt
  <1>5. panicked' = FALSE
    BY Zenon, <1>1, <1>2, <1>3, DirectNeverPanics DEF IInv, NeverPanics, TypeOK
  <1>. HIDE DEF S, outcome
  <1>6. /\ status' \in [Validators -> Statuses]
        /\ decisions' \in SUBSET (Schedules \X Slots \X (Blocks \cup {Skip}))
        /\ DecisionsInv(decisions')
        /\ \A w \in Validators : ValidatorInv(w)'
        /\ ProducedInv'
    BY Zenon, <1>1, <1>3, <1>4, UpdatedInv
  <1>7. TypeOK'
    BY Zenon, <1>1, <1>5, <1>6 DEF IInv, TypeOK, Phases, Statuses
  <1>. QED  BY Zenon, <1>5, <1>6, <1>7 DEF IInv, NeverPanics

LEMMA TryIndirectCommitInv ==
    ASSUME IInv, NEW v \in Validators, TryIndirectCommit(v)
    PROVE  IInv'
  <1>. DEFINE r == cursor[v]
              S == {slot \in LeaderSlots(commits[v]) : slot[1] = r}
              s == schedule(commits[v])
  <1>1. /\ r >= min_next_leader_round(commits[v])
        /\ cursor' = [cursor EXCEPT ![v] = r - 1]
        /\ UNCHANGED <<dag, commits, phase, flushed, crashes, produced>>
    BY Zenon DEF TryIndirectCommit
  <1>2. /\ dag[v] \in SUBSET Blocks /\ status[v] \in Statuses
        /\ ClosedAbove(dag[v], gc_round(commits[v])) /\ gc_round(commits[v]) \in Nat
        /\ min_next_leader_round(commits[v]) \in Nat
        /\ gc_round(commits[v]) < min_next_leader_round(commits[v])
        /\ LeaderSlots(commits[v]) = SlotsOf(s) /\ s \in Schedules
        /\ LeaderSlots(commits[v]) \in SUBSET Slots
    BY Zenon, ViewFacts
  <1>3. /\ S \in SUBSET LeaderSlots(commits[v]) /\ r \in Int
        /\ \A slot \in S : slot \in Slots /\ slot[1] >= min_next_leader_round(commits[v])
                           /\ slot \in SlotsOf(s)
    BY Zenon, <1>1, <1>2 DEF IInv, TypeOK
  <1>4. CASE \E t \in Slots : AnchorSlot(v, r, t) /\ DecideWithAnchorBlock(v, status[v][t], S)
    <2>1. PICK t \in Slots : AnchorSlot(v, r, t) /\ DecideWithAnchorBlock(v, status[v][t], S)
      BY ZenonT(30), <1>4
    <2>. DEFINE k == status[v][t]
                outcome == [slot \in S |-> try_indirect_decide(dag[v], k, slot)]
    <2>2. /\ Updated(v, S, outcome)
          /\ panicked' = (panicked \/ \E slot \in S :
                 \/ status[v][slot] \notin {Undecided, outcome[slot]}
                 \/ ~(Visited(k, slot) \subseteq dag[v]))
      BY ZenonT(30), <2>1 DEF DecideWithAnchorBlock
    <2>3. /\ \A slot \in Slots : status[v][slot] # Undecided =>
                /\ slot \in LeaderSlots(commits[v])
                /\ <<s, slot, status[v][slot]>> \in decisions
                /\ status[v][slot] \in Blocks => status[v][slot] \in dag[v]
          /\ DecisionsInv(decisions)
      BY ZenonT(30) DEF IInv, ValidatorInv, StatusInv
    <2>4. /\ k \in Blocks /\ k \in dag[v] /\ <<s, t, k>> \in decisions
          /\ t \in SlotsOf(s) /\ t[1] >= r + 2
          /\ \A o \in SlotsOf(s) : o[1] >= r + 2 /\ Earlier(s, o, t) => <<s, o, Skip>> \in decisions
      <3>1. k \in Blocks /\ t \in SlotsOf(s) /\ t[1] >= r + 2
        BY Zenon, <1>2, <2>1 DEF AnchorSlot
      <3>2. k # Undecided
        BY ZenonT(30), <3>1, ConfigAssumption
      <3>3. ASSUME NEW o \in SlotsOf(s), o[1] >= r + 2, Earlier(s, o, t)
            PROVE  <<s, o, Skip>> \in decisions
        <4>1. status[v][o] = Skip /\ o \in Slots
          BY ZenonT(30), <1>2, <2>1, <3>3 DEF AnchorSlot
        <4>. QED  BY ZenonT(30), <2>3, <4>1, ConfigAssumption
      <3>. QED  BY ZenonT(30), <2>3, <3>1, <3>2, <3>3
    <2>5. ASSUME NEW slot \in S
          PROVE  /\ Visited(k, slot) \subseteq dag[v]
                 /\ outcome[slot] \in BlocksAt(dag[v], slot) \cup {Skip}
                 /\ Evidence(decisions, s, slot, outcome[slot])
      <3>1. slot \in Slots /\ slot[1] > gc_round(commits[v]) /\ slot \in SlotsOf(s) /\ slot[1] = r
        BY SMTT(30), <1>1, <1>2, <1>3
      <3>2. outcome[slot] = try_indirect_decide(dag[v], k, slot)
        BY Zenon
      <3>. HIDE DEF outcome, S, k, s
      <3>3. Visited(k, slot) \subseteq dag[v]
        BY ZenonT(30), <1>2, <2>4, <3>1, VisitedInView
      <3>4. outcome[slot] \in BlocksAt(dag[v], slot) \cup {Skip}
        BY ZenonT(30), <1>2, <2>4, <3>1, <3>2, IndirectDecision
      <3>5. outcome[slot] = try_indirect_decide(Blocks, k, slot)
        BY ZenonT(30), <1>2, <2>4, <3>1, <3>2, IndirectInView
      <3>6. AnchoredAt(decisions, s, slot, t, k)
        BY ZenonT(30), <2>4, <3>1 DEF AnchoredAt
      <3>7. IndirectEvidence(decisions, s, slot, outcome[slot])
        BY ZenonT(30), <2>1, <2>4, <3>5, <3>6 DEF IndirectEvidence
      <3>. QED  BY ZenonT(30), <1>2, <3>1, <3>3, <3>4, <3>7 DEF Evidence, BlocksAt
    <2>6. ASSUME NEW slot \in S  PROVE status[v][slot] \in {Undecided, outcome[slot]}
      <3>. SUFFICES ASSUME status[v][slot] # Undecided  PROVE status[v][slot] = outcome[slot]
        BY ZenonT(30)
      <3>1. slot \in Slots /\ <<s, slot, status[v][slot]>> \in decisions
            /\ status[v][slot] \in Blocks \cup {Skip}
        BY ZenonT(30), <1>2, <1>3, <2>3 DEF Statuses
      <3>2. Evidence(decisions, s, slot, status[v][slot])
        BY ZenonT(30), <1>2, <2>3, <3>1 DEF DecisionsInv
      <3>3. Evidence(decisions, s, slot, outcome[slot]) /\ outcome[slot] \in Blocks \cup {Skip}
        BY ZenonT(30), <1>2, <2>5 DEF BlocksAt
      <3>. HIDE DEF outcome, S, s
      <3>. QED  BY ZenonT(30), <1>2, <2>3, <3>1, <3>2, <3>3, EvidenceAgrees
    <2>7. panicked' = FALSE
      BY ZenonT(30), <2>2, <2>5, <2>6 DEF IInv, NeverPanics, TypeOK
    <2>8. \A slot \in S : outcome[slot] # Undecided =>
               /\ Evidence(decisions, s, slot, outcome[slot])
               /\ outcome[slot] \in Blocks => outcome[slot] \in dag[v]
      <3>. HIDE DEF outcome, S
      <3>. QED  BY Zenon, <2>5, ConfigAssumption DEF BlocksAt
    <2>. HIDE DEF outcome, S
    <2>9. /\ status' \in [Validators -> Statuses]
          /\ decisions' \in SUBSET (Schedules \X Slots \X (Blocks \cup {Skip}))
          /\ DecisionsInv(decisions')
          /\ \A w \in Validators : ValidatorInv(w)'
          /\ ProducedInv'
      BY Zenon, <1>1, <1>3, <2>2, <2>8, UpdatedInv
    <2>10. TypeOK'
      <3>1. cursor' \in [Validators -> Int]
        BY <1>1, <1>3 DEF IInv, TypeOK
      <3>. QED  BY Zenon, <1>1, <2>7, <2>9, <3>1 DEF IInv, TypeOK, Statuses
    <2>. QED  BY ZenonT(30), <2>7, <2>9, <2>10 DEF IInv, NeverPanics
  <1>5. CASE UNCHANGED <<status, decisions, panicked>>
    <2>1. TypeOK'
      BY SMTT(30), <1>1, <1>3, <1>5 DEF IInv, TypeOK
    <2>2. \A w \in Validators : ValidatorInv(w)'
      BY Zenon, <1>1, <1>5 DEF IInv, ValidatorInv
    <2>3. ProducedInv'
      BY ZenonT(30), <1>1, <1>5 DEF IInv, ProducedInv
    <2>. QED  BY ZenonT(30), <1>1, <1>5, <2>1, <2>2, <2>3 DEF IInv, NeverPanics
  <1>. QED  BY ZenonT(30), <1>4, <1>5 DEF TryIndirectCommit

\* post_commit with a justified commit, whose blocks are in the new dag E.
LEMMA PostCommitInv ==
    ASSUME IInv, NEW v \in Validators, NEW c \in Commits, NEW E,
           Justified(decisions, commits[v], c), E = dag[v] \cup c.blocks,
           dag' = [dag EXCEPT ![v] = E], PostCommit(v, c), UNCHANGED decisions,
           \A w \in Validators : StoreInv(decisions, flushed'[w].dag, flushed'[w].commits)
    PROVE  /\ dag' \in [Validators -> SUBSET Blocks]
           /\ commits' \in [Validators -> Seq(Commits)]
           /\ status' \in [Validators -> Statuses]
           /\ produced' \subseteq Seq(Commits)
           /\ \A w \in Validators : ValidatorInv(w)'
           /\ ProducedInv'
  <1>. DEFINE cs == Append(commits[v], c)
              st == maybe_refresh_pending_commit_state(status[v], commits[v], cs)
  <1>1. /\ dag \in [Validators -> SUBSET Blocks]
        /\ commits \in [Validators -> Seq(Commits)]
        /\ status \in [Validators -> Statuses]
        /\ produced \subseteq Seq(Commits)
        /\ DecisionsInv(decisions) /\ ValidatorInv(v)
    BY ZenonT(30) DEF IInv, TypeOK, Statuses
  <1>2. commits' = [commits EXCEPT ![v] = cs] /\ status' = [status EXCEPT ![v] = st]
        /\ produced' = produced \cup {cs}
    BY Zenon DEF PostCommit
  <1>3. commits[v] \in Seq(Commits) /\ cs \in Seq(Commits) /\ dag[v] \in SUBSET Blocks
        /\ status[v] \in Statuses /\ c.blocks \in SUBSET Blocks /\ E \in SUBSET Blocks
    BY Zenon, <1>1, OneMoreCommit DEF Commits
  <1>4. StoreInv(decisions, E, cs)
    BY Zenon, <1>1, <1>3, StoreExtended DEF ValidatorInv
  <1>5. st \in Statuses /\ StatusInv(decisions, st, cs, E)
    <2>. HIDE DEF cs
    <2>1. StatusInv(decisions, status[v], commits[v], dag[v])
      BY ZenonT(30), <1>1 DEF ValidatorInv
    <2>. QED  BY SMTT(30), <1>3, <2>1, StatusRefreshed
  <1>. HIDE DEF cs, st
  <1>6. ASSUME NEW w \in Validators  PROVE ValidatorInv(w)'
    <2>0. ValidatorInv(w)
      BY Zenon DEF IInv
    <2>1. CASE w = v
      <3>1. dag'[w] = E /\ commits'[w] = cs /\ status'[w] = st
        BY ZenonT(30), <1>1, <1>2, <2>1
      <3>. QED  BY Zenon, <1>4, <1>5, <2>0, <3>1 DEF ValidatorInv
    <2>2. CASE w # v
      <3>1. dag'[w] = dag[w] /\ commits'[w] = commits[w] /\ status'[w] = status[w]
        BY ZenonT(30), <1>1, <1>2, <2>2
      <3>. QED  BY ZenonT(30), <2>0, <3>1 DEF ValidatorInv
    <2>. QED  BY Zenon, <2>1, <2>2
  <1>7. ProducedInv'
    BY ZenonT(30), <1>2, <1>4 DEF IInv, ProducedInv, StoreInv
  <1>. QED  BY ZenonT(30), <1>1, <1>2, <1>3, <1>5, <1>6, <1>7

LEMMA BuildCommitInv ==
    ASSUME IInv, NEW v \in Validators, BuildCommit(v)
    PROVE  IInv'
  <1>. DEFINE Leaders(r) == {b \in Blocks : \E slot \in LeaderSlots(commits[v]) :
                                               slot[1] = r /\ status[v][slot] = b}
  <1>1. PICK r \in Rounds :
            /\ CommitLeaderRound(v, r)
            /\ PostCommit(v, [round |-> r, leaders |-> Leaders(r),
                              blocks |-> SubDag(Leaders(r), commits[v])])
            /\ panicked' = (panicked \/ r <= gc_round(commits[v])
                                     \/ Leaders(r) \cap Committed(commits[v]) # {}
                                     \/ ~(SubDag(Leaders(r), commits[v]) \subseteq dag[v]))
            /\ phase' = [phase EXCEPT ![v] = "direct"]
            /\ UNCHANGED <<dag, cursor, flushed, crashes, decisions>>
    BY Zenon DEF BuildCommit
  <1>. DEFINE L == Leaders(r)
              B == SubDag(L, commits[v])
              c == [round |-> r, leaders |-> L, blocks |-> B]
              s == schedule(commits[v])
  <1>2. /\ dag[v] \in SUBSET Blocks /\ status[v] \in Statuses /\ commits[v] \in Seq(Commits)
        /\ ClosedAbove(dag[v], gc_round(commits[v])) /\ gc_round(commits[v]) \in Nat
        /\ min_next_leader_round(commits[v]) = last_commit_round(commits[v]) + 1
        /\ last_commit_round(commits[v]) \in Nat
        /\ gc_round(commits[v]) < min_next_leader_round(commits[v])
        /\ LeaderSlots(commits[v]) = SlotsOf(s) /\ s \in Schedules
        /\ SlotsOf(s) \in SUBSET Slots
    <2>1. commits[v] \in Seq(Commits)
      BY ZenonT(30), ViewFacts
    <2>. QED  BY ZenonT(30), <2>1, ViewFacts, CommittedFacts, ScheduleFacts
  <1>3. \A slot \in SlotsOf(s) : status[v][slot] # Undecided =>
            /\ <<s, slot, status[v][slot]>> \in decisions
            /\ status[v][slot] \in Blocks => status[v][slot] \in dag[v]
    BY Zenon, <1>2 DEF IInv, ValidatorInv, StatusInv
  <1>4. L \in SUBSET dag[v] /\ L \in SUBSET Blocks
    BY Zenon, <1>2, <1>3, ConfigAssumption
  <1>5. B \subseteq dag[v]
    <2>. HIDE DEF L
    <2>. QED  BY ZenonT(30), <1>2, <1>4, SubDagInView
  <1>6. c \in Commits /\ c.round = r /\ c.leaders = L /\ c.blocks = B
    <2>. HIDE DEF L, B
    <2>. QED  BY ZenonT(30), <1>2, <1>4, <1>5 DEF Commits
  <1>7. r \in Nat /\ r >= last_commit_round(commits[v]) + 1
    BY SMTT(30), <1>1, <1>2, DagAssumption DEF CommitLeaderRound, Rounds
  <1>8. Justified(decisions, commits[v], c)
    <2>1. ASSUME NEW slot \in SlotsOf(s), slot[1] > last_commit_round(commits[v]), slot[1] < r
          PROVE  <<s, slot, Skip>> \in decisions
      <3>1. slot[1] \in Nat
        BY ZenonT(30), <1>2, SlotRound
      <3>2. slot[1] \in min_next_leader_round(commits[v]) .. r - 1
        BY <1>2, <1>7, <2>1, <3>1
      <3>3. status[v][slot] = Skip
        BY Zenon, <1>1, <1>2, <3>2 DEF CommitLeaderRound
      <3>. QED  BY ZenonT(30), <1>3, <3>3, ConfigAssumption
    <2>2. ASSUME NEW slot \in SlotsOf(s), slot[1] = r
          PROVE  \E d \in Blocks \cup {Skip} : <<s, slot, d>> \in decisions /\ (d \in Blocks => d \in L)
      <3>1. status[v][slot] # Undecided
        BY Zenon, <1>1, <1>2, <2>2 DEF CommitLeaderRound
      <3>2. status[v][slot] \in Blocks \cup {Skip}
        BY ZenonT(30), <1>2, <3>1 DEF Statuses
      <3>. QED  BY Zenon, <1>2, <1>3, <2>2, <3>1, <3>2
    <2>3. ASSUME NEW b \in L
          PROVE  \E slot \in SlotsOf(s) : slot[1] = r /\ <<s, slot, b>> \in decisions
      BY ZenonT(30), <1>2, <1>3, ConfigAssumption
    <2>4. L # {}
      BY Zenon, <1>1 DEF CommitLeaderRound
    <2>5. \A b \in L : Round[b] = r
      <3>. SUFFICES ASSUME NEW b \in L  PROVE Round[b] = r
        BY Zenon
      <3>1. PICK slot \in SlotsOf(s) : slot[1] = r /\ <<s, slot, b>> \in decisions
        BY ZenonT(30), <2>3
      <3>2. slot \in Slots /\ b \in Blocks
        BY ZenonT(30), <1>2, <1>4
      <3>3. b \in BlocksAt(Blocks, slot) \cup {Skip}
        BY Zenon, <1>2, <3>1, <3>2 DEF IInv, DecisionsInv, Evidence
      <3>. QED  BY ZenonT(30), <3>1, <3>2, <3>3, ConfigAssumption DEF BlocksAt
    <2>6. r > last_commit_round(commits[v])
      BY SMTT(30), <1>2, <1>7
    <2>. HIDE DEF L, c, B
    <2>7. Follows(commits[v], c)
      BY ZenonT(30), <1>6, <2>4, <2>5, <2>6 DEF Follows, B
    <2>. QED  BY ZenonT(30), <1>6, <2>1, <2>2, <2>3, <2>7 DEF Justified
  <1>9. PostCommit(v, c) /\ dag' = [dag EXCEPT ![v] = dag[v]] /\ dag[v] = dag[v] \cup c.blocks
    BY Zenon, <1>1, <1>5, <1>6 DEF IInv, TypeOK
  <1>10. L \cap Committed(commits[v]) = {}
    <2>. HIDE DEF c, L, B
    <2>1. StoreInv(decisions, dag[v], commits[v]) /\ DecisionsInv(decisions)
      BY Zenon DEF IInv, ValidatorInv
    <2>. QED  BY Zenon, <1>2, <1>6, <1>8, <2>1, StoreExtended
  <1>11. panicked' = FALSE
    <2>1. ~(r <= gc_round(commits[v]))
      BY <1>2, <1>7
    <2>. QED  BY Zenon, <1>1, <1>5, <1>10, <2>1 DEF IInv, NeverPanics, TypeOK
  <1>. HIDE DEF c, L, B, Leaders
  <1>12. /\ dag' \in [Validators -> SUBSET Blocks]
         /\ commits' \in [Validators -> Seq(Commits)]
         /\ status' \in [Validators -> Statuses]
         /\ produced' \subseteq Seq(Commits)
         /\ \A w \in Validators : ValidatorInv(w)'
         /\ ProducedInv'
    <2>1. \A w \in Validators : StoreInv(decisions, flushed'[w].dag, flushed'[w].commits)
      BY Zenon, <1>1 DEF IInv, ValidatorInv
    <2>. QED  BY Zenon, <1>1, <1>6, <1>8, <1>9, <2>1, PostCommitInv
  <1>13. TypeOK'
    BY Zenon, <1>1, <1>11, <1>12 DEF IInv, TypeOK, Phases, Statuses
  <1>. QED  BY ZenonT(30), <1>1, <1>11, <1>12, <1>13 DEF IInv, NeverPanics

LEMMA AddCertifiedCommitInv ==
    ASSUME IInv, NEW v \in Validators, AddCertifiedCommit(v)
    PROVE  IInv'
  <1>1. PICK cs \in produced :
            LET commit == cs[Len(commits[v]) + 1]
                accepted == dag[v] \cup commit.blocks
            IN  /\ Len(cs) > Len(commits[v])
                /\ dag' = [dag EXCEPT ![v] = accepted]
                /\ \/ flushed' = flushed
                   \/ flushed' = [flushed EXCEPT ![v] = [dag |-> accepted, commits |-> commits[v]]]
                /\ PostCommit(v, commit)
                /\ panicked' = (panicked \/ SubSeq(cs, 1, Len(commits[v])) # commits[v]
                                         \/ commit.blocks \cap Committed(commits[v]) # {})
                /\ phase' = [phase EXCEPT ![v] = "certified"]
                /\ UNCHANGED <<cursor, crashes, decisions>>
    BY Zenon DEF AddCertifiedCommit
  <1>. DEFINE n == Len(commits[v]) + 1
              c == cs[n]
              F == [dag |-> dag[v] \cup c.blocks, commits |-> commits[v]]
  <1>2. /\ commits[v] \in Seq(Commits) /\ cs \in Seq(Commits)
        /\ Len(commits[v]) \in Nat /\ Len(cs) \in Nat
        /\ DecisionsInv(decisions)
        /\ StoreInv(decisions, dag[v], commits[v])
        /\ AllJustified(decisions, commits[v]) /\ AllJustified(decisions, cs)
        /\ dag[v] \in SUBSET Blocks
    BY ZenonT(30), SequenceOfCommits DEF IInv, TypeOK, ValidatorInv, ProducedInv, StoreInv
  <1>3. n \in 1 .. Len(cs) /\ n \in 1 .. Len(cs) + 1 /\ n \in 1 .. Len(commits[v]) + 1
    BY SMTT(30), <1>1, <1>2
  <1>4. c \in Commits
    BY ZenonT(30), <1>2, <1>3, SequenceOfCommits
  <1>5. Before(cs, n) = commits[v]
    <2>1. \A j \in 1 .. n - 1 : commits[v][j] = cs[j]
      <3>. SUFFICES ASSUME NEW j \in 1 .. n - 1  PROVE commits[v][j] = cs[j]
        BY Zenon
      <3>1. j \in 1 .. Len(commits[v]) /\ j \in 1 .. Len(cs)
        BY <1>2, <1>3
      <3>. QED  BY ZenonT(30), <1>2, <3>1, JustifiedCommitsAgree
    <2>2. Before(commits[v], n) = Before(cs, n)
      BY Zenon, <1>2, <1>3, <2>1, EqualBefore
    <2>. QED  BY ZenonT(30), <1>2, <2>2, BeforeTheEnd
  <1>6. Justified(decisions, commits[v], c)
    BY ZenonT(30), <1>2, <1>3, <1>5 DEF AllJustified
  <1>7. /\ c.blocks \cap Committed(commits[v]) = {}
        /\ StoreInv(decisions, dag[v] \cup c.blocks, commits[v])
    <2>. HIDE DEF c
    <2>. QED  BY Zenon, <1>2, <1>4, <1>6, StoreExtended, StoreWithBlocks
  <1>8. panicked' = FALSE
    <2>1. SubSeq(cs, 1, Len(commits[v])) = commits[v]
      <3>1. n - 1 = Len(commits[v])
        BY SMTT(30), <1>2
      <3>. QED  BY Zenon, <1>5, <3>1 DEF Before
    <2>. QED  BY Zenon, <1>1, <1>7, <2>1 DEF IInv, NeverPanics, TypeOK
  <1>9. /\ PostCommit(v, c) /\ dag' = [dag EXCEPT ![v] = dag[v] \cup c.blocks]
        /\ flushed' = flushed \/ flushed' = [flushed EXCEPT ![v] = F]
        /\ UNCHANGED decisions
    BY Zenon, <1>1
  <1>10. F \in [dag : SUBSET Blocks, commits : Seq(Commits)]
    <2>. HIDE DEF c
    <2>1. c.blocks \in SUBSET Blocks
      BY ZenonT(30), <1>4 DEF Commits
    <2>. QED  BY Zenon, <1>2, <2>1
  <1>11. flushed \in [Validators -> [dag : SUBSET Blocks, commits : Seq(Commits)]]
    BY Zenon DEF IInv, TypeOK
  <1>12. flushed' \in [Validators -> [dag : SUBSET Blocks, commits : Seq(Commits)]]
    <2>. HIDE DEF F
    <2>. QED  BY Zenon, <1>9, <1>10, <1>11
  <1>13. ASSUME NEW w \in Validators
         PROVE  StoreInv(decisions, flushed'[w].dag, flushed'[w].commits)
    <2>1. CASE flushed'[w] = flushed[w]
      BY ZenonT(30), <2>1 DEF IInv, ValidatorInv
    <2>2. CASE flushed'[w] = F
      <3>1. flushed'[w].dag = dag[v] \cup c.blocks /\ flushed'[w].commits = commits[v]
        BY SMTT(30), <2>2
      <3>. QED  BY ZenonT(30), <1>7, <3>1
    <2>3. flushed'[w] = flushed[w] \/ flushed'[w] = F
      <3>. HIDE DEF F
      <3>. QED  BY Zenon, <1>9, <1>11
    <2>. QED  BY ZenonT(30), <2>1, <2>2, <2>3
  <1>. HIDE DEF c, n, F
  <1>14. /\ dag' \in [Validators -> SUBSET Blocks]
         /\ commits' \in [Validators -> Seq(Commits)]
         /\ status' \in [Validators -> Statuses]
         /\ produced' \subseteq Seq(Commits)
         /\ \A x \in Validators : ValidatorInv(x)'
         /\ ProducedInv'
    BY Zenon, <1>4, <1>6, <1>9, <1>13, PostCommitInv
  <1>15. TypeOK'
    <2>1. /\ phase' = [phase EXCEPT ![v] = "certified"]
          /\ UNCHANGED <<cursor, crashes, decisions>>
      BY ZenonT(30), <1>1
    <2>. QED  BY Zenon, <1>8, <1>12, <1>14, <2>1 DEF IInv, TypeOK, Phases, Statuses
  <1>. QED  BY Zenon, <1>8, <1>9, <1>14, <1>15 DEF IInv, NeverPanics

LEMMA AddBlockInv ==
    ASSUME IInv, NEW v \in Validators, AddBlock(v)
    PROVE  IInv'
  <1>1. PICK b \in Blocks :
            /\ Acceptable(b, dag[v], commits[v])
            /\ dag' = [dag EXCEPT ![v] = @ \cup {b}]
            /\ phase' = [phase EXCEPT ![v] = IF @ = "idle" THEN "added" ELSE @]
            /\ UNCHANGED <<commits, status, cursor, flushed, crashes, decisions, produced, panicked>>
    BY Zenon DEF AddBlock
  <1>2. TypeOK'
    <2>1. phase' \in [Validators -> Phases]
      BY Zenon, <1>1 DEF IInv, TypeOK, Phases
    <2>2. dag' \in [Validators -> SUBSET Blocks]
      BY ZenonT(30), <1>1 DEF IInv, TypeOK
    <2>. QED  BY ZenonT(30), <1>1, <2>1, <2>2 DEF IInv, TypeOK
  <1>3. ASSUME NEW w \in Validators  PROVE ValidatorInv(w)'
    <2>0. /\ ValidatorInv(w)
          /\ dag \in [Validators -> SUBSET Blocks]
          /\ commits \in [Validators -> Seq(Commits)]
      BY Zenon DEF IInv, TypeOK
    <2>1. dag[w] \subseteq dag'[w]
      BY Zenon, <1>1, <2>0
    <2>2. StatusInv(decisions, status[w], commits[w], dag'[w])
      BY Zenon, <2>0, <2>1 DEF ValidatorInv, StatusInv
    <2>3. Chain(dag'[w], commits[w])
      <3>0. Chain(dag[w], commits[w])
        BY Zenon, <2>0 DEF ValidatorInv, StoreInv
      <3>1. CASE w = v
        <4>1. dag'[w] = dag[v] \cup {b}
          BY ZenonT(30), <1>1, <2>0, <3>1
        <4>. QED  BY ZenonT(30), <1>1, <2>0, <3>0, <3>1, <4>1, BlockAccepted
      <3>2. CASE w # v
        <4>1. dag'[w] = dag[w]
          BY ZenonT(30), <1>1, <2>0, <3>2
        <4>. QED  BY ZenonT(30), <3>0, <4>1
      <3>. QED  BY ZenonT(30), <3>1, <3>2
    <2>4. StoreInv(decisions, dag'[w], commits[w])
      BY Zenon, <2>0, <2>3 DEF ValidatorInv, StoreInv
    <2>. QED  BY ZenonT(30), <1>1, <2>0, <2>2, <2>4 DEF ValidatorInv
  <1>4. ProducedInv'
    BY Zenon, <1>1 DEF IInv, ProducedInv
  <1>. QED  BY ZenonT(30), <1>1, <1>2, <1>3, <1>4 DEF IInv, NeverPanics

LEMMA FlushInv ==
    ASSUME IInv, NEW v \in Validators, Flush(v)
    PROVE  IInv'
  <1>1. /\ flushed' = [flushed EXCEPT ![v] = [dag |-> dag[v], commits |-> commits[v]]]
        /\ UNCHANGED <<dag, commits, status, phase, cursor, crashes, decisions, produced, panicked>>
    BY ZenonT(30) DEF Flush, core
  <1>2. TypeOK'
    BY ZenonT(30), <1>1 DEF IInv, TypeOK
  <1>3. ASSUME NEW w \in Validators  PROVE ValidatorInv(w)'
    <2>0. ValidatorInv(w) /\ flushed \in [Validators -> [dag : SUBSET Blocks, commits : Seq(Commits)]]
      BY Zenon DEF IInv, TypeOK
    <2>1. StoreInv(decisions, flushed'[w].dag, flushed'[w].commits)
      <3>1. CASE w = v
        <4>1. flushed'[w].dag = dag[w] /\ flushed'[w].commits = commits[w]
          BY ZenonT(30), <1>1, <2>0, <3>1
        <4>. QED  BY ZenonT(30), <2>0, <4>1 DEF ValidatorInv
      <3>2. CASE w # v
        <4>1. flushed'[w] = flushed[w]
          BY ZenonT(30), <1>1, <2>0, <3>2
        <4>. QED  BY ZenonT(30), <2>0, <4>1 DEF ValidatorInv
      <3>. QED  BY ZenonT(30), <3>1, <3>2
    <2>. QED  BY Zenon, <1>1, <2>0, <2>1 DEF ValidatorInv
  <1>4. ProducedInv'
    BY Zenon, <1>1 DEF IInv, ProducedInv
  <1>. QED  BY Zenon, <1>1, <1>2, <1>3, <1>4 DEF IInv, NeverPanics

LEMMA RestartInv ==
    ASSUME IInv, NEW v \in Validators, Restart(v)
    PROVE  IInv'
  <1>1. /\ crashes' = crashes + 1
        /\ dag' = [dag EXCEPT ![v] = flushed[v].dag]
        /\ commits' = [commits EXCEPT ![v] = flushed[v].commits]
        /\ status' = [status EXCEPT ![v] = NothingDecided]
        /\ phase' = [phase EXCEPT ![v] = "direct"]
        /\ cursor' = [cursor EXCEPT ![v] = 0]
        /\ UNCHANGED <<flushed, decisions, produced, panicked>>
    BY Zenon DEF Restart
  <1>2. NothingDecided \in Statuses /\ \A slot \in Slots : NothingDecided[slot] = Undecided
    BY ZenonT(30) DEF NothingDecided, Statuses
  <1>3. TypeOK'
    <2>1. flushed[v].dag \in SUBSET Blocks /\ flushed[v].commits \in Seq(Commits)
      BY Zenon DEF IInv, TypeOK
    <2>2. status' \in [Validators -> Statuses]
      BY Zenon, <1>1, <1>2 DEF IInv, TypeOK, Statuses
    <2>3. phase' \in [Validators -> Phases]
      BY Zenon, <1>1 DEF IInv, TypeOK, Phases
    <2>4. dag' \in [Validators -> SUBSET Blocks] /\ commits' \in [Validators -> Seq(Commits)]
      BY Zenon, <1>1, <2>1 DEF IInv, TypeOK
    <2>5. cursor' \in [Validators -> Int]
      BY <1>1 DEF IInv, TypeOK
    <2>6. crashes' \in Nat
      BY <1>1 DEF IInv, TypeOK
    <2>. QED  BY ZenonT(30), <1>1, <2>2, <2>3, <2>4, <2>5, <2>6 DEF IInv, TypeOK, Statuses
  <1>4. ASSUME NEW w \in Validators  PROVE ValidatorInv(w)'
    <2>0. /\ ValidatorInv(w)
          /\ dag \in [Validators -> SUBSET Blocks]
          /\ commits \in [Validators -> Seq(Commits)]
          /\ status \in [Validators -> Statuses]
      BY Zenon DEF IInv, TypeOK, Statuses
    <2>1. CASE w = v
      <3>1. dag'[w] = flushed[w].dag /\ commits'[w] = flushed[w].commits /\ status'[w] = NothingDecided
        BY ZenonT(30), <1>1, <2>0, <2>1
      <3>2. StatusInv(decisions, status'[w], commits'[w], dag'[w])
        BY Zenon, <1>2, <3>1 DEF StatusInv
      <3>. QED  BY Zenon, <1>1, <2>0, <3>1, <3>2 DEF ValidatorInv
    <2>2. CASE w # v
      <3>1. dag'[w] = dag[w] /\ commits'[w] = commits[w] /\ status'[w] = status[w]
        BY ZenonT(30), <1>1, <2>0, <2>2
      <3>. QED  BY Zenon, <1>1, <2>0, <3>1 DEF ValidatorInv
    <2>. QED  BY ZenonT(30), <2>1, <2>2
  <1>5. ProducedInv'
    BY Zenon, <1>1 DEF IInv, ProducedInv
  <1>. QED  BY ZenonT(30), <1>1, <1>3, <1>4, <1>5 DEF IInv, NeverPanics

\* Steps that only move through try_commit_v3.
LEMMA PhaseInv ==
    ASSUME IInv, phase' \in [Validators -> Phases], cursor' \in [Validators -> Int],
           UNCHANGED <<dag, commits, status, flushed, crashes, decisions, produced, panicked>>
    PROVE  IInv'
  <1>1. TypeOK'
    BY ZenonT(30) DEF IInv, TypeOK
  <1>2. \A v \in Validators : ValidatorInv(v)'
    BY Zenon DEF IInv, ValidatorInv
  <1>3. ProducedInv'
    BY Zenon DEF IInv, ProducedInv
  <1>. QED  BY ZenonT(30), <1>1, <1>2, <1>3 DEF IInv, NeverPanics

LEMMA InitIInv == Init => IInv
  <1>. SUFFICES ASSUME Init  PROVE IInv
    BY Zenon
  <1>1. NothingDecided \in Statuses /\ \A slot \in Slots : NothingDecided[slot] = Undecided
    BY Zenon DEF NothingDecided, Statuses
  <1>2. <<>> \in Seq(Commits) /\ Len(<<>>) = 0
    BY ZenonT(30), EmptySequence
  <1>3. TypeOK
    <2>1. status \in [Validators -> Statuses] /\ commits \in [Validators -> Seq(Commits)]
      BY ZenonT(30), <1>1, <1>2 DEF Init
    <2>2. flushed \in [Validators -> [dag : SUBSET Blocks, commits : Seq(Commits)]]
      BY Zenon, <1>2 DEF Init
    <2>3. phase \in [Validators -> Phases]
      BY Zenon DEF Init, Phases
    <2>4. dag \in [Validators -> SUBSET Blocks] /\ cursor \in [Validators -> Int]
      BY DEF Init
    <2>5. crashes \in Nat /\ panicked \in BOOLEAN /\ produced \subseteq Seq(Commits)
          /\ decisions \subseteq Schedules \X Slots \X (Blocks \cup {Skip})
      BY Zenon DEF Init
    <2>. QED  BY ZenonT(30), <2>1, <2>2, <2>3, <2>4, <2>5 DEF TypeOK, Statuses
  <1>4. \A Dec : StoreInv(Dec, {}, <<>>)
    BY <1>2, EmptyChain DEF StoreInv, AllJustified
  <1>5. \A v \in Validators : ValidatorInv(v)
    BY Zenon, <1>1, <1>4 DEF Init, ValidatorInv, StatusInv
  <1>6. DecisionsInv(decisions)
    BY Zenon DEF Init, DecisionsInv, Agreed
  <1>7. ProducedInv
    BY Zenon DEF Init, ProducedInv
  <1>. QED  BY ZenonT(30), <1>3, <1>5, <1>6, <1>7 DEF Init, IInv, NeverPanics

LEMMA NextIInv == IInv /\ [Next]_vars => IInv'
  <1>. SUFFICES ASSUME IInv, [Next]_vars  PROVE IInv'
    BY Zenon
  <1>0. phase \in [Validators -> Phases] /\ cursor \in [Validators -> Int]
    BY Zenon DEF IInv, TypeOK
  <1>1. ASSUME NEW v \in Validators, TryCommit(v)  PROVE IInv'
    <2>1. CASE StartIndirectCommit(v)
      <3>1. phase' \in [Validators -> Phases]
        BY Zenon, <1>0, <2>1 DEF StartIndirectCommit, Phases
      <3>2. cursor' \in [Validators -> Int]
        <4>1. PICK highest \in {0} \cup Rounds : cursor' = [cursor EXCEPT ![v] = highest - 2]
          BY Zenon, <2>1 DEF StartIndirectCommit
        <4>2. highest - 2 \in Int
          BY DagAssumption DEF Rounds
        <4>. QED  BY ZenonT(30), <1>0, <4>1, <4>2
      <3>. QED  BY Zenon, <2>1, <3>1, <3>2, PhaseInv DEF StartIndirectCommit
    <2>2. CASE EndIndirectCommit(v)
      <3>1. phase' \in [Validators -> Phases]
        BY Zenon, <1>0, <2>2 DEF EndIndirectCommit, Phases
      <3>2. cursor' \in [Validators -> Int]
        <4>1. cursor' = [cursor EXCEPT ![v] = 0]
          BY Zenon, <2>2 DEF EndIndirectCommit
        <4>. QED  BY <1>0, <4>1
      <3>. QED  BY Zenon, <2>2, <3>1, <3>2, PhaseInv DEF EndIndirectCommit
    <2>3. CASE EndTryCommit(v)
      BY Zenon, <1>0, <2>3, PhaseInv DEF EndTryCommit, Phases
    <2>. QED
      BY ZenonT(30), <1>1, <2>1, <2>2, <2>3, TryDirectCommitInv, BuildCommitInv, TryIndirectCommitInv DEF TryCommit
  <1>2. CASE UNCHANGED vars
    BY ZenonT(30), <1>0, <1>2, PhaseInv DEF vars, core
  <1>. QED
    BY ZenonT(30), <1>1, <1>2, AddBlockInv, AddCertifiedCommitInv, FlushInv, RestartInv DEF Next

THEOREM IInvAlways == Spec => []IInv
  BY InitIInv, NextIInv, PTL DEF Spec

-----------------------------------------------------------------------------

\* In every reachable state the variables of every validator have their types.
THEOREM TypeOKAlways == Spec => []TypeOK
  <1>1. IInv => TypeOK
    BY ZenonT(30) DEF IInv
  <1>. QED  BY <1>1, IInvAlways, PTL

\* No assertion of the committer ever fails, whatever blocks a validator has
\* accepted and in whatever order, and wherever it restarts.
THEOREM NeverPanicsAlways == Spec => []NeverPanics
  <1>1. IInv => NeverPanics
    BY ZenonT(30) DEF IInv
  <1>. QED  BY <1>1, IInvAlways, PTL

\* No leader slot is ever decided in two ways, by two validators or by one of
\* them before and after a restart, with the direct or with the indirect rule.
THEOREM DecisionsAgreeAlways == Spec => []DecisionsAgree
  <1>1. IInv => DecisionsAgree
    <2>. SUFFICES ASSUME IInv, NEW x \in decisions, NEW y \in decisions,
                         x[1] = y[1], x[2] = y[2]
                  PROVE  x[3] = y[3]
      BY Zenon DEF DecisionsAgree
    <2>1. decisions \in SUBSET (Schedules \X Slots \X (Blocks \cup {Skip})) /\ Agreed(decisions)
      BY Zenon DEF IInv, DecisionsInv
    <2>2. /\ x[1] \in Schedules /\ x[2] \in Slots
          /\ x[3] \in Blocks \cup {Skip} /\ y[3] \in Blocks \cup {Skip}
          /\ x = <<x[1], x[2], x[3]>> /\ y = <<y[1], y[2], y[3]>>
      BY SMTT(30), <2>1
    <2>. QED  BY ZenonT(30), <2>1, <2>2 DEF Agreed
  <1>. QED  BY <1>1, IInvAlways, PTL

\* Any two validators have the same commits as far as both have committed, and
\* so do a validator before and after a restart.
THEOREM CommitsAgreeAlways == Spec => []CommitsAgree
  <1>1. IInv => CommitsAgree
    <2>. SUFFICES ASSUME IInv, NEW cs \in produced, NEW ds \in produced,
                         NEW i \in DOMAIN cs \cap DOMAIN ds
                  PROVE  cs[i] = ds[i]
      BY Zenon DEF CommitsAgree, Agree
    <2>1. /\ cs \in Seq(Commits) /\ ds \in Seq(Commits)
          /\ DecisionsInv(decisions)
          /\ AllJustified(decisions, cs) /\ AllJustified(decisions, ds)
      BY Zenon DEF IInv, TypeOK, ProducedInv
    <2>2. i \in 1 .. Len(cs) /\ i \in 1 .. Len(ds)
      BY ZenonT(30), <2>1, SequenceOfCommits
    <2>. QED  BY Zenon, <2>1, <2>2, JustifiedCommitsAgree
  <1>. QED  BY <1>1, IInvAlways, PTL

\* No block is ever in two commits of a validator.
THEOREM CommittedOnceAlways == Spec => []CommittedOnce
  <1>1. IInv => CommittedOnce
    <2>. SUFFICES ASSUME IInv, NEW v \in Validators  PROVE NothingTwice(commits[v])
      BY Zenon DEF CommittedOnce
    <2>1. commits[v] \in Seq(Commits) /\ Chain(dag[v], commits[v])
      BY ZenonT(30) DEF IInv, TypeOK, ValidatorInv, StoreInv
    <2>. QED  BY ZenonT(30), <2>1, ChainHasNothingTwice
  <1>. QED  BY <1>1, IInvAlways, PTL

\* The history of a committed block above the gc round is committed with it or
\* before it, in every commit of every validator.
THEOREM CommittedInCausalOrderAlways == Spec => []CommittedInCausalOrder
  <1>1. IInv => CommittedInCausalOrder
    <2>. SUFFICES ASSUME IInv, NEW v \in Validators  PROVE InCausalOrder(commits[v])
      BY Zenon DEF CommittedInCausalOrder
    <2>1. commits[v] \in Seq(Commits) /\ Chain(dag[v], commits[v])
      BY Zenon DEF IInv, TypeOK, ValidatorInv, StoreInv
    <2>. QED  BY Zenon, <2>1, ChainIsInCausalOrder
  <1>. QED  BY <1>1, IInvAlways, PTL

-----------------------------------------------------------------------------
(* Consensus v3 implements the log of commits.                              *)

LEMMA CopiesInvAlways == Spec => []CopiesInv
  <1>1. Init => CopiesInv
    BY SMTT(30), SequenceOfCommits DEF Init, CopiesInv, CopyInv, Begins
  <1>2. IInv /\ CopiesInv /\ [Next]_vars => CopiesInv'
    BY Zenon, NextCopies DEF IInv, TypeOK, CommitTypes
  <1>. QED  BY <1>1, <1>2, IInvAlways, PTL DEF Spec

\* Consensus v3 implements the log of commits, for every committee, every DAG,
\* every set of validators and any number of restarts: each commit made with
\* add_commit or with add_certified_commits extends one log.
THEOREM FlexImplementsCommitLog == Spec => ImplementsCommitLog
  <1>1. Init => Log!LogInit
    BY ZenonT(30) DEF Init, Log!LogInit, EntriesOf
  <1>2. IInv /\ CopiesInv /\ CommitsAgree' /\ [Next]_vars => [Log!LogNext]_Log!logVars
    BY Zenon, NextIsLogStep DEF IInv, TypeOK, CommitTypes, CommitsAgree
  <1>. QED
    BY <1>1, <1>2, IInvAlways, CopiesInvAlways, CommitsAgreeAlways, PTL
    DEF Spec, ImplementsCommitLog, Log!LogSpec
=============================================================================

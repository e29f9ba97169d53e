---------------------- MODULE UniversalCommitter_proof ----------------------
(* Agreement of the commit rule of consensus v2 and its refinement of the    *)
(* commit log, for every committee, every DAG, every leader schedule, every  *)
(* set of validators and any number of restarts.                             *)
EXTENDS UniversalCommitter, Dag_proof

\* Facts of arithmetic that steps further down cite.
LEMMA Above ==
    \A x, y, z \in Nat : /\ y > x => y >= x /\ x <= y
                         /\ x <= y /\ x # y => x < y
                         /\ x <= y /\ z > y => z > x
  OBVIOUS

LEMMA RoomLeft ==
    /\ \A x, len, limit \in Nat : len < limit => x - x < limit - len
    /\ \A r, q, last, len, limit \in Nat :
           last - r < limit - len /\ q > r /\ q <= last
           => len + 1 < limit /\ last - q < limit - (len + 1)
  OBVIOUS

\* What a block refers to in the round before is above the gc round when the
\* block is above the last commit.
LEMMA ParentsAreKept ==
    ASSUME NEW cs, last_commit_round(cs) \in Nat
    PROVE  \A r, p \in Nat : r > last_commit_round(cs) /\ p = r - 1 /\ p > 0 => p > gc_round(cs)
  BY GcAssumption DEF gc_round, calculate_gc_round

(* What a decision of the direct rule rests on, and what the indirect rule   *)
(* makes of it.                                                             *)

\* A quorum of blocks two rounds above, all of them certificates for b.
CommitEvidence(slot, b) ==
    /\ b \in BlocksAt(Blocks, slot)
    /\ \E W \in SUBSET Blocks : /\ \A x \in W : Round[x] = slot[1] + 2 /\ is_certificate(x, b)
                                /\ ReachesQuorum(W)

\* A quorum of blocks of the next round without a vote for any block of the slot.
SkipEvidence(slot) ==
    \E W \in SUBSET Blocks :
        /\ \A x \in W : /\ Round[x] = slot[1] + 1
                        /\ \A b \in BlocksAt(Blocks, slot) : b \notin Ancestors[x]
        /\ ReachesQuorum(W)

DirectEvidence(slot, d) ==
    \/ d \in Blocks /\ CommitEvidence(slot, d)
    \/ d = Skip /\ SkipEvidence(slot)

LEMMA CertificateHasVotes ==
    ASSUME NEW x \in Blocks, NEW b, is_certificate(x, b)
    PROVE  \E V \in SUBSET Blocks :
               /\ \A y \in V : y \in Ancestors[x] /\ Round[y] = Round[b] + 1 /\ b \in Ancestors[y]
               /\ ReachesQuorum(V)
  <1>. DEFINE V == {y \in Ancestors[x] : is_vote(y, b)}
  <1>1. V \in SUBSET Blocks
    BY Zenon, DagAssumption
  <1>2. \A y \in V : y \in Ancestors[x] /\ Round[y] = Round[b] + 1 /\ b \in Ancestors[y]
    BY Zenon DEF is_vote
  <1>3. ReachesQuorum(V)
    BY Zenon DEF is_certificate
  <1>. QED  BY Zenon, <1>1, <1>2, <1>3

\* Of the blocks that may fill a slot, one at most ever has a certificate.
LEMMA OneCertifiedBlock ==
    ASSUME NEW slot, NEW b \in BlocksAt(Blocks, slot), NEW c \in BlocksAt(Blocks, slot),
           NEW x \in Blocks, is_certificate(x, b), NEW y \in Blocks, is_certificate(y, c)
    PROVE  b = c
  <1>0. Round[b] = Round[c] /\ Author[b] = Author[c] /\ b \in Blocks /\ c \in Blocks
    BY Zenon DEF BlocksAt
  <1>1. PICK V \in SUBSET Blocks : /\ \A z \in V : Round[z] = Round[b] + 1 /\ b \in Ancestors[z]
                                   /\ ReachesQuorum(V)
    BY Zenon, CertificateHasVotes
  <1>2. PICK W \in SUBSET Blocks : /\ \A z \in W : Round[z] = Round[b] + 1 /\ c \in Ancestors[z]
                                   /\ ReachesQuorum(W)
    BY <1>0, CertificateHasVotes
  <1>3. PICK z \in V : z \in W
    BY Zenon, <1>1, <1>2, QuorumsMeet
  <1>4. VerifiedBlock(z) /\ b \in Ancestors[z] /\ c \in Ancestors[z]
    BY Zenon, <1>1, <1>2, <1>3, DagAssumption
  <1>. QED  BY Zenon, <1>0, <1>4 DEF VerifiedBlock

LEMMA CertifiedIsNotSkipped ==
    ASSUME NEW slot, NEW b \in BlocksAt(Blocks, slot),
           NEW x \in Blocks, is_certificate(x, b), SkipEvidence(slot)
    PROVE  FALSE
  <1>0. Round[b] = slot[1]
    BY Zenon DEF BlocksAt
  <1>1. PICK V \in SUBSET Blocks : /\ \A z \in V : Round[z] = slot[1] + 1 /\ b \in Ancestors[z]
                                   /\ ReachesQuorum(V)
    BY <1>0, CertificateHasVotes
  <1>2. PICK W \in SUBSET Blocks : /\ \A z \in W : Round[z] = slot[1] + 1 /\ b \notin Ancestors[z]
                                   /\ ReachesQuorum(W)
    BY Zenon DEF SkipEvidence
  <1>3. PICK z \in V : z \in W
    BY Zenon, <1>1, <1>2, QuorumsMeet
  <1>. QED  BY Zenon, <1>1, <1>2, <1>3

LEMMA CommittedIsCertified ==
    ASSUME NEW slot, NEW b, CommitEvidence(slot, b)
    PROVE  b \in BlocksAt(Blocks, slot) /\ \E x \in Blocks : is_certificate(x, b)
  <1>1. PICK W \in SUBSET Blocks : (\A x \in W : is_certificate(x, b)) /\ ReachesQuorum(W)
    BY Zenon DEF CommitEvidence
  <1>2. PICK x \in W : TRUE
    BY Zenon, <1>1, QuorumHasBlock
  <1>. QED  BY Zenon, <1>1, <1>2 DEF CommitEvidence

\* The direct rule decides a slot in one way only.
LEMMA DirectIsUnique ==
    ASSUME NEW slot, NEW d, NEW e, DirectEvidence(slot, d), DirectEvidence(slot, e)
    PROVE  d = e
  <1>1. ASSUME NEW b, NEW c, CommitEvidence(slot, b), CommitEvidence(slot, c)
        PROVE  b = c
    BY Zenon, <1>1, CommittedIsCertified, OneCertifiedBlock
  <1>2. ASSUME NEW b, CommitEvidence(slot, b), SkipEvidence(slot)
        PROVE  FALSE
    BY Zenon, <1>2, CommittedIsCertified, CertifiedIsNotSkipped
  <1>. QED  BY Zenon, <1>1, <1>2 DEF DirectEvidence

\* With an anchor three rounds above, the indirect rule comes to the decision
\* of the direct rule: the anchor's past holds a quorum of the decision round.
LEMMA IndirectFollowsDirect ==
    ASSUME NEW slot, slot[1] \in Nat \ {0}, NEW d, DirectEvidence(slot, d),
           NEW k \in Blocks, Round[k] >= slot[1] + 3
    PROVE  decide_leader_from_anchor(Blocks, k, slot) = d
  <1>. DEFINE S == CertifiedLeaders(Blocks, k, slot)
  <1>0. Past[k] \subseteq Blocks
    BY Zenon, DagAssumption
  <1>1. ASSUME NEW c \in S
        PROVE  c \in BlocksAt(Blocks, slot) /\ \E x \in Blocks : is_certificate(x, c)
    BY Zenon, <1>0 DEF CertifiedLeaders, ancestors_at_round, At
  <1>2. CASE d \in Blocks /\ CommitEvidence(slot, d)
    <2>1. PICK W \in SUBSET Blocks : /\ \A x \in W : Round[x] = slot[1] + 2 /\ is_certificate(x, d)
                                     /\ ReachesQuorum(W)
      BY Zenon, <1>2 DEF CommitEvidence
    <2>2. /\ slot[1] + 1 \in Nat \ {0} /\ (slot[1] + 1) + 1 = slot[1] + 2
          /\ (slot[1] + 1) + 2 = slot[1] + 3
      OBVIOUS
    <2>3. PICK P \in SUBSET Past[k] : /\ \A x \in P : x \in Blocks /\ Round[x] = slot[1] + 2
                                      /\ ReachesQuorum(P)
      BY Zenon, <2>2, PastHoldsQuorum
    <2>4. P \in SUBSET Blocks
      BY Zenon, <1>0
    <2>5. PICK x \in P : x \in W
      BY ZenonT(30), <2>1, <2>3, <2>4, QuorumsMeet
    <2>6. d \in S
      BY Zenon, <1>2, <2>1, <2>3, <2>5 DEF CommitEvidence, CertifiedLeaders, ancestors_at_round, At
    <2>7. ASSUME NEW c \in S  PROVE c = d
      BY Zenon, <1>1, <2>6, OneCertifiedBlock
    <2>8. S = {d}
      BY Zenon, <2>6, <2>7
    <2>. QED  BY Zenon, <2>8 DEF decide_leader_from_anchor
  <1>3. CASE d = Skip /\ SkipEvidence(slot)
    <2>1. S = {}
      BY Zenon, <1>1, <1>3, CertifiedIsNotSkipped
    <2>. QED  BY Zenon, <1>3, <2>1 DEF decide_leader_from_anchor
  <1>. QED  BY Zenon, <1>2, <1>3 DEF DirectEvidence

-----------------------------------------------------------------------------
(* The rules on what one validator has accepted. Above the gc round that is  *)
(* closed under ancestors, and gives the same answers as the whole DAG.      *)

LEMMA CertifiedInView ==
    ASSUME NEW g \in Nat, NEW D \in SUBSET Blocks, ClosedAbove(D, g),
           NEW slot, slot[1] \in Nat, slot[1] > g, NEW b \in BlocksAt(Blocks, slot),
           NEW x \in D, is_certificate(x, b)
    PROVE  b \in BlocksAt(D, slot)
  <1>0. Round[b] = slot[1] /\ b \in Blocks
    BY Zenon DEF BlocksAt
  <1>1. PICK V \in SUBSET Blocks :
            /\ \A y \in V : y \in Ancestors[x] /\ Round[y] = Round[b] + 1 /\ b \in Ancestors[y]
            /\ ReachesQuorum(V)
    BY Zenon, CertificateHasVotes
  <1>2. PICK y \in V : TRUE
    BY Zenon, <1>1, QuorumHasBlock
  <1>3. y \in Ancestors[x] /\ Round[y] > g /\ b \in Ancestors[y]
    BY <1>0, <1>1, <1>2
  <1>4. y \in D
    BY Zenon, <1>3 DEF ClosedAbove
  <1>5. b \in D
    BY Zenon, <1>0, <1>3, <1>4 DEF ClosedAbove
  <1>. QED  BY Zenon, <1>5 DEF BlocksAt

LEMMA AnchorPastInView ==
    ASSUME NEW g \in Nat, NEW D \in SUBSET Blocks, ClosedAbove(D, g),
           NEW slot, slot[1] \in Nat, slot[1] > g, NEW k \in D
    PROVE  /\ {x \in Past[k] : Round[x] >= slot[1] + 2} \subseteq D
           /\ ancestors_at_round(k, slot[1] + 2) \subseteq D
  <1>1. ASSUME NEW x \in Past[k], Round[x] >= slot[1] + 2  PROVE x \in D
    <2>1. Round[x] \in Nat
      BY Zenon, DagAssumption
    <2>2. Round[x] > g
      BY <1>1, <2>1
    <2>. QED  BY Zenon, <2>2, PastInClosedSet
  <1>. QED  BY <1>1 DEF ancestors_at_round, At

LEMMA IndirectInView ==
    ASSUME NEW g \in Nat, NEW D \in SUBSET Blocks, ClosedAbove(D, g),
           NEW slot, slot[1] \in Nat, slot[1] > g, NEW k \in D
    PROVE  decide_leader_from_anchor(D, k, slot) = decide_leader_from_anchor(Blocks, k, slot)
  <1>1. ASSUME NEW b \in CertifiedLeaders(Blocks, k, slot)
        PROVE  b \in CertifiedLeaders(D, k, slot)
    <2>1. b \in BlocksAt(Blocks, slot)
      BY Zenon, <1>1 DEF CertifiedLeaders
    <2>2. PICK x \in ancestors_at_round(k, slot[1] + 2) : is_certificate(x, b)
      BY Zenon, <1>1 DEF CertifiedLeaders
    <2>3. x \in D
      BY Zenon, <2>2, AnchorPastInView
    <2>4. b \in BlocksAt(D, slot)
      BY ZenonT(30), <2>1, <2>2, <2>3, CertifiedInView
    <2>. QED  BY Zenon, <2>2, <2>4 DEF CertifiedLeaders
  <1>2. CertifiedLeaders(D, k, slot) \subseteq CertifiedLeaders(Blocks, k, slot)
    BY Zenon DEF CertifiedLeaders, BlocksAt
  <1>3. CertifiedLeaders(D, k, slot) = CertifiedLeaders(Blocks, k, slot)
    BY Zenon, <1>1, <1>2
  <1>. QED  BY <1>3 DEF decide_leader_from_anchor

LEMMA IndirectDecision ==
    ASSUME NEW D, NEW slot, NEW k
    PROVE  decide_leader_from_anchor(D, k, slot) \in BlocksAt(D, slot) \cup {Skip}
  <1>1. CertifiedLeaders(D, k, slot) \subseteq BlocksAt(D, slot)
    BY Zenon DEF CertifiedLeaders
  <1>. QED  BY Zenon, <1>1 DEF decide_leader_from_anchor

LEMMA SupportIsCommitEvidence ==
    ASSUME NEW D \in SUBSET Blocks, NEW slot, NEW b \in Supported(D, slot)
    PROVE  b \in Blocks /\ b \in BlocksAt(D, slot) /\ CommitEvidence(slot, b)
  <1>1. b \in BlocksAt(D, slot) /\ enough_leader_support(D, b)
    BY Zenon DEF Supported
  <1>2. b \in Blocks /\ b \in BlocksAt(Blocks, slot) /\ Round[b] = slot[1]
    BY Zenon, <1>1 DEF BlocksAt
  <1>. DEFINE W == {x \in At(D, Round[b] + 2) : is_certificate(x, b)}
  <1>3. /\ W \in SUBSET Blocks
        /\ \A x \in W : Round[x] = slot[1] + 2 /\ is_certificate(x, b)
    BY Zenon, <1>2 DEF At
  <1>4. ReachesQuorum(W)
    BY Zenon, <1>1 DEF enough_leader_support
  <1>. HIDE DEF W
  <1>5. CommitEvidence(slot, b)
    BY ZenonT(30), <1>2, <1>3, <1>4 DEF CommitEvidence
  <1>. QED  BY Zenon, <1>1, <1>2, <1>5

LEMMA BlameIsSkipEvidence ==
    ASSUME NEW D \in SUBSET Blocks, NEW slot, enough_leader_blame(D, slot)
    PROVE  SkipEvidence(slot)
  <1>. DEFINE W == {x \in At(D, slot[1] + 1) : slot[2] \notin Authors(Ancestors[x]) \cup Genesis[x]}
  <1>1. W \in SUBSET Blocks /\ \A x \in W : Round[x] = slot[1] + 1
    BY Zenon DEF At
  <1>2. ASSUME NEW x \in W, NEW b \in BlocksAt(Blocks, slot)  PROVE b \notin Ancestors[x]
    BY Zenon DEF Authors, BlocksAt
  <1>3. ReachesQuorum(W)
    BY Zenon DEF enough_leader_blame
  <1>. HIDE DEF W
  <1>. QED  BY ZenonT(30), <1>1, <1>2, <1>3 DEF SkipEvidence

LEMMA DirectDecision ==
    ASSUME NEW D \in SUBSET Blocks, NEW slot, try_direct_decide(D, slot) # Undecided
    PROVE  /\ DirectEvidence(slot, try_direct_decide(D, slot))
           /\ try_direct_decide(D, slot) \in BlocksAt(D, slot) \cup {Skip}
  <1>1. CASE enough_leader_blame(D, slot)
    BY Zenon, <1>1, BlameIsSkipEvidence DEF try_direct_decide, DirectEvidence
  <1>2. CASE ~enough_leader_blame(D, slot)
    <2>1. /\ Supported(D, slot) # {}
          /\ try_direct_decide(D, slot) = CHOOSE b \in Supported(D, slot) : TRUE
      BY Zenon, <1>2 DEF try_direct_decide
    <2>2. try_direct_decide(D, slot) \in Supported(D, slot)
      BY Zenon, <2>1
    <2>. QED  BY ZenonT(30), <2>2, SupportIsCommitEvidence DEF DirectEvidence
  <1>. QED  BY Zenon, <1>1, <1>2

\* "Round have committed blocks" and "More than one candidate" do not happen,
\* and the ancestors that are looked up have been accepted.
LEMMA DirectNeverPanics ==
    ASSUME NEW v \in Validators, dag[v] \in SUBSET Blocks, commits[v] \in Seq(Commits),
           ClosedAbove(dag[v], gc_round(commits[v])),
           NEW slot, slot[1] \in Nat, slot[1] > last_commit_round(commits[v])
    PROVE  ~DirectPanics(v, slot)
  <1>1. ~(slot[1] < last_commit_round(commits[v]))
    BY CommittedFacts
  <1>2. ~MissingAncestors(v, At(dag[v], slot[1] + 2))
    BY Zenon DEF MissingAncestors, At, ClosedAbove
  <1>3. ASSUME NEW b \in Supported(dag[v], slot), NEW c \in Supported(dag[v], slot)
        PROVE  b = c
    BY SupportIsCommitEvidence, CommittedIsCertified, OneCertifiedBlock
  <1>. QED  BY ZenonT(30), <1>1, <1>2, <1>3 DEF DirectPanics

\* "Block should exist in DAG" and "More than one certified leader".
LEMMA IndirectNeverPanics ==
    ASSUME NEW v \in Validators, dag[v] \in SUBSET Blocks, commits[v] \in Seq(Commits),
           ClosedAbove(dag[v], gc_round(commits[v])), NEW k \in dag[v],
           NEW slot, slot[1] \in Nat, slot[1] > gc_round(commits[v])
    PROVE  ~IndirectPanics(v, k, slot)
  <1>0. gc_round(commits[v]) \in Nat
    BY Zenon, CommittedFacts
  <1>1. /\ {x \in Past[k] : Round[x] >= slot[1] + 2} \subseteq dag[v]
        /\ ancestors_at_round(k, slot[1] + 2) \subseteq dag[v]
    BY ZenonT(30), <1>0, AnchorPastInView
  <1>2. ~MissingAncestors(v, ancestors_at_round(k, slot[1] + 2))
    BY Zenon, <1>1 DEF MissingAncestors, ClosedAbove
  <1>3. ASSUME NEW b \in CertifiedLeaders(dag[v], k, slot)
        PROVE  b \in BlocksAt(Blocks, slot) /\ \E x \in Blocks : is_certificate(x, b)
    BY Zenon, <1>1 DEF CertifiedLeaders, BlocksAt
  <1>4. ASSUME NEW b \in CertifiedLeaders(dag[v], k, slot), NEW c \in CertifiedLeaders(dag[v], k, slot)
        PROVE  b = c
    BY Zenon, <1>3, OneCertifiedBlock
  <1>. QED  BY Zenon, <1>1, <1>2, <1>4 DEF IndirectPanics

-----------------------------------------------------------------------------
(* The decisions taken by all validators so far, Dec.                       *)

Slot(s, r) == <<r, Leader[s][r]>>

\* The anchor k at round a was found for round r: everything before it is
\* skipped.
AnchoredAt(Dec, s, r, a, k) ==
    /\ a >= r + 3 /\ <<s, a, k>> \in Dec
    /\ \A x \in Rounds : x >= r + 3 /\ x < a => <<s, x, Skip>> \in Dec

IndirectEvidence(Dec, s, r, d) ==
    \E a \in Rounds : \E k \in Blocks :
        AnchoredAt(Dec, s, r, a, k) /\ d = decide_leader_from_anchor(Blocks, k, Slot(s, r))

Evidence(Dec, s, r, d) ==
    /\ d \in BlocksAt(Blocks, Slot(s, r)) \cup {Skip}
    /\ DirectEvidence(Slot(s, r), d) \/ IndirectEvidence(Dec, s, r, d)

Agreed(Dec) ==
    \A s \in Schedules : \A r \in Rounds : \A d, e \in Blocks \cup {Skip} :
        <<s, r, d>> \in Dec /\ <<s, r, e>> \in Dec => d = e

DecisionsInv(Dec) ==
    /\ Dec \in SUBSET (Schedules \X Rounds \X (Blocks \cup {Skip}))
    /\ \A s \in Schedules : \A r \in Rounds : \A d \in Blocks \cup {Skip} :
           <<s, r, d>> \in Dec => Evidence(Dec, s, r, d)
    /\ Agreed(Dec)

LEMMA RoundFacts ==
    ASSUME NEW r \in Rounds
    PROVE  r \in Nat /\ r > 0 /\ r \in Nat \ {0} /\ \A s : Slot(s, r)[1] = r
  BY DagAssumption DEF Rounds, Slot

\* Every validator finds the same anchor.
LEMMA AnchorIsUnique ==
    ASSUME NEW Dec, DecisionsInv(Dec), NEW s \in Schedules, NEW r \in Rounds,
           NEW a \in Rounds, NEW k \in Blocks, AnchoredAt(Dec, s, r, a, k),
           NEW b \in Rounds, NEW l \in Blocks, AnchoredAt(Dec, s, r, b, l)
    PROVE  k = l
  <1>1. ASSUME NEW x \in Rounds, NEW m \in Blocks, AnchoredAt(Dec, s, r, x, m),
               NEW y \in Rounds, NEW n \in Blocks, AnchoredAt(Dec, s, r, y, n), x < y
        PROVE  FALSE
    <2>1. <<s, x, m>> \in Dec /\ <<s, x, Skip>> \in Dec
      BY Zenon, <1>1 DEF AnchoredAt
    <2>2. m = Skip
      BY Zenon, <2>1 DEF DecisionsInv, Agreed
    <2>. QED  BY Zenon, <2>2, ConfigAssumption
  <1>2. a = b
    <2>1. ~(a < b) /\ ~(b < a)
      BY Zenon, <1>1
    <2>. QED  BY <2>1, RoundFacts
  <1>3. <<s, a, k>> \in Dec /\ <<s, a, l>> \in Dec
    BY Zenon, <1>2 DEF AnchoredAt
  <1>. QED  BY Zenon, <1>3 DEF DecisionsInv, Agreed

LEMMA AnchorRoundFacts ==
    ASSUME NEW Dec, DecisionsInv(Dec), NEW s \in Schedules, NEW r \in Rounds,
           NEW a \in Rounds, NEW k \in Blocks, AnchoredAt(Dec, s, r, a, k)
    PROVE  Round[k] >= r + 3
  <1>1. <<s, a, k>> \in Dec /\ a >= r + 3
    BY Zenon DEF AnchoredAt
  <1>2. k \in BlocksAt(Blocks, Slot(s, a)) \cup {Skip}
    BY Zenon, <1>1 DEF DecisionsInv, Evidence
  <1>. QED  BY Zenon, <1>1, <1>2, ConfigAssumption, RoundFacts DEF BlocksAt

\* Evidence for a decision that is there already is evidence for the same.
LEMMA EvidenceAgrees ==
    ASSUME NEW Dec, DecisionsInv(Dec), NEW s \in Schedules, NEW r \in Rounds,
           NEW d, Evidence(Dec, s, r, d), NEW e, Evidence(Dec, s, r, e)
    PROVE  d = e
  <1>1. ASSUME NEW x, NEW y, DirectEvidence(Slot(s, r), x), IndirectEvidence(Dec, s, r, y)
        PROVE  x = y
    <2>1. PICK a \in Rounds, k \in Blocks :
              AnchoredAt(Dec, s, r, a, k) /\ y = decide_leader_from_anchor(Blocks, k, Slot(s, r))
      BY Zenon, <1>1 DEF IndirectEvidence
    <2>2. Round[k] >= Slot(s, r)[1] + 3 /\ Slot(s, r)[1] \in Nat \ {0}
      BY ZenonT(30), <2>1, AnchorRoundFacts, RoundFacts
    <2>. QED  BY ZenonT(30), <1>1, <2>1, <2>2, IndirectFollowsDirect
  <1>2. ASSUME IndirectEvidence(Dec, s, r, d), IndirectEvidence(Dec, s, r, e)
        PROVE  d = e
    <2>1. PICK a \in Rounds, k \in Blocks :
              AnchoredAt(Dec, s, r, a, k) /\ d = decide_leader_from_anchor(Blocks, k, Slot(s, r))
      BY Zenon, <1>2 DEF IndirectEvidence
    <2>2. PICK b \in Rounds, l \in Blocks :
              AnchoredAt(Dec, s, r, b, l) /\ e = decide_leader_from_anchor(Blocks, l, Slot(s, r))
      BY Zenon, <1>2 DEF IndirectEvidence
    <2>3. k = l
      BY ZenonT(30), <2>1, <2>2, AnchorIsUnique
    <2>. QED  BY ZenonT(30), <2>1, <2>2, <2>3
  <1>3. ASSUME DirectEvidence(Slot(s, r), d), DirectEvidence(Slot(s, r), e)  PROVE d = e
    BY ZenonT(30), <1>3, DirectIsUnique
  <1>. QED  BY ZenonT(30), <1>1, <1>2, <1>3 DEF Evidence

LEMMA EvidenceStays ==
    ASSUME NEW Dec, NEW More, Dec \subseteq More, NEW s, NEW r, NEW d,
           Evidence(Dec, s, r, d)
    PROVE  Evidence(More, s, r, d)
  BY Zenon DEF Evidence, IndirectEvidence, AnchoredAt

\* A decision may be added for which there is evidence in those before.
LEMMA DecisionAdded ==
    ASSUME NEW Dec, DecisionsInv(Dec), NEW s \in Schedules, NEW r \in Rounds, NEW d,
           Evidence(Dec, s, r, d)
    PROVE  DecisionsInv(Dec \cup {<<s, r, d>>})
  <1>. DEFINE More == Dec \cup {<<s, r, d>>}
  <1>0. d \in Blocks \cup {Skip}
    BY Zenon DEF Evidence, BlocksAt
  <1>1. More \in SUBSET (Schedules \X Rounds \X (Blocks \cup {Skip}))
    BY <1>0 DEF DecisionsInv
  <1>2. ASSUME NEW x \in Schedules, NEW q \in Rounds, NEW e \in Blocks \cup {Skip},
               <<x, q, e>> \in More
        PROVE  Evidence(Dec, x, q, e)
    BY Zenon, <1>2 DEF DecisionsInv
  <1>. HIDE DEF More
  <1>3. ASSUME NEW x \in Schedules, NEW q \in Rounds, NEW e \in Blocks \cup {Skip},
               <<x, q, e>> \in More
        PROVE  Evidence(More, x, q, e)
    BY <1>2, <1>3, EvidenceStays DEF More
  <1>4. Agreed(More)
    BY <1>2, EvidenceAgrees DEF Agreed
  <1>5. DecisionsInv(More)
    BY Zenon, <1>1, <1>3, <1>4 DEF DecisionsInv
  <1>. QED  BY Zenon, <1>5 DEF More

-----------------------------------------------------------------------------
(* The leader schedule in force after the commits P.                        *)

\* How many commits the schedule may have taken in when it is updated.
Terms == {k * num_commits_per_schedule : k \in Nat}

\* How many commits there may be before it is updated again.
Limit(sc) == sc + num_commits_per_schedule

TableOf(cs, sc) == ScheduleOf(SubSeq(cs, 1, sc))

ScheduledBy(P, s) ==
    \E sc \in Terms : sc <= Len(P) /\ Len(P) < Limit(sc) /\ s = TableOf(P, sc)

LEMMA MultiplesApart ==
    ASSUME NEW n \in Nat, NEW j \in Nat, NEW k \in Nat, j * n < k * n
    PROVE  j * n + n <= k * n
  <1>1. j < k
    <2>. SUFFICES ASSUME k <= j  PROVE FALSE
      OBVIOUS
    <2>1. PICK i \in Nat : j = k + i
      <3>1. j - k \in Nat /\ j = k + (j - k)
        OBVIOUS
      <3>. QED  BY Zenon, <3>1
    <2>2. j * n = k * n + i * n /\ i * n \in Nat /\ k * n \in Nat
      BY <2>1
    <2>. QED  BY <2>2
  <1>2. PICK i \in Nat : k = j + 1 + i
    <2>1. k - j - 1 \in Nat /\ k = j + 1 + (k - j - 1)
      BY <1>1
    <2>. QED  BY ZenonT(30), <2>1
  <1>3. k * n = j * n + n + i * n /\ i * n \in Nat /\ j * n \in Nat
    BY <1>2
  <1>. QED  BY <1>3

LEMMA TermFacts ==
    /\ 0 \in Terms /\ Terms \subseteq Nat
    /\ \A t \in Terms : Limit(t) \in Terms /\ t < Limit(t)
    /\ \A s, t \in Terms : s < t => Limit(s) <= t
  <1>. DEFINE n == num_commits_per_schedule
  <1>0. n \in Nat /\ n > 0
    BY ScheduleAssumption
  <1>1. 0 \in Terms
    <2>1. 0 * n = 0
      BY <1>0
    <2>. QED  BY Zenon, <2>1 DEF Terms
  <1>2. Terms \subseteq Nat
    <2>1. \A k \in Nat : k * n \in Nat
      BY <1>0
    <2>. QED  BY ZenonT(30), <2>1 DEF Terms
  <1>3. ASSUME NEW t \in Terms  PROVE Limit(t) \in Terms /\ t < Limit(t)
    <2>1. PICK k \in Nat : t = k * n
      BY ZenonT(30) DEF Terms
    <2>2. k + 1 \in Nat /\ (k + 1) * n = t + n
      BY <1>0, <2>1
    <2>3. t + n \in Terms
      BY ZenonT(30), <2>2 DEF Terms
    <2>. QED  BY <1>0, <1>2, <2>3 DEF Limit
  <1>4. ASSUME NEW s \in Terms, NEW t \in Terms, s < t  PROVE Limit(s) <= t
    <2>1. PICK j \in Nat : s = j * n
      BY ZenonT(30) DEF Terms
    <2>2. PICK k \in Nat : t = k * n
      BY ZenonT(30) DEF Terms
    <2>. HIDE DEF n
    <2>3. s + n <= t
      BY ZenonT(30), <1>0, <1>4, <2>1, <2>2, MultiplesApart
    <2>. QED  BY ZenonT(30), <2>3 DEF Limit, n
  <1>. QED  BY ZenonT(30), <1>1, <1>2, <1>3, <1>4

\* Two schedules that may be in force are the same.
LEMMA OneTermFits ==
    ASSUME NEW l \in Nat, NEW s \in Terms, s <= l, l < Limit(s),
           NEW t \in Terms, t <= l, l < Limit(t)
    PROVE  s = t
  <1>1. s \in Nat /\ t \in Nat /\ Limit(s) \in Nat /\ Limit(t) \in Nat
    BY Zenon, TermFacts
  <1>2. ~(s < t) /\ ~(t < s)
    BY <1>1, TermFacts
  <1>. QED  BY <1>1, <1>2

LEMMA OneSchedule ==
    ASSUME NEW P \in Seq(Commits), NEW s, ScheduledBy(P, s), NEW t, ScheduledBy(P, t)
    PROVE  s = t
  <1>1. PICK x \in Terms : x <= Len(P) /\ Len(P) < Limit(x) /\ s = TableOf(P, x)
    BY Zenon DEF ScheduledBy
  <1>2. PICK y \in Terms : y <= Len(P) /\ Len(P) < Limit(y) /\ t = TableOf(P, y)
    BY Zenon DEF ScheduledBy
  <1>3. x = y
    BY ZenonT(30), <1>1, <1>2, OneTermFits, SequenceOfCommits
  <1>. QED  BY Zenon, <1>1, <1>2, <1>3

LEMMA TableFacts ==
    ASSUME NEW cs \in Seq(Commits), NEW sc \in Nat, sc <= Len(cs)
    PROVE  /\ TableOf(cs, sc) \in Schedules
           /\ \A c \in Commits : TableOf(Append(cs, c), sc) = TableOf(cs, sc)
  <1>0. Len(cs) \in Nat /\ sc + 1 \in 1 .. Len(cs) + 1 /\ (sc + 1) - 1 = sc
    BY SequenceOfCommits
  <1>1. SubSeq(cs, 1, sc) \in Seq(Commits)
    BY ZenonT(30), <1>0, BeforeProperties DEF Before
  <1>2. ASSUME NEW ds \in Seq(Commits)  PROVE ScheduleOf(ds) \in Schedules
    <2>1. DOMAIN ds = 1 .. Len(ds) /\ \A i \in 1 .. Len(ds) : ds[i] \in Commits
      BY ZenonT(30), SequenceOfCommits
    <2>2. UNION {ds[i].leaders : i \in DOMAIN ds} \in SUBSET Blocks
      BY ZenonT(30), <2>1 DEF Commits
    <2>. QED  BY ZenonT(30), <2>2, ScheduleAssumption DEF ScheduleOf
  <1>3. ASSUME NEW c \in Commits  PROVE SubSeq(Append(cs, c), 1, sc) = SubSeq(cs, 1, sc)
    <2>1. Before(Append(cs, c), sc + 1) = Before(cs, sc + 1)
      BY ZenonT(30), <1>0, BeforeAppend
    <2>. QED  BY ZenonT(30), <1>0, <2>1 DEF Before
  <1>. QED  BY Zenon, <1>1, <1>2, <1>3 DEF TableOf

-----------------------------------------------------------------------------
(* What the decisions say of the commits.                                   *)

\* Commit c follows the commits P: its leader is the first one of the schedule
\* that is not skipped.
JustifiedUnder(Dec, s, P, c) ==
    /\ Follows(P, c)
    /\ \E b \in Blocks : c.leaders = {b} /\ <<s, c.round, b>> \in Dec
    /\ \A r \in Rounds : r > last_commit_round(P) /\ r < c.round => <<s, r, Skip>> \in Dec

Justified(Dec, P, c) == \E s \in Schedules : ScheduledBy(P, s) /\ JustifiedUnder(Dec, s, P, c)

AllJustified(Dec, cs) == \A i \in 1 .. Len(cs) : Justified(Dec, Before(cs, i), cs[i])

\* The blocks, the commits and the scored commits of a validator, in memory or
\* in storage.
StoreInv(Dec, D, cs, sc) ==
    /\ Chain(D, cs)
    /\ AllJustified(Dec, cs)
    /\ sc \in Terms /\ sc <= Len(cs) /\ Len(cs) <= Limit(sc)

LEMMA AllJustifiedStays ==
    ASSUME NEW Dec, NEW More, Dec \subseteq More, NEW cs, AllJustified(Dec, cs)
    PROVE  AllJustified(More, cs)
  <1>1. ASSUME NEW s, NEW P, NEW c, JustifiedUnder(Dec, s, P, c)  PROVE JustifiedUnder(More, s, P, c)
    BY ZenonT(30), <1>1 DEF JustifiedUnder
  <1>2. ASSUME NEW P, NEW c, Justified(Dec, P, c)  PROVE Justified(More, P, c)
    BY ZenonT(30), <1>1, <1>2 DEF Justified
  <1>. QED  BY ZenonT(30), <1>2 DEF AllJustified

LEMMA StoreInvStays ==
    ASSUME NEW Dec, NEW More, Dec \subseteq More, NEW D, NEW cs, NEW sc, StoreInv(Dec, D, cs, sc)
    PROVE  StoreInv(More, D, cs, sc)
  BY Zenon, AllJustifiedStays DEF StoreInv

\* The next commit is the same for all validators.
LEMMA NextCommitIsUnique ==
    ASSUME NEW Dec, DecisionsInv(Dec), NEW P \in Seq(Commits),
           NEW c \in Commits, NEW d \in Commits, Justified(Dec, P, c), Justified(Dec, P, d)
    PROVE  c = d
  <1>1. PICK s \in Schedules : ScheduledBy(P, s) /\ JustifiedUnder(Dec, s, P, c)
    BY Zenon DEF Justified
  <1>2. PICK t \in Schedules : ScheduledBy(P, t) /\ JustifiedUnder(Dec, t, P, d)
    BY Zenon DEF Justified
  <1>3. JustifiedUnder(Dec, s, P, c) /\ JustifiedUnder(Dec, s, P, d)
    BY <1>1, <1>2, OneSchedule
  <1>4. ASSUME NEW x \in Commits, NEW y \in Commits,
               JustifiedUnder(Dec, s, P, x), JustifiedUnder(Dec, s, P, y)
        PROVE  ~(x.round < y.round)
    <2>. SUFFICES ASSUME x.round < y.round  PROVE FALSE
      BY Zenon
    <2>1. PICK b \in Blocks : <<s, x.round, b>> \in Dec
      BY Zenon, <1>4 DEF JustifiedUnder
    <2>2. x.round > last_commit_round(P) /\ x.round \in Rounds
      BY Zenon, <1>4 DEF JustifiedUnder, Follows, Commits
    <2>3. <<s, x.round, Skip>> \in Dec
      BY ZenonT(30), <1>4, <2>2 DEF JustifiedUnder
    <2>4. b = Skip
      BY ZenonT(30), <2>1, <2>2, <2>3 DEF DecisionsInv, Agreed
    <2>. QED  BY Zenon, <2>4, ConfigAssumption
  <1>5. c.round = d.round /\ c.round \in Rounds
    <2>1. c.round \in Rounds /\ d.round \in Rounds
      BY Zenon DEF Commits
    <2>2. ~(c.round < d.round) /\ ~(d.round < c.round)
      BY ZenonT(30), <1>3, <1>4
    <2>. QED  BY <2>1, <2>2, RoundFacts
  <1>6. c.leaders = d.leaders
    <2>1. PICK b \in Blocks : c.leaders = {b} /\ <<s, c.round, b>> \in Dec
      BY Zenon, <1>3 DEF JustifiedUnder
    <2>2. PICK e \in Blocks : d.leaders = {e} /\ <<s, d.round, e>> \in Dec
      BY Zenon, <1>3 DEF JustifiedUnder
    <2>3. b = e
      BY ZenonT(30), <1>5, <2>1, <2>2 DEF DecisionsInv, Agreed
    <2>. QED  BY ZenonT(30), <2>1, <2>2, <2>3
  <1>7. c.blocks = d.blocks
    BY Zenon, <1>3, <1>6 DEF JustifiedUnder, Follows
  <1>. QED  BY <1>5, <1>6, <1>7 DEF Commits

LEMMA JustifiedCommitsAgree ==
    ASSUME NEW Dec, DecisionsInv(Dec), NEW cs \in Seq(Commits), NEW ds \in Seq(Commits),
           AllJustified(Dec, cs), AllJustified(Dec, ds),
           NEW n \in 1 .. Len(cs), n \in 1 .. Len(ds)
    PROVE  cs[n] = ds[n]
  <1>. DEFINE Bad == {i \in 1 .. Len(cs) : i \in 1 .. Len(ds) /\ cs[i] # ds[i]}
  <1>0. Len(cs) \in Nat /\ Len(ds) \in Nat
    BY ZenonT(30), SequenceOfCommits
  <1>1. Bad = {}
    <2>. SUFFICES ASSUME Bad # {}  PROVE FALSE
      BY Zenon
    <2>1. Bad \subseteq Nat
      BY <1>0
    <2>2. PICK i \in Bad : \A j \in Bad : ~ (<<j, i>> \in OpToRel(<, Nat))
      BY Zenon, <2>1, NatLessThanWellFounded, WFMin
    <2>3. \A j \in Bad : ~ (j < i)
      BY Zenon, <2>1, <2>2 DEF OpToRel
    <2>4. i \in Nat /\ i \in 1 .. Len(cs) /\ i \in 1 .. Len(ds) /\ cs[i] # ds[i]
      BY <1>0
    <2>5. \A j \in 1 .. i - 1 : cs[j] = ds[j]
      <3>. SUFFICES ASSUME NEW j \in 1 .. i - 1  PROVE cs[j] = ds[j]
        BY Zenon
      <3>1. j \in 1 .. Len(cs) /\ j \in 1 .. Len(ds) /\ j < i
        BY <1>0, <2>4
      <3>. QED  BY ZenonT(30), <2>3, <3>1
    <2>. HIDE DEF Bad
    <2>6. i \in 1 .. Len(cs) + 1 /\ i \in 1 .. Len(ds) + 1
      BY SMTT(30), <1>0, <2>4
    <2>7. Before(cs, i) = Before(ds, i) /\ Before(cs, i) \in Seq(Commits)
      BY Zenon, <2>5, <2>6, EqualBefore, BeforeProperties
    <2>8. cs[i] \in Commits /\ ds[i] \in Commits
      BY Zenon, <2>4, SequenceOfCommits
    <2>9. Justified(Dec, Before(cs, i), cs[i]) /\ Justified(Dec, Before(cs, i), ds[i])
      BY ZenonT(30), <2>4, <2>7 DEF AllJustified
    <2>. QED  BY ZenonT(30), <2>4, <2>7, <2>8, <2>9, NextCommitIsUnique
  <1>. QED  BY ZenonT(30), <1>1

\* What anyone has made of the next index follows the own commits.
LEMMA NextOfAnyone ==
    ASSUME NEW Dec, DecisionsInv(Dec), NEW cs \in Seq(Commits), NEW ds \in Seq(Commits),
           AllJustified(Dec, cs), AllJustified(Dec, ds), Len(ds) >= Len(cs) + 1
    PROVE  /\ SubSeq(ds, 1, Len(cs)) = cs
           /\ ds[Len(cs) + 1] \in Commits
           /\ Justified(Dec, cs, ds[Len(cs) + 1])
  <1>. DEFINE i == Len(cs) + 1
  <1>0. /\ Len(cs) \in Nat /\ Len(ds) \in Nat /\ i - 1 = Len(cs)
        /\ i \in 1 .. Len(ds) /\ i \in 1 .. Len(ds) + 1 /\ i \in 1 .. Len(cs) + 1
    BY SequenceOfCommits
  <1>1. \A j \in 1 .. i - 1 : ds[j] = cs[j]
    <2>1. \A j \in 1 .. Len(cs) : j \in 1 .. Len(ds)
      BY <1>0
    <2>. QED  BY Zenon, <1>0, <2>1, JustifiedCommitsAgree
  <1>2. Before(ds, i) = cs
    <2>. HIDE DEF i
    <2>1. Before(ds, i) = Before(cs, i)
      BY ZenonT(30), <1>0, <1>1, EqualBefore
    <2>. QED  BY ZenonT(30), <2>1, BeforeTheEnd DEF i
  <1>3. SubSeq(ds, 1, Len(cs)) = cs
    BY ZenonT(30), <1>0, <1>2 DEF Before
  <1>4. ds[i] \in Commits
    BY ZenonT(30), <1>0, SequenceOfCommits
  <1>5. Justified(Dec, Before(ds, i), ds[i])
    BY ZenonT(30), <1>0 DEF AllJustified
  <1>. QED  BY ZenonT(30), <1>2, <1>3, <1>4, <1>5

LEMMA AllJustifiedExtended ==
    ASSUME NEW Dec, NEW cs \in Seq(Commits), AllJustified(Dec, cs),
           NEW c \in Commits, Justified(Dec, cs, c)
    PROVE  AllJustified(Dec, Append(cs, c))
  <1>. DEFINE ds == Append(cs, c)
  <1>. SUFFICES ASSUME NEW i \in 1 .. Len(ds)  PROVE Justified(Dec, Before(ds, i), ds[i])
    BY Zenon DEF AllJustified
  <1>1. Len(cs) \in Nat /\ Len(ds) = Len(cs) + 1
    BY ZenonT(30), SequenceOfCommits, OneMoreCommit
  <1>2. i \in 1 .. Len(cs) + 1
    BY ZenonT(30), <1>1
  <1>3. /\ Before(ds, i) = Before(cs, i)
        /\ i <= Len(cs) => ds[i] = cs[i]
        /\ ds[Len(cs) + 1] = c
    BY ZenonT(30), <1>2, BeforeAppend
  <1>4. CASE i <= Len(cs)
    <2>1. i \in 1 .. Len(cs)
      BY SMTT(30), <1>1, <1>2, <1>4
    <2>. QED  BY ZenonT(30), <1>3, <1>4, <2>1 DEF AllJustified
  <1>5. CASE i = Len(cs) + 1
    BY ZenonT(30), <1>3, <1>5, BeforeTheEnd
  <1>. QED  BY SMTT(30), <1>1, <1>2, <1>4, <1>5

\* A justified commit extends what a validator has, once its blocks are there.
LEMMA StoreExtended ==
    ASSUME NEW Dec, NEW D \in SUBSET Blocks, NEW cs \in Seq(Commits), NEW sc \in Nat,
           StoreInv(Dec, D, cs, sc), Len(cs) < Limit(sc),
           NEW c \in Commits, Justified(Dec, cs, c)
    PROVE  /\ StoreInv(Dec, D \cup c.blocks, Append(cs, c), sc)
           /\ c.leaders \cap Committed(cs) = {}
  <1>1. Follows(cs, c) /\ Chain(D, cs) /\ AllJustified(Dec, cs)
    BY Zenon DEF Justified, JustifiedUnder, StoreInv
  <1>2. AllJustified(Dec, Append(cs, c))
    BY ZenonT(30), <1>1, AllJustifiedExtended
  <1>3. Chain(D \cup c.blocks, Append(cs, c)) /\ c.leaders \cap Committed(cs) = {}
    BY Zenon, <1>1, ChainExtended
  <1>4. sc \in Terms /\ sc <= Len(Append(cs, c)) /\ Len(Append(cs, c)) <= Limit(sc)
    <2>1. sc \in Terms /\ sc <= Len(cs) /\ Len(cs) \in Nat /\ Len(Append(cs, c)) = Len(cs) + 1
      BY ZenonT(30), SequenceOfCommits, OneMoreCommit DEF StoreInv
    <2>2. Limit(sc) \in Nat
      BY Zenon, <2>1, TermFacts
    <2>. QED  BY <2>1, <2>2
  <1>. QED  BY ZenonT(30), <1>2, <1>3, <1>4 DEF StoreInv

-----------------------------------------------------------------------------
(* The state of one validator: its blocks D, its commits cs of which sc are  *)
(* scored, the round ld decided last, the statuses st, the phase ph and the  *)
(* cursor cur of try_decide.                                                *)

Resting == {"idle", "added", "loop", "certified"}
Committing == {"commit", "commit certified"}
Phases == Resting \cup Committing \cup {"decide"}
Statuses == [Rounds -> Blocks \cup {Skip, Undecided}]

\* What is decided was recorded as a decision under the current schedule, and
\* committed leaders have been accepted.
Recorded(Dec, D, s, st) ==
    \A r \in Rounds : st[r] # Undecided =>
        <<s, r, st[r]>> \in Dec /\ (st[r] \in Blocks => st[r] \in D)

\* What is taken and not committed is skipped.
Skipped(Dec, s, last, ld, st) ==
    \A r \in Rounds : r > last /\ r <= ld /\ st[r] \notin Blocks => <<s, r, Skip>> \in Dec

StatusInv(Dec, D, cs, sc, ld, st) ==
    /\ last_commit_round(cs) <= ld
    /\ Recorded(Dec, D, TableOf(cs, sc), st)
    /\ Skipped(Dec, TableOf(cs, sc), last_commit_round(cs), ld, st)

\* The leaders that are still to be committed fit into the current schedule.
\* When it is full all that was taken is committed, so that nothing is left
\* which was decided under a schedule that is no longer in force.
PhaseInv(cs, sc, ld, st, ph, cur) ==
    /\ ph \in Resting => st = NothingDecided
    /\ ph = "decide" => /\ \A r \in Rounds : st[r] # Undecided => r > ld
                        /\ cur > 0 => cur \in Rounds
    /\ ph \notin Resting => Len(cs) < Limit(sc)
    /\ ph \in Committing => \A r \in Rounds :
           r > last_commit_round(cs) /\ r <= ld /\ st[r] \in Blocks => ld - r < Limit(sc) - Len(cs)
    /\ ph \in Resting /\ Len(cs) = Limit(sc) => ld = last_commit_round(cs)

LocalInv(Dec, D, cs, sc, ld, st, ph, cur) ==
    /\ StoreInv(Dec, D, cs, sc)
    /\ StatusInv(Dec, D, cs, sc, ld, st)
    /\ PhaseInv(cs, sc, ld, st, ph, cur)

LEMMA LocalInvStays ==
    ASSUME NEW Dec, NEW More, Dec \subseteq More,
           NEW D, NEW cs, NEW sc, NEW ld, NEW st, NEW ph, NEW cur,
           LocalInv(Dec, D, cs, sc, ld, st, ph, cur)
    PROVE  LocalInv(More, D, cs, sc, ld, st, ph, cur)
  <1>1. StoreInv(More, D, cs, sc)
    BY ZenonT(30), StoreInvStays DEF LocalInv
  <1>2. StatusInv(More, D, cs, sc, ld, st)
    BY Zenon DEF LocalInv, StatusInv, Recorded, Skipped
  <1>. QED  BY ZenonT(30), <1>1, <1>2 DEF LocalInv

LEMMA NothingDecidedFacts ==
    /\ NothingDecided \in Statuses
    /\ \A r \in Rounds : NothingDecided[r] = Undecided /\ NothingDecided[r] \notin Blocks
  BY ZenonT(30), ConfigAssumption DEF NothingDecided, Statuses

LEMMA StoreFacts ==
    ASSUME NEW Dec, NEW D, NEW cs \in Seq(Commits), NEW sc, StoreInv(Dec, D, cs, sc)
    PROVE  /\ Len(cs) \in Nat /\ sc \in Nat /\ Limit(sc) \in Nat
           /\ sc <= Len(cs) /\ Len(cs) <= Limit(sc)
           /\ last_commit_round(cs) \in Nat /\ gc_round(cs) \in Nat
           /\ gc_round(cs) <= last_commit_round(cs)
           /\ TableOf(cs, sc) \in Schedules
           /\ Len(cs) < Limit(sc) => ScheduledBy(cs, TableOf(cs, sc))
  <1>1. sc \in Terms /\ sc <= Len(cs) /\ Len(cs) <= Limit(sc) /\ Len(cs) \in Nat
    BY ZenonT(30), SequenceOfCommits DEF StoreInv
  <1>2. sc \in Nat /\ Limit(sc) \in Nat
    BY Zenon, <1>1, TermFacts
  <1>. QED  BY ZenonT(30), <1>1, <1>2, TableFacts, CommittedFacts DEF ScheduledBy

\* Init and Restart: nothing is decided beyond the last commit.
LEMMA AtRest ==
    ASSUME NEW Dec, NEW D, NEW cs \in Seq(Commits), NEW sc, StoreInv(Dec, D, cs, sc),
           NEW ph \in Resting
    PROVE  LocalInv(Dec, D, cs, sc, last_commit_round(cs), NothingDecided, ph, 0)
  <1>0. last_commit_round(cs) \in Nat /\ \A r \in Rounds : r \in Nat
    BY ZenonT(30), CommittedFacts, RoundFacts
  <1>1. StatusInv(Dec, D, cs, sc, last_commit_round(cs), NothingDecided)
    BY <1>0, NothingDecidedFacts DEF StatusInv, Recorded, Skipped
  <1>2. PhaseInv(cs, sc, last_commit_round(cs), NothingDecided, ph, 0)
    BY Zenon DEF PhaseInv, Resting, Committing
  <1>. QED  BY ZenonT(30), <1>1, <1>2 DEF LocalInv

LEMMA ScheduleUpdated ==
    ASSUME NEW Dec, NEW D, NEW cs \in Seq(Commits), NEW sc, NEW ld, NEW st,
           NEW ph \in Resting, NEW cur, LocalInv(Dec, D, cs, sc, ld, st, ph, cur),
           Len(cs) = Limit(sc)
    PROVE  LocalInv(Dec, D, cs, Len(cs), ld, st, ph, cur)
  <1>1. StoreInv(Dec, D, cs, sc) /\ st = NothingDecided /\ ld = last_commit_round(cs)
    BY Zenon DEF LocalInv, PhaseInv
  <1>2. StoreInv(Dec, D, cs, Len(cs))
    <2>1. Len(cs) \in Terms /\ Len(cs) <= Len(cs) /\ Len(cs) <= Limit(Len(cs))
      <3>1. sc \in Terms /\ Len(cs) \in Nat
        BY ZenonT(30), <1>1, StoreFacts DEF StoreInv
      <3>2. Len(cs) \in Terms
        BY ZenonT(30), <3>1, TermFacts
      <3>3. Len(cs) < Limit(Len(cs)) /\ Limit(Len(cs)) \in Nat
        BY Zenon, <3>2, TermFacts
      <3>. QED  BY SMTT(30), <3>1, <3>2, <3>3
    <2>. QED  BY ZenonT(30), <1>1, <2>1 DEF StoreInv
  <1>3. LocalInv(Dec, D, cs, Len(cs), last_commit_round(cs), NothingDecided, ph, 0)
    BY ZenonT(30), <1>2, AtRest
  <1>. QED  BY ZenonT(30), <1>1, <1>3 DEF LocalInv, PhaseInv, Resting

LEMMA DecideStarted ==
    ASSUME NEW Dec, NEW D, NEW cs \in Seq(Commits), NEW sc, NEW ld, NEW st,
           NEW ph \in Resting, NEW cur, LocalInv(Dec, D, cs, sc, ld, st, ph, cur),
           Len(cs) < Limit(sc), NEW c, c > 0 => c \in Rounds
    PROVE  LocalInv(Dec, D, cs, sc, ld, st, "decide", c)
  <1>1. st = NothingDecided
    BY Zenon DEF LocalInv, PhaseInv
  <1>2. PhaseInv(cs, sc, ld, st, "decide", c)
    BY ZenonT(30), <1>1, NothingDecidedFacts DEF PhaseInv, Resting, Committing
  <1>. QED  BY ZenonT(30), <1>2 DEF LocalInv

LEMMA RoundDecided ==
    ASSUME NEW Dec, NEW More, Dec \subseteq More, NEW D, NEW cs \in Seq(Commits), NEW sc,
           NEW ld \in Nat, NEW st \in Statuses, NEW r \in Rounds, r > ld,
           LocalInv(Dec, D, cs, sc, ld, st, "decide", r),
           NEW d \in Blocks \cup {Skip, Undecided},
           d # Undecided => <<TableOf(cs, sc), r, d>> \in More, d \in Blocks => d \in D
    PROVE  LocalInv(More, D, cs, sc, ld, [st EXCEPT ![r] = d], "decide", r - 1)
  <1>. DEFINE after == [st EXCEPT ![r] = d]
              s == TableOf(cs, sc)
  <1>1. \A q \in Rounds : after[q] = IF q = r THEN d ELSE st[q]
    BY Zenon DEF Statuses
  <1>2. LocalInv(More, D, cs, sc, ld, st, "decide", r)
    BY ZenonT(30), LocalInvStays
  <1>3. StatusInv(More, D, cs, sc, ld, after)
    <2>1. Recorded(More, D, s, st) /\ Skipped(More, s, last_commit_round(cs), ld, st)
      BY ZenonT(30), <1>2 DEF LocalInv, StatusInv
    <2>. HIDE DEF after, s
    <2>2. Recorded(More, D, s, after)
      BY ZenonT(30), <1>1, <2>1 DEF Recorded, s
    <2>3. Skipped(More, s, last_commit_round(cs), ld, after)
      BY SMTT(30), <1>1, <2>1, RoundFacts DEF Skipped
    <2>. QED  BY ZenonT(30), <1>2, <2>2, <2>3 DEF LocalInv, StatusInv, s
  <1>4. PhaseInv(cs, sc, ld, after, "decide", r - 1)
    <2>1. /\ \A q \in Rounds : st[q] # Undecided => q > ld
          /\ Len(cs) < Limit(sc)
      BY Zenon, <1>2 DEF LocalInv, PhaseInv, Resting
    <2>2. r - 1 > 0 => r - 1 \in Rounds
      BY SMTT(30), RoundFacts, RoundsBelow
    <2>. HIDE DEF after
    <2>. QED  BY ZenonT(30), <1>1, <2>1, <2>2 DEF PhaseInv, Resting, Committing
  <1>. QED  BY ZenonT(30), <1>2, <1>3, <1>4 DEF LocalInv

\* What is taken up to round last, with or without leaders to commit.
LEMMA TakenIsSkipped ==
    ASSUME NEW Dec, NEW D, NEW cs \in Seq(Commits), NEW sc,
           NEW ld \in Nat, NEW st \in Statuses, NEW cur,
           LocalInv(Dec, D, cs, sc, ld, st, "decide", cur),
           NEW last \in Nat, last >= ld,
           \A r \in ld + 1 .. last : r \in Rounds /\ st[r] # Undecided
    PROVE  Skipped(Dec, TableOf(cs, sc), last_commit_round(cs), last, st)
  <1>. DEFINE s == TableOf(cs, sc)
  <1>1. Recorded(Dec, D, s, st) /\ Skipped(Dec, s, last_commit_round(cs), ld, st)
    BY Zenon DEF LocalInv, StatusInv
  <1>2. ASSUME NEW r \in Rounds, r > last_commit_round(cs), r <= last, st[r] \notin Blocks
        PROVE  <<s, r, Skip>> \in Dec
    <2>1. r \in Nat
      BY Zenon, RoundFacts
    <2>2. CASE r <= ld
      BY ZenonT(30), <1>1, <1>2, <2>2 DEF Skipped
    <2>3. CASE r > ld
      <3>1. st[r] # Undecided
        BY SMTT(30), <1>2, <2>1, <2>3
      <3>2. st[r] = Skip
        BY ZenonT(30), <1>2, <3>1 DEF Statuses
      <3>. QED  BY ZenonT(30), <1>1, <3>1, <3>2 DEF Recorded
    <2>. QED  BY SMTT(30), <2>1, <2>2, <2>3
  <1>. QED  BY Zenon, <1>2 DEF Skipped

LEMMA DecideEnded ==
    ASSUME NEW Dec, NEW D, NEW cs \in Seq(Commits), NEW sc,
           NEW ld \in Nat, NEW st \in Statuses, NEW cur,
           LocalInv(Dec, D, cs, sc, ld, st, "decide", cur),
           NEW last \in Nat, last >= ld, last <= ld + (Limit(sc) - Len(cs)),
           \A r \in ld + 1 .. last : r \in Rounds /\ st[r] # Undecided
    PROVE  /\ LocalInv(Dec, D, cs, sc, last, st, "commit", 0)
           /\ (\A r \in Rounds : r > last_commit_round(cs) /\ r <= last => st[r] \notin Blocks)
              => LocalInv(Dec, D, cs, sc, last, NothingDecided, "idle", 0)
  <1>. DEFINE s == TableOf(cs, sc)
              lcr == last_commit_round(cs)
  <1>1. /\ StoreInv(Dec, D, cs, sc) /\ lcr <= ld /\ Recorded(Dec, D, s, st)
        /\ \A r \in Rounds : st[r] # Undecided => r > ld
        /\ Len(cs) < Limit(sc)
    BY Zenon DEF LocalInv, StatusInv, PhaseInv, Resting
  <1>2. lcr \in Nat /\ lcr <= last /\ Len(cs) \in Nat /\ Limit(sc) \in Nat
    BY <1>1, StoreFacts
  <1>3. Skipped(Dec, s, lcr, last, st)
    BY ZenonT(30), TakenIsSkipped
  <1>4. StatusInv(Dec, D, cs, sc, last, st)
    BY ZenonT(30), <1>1, <1>2, <1>3 DEF StatusInv
  <1>5. ASSUME NEW r \in Rounds, r <= last, st[r] \in Blocks
        PROVE  last - r < Limit(sc) - Len(cs)
    <2>1. r \in Nat /\ r > ld
      BY ZenonT(30), <1>1, <1>5, RoundFacts, ConfigAssumption
    <2>. QED  BY SMTT(30), <1>2, <1>5, <2>1
  <1>6. PhaseInv(cs, sc, last, st, "commit", 0)
    BY ZenonT(30), <1>1, <1>5 DEF PhaseInv, Resting, Committing
  <1>7. ASSUME \A r \in Rounds : r > lcr /\ r <= last => st[r] \notin Blocks
        PROVE  LocalInv(Dec, D, cs, sc, last, NothingDecided, "idle", 0)
    <2>1. Skipped(Dec, s, lcr, last, NothingDecided)
      BY ZenonT(30), <1>3, <1>7 DEF Skipped
    <2>2. StatusInv(Dec, D, cs, sc, last, NothingDecided)
      BY ZenonT(30), <1>2, <2>1, NothingDecidedFacts DEF StatusInv, Recorded
    <2>3. PhaseInv(cs, sc, last, NothingDecided, "idle", 0)
      BY <1>1, <1>2 DEF PhaseInv, Resting, Committing
    <2>. QED  BY ZenonT(30), <1>1, <2>2, <2>3 DEF LocalInv
  <1>. QED  BY ZenonT(30), <1>1, <1>4, <1>6, <1>7 DEF LocalInv

LEMMA BlocksAdded ==
    ASSUME NEW Dec, NEW D, NEW E, D \subseteq E, NEW cs, NEW sc, NEW ld, NEW st,
           NEW ph \in Resting, NEW cur, LocalInv(Dec, D, cs, sc, ld, st, ph, cur),
           Chain(E, cs), NEW next \in Resting
    PROVE  LocalInv(Dec, E, cs, sc, ld, st, next, cur)
  <1>1. StoreInv(Dec, E, cs, sc)
    BY ZenonT(30) DEF LocalInv, StoreInv
  <1>2. StatusInv(Dec, E, cs, sc, ld, st)
    BY Zenon DEF LocalInv, StatusInv, Recorded
  <1>3. PhaseInv(cs, sc, ld, st, next, cur)
    BY Zenon DEF LocalInv, PhaseInv, Resting, Committing
  <1>. QED  BY ZenonT(30), <1>1, <1>2, <1>3 DEF LocalInv

\* The commit that the linearizer makes of the leader of round r.
CommitOf(st, r, cs) == [round |-> r, leaders |-> {st[r]}, blocks |-> SubDag({st[r]}, cs)]

\* The rounds with a leader to commit.
Left(st, cs, ld) == {r \in Rounds : r > last_commit_round(cs) /\ r <= ld /\ st[r] \in Blocks}

\* The first leader that is left is the next one to commit.
LEMMA FirstIsJustified ==
    ASSUME NEW Dec, DecisionsInv(Dec), NEW D \in SUBSET Blocks, NEW cs \in Seq(Commits), NEW sc,
           NEW ld \in Nat, NEW st \in Statuses, NEW ph \in Committing, NEW cur,
           LocalInv(Dec, D, cs, sc, ld, st, ph, cur),
           NEW r \in Left(st, cs, ld), \A x \in Left(st, cs, ld) : r <= x
    PROVE  /\ CommitOf(st, r, cs) \in Commits
           /\ Justified(Dec, cs, CommitOf(st, r, cs))
           /\ st[r] \in D /\ Round[st[r]] = r
           /\ SubDag({st[r]}, cs) \subseteq D
  <1>. DEFINE s == TableOf(cs, sc)
              lcr == last_commit_round(cs)
              b == st[r]
              c == CommitOf(st, r, cs)
  <1>1. /\ StoreInv(Dec, D, cs, sc) /\ Recorded(Dec, D, s, st) /\ Skipped(Dec, s, lcr, ld, st)
        /\ Len(cs) < Limit(sc)
    BY Zenon DEF LocalInv, StatusInv, PhaseInv, Resting, Committing
  <1>2. s \in Schedules /\ ScheduledBy(cs, s) /\ lcr \in Nat
    BY ZenonT(30), <1>1, StoreFacts
  <1>3. r \in Rounds /\ r > lcr /\ r <= ld /\ b \in Blocks /\ r \in Nat
    BY Zenon, RoundFacts DEF Left
  <1>4. <<s, r, b>> \in Dec /\ b \in D
    BY ZenonT(30), <1>1, <1>3, ConfigAssumption DEF Recorded
  <1>5. Round[b] = r
    <2>1. b \in BlocksAt(Blocks, Slot(s, r)) \cup {Skip}
      BY ZenonT(30), <1>2, <1>3, <1>4 DEF DecisionsInv, Evidence
    <2>. QED  BY ZenonT(30), <1>3, <2>1, ConfigAssumption, RoundFacts DEF BlocksAt
  <1>6. SubDag({b}, cs) \subseteq D
    <2>1. ClosedAbove(D, gc_round(cs))
      BY ZenonT(30), <1>1 DEF StoreInv, Chain
    <2>. QED  BY SMTT(30), <1>4, <2>1, SubDagInView
  <1>7. c.round = r /\ c.leaders = {b} /\ c.blocks = SubDag({b}, cs)
    BY Zenon DEF CommitOf
  <1>8. c \in Commits
    BY ZenonT(30), <1>3, <1>6 DEF CommitOf, Commits
  <1>9. ASSUME NEW q \in Rounds, q > lcr, q < r  PROVE <<s, q, Skip>> \in Dec
    <2>1. q \in Nat /\ q <= ld
      BY SMTT(30), <1>3, <1>9, RoundFacts
    <2>2. q \notin Left(st, cs, ld)
      BY SMTT(30), <1>3, <1>9, <2>1
    <2>3. st[q] \notin Blocks
      BY ZenonT(30), <1>9, <2>1, <2>2 DEF Left
    <2>. QED  BY ZenonT(30), <1>1, <1>9, <2>1, <2>3 DEF Skipped
  <1>10. Follows(cs, c)
    <2>. HIDE DEF b, c
    <2>. QED  BY ZenonT(30), <1>3, <1>5, <1>7 DEF Follows
  <1>11. JustifiedUnder(Dec, s, cs, c)
    <2>. HIDE DEF b, c, s
    <2>. QED  BY ZenonT(30), <1>3, <1>4, <1>7, <1>9, <1>10 DEF JustifiedUnder
  <1>12. Justified(Dec, cs, c)
    <2>. HIDE DEF c, s
    <2>. QED  BY ZenonT(30), <1>2, <1>11 DEF Justified
  <1>. QED  BY ZenonT(30), <1>4, <1>5, <1>6, <1>8, <1>12

LEMMA LeaderCommitted ==
    ASSUME NEW Dec, DecisionsInv(Dec), NEW D \in SUBSET Blocks, NEW cs \in Seq(Commits), NEW sc,
           NEW ld \in Nat, NEW st \in Statuses, NEW ph \in Committing, NEW cur,
           LocalInv(Dec, D, cs, sc, ld, st, ph, cur),
           NEW r \in Left(st, cs, ld), \A x \in Left(st, cs, ld) : r <= x
    PROVE  /\ (\E x \in Left(st, cs, ld) : x # r)
              => LocalInv(Dec, D, Append(cs, CommitOf(st, r, cs)), sc, ld, st, ph, cur)
           /\ Left(st, cs, ld) = {r} => \A next \in Resting :
              LocalInv(Dec, D, Append(cs, CommitOf(st, r, cs)), sc, ld, NothingDecided, next, cur)
  <1>. DEFINE c == CommitOf(st, r, cs)
              ds == Append(cs, c)
              s == TableOf(cs, sc)
              lcr == last_commit_round(cs)
  <1>1. /\ StoreInv(Dec, D, cs, sc) /\ Recorded(Dec, D, s, st) /\ Skipped(Dec, s, lcr, ld, st)
        /\ Len(cs) < Limit(sc)
        /\ \A x \in Rounds : x > lcr /\ x <= ld /\ st[x] \in Blocks => ld - x < Limit(sc) - Len(cs)
    BY Zenon DEF LocalInv, StatusInv, PhaseInv, Resting, Committing
  <1>2. Len(cs) \in Nat /\ Limit(sc) \in Nat /\ sc \in Nat /\ sc <= Len(cs) /\ lcr \in Nat
    BY Zenon, <1>1, StoreFacts
  <1>3. r \in Rounds /\ r > lcr /\ r <= ld /\ r \in Nat /\ ld - r < Limit(sc) - Len(cs)
    <2>1. r \in Rounds /\ r > lcr /\ r <= ld /\ st[r] \in Blocks
      BY Zenon DEF Left
    <2>. QED  BY ZenonT(30), <1>1, <2>1, RoundFacts
  <1>4. c \in Commits /\ Justified(Dec, cs, c) /\ D \cup c.blocks = D /\ c.round = r
    BY Zenon, FirstIsJustified DEF CommitOf
  <1>. HIDE DEF c
  <1>5. StoreInv(Dec, D, ds, sc)
    <2>1. StoreInv(Dec, D \cup c.blocks, ds, sc)
      BY ZenonT(30), <1>1, <1>2, <1>4, StoreExtended
    <2>. QED  BY Zenon, <1>4, <2>1
  <1>6. /\ ds \in Seq(Commits) /\ Len(ds) = Len(cs) + 1
        /\ last_commit_round(ds) = r /\ TableOf(ds, sc) = s
    <2>1. ds \in Seq(Commits) /\ Len(ds) = Len(cs) + 1
      BY ZenonT(30), <1>4, OneMoreCommit
    <2>2. c.round >= lcr
      BY ZenonT(30), <1>2, <1>3, <1>4, Above
    <2>3. last_commit_round(ds) = r
      BY ZenonT(30), <1>4, <2>2, GcRoundGrows
    <2>4. TableOf(ds, sc) = s
      BY ZenonT(30), <1>2, <1>4, TableFacts
    <2>. QED  BY ZenonT(30), <2>1, <2>3, <2>4
  <1>. HIDE DEF ds, s
  <1>7. ASSUME NEW x \in Left(st, cs, ld), x # r
        PROVE  LocalInv(Dec, D, ds, sc, ld, st, ph, cur)
    <2>1. x \in Nat /\ x > r /\ x <= ld
      BY SMTT(30), <1>3, <1>7, RoundFacts DEF Left
    <2>2. Len(ds) < Limit(sc)
      <3>1. Len(cs) + 1 < Limit(sc)
        BY ZenonT(30), <1>2, <1>3, <2>1, RoomLeft
      <3>. QED  BY ZenonT(30), <1>6, <3>1
    <2>3. StatusInv(Dec, D, ds, sc, ld, st)
      BY SMTT(30), <1>1, <1>2, <1>3, <1>6, RoundFacts DEF StatusInv, Skipped
    <2>4. ASSUME NEW q \in Rounds, q > r, q <= ld  PROVE ld - q < Limit(sc) - Len(ds)
      <3>1. q \in Nat
        BY Zenon, RoundFacts
      <3>. QED  BY ZenonT(30), <1>2, <1>3, <1>6, <2>4, <3>1, RoomLeft
    <2>5. PhaseInv(ds, sc, ld, st, ph, cur)
      BY ZenonT(30), <1>6, <2>2, <2>4 DEF PhaseInv, Resting, Committing
    <2>. QED  BY ZenonT(30), <1>5, <2>3, <2>5 DEF LocalInv
  <1>8. ASSUME Left(st, cs, ld) = {r}, NEW next \in Resting
        PROVE  LocalInv(Dec, D, ds, sc, ld, NothingDecided, next, cur)
    <2>1. ASSUME NEW q \in Rounds, q > r, q <= ld  PROVE <<s, q, Skip>> \in Dec
      <3>1. q \in Nat /\ q > lcr /\ q \notin Left(st, cs, ld)
        BY SMTT(30), <1>2, <1>3, <1>8, <2>1, RoundFacts
      <3>2. st[q] \notin Blocks
        BY ZenonT(30), <2>1, <3>1 DEF Left
      <3>. QED  BY ZenonT(30), <1>1, <2>1, <3>1, <3>2 DEF Skipped
    <2>2. StatusInv(Dec, D, ds, sc, ld, NothingDecided)
      BY ZenonT(30), <1>3, <1>6, <2>1, NothingDecidedFacts DEF StatusInv, Recorded, Skipped
    <2>3. Len(ds) = Limit(sc) => ld = r
      BY SMTT(30), <1>2, <1>3, <1>6
    <2>4. PhaseInv(ds, sc, ld, NothingDecided, next, cur)
      BY ZenonT(30), <1>6, <2>3 DEF PhaseInv, Resting, Committing
    <2>. QED  BY ZenonT(30), <1>5, <2>2, <2>4 DEF LocalInv
  <1>. QED  BY ZenonT(30), <1>7, <1>8 DEF ds, c

\* The blocks of a commit that someone else has made are accepted, and its
\* leader is the next to commit.
LEMMA CertifiedAccepted ==
    ASSUME NEW Dec, DecisionsInv(Dec), NEW D \in SUBSET Blocks, NEW cs \in Seq(Commits), NEW sc,
           NEW ld \in Nat, NEW st \in Statuses, NEW ph \in Resting, NEW cur,
           LocalInv(Dec, D, cs, sc, ld, st, ph, cur), Len(cs) < Limit(sc),
           NEW c \in Commits, Justified(Dec, cs, c), NEW b \in c.leaders
    PROVE  /\ LocalInv(Dec, D \cup c.blocks, cs, sc, c.round, [st EXCEPT ![c.round] = b],
                       "commit certified", cur)
           /\ b \in Blocks
  <1>. DEFINE s == TableOf(cs, sc)
              lcr == last_commit_round(cs)
              after == [st EXCEPT ![c.round] = b]
              E == D \cup c.blocks
  <1>1. StoreInv(Dec, D, cs, sc) /\ st = NothingDecided
    BY Zenon DEF LocalInv, PhaseInv
  <1>2. /\ s \in Schedules /\ ScheduledBy(cs, s) /\ lcr \in Nat
        /\ gc_round(cs) \in Nat /\ gc_round(cs) <= lcr /\ Len(cs) \in Nat /\ Limit(sc) \in Nat
        /\ sc \in Nat
    BY Zenon, <1>1, StoreFacts
  <1>3. JustifiedUnder(Dec, s, cs, c)
    <2>1. PICK t \in Schedules : ScheduledBy(cs, t) /\ JustifiedUnder(Dec, t, cs, c)
      BY ZenonT(30) DEF Justified
    <2>2. s = t
      BY ZenonT(30), <1>2, <2>1, OneSchedule
    <2>. QED  BY ZenonT(30), <2>1, <2>2
  <1>4. Follows(cs, c) /\ c.round \in Rounds /\ c.round \in Nat /\ c.round > lcr
    BY ZenonT(30), <1>3, RoundFacts DEF JustifiedUnder, Follows, Commits
  <1>5. c.leaders = {b} /\ <<s, c.round, b>> \in Dec /\ b \in Blocks
    BY ZenonT(30), <1>3 DEF JustifiedUnder
  <1>6. b \in c.blocks
    <2>1. Round[b] = c.round /\ c.blocks = SubDag({b}, cs)
      BY ZenonT(30), <1>4, <1>5 DEF Follows
    <2>2. b \notin Committed(cs)
      <3>1. c.leaders \cap Committed(cs) = {}
        BY ZenonT(30), <1>1, <1>2, StoreExtended
      <3>. QED  BY ZenonT(30), <3>1
    <2>3. b \in Past[b]
      BY ZenonT(30), <1>5, DagAssumption
    <2>4. Round[b] > gc_round(cs)
      BY ZenonT(30), <1>2, <1>4, <2>1, Above
    <2>. QED  BY ZenonT(30), <2>1, <2>2, <2>3, <2>4 DEF SubDag
  <1>7. StoreInv(Dec, E, cs, sc)
    <2>1. Chain(E, cs)
      BY ZenonT(30), <1>1, <1>4, ChainWithBlocks DEF StoreInv
    <2>. QED  BY ZenonT(30), <1>1, <2>1 DEF StoreInv
  <1>8. \A r \in Rounds : after[r] = IF r = c.round THEN b ELSE Undecided
    BY ZenonT(30), <1>1, NothingDecidedFacts DEF Statuses
  <1>. HIDE DEF after, E, s
  <1>9. StatusInv(Dec, E, cs, sc, c.round, after)
    <2>1. Recorded(Dec, E, s, after)
      BY ZenonT(30), <1>5, <1>6, <1>8 DEF Recorded, E
    <2>2. Skipped(Dec, s, lcr, c.round, after)
      <3>. SUFFICES ASSUME NEW r \in Rounds, r > lcr, r <= c.round, after[r] \notin Blocks
                    PROVE  <<s, r, Skip>> \in Dec
        BY ZenonT(30) DEF Skipped
      <3>1. r # c.round
        BY ZenonT(30), <1>5, <1>8
      <3>2. r < c.round
        BY ZenonT(30), <1>4, <3>1, RoundFacts, Above
      <3>. QED  BY ZenonT(30), <1>3, <3>2 DEF JustifiedUnder
    <2>3. lcr <= c.round
      BY ZenonT(30), <1>2, <1>4, Above
    <2>. QED  BY ZenonT(30), <2>1, <2>2, <2>3 DEF StatusInv, s
  <1>10. PhaseInv(cs, sc, c.round, after, "commit certified", cur)
    <2>1. ASSUME NEW r \in Rounds, after[r] \in Blocks
          PROVE  c.round - r < Limit(sc) - Len(cs)
      <3>1. r = c.round
        BY ZenonT(30), <1>8, <2>1, ConfigAssumption
      <3>. QED  BY ZenonT(30), <1>2, <1>4, <3>1, RoomLeft
    <2>. QED  BY ZenonT(30), <2>1 DEF PhaseInv, Resting, Committing
  <1>. QED  BY ZenonT(30), <1>5, <1>7, <1>9, <1>10 DEF LocalInv, E, after


\* No assertion fails for the first leader that is left: it is not committed
\* yet, it is above the gc round, and what the linearizer and the timestamp
\* calculation walk through has been accepted.
LEMMA LeaderIsClear ==
    ASSUME NEW Dec, DecisionsInv(Dec), NEW D \in SUBSET Blocks, NEW cs \in Seq(Commits), NEW sc,
           NEW ld \in Nat, NEW st \in Statuses, NEW ph \in Committing, NEW cur,
           LocalInv(Dec, D, cs, sc, ld, st, ph, cur),
           NEW r \in Left(st, cs, ld), \A x \in Left(st, cs, ld) : r <= x
    PROVE  /\ st[r] \notin Committed(cs) /\ ~(r <= gc_round(cs))
           /\ SubDag({st[r]}, cs) \cup {a \in Ancestors[st[r]] : Round[a] = r - 1} \subseteq D
  <1>. DEFINE b == st[r]
              c == CommitOf(st, r, cs)
              lcr == last_commit_round(cs)
  <1>1. StoreInv(Dec, D, cs, sc) /\ Len(cs) < Limit(sc) /\ Recorded(Dec, D, TableOf(cs, sc), st)
    BY Zenon DEF LocalInv, StatusInv, PhaseInv, Resting, Committing
  <1>2. c \in Commits /\ Justified(Dec, cs, c) /\ SubDag({b}, cs) \subseteq D
    <2>1. c \in Commits /\ Justified(Dec, cs, c)
      BY Zenon, FirstIsJustified
    <2>2. SubDag({b}, cs) \subseteq D
      BY Zenon, FirstIsJustified
    <2>. QED  BY Zenon, <2>1, <2>2
  <1>3. sc \in Nat /\ lcr \in Nat /\ gc_round(cs) \in Nat /\ gc_round(cs) <= lcr
    BY Zenon, <1>1, StoreFacts
  <1>4. c.leaders \cap Committed(cs) = {} /\ c.leaders = {b}
    BY ZenonT(30), <1>1, <1>2, <1>3, StoreExtended DEF CommitOf
  <1>5. r \in Nat /\ r > lcr
    BY ZenonT(30), RoundFacts DEF Left
  <1>6. ASSUME NEW a \in Ancestors[b], Round[a] = r - 1  PROVE a \in D
    <2>0. b \in D
      BY ZenonT(30), <1>1, ConfigAssumption DEF Left, Recorded
    <2>1. Round[a] \in Nat /\ Round[a] > 0
      BY SMTT(30), <2>0, DagAssumption
    <2>2. Round[a] > gc_round(cs)
      BY ZenonT(30), <1>3, <1>5, <1>6, <2>1, ParentsAreKept
    <2>. QED  BY ZenonT(30), <1>1, <2>0, <2>2 DEF StoreInv, Chain, ClosedAbove
  <1>7. b \notin Committed(cs)
    BY Zenon, <1>4
  <1>8. ~(r <= gc_round(cs))
    BY <1>3, <1>5
  <1>. HIDE DEF b
  <1>9. SubDag({b}, cs) \cup {a \in Ancestors[b] : Round[a] = r - 1} \subseteq D
    BY ZenonT(30), <1>2, <1>6
  <1>. QED  BY ZenonT(30), <1>7, <1>8, <1>9 DEF b

-----------------------------------------------------------------------------
(* The inductive invariant.                                                 *)

Types ==
    /\ dag \in [Validators -> SUBSET Blocks]
    /\ commits \in [Validators -> Seq(Commits)]
    /\ scored \in [Validators -> Nat]
    /\ last_decided \in [Validators -> Nat]
    /\ status \in [Validators -> Statuses]
    /\ phase \in [Validators -> Phases]
    /\ cursor \in [Validators -> Int]
    /\ flushed \in [Validators -> [dag : SUBSET Blocks, commits : Seq(Commits), scored : Nat]]
    /\ produced \subseteq Seq(Commits)

ValidatorInv(v) ==
    LocalInv(decisions, dag[v], commits[v], scored[v], last_decided[v], status[v], phase[v], cursor[v])

StoredInv(v) == StoreInv(decisions, flushed[v].dag, flushed[v].commits, flushed[v].scored)

\* Commits that were lost in a restart were justified, too.
ProducedInv == \A cs \in produced : AllJustified(decisions, cs)

IInv ==
    /\ Types
    /\ NeverPanics
    /\ DecisionsInv(decisions)
    /\ \A v \in Validators : ValidatorInv(v) /\ StoredInv(v)
    /\ ProducedInv

LocalTypes(D, cs, sc, ld, st, ph, cur) ==
    /\ D \in SUBSET Blocks /\ cs \in Seq(Commits) /\ sc \in Nat /\ ld \in Nat
    /\ st \in Statuses /\ ph \in Phases /\ cur \in Int

\* A step of the Core of validator v to this state.
StepTo(v, D, cs, sc, ld, st, ph, cur) ==
    /\ dag' = [dag EXCEPT ![v] = D] /\ commits' = [commits EXCEPT ![v] = cs]
    /\ scored' = [scored EXCEPT ![v] = sc] /\ last_decided' = [last_decided EXCEPT ![v] = ld]
    /\ status' = [status EXCEPT ![v] = st] /\ phase' = [phase EXCEPT ![v] = ph]
    /\ cursor' = [cursor EXCEPT ![v] = cur]
    /\ flushed' = flushed
    /\ produced' \subseteq produced \cup {cs}

LEMMA CoreStep ==
    ASSUME IInv, NEW v \in Validators,
           NEW D, NEW cs, NEW sc, NEW ld, NEW st, NEW ph, NEW cur,
           LocalTypes(D, cs, sc, ld, st, ph, cur), StepTo(v, D, cs, sc, ld, st, ph, cur),
           LocalInv(decisions', D, cs, sc, ld, st, ph, cur),
           ~panicked', decisions \subseteq decisions', DecisionsInv(decisions')
    PROVE  IInv'
  <1>0. Types
    BY Zenon DEF IInv
  <1>1. Types'
    <2>1. /\ dag' \in [Validators -> SUBSET Blocks] /\ commits' \in [Validators -> Seq(Commits)]
          /\ scored' \in [Validators -> Nat] /\ last_decided' \in [Validators -> Nat]
      BY Zenon, <1>0 DEF Types, LocalTypes, StepTo
    <2>2. /\ status' \in [Validators -> Statuses] /\ phase' \in [Validators -> Phases]
          /\ cursor' \in [Validators -> Int] /\ produced' \subseteq Seq(Commits)
      BY Zenon, <1>0 DEF Types, LocalTypes, StepTo
    <2>. QED  BY ZenonT(30), <1>0, <2>1, <2>2 DEF Types, StepTo
  <1>2. ASSUME NEW w \in Validators  PROVE ValidatorInv(w)'
    <2>1. CASE w = v
      <3>1. /\ dag'[w] = D /\ commits'[w] = cs /\ scored'[w] = sc /\ last_decided'[w] = ld
            /\ status'[w] = st /\ phase'[w] = ph /\ cursor'[w] = cur
        BY Zenon, <1>0, <2>1 DEF Types, StepTo
      <3>. QED  BY Zenon, <3>1 DEF ValidatorInv
    <2>2. CASE w # v
      <3>1. /\ dag'[w] = dag[w] /\ commits'[w] = commits[w] /\ scored'[w] = scored[w]
            /\ last_decided'[w] = last_decided[w] /\ status'[w] = status[w]
            /\ phase'[w] = phase[w] /\ cursor'[w] = cursor[w]
        BY Zenon, <1>0, <2>2 DEF Types, StepTo
      <3>2. LocalInv(decisions', dag[w], commits[w], scored[w], last_decided[w], status[w],
                     phase[w], cursor[w])
        BY Zenon, LocalInvStays DEF IInv, ValidatorInv
      <3>. QED  BY Zenon, <3>1, <3>2 DEF ValidatorInv
    <2>. QED  BY Zenon, <2>1, <2>2
  <1>3. ASSUME NEW w \in Validators  PROVE StoredInv(w)'
    BY Zenon, StoreInvStays DEF IInv, StoredInv, StepTo
  <1>4. ProducedInv'
    <2>1. AllJustified(decisions', cs)
      BY Zenon DEF LocalInv, StoreInv
    <2>. QED  BY Zenon, <2>1, AllJustifiedStays DEF IInv, ProducedInv, StepTo
  <1>. QED  BY ZenonT(30), <1>1, <1>2, <1>3, <1>4 DEF IInv, NeverPanics

LEMMA OwnFacts ==
    ASSUME IInv, NEW v \in Validators
    PROVE  /\ dag[v] \in SUBSET Blocks /\ commits[v] \in Seq(Commits) /\ scored[v] \in Nat
           /\ last_decided[v] \in Nat /\ status[v] \in Statuses /\ phase[v] \in Phases
           /\ cursor[v] \in Int
           /\ LocalInv(decisions, dag[v], commits[v], scored[v], last_decided[v], status[v],
                       phase[v], cursor[v])
           /\ StoreInv(decisions, dag[v], commits[v], scored[v])
           /\ DecisionsInv(decisions) /\ ~panicked /\ decisions \subseteq decisions
  BY Zenon DEF IInv, Types, ValidatorInv, LocalInv, NeverPanics

LEMMA OwnUnchanged ==
    ASSUME IInv, NEW v \in Validators
    PROVE  /\ dag = [dag EXCEPT ![v] = dag[v]] /\ commits = [commits EXCEPT ![v] = commits[v]]
           /\ scored = [scored EXCEPT ![v] = scored[v]]
           /\ last_decided = [last_decided EXCEPT ![v] = last_decided[v]]
           /\ status = [status EXCEPT ![v] = status[v]] /\ phase = [phase EXCEPT ![v] = phase[v]]
           /\ cursor = [cursor EXCEPT ![v] = cursor[v]]
  <1>1. ASSUME NEW S, NEW f \in [Validators -> S]  PROVE f = [f EXCEPT ![v] = f[v]]
    BY Zenon, <1>1
  <1>. QED  BY Zenon, <1>1 DEF IInv, Types

\* The commits that may still be made before the schedule changes.
LEMMA CommitsLeft ==
    ASSUME IInv, NEW v \in Validators
    PROVE  /\ commits_until_leader_schedule_update(v) = Limit(scored[v]) - Len(commits[v])
           /\ Limit(scored[v]) \in Nat /\ Len(commits[v]) \in Nat
           /\ Len(commits[v]) <= Limit(scored[v])
  <1>1. /\ Len(commits[v]) \in Nat /\ Limit(scored[v]) \in Nat /\ Len(commits[v]) <= Limit(scored[v])
    BY ZenonT(30), OwnFacts, StoreFacts
  <1>2. num_commits_per_schedule \in Nat /\ scored[v] \in Nat
    BY Zenon, OwnFacts, ScheduleAssumption
  <1>. QED
    BY <1>1, <1>2 DEF commits_until_leader_schedule_update, scoring_subdags_count, Limit

LEMMA UpdateLeaderScheduleInv ==
    ASSUME IInv, NEW v \in Validators, UpdateLeaderSchedule(v)
    PROVE  IInv'
  <1>1. /\ phase[v] \in Resting
        /\ commits_until_leader_schedule_update(v) = 0
        /\ scored' = [scored EXCEPT ![v] = Len(commits[v])]
        /\ UNCHANGED <<dag, commits, last_decided, status, phase, cursor,
                       flushed, decisions, produced, panicked>>
    BY Zenon DEF UpdateLeaderSchedule, Resting
  <1>2. Len(commits[v]) = Limit(scored[v]) /\ Len(commits[v]) \in Nat
    BY <1>1, CommitsLeft
  <1>3. LocalInv(decisions, dag[v], commits[v], Len(commits[v]), last_decided[v], status[v],
                 phase[v], cursor[v])
    BY ZenonT(30), <1>1, <1>2, OwnFacts, ScheduleUpdated
  <1>4. StepTo(v, dag[v], commits[v], Len(commits[v]), last_decided[v], status[v], phase[v], cursor[v])
    BY ZenonT(30), <1>1, OwnUnchanged DEF StepTo
  <1>5. LocalTypes(dag[v], commits[v], Len(commits[v]), last_decided[v], status[v], phase[v], cursor[v])
    BY Zenon, <1>2, OwnFacts DEF LocalTypes
  <1>6. ~panicked' /\ decisions' = decisions /\ DecisionsInv(decisions)
    BY Zenon, <1>1, OwnFacts
  <1>. QED  BY ZenonT(30), <1>3, <1>4, <1>5, <1>6, CoreStep

LEMMA StartTryDecideInv ==
    ASSUME IInv, NEW v \in Validators, StartTryDecide(v)
    PROVE  IInv'
  <1>1. PICK highest \in {0} \cup Rounds :
            /\ phase[v] \in Resting
            /\ commits_until_leader_schedule_update(v) > 0
            /\ phase' = [phase EXCEPT ![v] = "decide"]
            /\ cursor' = [cursor EXCEPT ![v] = highest - 2]
            /\ UNCHANGED <<dag, commits, scored, last_decided, status,
                           flushed, decisions, produced, panicked>>
    BY Zenon DEF StartTryDecide, Resting
  <1>2. Len(commits[v]) < Limit(scored[v])
    BY <1>1, CommitsLeft
  <1>3. highest - 2 \in Int /\ (highest - 2 > 0 => highest - 2 \in Rounds)
    BY SMTT(30), <1>1, RoundFacts, RoundsBelow
  <1>4. LocalInv(decisions, dag[v], commits[v], scored[v], last_decided[v], status[v],
                 "decide", highest - 2)
    BY ZenonT(30), <1>1, <1>2, <1>3, OwnFacts, DecideStarted
  <1>5. StepTo(v, dag[v], commits[v], scored[v], last_decided[v], status[v], "decide", highest - 2)
    BY ZenonT(30), <1>1, OwnUnchanged DEF StepTo
  <1>6. LocalTypes(dag[v], commits[v], scored[v], last_decided[v], status[v], "decide", highest - 2)
    BY ZenonT(30), <1>3, OwnFacts DEF LocalTypes, Phases
  <1>7. ~panicked' /\ decisions' = decisions /\ DecisionsInv(decisions)
    BY ZenonT(30), <1>1, OwnFacts
  <1>. QED  BY ZenonT(30), <1>4, <1>5, <1>6, <1>7, CoreStep

LEMMA EndTryDecideInv ==
    ASSUME IInv, NEW v \in Validators, EndTryDecide(v)
    PROVE  IInv'
  <1>1. PICK last \in {0} \cup Rounds :
            /\ Taken(v, last)
            /\ last_decided' = [last_decided EXCEPT ![v] = last]
            /\ \/ phase' = [phase EXCEPT ![v] = "commit"] /\ status' = status
               \/ /\ ToCommit(v, last) = {}
                  /\ phase' = [phase EXCEPT ![v] = "idle"]
                  /\ status' = [status EXCEPT ![v] = NothingDecided]
    BY Zenon DEF EndTryDecide
  <1>2. /\ phase[v] = "decide" /\ cursor' = [cursor EXCEPT ![v] = 0]
        /\ UNCHANGED <<dag, commits, scored, flushed, decisions, produced, panicked>>
    BY Zenon DEF EndTryDecide
  <1>3. last \in Nat
    BY <1>1, RoundFacts
  <1>4. /\ last >= last_decided[v]
        /\ last <= last_decided[v] + (Limit(scored[v]) - Len(commits[v]))
        /\ \A r \in last_decided[v] + 1 .. last : r \in Rounds /\ status[v][r] # Undecided
    <2>1. /\ last \in last_decided[v] .. last_decided[v] + (Limit(scored[v]) - Len(commits[v]))
          /\ DecidedUpTo(v, last)
      BY ZenonT(30), <1>1, CommitsLeft DEF Taken
    <2>2. last_decided[v] \in Nat
      BY Zenon, OwnFacts
    <2>3. Limit(scored[v]) - Len(commits[v]) \in Int
      BY CommitsLeft
    <2>. QED  BY SMTT(30), <2>1, <2>2, <2>3 DEF DecidedUpTo
  <1>5. LocalInv(decisions, dag[v], commits[v], scored[v], last_decided[v], status[v],
                 "decide", cursor[v])
    BY ZenonT(30), <1>2, OwnFacts
  <1>6. /\ LocalInv(decisions, dag[v], commits[v], scored[v], last, status[v], "commit", 0)
        /\ (\A r \in Rounds : r > last_commit_round(commits[v]) /\ r <= last => status[v][r] \notin Blocks)
           => LocalInv(decisions, dag[v], commits[v], scored[v], last, NothingDecided, "idle", 0)
    BY ZenonT(30), <1>3, <1>4, <1>5, OwnFacts, DecideEnded
  <1>7. ~panicked' /\ decisions' = decisions /\ DecisionsInv(decisions)
    BY ZenonT(30), <1>2, OwnFacts
  <1>8. CASE phase' = [phase EXCEPT ![v] = "commit"] /\ status' = status
    <2>1. StepTo(v, dag[v], commits[v], scored[v], last, status[v], "commit", 0)
      BY ZenonT(30), <1>1, <1>2, <1>8, OwnUnchanged DEF StepTo
    <2>2. LocalTypes(dag[v], commits[v], scored[v], last, status[v], "commit", 0)
      <3>1. 0 \in Int /\ "commit" \in Phases
        BY DEF Phases, Committing
      <3>. QED  BY ZenonT(30), <1>3, <3>1, OwnFacts DEF LocalTypes
    <2>. QED  BY ZenonT(30), <1>6, <1>7, <2>1, <2>2, CoreStep
  <1>9. CASE /\ ToCommit(v, last) = {}
             /\ phase' = [phase EXCEPT ![v] = "idle"]
             /\ status' = [status EXCEPT ![v] = NothingDecided]
    <2>1. ASSUME NEW r \in Rounds, r > last_commit_round(commits[v]), r <= last
          PROVE  status[v][r] \notin Blocks
      <3>1. r \in last_commit_round(commits[v]) + 1 .. last
        BY SMTT(30), <1>3, <2>1, RoundFacts, OwnFacts, CommittedFacts
      <3>. QED  BY ZenonT(30), <1>9, <3>1 DEF ToCommit
    <2>2. StepTo(v, dag[v], commits[v], scored[v], last, NothingDecided, "idle", 0)
      BY ZenonT(30), <1>1, <1>2, <1>9, OwnUnchanged DEF StepTo
    <2>3. LocalTypes(dag[v], commits[v], scored[v], last, NothingDecided, "idle", 0)
      <3>1. 0 \in Int /\ "idle" \in Phases
        BY DEF Phases, Resting
      <3>. QED  BY ZenonT(30), <1>3, <3>1, OwnFacts, NothingDecidedFacts DEF LocalTypes
    <2>. QED  BY ZenonT(30), <1>6, <1>7, <2>1, <2>2, <2>3, CoreStep
  <1>. QED  BY ZenonT(30), <1>1, <1>8, <1>9

\* The place of try_decide: the slot it looks at is that of the round at the
\* cursor, above everything committed.
LEMMA CursorFacts ==
    ASSUME IInv, NEW v \in Validators, phase[v] = "decide", cursor[v] > last_decided[v]
    PROVE  /\ cursor[v] \in Rounds /\ cursor[v] \in Nat
           /\ cursor[v] > last_commit_round(commits[v]) /\ cursor[v] > gc_round(commits[v])
           /\ gc_round(commits[v]) \in Nat /\ ClosedAbove(dag[v], gc_round(commits[v]))
           /\ leader_swap_table(v) \in Schedules
           /\ elect_leader(v, cursor[v]) = Slot(leader_swap_table(v), cursor[v])
           /\ elect_leader(v, cursor[v])[1] = cursor[v]
           /\ Recorded(decisions, dag[v], leader_swap_table(v), status[v])
  <1>0. leader_swap_table(v) = TableOf(commits[v], scored[v])
    BY Zenon DEF leader_swap_table, TableOf
  <1>1. PhaseInv(commits[v], scored[v], last_decided[v], status[v], "decide", cursor[v])
        /\ StatusInv(decisions, dag[v], commits[v], scored[v], last_decided[v], status[v])
    BY Zenon, OwnFacts DEF LocalInv
  <1>2. /\ cursor[v] > 0 => cursor[v] \in Rounds
        /\ last_commit_round(commits[v]) <= last_decided[v]
        /\ Recorded(decisions, dag[v], leader_swap_table(v), status[v])
    BY Zenon, <1>0, <1>1 DEF PhaseInv, StatusInv
  <1>3. /\ last_commit_round(commits[v]) \in Nat /\ gc_round(commits[v]) \in Nat
        /\ gc_round(commits[v]) <= last_commit_round(commits[v])
        /\ TableOf(commits[v], scored[v]) \in Schedules
    BY Zenon, OwnFacts, StoreFacts
  <1>4. last_decided[v] \in Nat /\ cursor[v] \in Int
    BY Zenon, OwnFacts
  <1>5. ClosedAbove(dag[v], gc_round(commits[v]))
    BY ZenonT(30), OwnFacts DEF StoreInv, Chain
  <1>6. cursor[v] > last_commit_round(commits[v]) /\ cursor[v] > gc_round(commits[v]) /\ cursor[v] \in Nat
    BY SMTT(30), <1>2, <1>3, <1>4
  <1>7. cursor[v] \in Rounds
    BY SMTT(30), <1>2, <1>3, <1>6
  <1>. QED  BY ZenonT(30), <1>0, <1>2, <1>3, <1>5, <1>6, <1>7 DEF elect_leader, Slot

\* The round at the cursor gets a status for which there is evidence.
LEMMA DecideInv ==
    ASSUME IInv, NEW v \in Validators, phase[v] = "decide", cursor[v] > last_decided[v],
           NEW d, Decide(v, elect_leader(v, cursor[v]), d),
           cursor' = [cursor EXCEPT ![v] = @ - 1], ~panicked',
           UNCHANGED <<dag, commits, scored, last_decided, phase, flushed, produced>>,
           d # Undecided => Evidence(decisions, leader_swap_table(v), cursor[v], d),
           d \in Blocks => d \in dag[v]
    PROVE  IInv'
  <1>. DEFINE r == cursor[v]
              s == leader_swap_table(v)
              st == [status[v] EXCEPT ![r] = d]
  <1>1. /\ r \in Rounds /\ r \in Nat /\ s \in Schedules
        /\ elect_leader(v, r)[1] = r
    BY Zenon, CursorFacts
  <1>2. /\ status' = [status EXCEPT ![v] = st]
        /\ decisions' = IF d = Undecided THEN decisions ELSE decisions \cup {<<s, r, d>>}
    BY Zenon, <1>1 DEF Decide
  <1>3. d \in Blocks \cup {Skip, Undecided}
    BY Zenon DEF Evidence, BlocksAt
  <1>4. st \in Statuses
    BY ZenonT(30), <1>1, <1>3, OwnFacts DEF Statuses
  <1>. HIDE DEF st
  <1>5. decisions \subseteq decisions' /\ DecisionsInv(decisions')
    <2>1. CASE d = Undecided
      BY ZenonT(30), <1>2, <2>1, OwnFacts
    <2>2. CASE d # Undecided
      BY ZenonT(30), <1>1, <1>2, <2>2, OwnFacts, DecisionAdded
    <2>. QED  BY ZenonT(30), <2>1, <2>2
  <1>6. d # Undecided => <<TableOf(commits[v], scored[v]), r, d>> \in decisions'
    BY Zenon, <1>2 DEF leader_swap_table, TableOf
  <1>7. LocalInv(decisions', dag[v], commits[v], scored[v], last_decided[v], st, "decide", r - 1)
    <2>1. LocalInv(decisions, dag[v], commits[v], scored[v], last_decided[v], status[v], "decide", r)
      BY Zenon, OwnFacts
    <2>2. /\ last_decided[v] \in Nat /\ status[v] \in Statuses /\ r > last_decided[v]
          /\ commits[v] \in Seq(Commits) /\ (d \in Blocks => d \in dag[v])
      BY Zenon, OwnFacts
    <2>. HIDE DEF r, s
    <2>3. LocalInv(decisions', dag[v], commits[v], scored[v], last_decided[v],
                   [status[v] EXCEPT ![r] = d], "decide", r - 1)
      BY ZenonT(30), <1>1, <1>3, <1>5, <1>6, <2>1, <2>2, RoundDecided
    <2>. QED  BY Zenon, <2>3 DEF st
  <1>8. StepTo(v, dag[v], commits[v], scored[v], last_decided[v], st, "decide", r - 1)
    BY Zenon, <1>2, OwnUnchanged DEF StepTo
  <1>9. LocalTypes(dag[v], commits[v], scored[v], last_decided[v], st, "decide", r - 1)
    <2>1. r - 1 \in Int
      BY <1>1
    <2>. QED  BY ZenonT(30), <1>4, <2>1, OwnFacts DEF LocalTypes, Phases
  <1>. QED  BY ZenonT(30), <1>5, <1>7, <1>8, <1>9, CoreStep

LEMMA TryDecideInv ==
    ASSUME IInv, NEW v \in Validators, TryDecide(v)
    PROVE  IInv'
  <1>. DEFINE r == cursor[v]
              s == leader_swap_table(v)
              slot == elect_leader(v, r)
              direct == try_direct_decide(dag[v], slot)
  <1>1. /\ phase[v] = "decide" /\ r > last_decided[v]
        /\ cursor' = [cursor EXCEPT ![v] = @ - 1]
        /\ UNCHANGED <<dag, commits, scored, last_decided, phase, flushed, produced>>
    BY Zenon DEF TryDecide
  <1>2. /\ r \in Rounds /\ r \in Nat /\ s \in Schedules /\ slot = Slot(s, r) /\ slot[1] = r
        /\ r > last_commit_round(commits[v]) /\ r > gc_round(commits[v])
        /\ gc_round(commits[v]) \in Nat /\ ClosedAbove(dag[v], gc_round(commits[v]))
        /\ Recorded(decisions, dag[v], s, status[v])
    BY Zenon, <1>1, CursorFacts
  <1>3. dag[v] \in SUBSET Blocks /\ commits[v] \in Seq(Commits) /\ status[v] \in Statuses /\ ~panicked
    BY Zenon, OwnFacts
  <1>4. ~DirectPanics(v, slot)
    <2>. HIDE DEF slot
    <2>. QED  BY ZenonT(30), <1>2, <1>3, DirectNeverPanics
  <1>5. CASE direct # Undecided /\ Decide(v, slot, direct)
             /\ panicked' = (panicked \/ DirectPanics(v, slot))
    <2>1. DirectEvidence(slot, direct) /\ direct \in BlocksAt(dag[v], slot) \cup {Skip}
      <3>. HIDE DEF slot
      <3>. QED  BY ZenonT(30), <1>3, <1>5, DirectDecision
    <2>2. Evidence(decisions, s, r, direct) /\ (direct \in Blocks => direct \in dag[v])
      <3>. HIDE DEF direct, slot
      <3>. QED  BY ZenonT(30), <1>2, <1>3, <2>1, ConfigAssumption DEF Evidence, BlocksAt
    <2>. HIDE DEF direct
    <2>. QED  BY ZenonT(30), <1>1, <1>3, <1>4, <1>5, <2>2, DecideInv
  <1>6. ASSUME NEW a \in Rounds, AnchorRound(status[v], slot[1], a),
               Decide(v, slot, decide_leader_from_anchor(dag[v], status[v][a], slot)),
               panicked' = (panicked \/ DirectPanics(v, slot) \/ IndirectPanics(v, status[v][a], slot))
        PROVE  IInv'
    <2>. DEFINE k == status[v][a]
                d == decide_leader_from_anchor(dag[v], k, slot)
    <2>1. /\ a >= r + 3 /\ k \in Blocks
          /\ \A x \in Rounds : x \in r + 3 .. a - 1 => status[v][x] = Skip
      BY ZenonT(30), <1>2, <1>6 DEF AnchorRound
    <2>2. k \in dag[v] /\ <<s, a, k>> \in decisions
      BY ZenonT(30), <1>2, <2>1, ConfigAssumption DEF Recorded
    <2>3. ASSUME NEW x \in Rounds, x >= r + 3, x < a  PROVE <<s, x, Skip>> \in decisions
      <3>1. x \in r + 3 .. a - 1
        BY SMTT(30), <1>2, <2>3, RoundFacts
      <3>2. status[v][x] = Skip
        BY ZenonT(30), <2>1, <3>1
      <3>. QED  BY ZenonT(30), <1>2, <3>2, ConfigAssumption DEF Recorded
    <2>4. AnchoredAt(decisions, s, r, a, k)
      BY ZenonT(30), <2>1, <2>2, <2>3 DEF AnchoredAt
    <2>. HIDE DEF k, r, s, slot
    <2>5. ~IndirectPanics(v, k, slot)
      BY ZenonT(30), <1>2, <1>3, <2>2, IndirectNeverPanics
    <2>6. d = decide_leader_from_anchor(Blocks, k, slot)
      BY ZenonT(30), <1>2, <1>3, <2>2, IndirectInView
    <2>7. d \in BlocksAt(dag[v], slot) \cup {Skip}
      BY Zenon, IndirectDecision
    <2>. HIDE DEF d
    <2>8. IndirectEvidence(decisions, s, r, d)
      BY ZenonT(30), <1>2, <2>1, <2>4, <2>6 DEF IndirectEvidence
    <2>9. Evidence(decisions, s, r, d) /\ (d \in Blocks => d \in dag[v])
      BY ZenonT(30), <1>2, <1>3, <2>7, <2>8, ConfigAssumption DEF Evidence, BlocksAt
    <2>. QED  BY ZenonT(30), <1>1, <1>3, <1>4, <1>6, <2>5, <2>9, DecideInv DEF k, r, s, slot, d
  <1>7. CASE Decide(v, slot, Undecided) /\ panicked' = (panicked \/ DirectPanics(v, slot))
    BY ZenonT(30), <1>1, <1>3, <1>4, <1>7, ConfigAssumption, DecideInv
  <1>. QED  BY ZenonT(30), <1>5, <1>6, <1>7 DEF TryDecide

LEMMA CommitLeaderInv ==
    ASSUME IInv, NEW v \in Validators, CommitLeader(v)
    PROVE  IInv'
  <1>. DEFINE cs == commits[v]
              left == Left(status[v], cs, last_decided[v])
  <1>0. /\ dag[v] \in SUBSET Blocks /\ cs \in Seq(Commits) /\ last_decided[v] \in Nat
        /\ status[v] \in Statuses /\ ~panicked /\ DecisionsInv(decisions)
        /\ cursor[v] \in Int /\ scored[v] \in Nat
        /\ LocalInv(decisions, dag[v], cs, scored[v], last_decided[v], status[v], phase[v], cursor[v])
    BY Zenon, OwnFacts
  <1>1. ToCommit(v, last_decided[v]) = left
    <2>1. last_commit_round(cs) \in Nat
      BY ZenonT(30), <1>0, CommittedFacts
    <2>2. \A r \in Rounds : r \in last_commit_round(cs) + 1 .. last_decided[v]
                            <=> r > last_commit_round(cs) /\ r <= last_decided[v]
      BY SMTT(30), <1>0, <2>1, RoundFacts
    <2>. QED  BY Zenon, <2>2 DEF ToCommit, Left
  <1>2. /\ phase[v] \in Committing
        /\ UNCHANGED <<dag, scored, last_decided, cursor, flushed, decisions>>
    BY Zenon DEF CommitLeader, Committing
  <1>. HIDE DEF left
  <1>3. PICK r \in left :
            LET c == CommitOf(status[v], r, cs)
            IN  /\ \A x \in left : r <= x
                /\ commits' = [commits EXCEPT ![v] = Append(cs, c)]
                /\ produced' = produced \cup {Append(cs, c)}
                /\ panicked' = (panicked \/ status[v][r] \in Committed(cs)
                                         \/ r <= gc_round(cs)
                                         \/ ~(SubDag({status[v][r]}, cs)
                                              \cup {a \in Ancestors[status[v][r]] : Round[a] = r - 1}
                                              \subseteq dag[v])
                                         \/ commits_until_leader_schedule_update(v) = 0)
                /\ status' = IF left = {r} THEN [status EXCEPT ![v] = NothingDecided] ELSE status
                /\ phase' = [phase EXCEPT ![v] =
                       IF left # {r} THEN @ ELSE IF @ = "commit" THEN "loop" ELSE "certified"]
    BY Zenon, <1>1 DEF CommitLeader, CommitOf
  <1>. DEFINE c == CommitOf(status[v], r, cs)
              ds == Append(cs, c)
  <1>4. ~panicked'
    <2>1. commits_until_leader_schedule_update(v) # 0
      <3>1. Len(cs) < Limit(scored[v])
        BY ZenonT(30), <1>0, <1>2 DEF LocalInv, PhaseInv, Resting, Committing
      <3>. QED  BY SMTT(30), <3>1, CommitsLeft
    <2>2. /\ status[v][r] \notin Committed(cs) /\ ~(r <= gc_round(cs))
          /\ SubDag({status[v][r]}, cs)
             \cup {a \in Ancestors[status[v][r]] : Round[a] = r - 1} \subseteq dag[v]
      BY ZenonT(30), <1>0, <1>2, <1>3, LeaderIsClear DEF left
    <2>. QED  BY ZenonT(30), <1>0, <1>3, <2>1, <2>2
  <1>5. ds \in Seq(Commits)
    <2>1. c \in Commits
      BY ZenonT(30), <1>0, <1>2, <1>3, FirstIsJustified DEF left
    <2>. HIDE DEF c
    <2>. QED  BY ZenonT(30), <1>0, <2>1, OneMoreCommit
  <1>6. decisions' = decisions /\ decisions \subseteq decisions'
    BY Zenon, <1>2
  <1>7. CASE left # {r}
    <2>1. LocalInv(decisions', dag[v], ds, scored[v], last_decided[v], status[v], phase[v], cursor[v])
      <3>1. \E x \in left : x # r
        BY ZenonT(30), <1>3, <1>7
      <3>. QED  BY ZenonT(30), <1>0, <1>2, <1>3, <1>6, <3>1, LeaderCommitted DEF left
    <2>2. StepTo(v, dag[v], ds, scored[v], last_decided[v], status[v], phase[v], cursor[v])
      BY ZenonT(30), <1>2, <1>3, <1>7, OwnUnchanged DEF StepTo
    <2>3. LocalTypes(dag[v], ds, scored[v], last_decided[v], status[v], phase[v], cursor[v])
      BY ZenonT(30), <1>0, <1>2, <1>5 DEF LocalTypes, Phases
    <2>. HIDE DEF ds
    <2>. QED  BY ZenonT(30), <1>0, <1>4, <1>6, <2>1, <2>2, <2>3, CoreStep
  <1>8. CASE left = {r}
    <2>. DEFINE next == IF phase[v] = "commit" THEN "loop" ELSE "certified"
    <2>0. next \in Resting
      BY Zenon DEF Resting
    <2>1. LocalInv(decisions', dag[v], ds, scored[v], last_decided[v], NothingDecided, next, cursor[v])
      BY ZenonT(30), <1>0, <1>2, <1>3, <1>6, <1>8, <2>0, LeaderCommitted DEF left
    <2>2. StepTo(v, dag[v], ds, scored[v], last_decided[v], NothingDecided, next, cursor[v])
      BY ZenonT(30), <1>2, <1>3, <1>8, OwnUnchanged DEF StepTo
    <2>. HIDE DEF next
    <2>3. LocalTypes(dag[v], ds, scored[v], last_decided[v], NothingDecided, next, cursor[v])
      BY ZenonT(30), <1>0, <1>5, <2>0, NothingDecidedFacts DEF LocalTypes, Phases
    <2>. HIDE DEF ds
    <2>. QED  BY ZenonT(30), <1>0, <1>4, <1>6, <2>1, <2>2, <2>3, CoreStep
  <1>. QED  BY ZenonT(30), <1>7, <1>8

LEMMA AddBlockInv ==
    ASSUME IInv, NEW v \in Validators, AddBlock(v)
    PROVE  IInv'
  <1>. DEFINE next == IF phase[v] = "idle" THEN "added" ELSE phase[v]
  <1>1. PICK b \in Blocks : /\ Acceptable(b, dag[v], commits[v])
                            /\ dag' = [dag EXCEPT ![v] = dag[v] \cup {b}]
    BY Zenon DEF AddBlock
  <1>2. /\ phase[v] \in Resting /\ phase' = [phase EXCEPT ![v] = next]
        /\ UNCHANGED <<commits, scored, last_decided, status, cursor,
                       flushed, decisions, produced, panicked>>
    BY Zenon DEF AddBlock, Resting
  <1>3. next \in Resting
    BY Zenon, <1>2 DEF Resting
  <1>. DEFINE E == dag[v] \cup {b}
  <1>. HIDE DEF next
  <1>4. dag[v] \in SUBSET Blocks /\ commits[v] \in Seq(Commits) /\ Chain(dag[v], commits[v])
    BY Zenon, OwnFacts DEF StoreInv
  <1>5. Chain(E, commits[v]) /\ dag[v] \subseteq E /\ E \in SUBSET Blocks
    BY ZenonT(30), <1>1, <1>4, BlockAccepted
  <1>. HIDE DEF E
  <1>6. LocalInv(decisions', E, commits[v], scored[v], last_decided[v], status[v], next, cursor[v])
    <2>1. LocalInv(decisions', dag[v], commits[v], scored[v], last_decided[v], status[v],
                   phase[v], cursor[v])
      BY ZenonT(30), <1>2, OwnFacts
    <2>. QED  BY ZenonT(30), <1>2, <1>3, <1>5, <2>1, BlocksAdded
  <1>7. StepTo(v, E, commits[v], scored[v], last_decided[v], status[v], next, cursor[v])
    BY ZenonT(30), <1>1, <1>2, OwnUnchanged DEF StepTo, E
  <1>8. LocalTypes(E, commits[v], scored[v], last_decided[v], status[v], next, cursor[v])
    BY ZenonT(30), <1>3, <1>5, OwnFacts DEF LocalTypes, Phases
  <1>9. ~panicked' /\ decisions \subseteq decisions' /\ DecisionsInv(decisions')
    BY ZenonT(30), <1>2, OwnFacts
  <1>. QED  BY ZenonT(30), <1>6, <1>7, <1>8, <1>9, CoreStep

LEMMA AcceptCertifiedCommitInv ==
    ASSUME IInv, NEW v \in Validators, AcceptCertifiedCommit(v)
    PROVE  IInv'
  <1>. DEFINE n == Len(commits[v]) + 1
  <1>1. PICK cs \in produced :
            /\ phase[v] \in Resting
            /\ commits_until_leader_schedule_update(v) > 0
            /\ Len(cs) >= n
            /\ dag' = [dag EXCEPT ![v] = dag[v] \cup cs[n].blocks]
            /\ last_decided' = [last_decided EXCEPT ![v] = cs[n].round]
            /\ \E leader \in cs[n].leaders :
                   status' = [status EXCEPT ![v] = [status[v] EXCEPT ![cs[n].round] = leader]]
            /\ panicked' = (panicked \/ SubSeq(cs, 1, Len(commits[v])) # commits[v]
                                     \/ cs[n].blocks # SubDag(cs[n].leaders, commits[v]))
            /\ phase' = [phase EXCEPT ![v] = "commit certified"]
            /\ UNCHANGED <<commits, scored, cursor, flushed, decisions, produced>>
    BY Zenon DEF AcceptCertifiedCommit, CertifiedBlocks, Resting
  <1>. DEFINE c == cs[n]
  <1>2. PICK b \in c.leaders :
            status' = [status EXCEPT ![v] = [status[v] EXCEPT ![c.round] = b]]
    BY Zenon, <1>1
  <1>3. /\ dag[v] \in SUBSET Blocks /\ commits[v] \in Seq(Commits) /\ last_decided[v] \in Nat
        /\ status[v] \in Statuses /\ ~panicked /\ DecisionsInv(decisions)
        /\ cursor[v] \in Int /\ scored[v] \in Nat
        /\ LocalInv(decisions, dag[v], commits[v], scored[v], last_decided[v], status[v],
                    phase[v], cursor[v])
        /\ AllJustified(decisions, commits[v])
    BY Zenon, OwnFacts DEF StoreInv
  <1>4. cs \in Seq(Commits) /\ AllJustified(decisions, cs)
    BY ZenonT(30), <1>1 DEF IInv, Types, ProducedInv
  <1>5. /\ SubSeq(cs, 1, Len(commits[v])) = commits[v]
        /\ c \in Commits /\ Justified(decisions, commits[v], c)
    BY ZenonT(30), <1>1, <1>3, <1>4, NextOfAnyone
  <1>6. Len(commits[v]) < Limit(scored[v])
    <2>1. commits_until_leader_schedule_update(v) > 0
      BY Zenon, <1>1
    <2>. QED  BY SMTT(30), <2>1, CommitsLeft
  <1>. DEFINE E == dag[v] \cup c.blocks
              st == [status[v] EXCEPT ![c.round] = b]
  <1>7. ~panicked'
    <2>1. c.blocks = SubDag(c.leaders, commits[v])
      BY Zenon, <1>5 DEF Justified, JustifiedUnder, Follows
    <2>. QED  BY ZenonT(30), <1>1, <1>3, <1>5, <2>1
  <1>. HIDE DEF c
  <1>8. /\ LocalInv(decisions, E, commits[v], scored[v], c.round, st, "commit certified", cursor[v])
        /\ b \in Blocks
    BY ZenonT(30), <1>1, <1>2, <1>3, <1>5, <1>6, CertifiedAccepted
  <1>9. c.round \in Rounds /\ c.round \in Nat /\ E \in SUBSET Blocks
    BY ZenonT(30), <1>3, <1>5, RoundFacts DEF Commits
  <1>10. st \in Statuses
    BY ZenonT(30), <1>3, <1>8, <1>9 DEF Statuses
  <1>. HIDE DEF E, st
  <1>11. StepTo(v, E, commits[v], scored[v], c.round, st, "commit certified", cursor[v])
    BY ZenonT(30), <1>1, <1>2, OwnUnchanged DEF StepTo, E, st, c
  <1>12. LocalTypes(E, commits[v], scored[v], c.round, st, "commit certified", cursor[v])
    BY ZenonT(30), <1>3, <1>9, <1>10 DEF LocalTypes, Phases, Committing
  <1>13. decisions' = decisions
    BY Zenon, <1>1
  <1>. QED  BY ZenonT(30), <1>3, <1>7, <1>8, <1>11, <1>12, <1>13, CoreStep

LEMMA RestartInv ==
    ASSUME IInv, NEW v \in Validators, Restart(v)
    PROVE  IInv'
  <1>. DEFINE D == flushed[v].dag
              cs == flushed[v].commits
              sc == flushed[v].scored
              ld == last_commit_round(cs)
  <1>1. StepTo(v, D, cs, sc, ld, NothingDecided, "loop", 0)
    BY Zenon DEF Restart, RecoveredScored, StepTo
  <1>2. D \in SUBSET Blocks /\ cs \in Seq(Commits) /\ sc \in Nat
    BY Zenon DEF IInv, Types
  <1>3. StoreInv(decisions, D, cs, sc) /\ decisions' = decisions /\ ~panicked'
        /\ DecisionsInv(decisions)
    BY Zenon DEF IInv, StoredInv, NeverPanics, Restart
  <1>4. "loop" \in Resting /\ "loop" \in Phases /\ 0 \in Int
    BY DEF Resting, Phases
  <1>. HIDE DEF D, cs, sc
  <1>5. LocalInv(decisions, D, cs, sc, ld, NothingDecided, "loop", 0)
    BY ZenonT(30), <1>2, <1>3, <1>4, AtRest
  <1>6. LocalTypes(D, cs, sc, ld, NothingDecided, "loop", 0)
    BY ZenonT(30), <1>2, <1>4, CommittedFacts, NothingDecidedFacts DEF LocalTypes
  <1>. QED  BY ZenonT(30), <1>1, <1>3, <1>5, <1>6, CoreStep

LEMMA FlushInv ==
    ASSUME IInv, NEW v \in Validators, Flush(v)
    PROVE  IInv'
  <1>. DEFINE stored == [dag |-> dag[v], commits |-> commits[v], scored |-> scored[v]]
  <1>1. /\ flushed' = [flushed EXCEPT ![v] = stored]
        /\ UNCHANGED <<dag, commits, scored, last_decided, status, phase, cursor>>
        /\ UNCHANGED <<decisions, produced, panicked>>
    BY Zenon DEF Flush, core
  <1>2. /\ stored.dag = dag[v] /\ stored.commits = commits[v] /\ stored.scored = scored[v]
        /\ stored \in [dag : SUBSET Blocks, commits : Seq(Commits), scored : Nat]
    BY Zenon, OwnFacts
  <1>. HIDE DEF stored
  <1>3. flushed \in [Validators -> [dag : SUBSET Blocks, commits : Seq(Commits), scored : Nat]]
    BY Zenon DEF IInv, Types
  <1>4. Types'
    <2>1. flushed' \in [Validators -> [dag : SUBSET Blocks, commits : Seq(Commits), scored : Nat]]
      BY ZenonT(30), <1>1, <1>2, <1>3
    <2>. QED  BY Zenon, <1>1, <2>1 DEF IInv, Types
  <1>5. ASSUME NEW w \in Validators  PROVE ValidatorInv(w)' /\ StoredInv(w)'
    <2>1. ValidatorInv(w)'
      BY Zenon, <1>1 DEF IInv, ValidatorInv
    <2>2. flushed'[w] = IF w = v THEN stored ELSE flushed[w]
      BY Zenon, <1>1, <1>3
    <2>3. StoredInv(w)'
      BY ZenonT(30), <1>1, <1>2, <2>2, OwnFacts DEF IInv, StoredInv
    <2>. QED  BY ZenonT(30), <2>1, <2>3
  <1>. QED  BY ZenonT(30), <1>1, <1>4, <1>5 DEF IInv, NeverPanics, ProducedInv

LEMMA InitIInv == Init => IInv
  <1>. SUFFICES ASSUME Init  PROVE IInv
    BY Zenon
  <1>1. <<>> \in Seq(Commits) /\ Len(<<>>) = 0 /\ last_commit_round(<<>>) = 0
    BY Zenon, EmptySequence DEF last_commit_round
  <1>2. Types
    <2>1. NothingDecided \in Statuses /\ "idle" \in Phases
      BY Zenon, NothingDecidedFacts DEF Phases, Resting
    <2>2. status \in [Validators -> Statuses] /\ commits \in [Validators -> Seq(Commits)]
          /\ phase \in [Validators -> Phases]
      BY ZenonT(30), <1>1, <2>1 DEF Init
    <2>3. flushed \in [Validators -> [dag : SUBSET Blocks, commits : Seq(Commits), scored : Nat]]
      BY Zenon, <1>1 DEF Init
    <2>4. /\ dag \in [Validators -> SUBSET Blocks] /\ cursor \in [Validators -> Int]
          /\ scored \in [Validators -> Nat] /\ last_decided \in [Validators -> Nat]
          /\ produced \subseteq Seq(Commits)
      BY DEF Init
    <2>. QED  BY ZenonT(30), <2>2, <2>3, <2>4 DEF Types
  <1>3. StoreInv(decisions, {}, <<>>, 0)
    <2>1. 0 \in Terms /\ 0 <= Len(<<>>) /\ Len(<<>>) <= Limit(0)
      BY SMTT(30), <1>1, TermFacts, ScheduleAssumption DEF Limit
    <2>2. AllJustified(decisions, <<>>)
      BY <1>1 DEF AllJustified
    <2>. QED  BY ZenonT(30), <2>1, <2>2, EmptyChain DEF StoreInv
  <1>4. LocalInv(decisions, {}, <<>>, 0, 0, NothingDecided, "idle", 0)
    <2>1. "idle" \in Resting
      BY Zenon DEF Resting
    <2>. QED  BY ZenonT(30), <1>1, <1>3, <2>1, AtRest
  <1>5. ASSUME NEW v \in Validators  PROVE ValidatorInv(v) /\ StoredInv(v)
    <2>1. ValidatorInv(v)
      BY Zenon, <1>4 DEF Init, ValidatorInv
    <2>2. flushed[v].dag = {} /\ flushed[v].commits = <<>> /\ flushed[v].scored = 0
      BY Zenon DEF Init
    <2>. QED  BY ZenonT(30), <1>3, <2>1, <2>2 DEF StoredInv
  <1>6. DecisionsInv(decisions)
    BY Zenon DEF Init, DecisionsInv, Agreed
  <1>. QED  BY ZenonT(30), <1>2, <1>5, <1>6 DEF Init, IInv, NeverPanics, ProducedInv

LEMMA NextIInv == IInv /\ [Next]_vars => IInv'
  <1>. SUFFICES ASSUME IInv, [Next]_vars  PROVE IInv'
    BY Zenon
  <1>1. ASSUME NEW v \in Validators, TryCommit(v)  PROVE IInv'
    BY ZenonT(30), <1>1, UpdateLeaderScheduleInv, StartTryDecideInv, TryDecideInv, EndTryDecideInv,
       CommitLeaderInv DEF TryCommit
  <1>2. CASE UNCHANGED vars
    <2>1. /\ UNCHANGED <<dag, commits, scored, last_decided, status, phase, cursor>>
          /\ UNCHANGED <<flushed, decisions, produced, panicked>>
      BY Zenon, <1>2 DEF vars, core
    <2>. QED  BY Zenon, <2>1 DEF IInv, Types, NeverPanics, ValidatorInv, StoredInv, ProducedInv
  <1>. QED
    BY ZenonT(30), <1>1, <1>2, AddBlockInv, AcceptCertifiedCommitInv, FlushInv, RestartInv DEF Next

THEOREM IInvAlways == Spec => []IInv
  BY InitIInv, NextIInv, PTL DEF Spec

-----------------------------------------------------------------------------

\* No assertion of the committer, of the linearizer and of the leader schedule
\* ever fails, whatever blocks a validator has accepted and in whatever order,
\* however the schedule changes, and wherever it restarts.
THEOREM NeverPanicsAlways == Spec => []NeverPanics
  <1>1. IInv => NeverPanics
    BY ZenonT(30) DEF IInv
  <1>. QED  BY <1>1, IInvAlways, PTL

\* The leader of a round is never decided in two ways under the same schedule,
\* by two validators or by one of them before and after a restart, with the
\* direct or with the indirect rule.
THEOREM DecisionsAgreeAlways == Spec => []DecisionsAgree
  <1>1. IInv => DecisionsAgree
    <2>. SUFFICES ASSUME IInv, NEW x \in decisions, NEW y \in decisions,
                         x[1] = y[1], x[2] = y[2]
                  PROVE  x[3] = y[3]
      BY Zenon DEF DecisionsAgree
    <2>1. decisions \in SUBSET (Schedules \X Rounds \X (Blocks \cup {Skip})) /\ Agreed(decisions)
      BY Zenon DEF IInv, DecisionsInv
    <2>2. /\ x[1] \in Schedules /\ x[2] \in Rounds
          /\ x[3] \in Blocks \cup {Skip} /\ y[3] \in Blocks \cup {Skip}
          /\ x = <<x[1], x[2], x[3]>> /\ y = <<y[1], y[2], y[3]>>
      BY SMTT(30), <2>1
    <2>. QED  BY ZenonT(30), <2>1, <2>2 DEF Agreed
  <1>. QED  BY <1>1, IInvAlways, PTL

-----------------------------------------------------------------------------
(* Consensus v2 implements the log of commits.                              *)

\* What a validator has committed and stored was made by someone, and what it
\* has stored is the beginning of what it has committed.
CopyInv(v) ==
    /\ commits[v] \in produced \cup {<<>>}
    /\ flushed[v].commits \in produced \cup {<<>>}
    /\ Begins(flushed[v].commits, commits[v])

CopiesInv == \A v \in Validators : CopyInv(v)

\* Sequences of commits that are all justified agree, the ones as well that
\* were lost in a restart.
LEMMA ProducedAgree ==
    ASSUME IInv
    PROVE  Agree(produced)
  <1>. SUFFICES ASSUME NEW cs \in produced, NEW ds \in produced,
                       NEW i \in DOMAIN cs \cap DOMAIN ds
                PROVE  cs[i] = ds[i]
    BY Zenon DEF Agree
  <1>1. /\ cs \in Seq(Commits) /\ ds \in Seq(Commits)
        /\ DecisionsInv(decisions)
        /\ AllJustified(decisions, cs) /\ AllJustified(decisions, ds)
    BY Zenon DEF IInv, Types, ProducedInv
  <1>2. i \in 1 .. Len(cs) /\ i \in 1 .. Len(ds)
    BY ZenonT(30), <1>1, SequenceOfCommits
  <1>. QED  BY ZenonT(30), <1>1, <1>2, JustifiedCommitsAgree

\* What a step may do to the commits and to what is stored of them.
Commit(v, c) ==
    /\ commits' = [commits EXCEPT ![v] = Append(commits[v], c)]
    /\ produced' = produced \cup {Append(commits[v], c)}
    /\ flushed' = flushed

Store(v) ==
    /\ \E D, sc : flushed' = [flushed EXCEPT ![v] = [dag |-> D, commits |-> commits[v], scored |-> sc]]
    /\ UNCHANGED <<commits, produced>>

Recover(v) ==
    /\ commits' = [commits EXCEPT ![v] = flushed[v].commits]
    /\ UNCHANGED <<flushed, produced>>

LEMMA NextOfCommits ==
    ASSUME [Next]_vars
    PROVE  \/ UNCHANGED <<commits, produced, flushed>>
           \/ \E v \in Validators : Store(v) \/ Recover(v) \/ \E c : Commit(v, c)
  <1>1. CASE UNCHANGED vars
    BY Zenon, <1>1 DEF vars, core
  <1>2. ASSUME NEW v \in Validators,
               \/ AddBlock(v) \/ AcceptCertifiedCommit(v) \/ UpdateLeaderSchedule(v)
               \/ StartTryDecide(v) \/ TryDecide(v) \/ EndTryDecide(v)
        PROVE  UNCHANGED <<commits, produced, flushed>>
    BY Zenon, <1>2 DEF AddBlock, AcceptCertifiedCommit, UpdateLeaderSchedule, StartTryDecide,
                       TryDecide, EndTryDecide
  <1>3. ASSUME NEW v \in Validators, CommitLeader(v)  PROVE \E c : Commit(v, c)
    BY Zenon, <1>3 DEF CommitLeader, Commit
  <1>4. ASSUME NEW v \in Validators, Flush(v)  PROVE Store(v)
    BY Zenon, <1>4 DEF Flush, core, Store
  <1>5. ASSUME NEW v \in Validators, Restart(v)  PROVE Recover(v)
    BY Zenon, <1>5 DEF Restart, Recover
  <1>. QED  BY ZenonT(30), <1>1, <1>2, <1>3, <1>4, <1>5 DEF Next, TryCommit

LEMMA NextCopies ==
    ASSUME IInv, CopiesInv, [Next]_vars
    PROVE  CopiesInv'
  <1>0. /\ commits \in [Validators -> Seq(Commits)]
        /\ flushed \in [Validators -> [dag : SUBSET Blocks, commits : Seq(Commits), scored : Nat]]
    BY Zenon DEF IInv, Types
  <1>1. CASE UNCHANGED <<commits, produced, flushed>>
    BY Zenon, <1>1 DEF CopiesInv, CopyInv
  <1>2. ASSUME NEW v \in Validators, NEW c, Commit(v, c)  PROVE CopiesInv'
    <2>. DEFINE cs == Append(commits[v], c)
    <2>1. Begins(flushed[v].commits, cs)
      BY SMTT(30), <1>0, AppendFacts DEF CopiesInv, CopyInv, Begins
    <2>2. ASSUME NEW w \in Validators  PROVE commits'[w] = IF w = v THEN cs ELSE commits[w]
      BY ZenonT(30), <1>0, <1>2 DEF Commit
    <2>. HIDE DEF cs
    <2>3. flushed' = flushed /\ produced' = produced \cup {cs}
      BY Zenon, <1>2 DEF Commit, cs
    <2>. QED  BY ZenonT(30), <2>1, <2>2, <2>3 DEF CopiesInv, CopyInv
  <1>3. ASSUME NEW w \in Validators, NEW cs \in Seq(Commits)  PROVE Begins(cs, cs)
    BY SequenceOfCommits DEF Begins
  <1>4. ASSUME NEW v \in Validators, Store(v)  PROVE CopiesInv'
    <2>1. commits' = commits /\ produced' = produced
      BY ZenonT(30), <1>4 DEF Store
    <2>2. ASSUME NEW w \in Validators
          PROVE  flushed'[w].commits = IF w = v THEN commits[w] ELSE flushed[w].commits
      BY SMTT(30), <1>0, <1>4 DEF Store
    <2>. QED  BY ZenonT(30), <1>0, <1>3, <2>1, <2>2 DEF CopiesInv, CopyInv
  <1>5. ASSUME NEW v \in Validators, Recover(v)  PROVE CopiesInv'
    <2>1. flushed' = flushed /\ produced' = produced
      BY Zenon, <1>5 DEF Recover
    <2>2. ASSUME NEW w \in Validators
          PROVE  commits'[w] = IF w = v THEN flushed[w].commits ELSE commits[w]
      BY ZenonT(30), <1>0, <1>5 DEF Recover
    <2>3. flushed[v].commits \in Seq(Commits)
      BY ZenonT(30), <1>0
    <2>. QED  BY ZenonT(30), <1>3, <2>1, <2>2, <2>3 DEF CopiesInv, CopyInv
  <1>. QED  BY ZenonT(30), <1>1, <1>2, <1>4, <1>5, NextOfCommits

\* Every step is a step of the log or changes nothing of it.
LEMMA NextIsLogStep ==
    ASSUME IInv, CopiesInv, Agree(produced)', [Next]_vars
    PROVE  [Log!LogNext]_Log!logVars
  <1>0. /\ commits \in [Validators -> Seq(Commits)]
        /\ flushed \in [Validators -> [dag : SUBSET Blocks, commits : Seq(Commits), scored : Nat]]
    BY Zenon DEF IInv, Types
  <1>1. CASE UNCHANGED <<commits, produced>>
    BY ZenonT(30), <1>1 DEF Log!logVars, EntriesOf
  <1>2. ASSUME NEW v \in Validators, NEW c, Commit(v, c)  PROVE Log!Extend(v)
    <2>. DEFINE cs == Append(commits[v], c)
    <2>1. commits' = [commits EXCEPT ![v] = Append(@, c)] /\ commits'[v] = cs
      BY ZenonT(30), <1>0, <1>2 DEF Commit
    <2>2. produced' = produced \cup {cs} /\ commits[v] \in produced \cup {<<>>}
      BY Zenon, <1>2 DEF Commit, CopiesInv, CopyInv
    <2>3. Agree(produced')
      BY Zenon
    <2>4. LogExtended(produced, commits[v], c)
      BY ZenonT(30), <1>0, <2>2, <2>3, EntryAdded
    <2>5. EntriesOf(produced)' = EntriesOf(produced \cup {cs})
      BY ZenonT(30), <2>2
    <2>. QED  BY ZenonT(30), <2>1, <2>4, <2>5 DEF LogExtended, Log!Extend
  <1>3. ASSUME NEW v \in Validators, Recover(v)  PROVE Log!CutBack(v)
    <2>1. flushed[v].commits \in Seq(Commits) /\ commits[v] \in Seq(Commits)
      BY ZenonT(30), <1>0
    <2>2. PICK n \in 0 .. Len(commits[v]) : flushed[v].commits = SubSeq(commits[v], 1, n)
      BY ZenonT(30), <2>1, BeginningIsSubSeq DEF CopiesInv, CopyInv
    <2>3. /\ commits' = [commits EXCEPT ![v] = SubSeq(@, 1, n)]
          /\ EntriesOf(produced)' = EntriesOf(produced)
      BY ZenonT(30), <1>3, <2>2 DEF Recover
    <2>. QED  BY ZenonT(30), <2>2, <2>3 DEF Log!CutBack
  <1>4. ASSUME NEW v \in Validators, Store(v)  PROVE UNCHANGED <<commits, produced>>
    BY ZenonT(30), <1>4 DEF Store
  <1>. QED  BY ZenonT(30), <1>1, <1>2, <1>3, <1>4, NextOfCommits DEF Log!LogNext

LEMMA CopiesInvAlways == Spec => []CopiesInv
  <1>1. Init => CopiesInv
    BY SequenceOfCommits DEF Init, CopiesInv, CopyInv, Begins
  <1>2. IInv /\ CopiesInv /\ [Next]_vars => CopiesInv'
    BY Zenon, NextCopies
  <1>. QED  BY <1>1, <1>2, IInvAlways, PTL DEF Spec

\* Consensus v2 implements the log of commits, for every committee, every DAG,
\* every way in which the leader schedule changes, every set of validators and
\* any number of restarts: each commit that the linearizer makes, of leaders it
\* decided or of a certified commit that was fetched, extends one log.
THEOREM UniversalImplementsCommitLog == Spec => ImplementsCommitLog
  <1>1. Init => Log!LogInit
    BY Zenon DEF Init, Log!LogInit, EntriesOf
  <1>2. IInv /\ CopiesInv /\ Agree(produced)' /\ [Next]_vars => [Log!LogNext]_Log!logVars
    BY ZenonT(30), NextIsLogStep
  <1>3. IInv => Agree(produced)
    BY Zenon, ProducedAgree
  <1>. QED
    BY <1>1, <1>2, <1>3, IInvAlways, CopiesInvAlways, PTL DEF Spec, ImplementsCommitLog, Log!LogSpec
=============================================================================

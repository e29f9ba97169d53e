----------------------------- MODULE Dag_proof ------------------------------
(***************************************************************************)
(* What the commit rules of both versions of consensus rest on: the        *)
(* thresholds of committees, their quorums, histories in the DAG, and      *)
(* sequences of commits.                                                   *)
(***************************************************************************)
EXTENDS Dag, CommitteeEpochs, TLAPS, WellFoundedInduction

-----------------------------------------------------------------------------
(* The committee of every epoch has thresholds that intersect.              *)

\* A truncated quotient times its divisor is at most the dividend.
LEMMA TruncatedQuotient ==
    ASSUME NEW n \in Nat, NEW b \in Nat \ {0}
    PROVE  n \div b \in Nat /\ b * (n \div b) <= n
  OBVIOUS

\* The scaled budgets fit in the committee: 5f + 3c + 1 is at most its stake.
LEMMA ScaledBudgetFits ==
    ASSUME NEW total \in Nat \ {0}, NEW m \in Nat, NEW k \in Nat,
           NEW f, NEW c,
           f = scale(m, total, 5 * m + 3 * k),
           c = scale(k, total, 5 * m + 3 * k)
    PROVE  /\ f \in Nat
           /\ c \in Nat
           /\ 5 * f + 3 * c <= total - 1
  <1>. DEFINE base == 5 * m + 3 * k
              t == total - 1
  <1>0. base \in Nat /\ t \in Nat
    OBVIOUS
  <1>1. CASE base = 0
    BY <1>0, <1>1 DEF scale
  <1>2. CASE base > 0
    <2>1. f = (m * t) \div base /\ c = (k * t) \div base
      BY Zenon, <1>2 DEF scale
    <2>2. m * t \in Nat /\ k * t \in Nat
      BY <1>0
    <2>3. f \in Nat /\ base * f <= m * t
      <3>. HIDE DEF base, t
      <3>. QED  BY <1>0, <1>2, <2>1, <2>2, TruncatedQuotient
    <2>4. c \in Nat /\ base * c <= k * t
      <3>. HIDE DEF base, t
      <3>. QED  BY <1>0, <1>2, <2>1, <2>2, TruncatedQuotient
    <2>5. base * (5 * f + 3 * c) <= base * t
      <3>1. base * (5 * f + 3 * c) = 5 * (base * f) + 3 * (base * c)
        BY <1>0, <2>3, <2>4
      <3>2. base * t = 5 * (m * t) + 3 * (k * t)
        BY <1>0
      <3>. HIDE DEF base, t
      <3>3. base * f \in Nat /\ base * c \in Nat
        BY <1>0, <2>3, <2>4
      <3>. QED  BY <3>1, <3>2, <3>3, <2>2, <2>3, <2>4
    <2>6. 5 * f + 3 * c <= t
      <3>. HIDE DEF base, t
      <3>1. ASSUME NEW x \in Nat, base * x <= base * t  PROVE x <= t
        BY <1>0, <1>2, <3>1
      <3>. QED  BY <2>3, <2>4, <2>5, <3>1
    <2>. QED  BY Zenon, <2>3, <2>4, <2>6
  <1>. QED  BY <1>0, <1>1, <1>2

LEMMA NewThresholds ==
    ASSUME NEW total \in Nat \ {0}, NEW c, c = new(total)
    PROVE  /\ QuorumsShareHonestStake(c)
           /\ CertificateMeetsQuorum(c)
           /\ QuorumOfTheCorrect(c)
           /\ ThresholdsArePositive(c)
  BY DEF new, Thresholds, QuorumsShareHonestStake, CertificateMeetsQuorum,
         QuorumOfTheCorrect, ThresholdsArePositive

LEMMA NewV3Thresholds ==
    ASSUME NEW total \in Nat \ {0}, NEW m \in Nat, NEW k \in Nat,
           NEW c, c = new_v3(total, m, k)
    PROVE  /\ QuorumsShareHonestStake(c)
           /\ CertificateMeetsQuorum(c)
           /\ CertificateSurvivesQuorum(c)
           /\ QuorumOfTheCorrect(c)
           /\ ThresholdsArePositive(c)
           /\ c.f \in Nat /\ c.certification \in Nat /\ c.quorum \in Nat /\ c.total = total
  <1>. DEFINE base == 5 * m + 3 * k
              ff == scale(m, total, base)
              cc == scale(k, total, base)
  <1>1. ff \in Nat /\ cc \in Nat /\ 5 * ff + 3 * cc <= total - 1
    BY Zenon, ScaledBudgetFits
  <1>2. c = Thresholds(total, ff, cc, 2 * ff + cc + 1, total - ff - cc)
    BY Zenon DEF new_v3
  <1>. HIDE DEF ff, cc
  <1>. QED  BY <1>1, <1>2 DEF Thresholds, QuorumsShareHonestStake, CertificateMeetsQuorum,
         CertificateSurvivesQuorum, QuorumOfTheCorrect, ThresholdsArePositive

\* Both constructors of Committee produce thresholds that satisfy their
\* assertions, for every stake distribution and every fault budget.
THEOREM ThresholdsIntersectAlways == EpochSpec => []ThresholdsIntersect
  <1>1. EpochInit => ThresholdsIntersect
    BY Zenon, NewThresholds, EpochsAssumption DEF EpochInit, ThresholdsIntersect
  <1>2. ThresholdsIntersect /\ [EpochNext]_epochVars => ThresholdsIntersect'
    <2>. SUFFICES ASSUME ThresholdsIntersect, [EpochNext]_epochVars  PROVE ThresholdsIntersect'
      BY Zenon
    <2>1. CASE NewEpoch
      BY Zenon, <2>1, NewThresholds, EpochsAssumption DEF NewEpoch, ThresholdsIntersect
    <2>2. CASE NewEpochV3
      BY Zenon, <2>2, NewV3Thresholds, EpochsAssumption DEF NewEpochV3, ThresholdsIntersect
    <2>3. CASE UNCHANGED epochVars
      BY Zenon, <2>3 DEF epochVars, ThresholdsIntersect, QuorumsShareHonestStake,
        CertificateMeetsQuorum, CertificateSurvivesQuorum
    <2>. QED  BY Zenon, <2>1, <2>2, <2>3 DEF EpochNext
  <1>. QED  BY <1>1, <1>2, PTL DEF EpochSpec

\* Faults within the budget of the committee reach no threshold, and leave a
\* quorum of the stake to the others.
THEOREM BudgetIsToleratedAlways == EpochSpec => []BudgetIsTolerated
  <1>1. EpochInit => BudgetIsTolerated
    BY Zenon, NewThresholds, EpochsAssumption DEF EpochInit, BudgetIsTolerated
  <1>2. BudgetIsTolerated /\ [EpochNext]_epochVars => BudgetIsTolerated'
    <2>. SUFFICES ASSUME BudgetIsTolerated, [EpochNext]_epochVars  PROVE BudgetIsTolerated'
      BY Zenon
    <2>1. CASE NewEpoch
      BY Zenon, <2>1, NewThresholds, EpochsAssumption DEF NewEpoch, BudgetIsTolerated
    <2>2. CASE NewEpochV3
      BY Zenon, <2>2, NewV3Thresholds, EpochsAssumption DEF NewEpochV3, BudgetIsTolerated
    <2>3. CASE UNCHANGED epochVars
      BY Zenon, <2>3 DEF epochVars, BudgetIsTolerated, QuorumOfTheCorrect,
        ThresholdsArePositive
    <2>. QED  BY Zenon, <2>1, <2>2, <2>3 DEF EpochNext
  <1>. QED  BY <1>1, <1>2, PTL DEF EpochSpec

-----------------------------------------------------------------------------
(* Sequences of commits, as sequences. These few facts stand in for the      *)
(* library of theorems on sequences, which makes the provers of the modules  *)
(* that extend this one much slower.                                         *)

LEMMA SequenceOfCommits ==
    ASSUME NEW cs \in Seq(Commits)
    PROVE  /\ Len(cs) \in Nat /\ DOMAIN cs = 1 .. Len(cs)
           /\ \A i \in 1 .. Len(cs) : cs[i] \in Commits
  OBVIOUS

LEMMA EmptySequence ==
    /\ <<>> \in Seq(Commits) /\ Len(<<>>) = 0
    /\ \A cs \in Seq(Commits) : cs # <<>> => Len(cs) \in Nat \ {0}
  OBVIOUS

LEMMA SameCommits ==
    ASSUME NEW cs \in Seq(Commits), NEW ds \in Seq(Commits), Len(cs) = Len(ds),
           \A i \in 1 .. Len(cs) : cs[i] = ds[i]
    PROVE  cs = ds
  OBVIOUS

LEMMA OneMoreCommit ==
    ASSUME NEW cs \in Seq(Commits), NEW c \in Commits
    PROVE  /\ Append(cs, c) \in Seq(Commits) /\ Append(cs, c) # <<>>
           /\ Len(Append(cs, c)) = Len(cs) + 1
           /\ \A i \in 1 .. Len(cs) : Append(cs, c)[i] = cs[i]
           /\ Append(cs, c)[Len(cs) + 1] = c
  OBVIOUS

LEMMA FirstCommits ==
    ASSUME NEW cs \in Seq(Commits), NEW n \in 0 .. Len(cs)
    PROVE  /\ SubSeq(cs, 1, n) \in Seq(Commits) /\ Len(SubSeq(cs, 1, n)) = n
           /\ \A i \in 1 .. n : SubSeq(cs, 1, n)[i] = cs[i]
  OBVIOUS

-----------------------------------------------------------------------------
(* Quorums of the epoch's committee.                                        *)

\* A larger set of authorities has no less stake.
LEMMA StakeMonotone ==
    ASSUME NEW A \in SUBSET Authorities, NEW B \in SUBSET Authorities, A \subseteq B
    PROVE  Stake[A] \in Nat /\ Stake[B] \in Nat /\ Stake[A] <= Stake[B]
  <1>1. A \cup (B \ A) = B /\ A \cap (B \ A) = {} /\ B \ A \in SUBSET Authorities
    BY Zenon
  <1>2. Stake[A] \in Nat /\ Stake[B] \in Nat /\ Stake[B \ A] \in Nat
    BY Zenon, <1>1, StakeAssumption
  <1>3. Stake[A \cup (B \ A)] + Stake[A \cap (B \ A)] = Stake[A] + Stake[B \ A]
    BY Zenon, <1>1, StakeAssumption
  <1>4. Stake[B] + 0 = Stake[A] + Stake[B \ A]
    BY Zenon, <1>1, <1>3, StakeAssumption
  <1>. QED  BY <1>2, <1>4

\* Two sets share at least what they have together beyond the total stake.
LEMMA SharedStake ==
    ASSUME NEW A \in SUBSET Authorities, NEW B \in SUBSET Authorities
    PROVE  /\ Stake[A \cap B] \in Nat /\ Stake[A] \in Nat /\ Stake[B] \in Nat
           /\ Stake[Authorities] \in Nat
           /\ Stake[A \cap B] >= Stake[A] + Stake[B] - Stake[Authorities]
  <1>1. A \cup B \in SUBSET Authorities /\ A \cap B \in SUBSET Authorities
        /\ Authorities \in SUBSET Authorities
    BY Zenon
  <1>2. Stake[A \cup B] <= Stake[Authorities] /\ Stake[A \cup B] \in Nat
    BY Zenon, <1>1, StakeMonotone
  <1>3. Stake[A \cap B] \in Nat /\ Stake[A] \in Nat /\ Stake[B] \in Nat
        /\ Stake[Authorities] \in Nat
    BY Zenon, <1>1, StakeAssumption
  <1>4. Stake[A \cup B] + Stake[A \cap B] = Stake[A] + Stake[B]
    BY ZenonT(30), StakeAssumption
  <1>. QED  BY <1>2, <1>3, <1>4

\* A set with more stake than Z has a member outside of Z.
LEMMA MemberOutside ==
    ASSUME NEW A \in SUBSET Authorities, NEW Z \in SUBSET Authorities, Stake[A] > Stake[Z]
    PROVE  \E a \in A : a \notin Z
  <1>. SUFFICES ASSUME A \subseteq Z  PROVE FALSE
    BY Zenon
  <1>1. Stake[A] <= Stake[Z] /\ Stake[A] \in Nat /\ Stake[Z] \in Nat
    BY Zenon, StakeMonotone
  <1>. QED  BY <1>1

\* Taking Z out of a set takes at most the stake of Z from it.
LEMMA StakeWithout ==
    ASSUME NEW A \in SUBSET Authorities, NEW Z \in SUBSET Authorities
    PROVE  Stake[A \ Z] \in Nat /\ Stake[A \ Z] >= Stake[A] - Stake[Z]
  <1>1. (A \ Z) \cup (A \cap Z) = A /\ (A \ Z) \cap (A \cap Z) = {}
        /\ A \ Z \in SUBSET Authorities /\ A \cap Z \in SUBSET Authorities
    BY Zenon
  <1>2. Stake[A \ Z] \in Nat /\ Stake[A] \in Nat /\ Stake[A \cap Z] \in Nat
    BY Zenon, <1>1, StakeAssumption
  <1>3. Stake[A] + Stake[{}] = Stake[A \ Z] + Stake[A \cap Z]
    BY Zenon, <1>1, StakeAssumption
  <1>4. Stake[A \cap Z] <= Stake[Z] /\ Stake[Z] \in Nat
    BY Zenon, <1>1, StakeMonotone
  <1>. QED  BY <1>2, <1>3, <1>4, StakeAssumption

\* Every committee's thresholds, from the constructor's assertions.
LEMMA CommitteeFacts ==
    /\ Stake[Authorities] \in Nat \ {0}
    /\ committee.quorum \in Nat
    /\ committee.certification \in Nat
    /\ committee.f \in Nat
    /\ committee.certification > committee.f
    /\ committee.quorum > committee.f
    /\ committee.quorum + committee.quorum >= Stake[Authorities] + committee.f + 1
  BY CommitteeAssumption, StakeAssumption DEF QuorumsShareHonestStake, ThresholdsArePositive

LEMMA AuthorsAreAuthorities ==
    ASSUME NEW S \in SUBSET Blocks
    PROVE  Authors(S) \in SUBSET Authorities
  BY DagAssumption DEF Authors

\* Two sets of blocks of one round whose authors have more than the total and
\* the Byzantine stake together have a block in common: that of an authority
\* that proposes once in a round.
LEMMA CommonBlock ==
    ASSUME NEW r, NEW V \in SUBSET Blocks, NEW W \in SUBSET Blocks,
           \A x \in V \cup W : Round[x] = r,
           Stake[Authors(V)] + Stake[Authors(W)] >= Stake[Authorities] + committee.f + 1
    PROVE  \E x \in V : x \in W
  <1>. DEFINE A == Authors(V)
              B == Authors(W)
  <1>1. A \in SUBSET Authorities /\ B \in SUBSET Authorities
        /\ A \cap B \in SUBSET Authorities
    BY Zenon, AuthorsAreAuthorities
  <1>2. /\ Stake[A \cap B] \in Nat /\ Stake[A] \in Nat /\ Stake[B] \in Nat
        /\ Stake[A \cap B] >= Stake[A] + Stake[B] - Stake[Authorities]
    BY Zenon, <1>1, SharedStake
  <1>3. Stake[Byzantine] \in Nat /\ Byzantine \in SUBSET Authorities
    BY Zenon, CommitteeAssumption, StakeAssumption
  <1>4. Stake[A \cap B] > Stake[Byzantine]
    BY <1>2, <1>3, CommitteeAssumption, CommitteeFacts
  <1>5. PICK a \in A \cap B : a \notin Byzantine
    BY Zenon, <1>1, <1>3, <1>4, MemberOutside
  <1>6. PICK x \in V : Author[x] = a
    BY Zenon DEF Authors
  <1>7. PICK y \in W : Author[y] = a
    BY Zenon DEF Authors
  <1>8. x = y
    BY Zenon, <1>5, <1>6, <1>7, DagAssumption
  <1>. QED  BY Zenon, <1>6, <1>7, <1>8

LEMMA QuorumsMeet ==
    ASSUME NEW r, NEW V \in SUBSET Blocks, NEW W \in SUBSET Blocks,
           \A x \in V \cup W : Round[x] = r, ReachesQuorum(V), ReachesQuorum(W)
    PROVE  \E x \in V : x \in W
  <1>1. /\ Authors(V) \in SUBSET Authorities /\ Authors(W) \in SUBSET Authorities
        /\ Stake[Authors(V)] \in Nat /\ Stake[Authors(W)] \in Nat
    BY Zenon, AuthorsAreAuthorities, StakeAssumption
  <1>2. Stake[Authors(V)] + Stake[Authors(W)] >= Stake[Authorities] + committee.f + 1
    BY <1>1, CommitteeFacts DEF ReachesQuorum
  <1>. QED  BY Zenon, <1>2, CommonBlock

LEMMA QuorumHasBlock ==
    ASSUME NEW V, ReachesQuorum(V)
    PROVE  \E x \in V : TRUE
  <1>. SUFFICES ASSUME V = {}  PROVE FALSE
    BY Zenon
  <1>1. Authors(V) = {}
    BY Zenon DEF Authors
  <1>. QED  BY <1>1, StakeAssumption, CommitteeFacts DEF ReachesQuorum

-----------------------------------------------------------------------------
(* Histories.                                                               *)

LEMMA LowestBlockExists ==
    ASSUME NEW S \in SUBSET Blocks, S # {}
    PROVE  \E b \in S : \A c \in S : Round[b] <= Round[c]
  <1>. DEFINE T == {Round[b] : b \in S}
  <1>1. T \subseteq Nat /\ T # {}
    BY DagAssumption
  <1>2. PICK r \in T : \A s \in T : ~ (<<s, r>> \in OpToRel(<, Nat))
    BY Zenon, <1>1, NatLessThanWellFounded, WFMin
  <1>3. \A s \in T : ~ (s < r)
    BY Zenon, <1>1, <1>2 DEF OpToRel
  <1>4. PICK b \in S : r = Round[b]
    BY Zenon
  <1>5. \A c \in S : Round[c] \in Nat /\ Round[c] \in T
    BY Zenon, <1>1
  <1>6. \A c \in S : Round[b] <= Round[c]
    <2>. SUFFICES ASSUME NEW c \in S
                  PROVE  Round[b] <= Round[c]
      BY Zenon
    <2>1. ~ (Round[c] < r)
      BY Zenon, <1>3, <1>5
    <2>. QED  BY <2>1, <1>4, <1>5
  <1>. QED  BY Zenon, <1>6

\* There are blocks of every round up to the highest.
LEMMA RoundsBelow ==
    ASSUME NEW r \in Rounds, NEW q \in Nat \ {0}, q <= r
    PROVE  q \in Rounds
  <1>. DEFINE S == {b \in Blocks : Round[b] >= q}
  <1>1. PICK c \in S : \A d \in S : Round[c] <= Round[d]
    <2>1. S # {}
      BY DagAssumption DEF Rounds
    <2>. QED  BY Zenon, <2>1, LowestBlockExists
  <1>2. c \in Blocks /\ Round[c] \in Nat /\ Round[c] >= q
    BY Zenon, DagAssumption
  <1>3. CASE Round[c] = q
    BY Zenon, <1>2, <1>3 DEF Rounds
  <1>4. CASE Round[c] > q
    <2>1. ReachesQuorum({a \in Ancestors[c] : Round[a] = Round[c] - 1})
      BY <1>2, <1>4, DagAssumption DEF VerifiedBlock
    <2>2. PICK a \in Ancestors[c] : Round[a] = Round[c] - 1
      BY <2>1, QuorumHasBlock
    <2>3. a \in S
      BY <1>2, <1>4, <2>2, DagAssumption
    <2>. QED  BY <1>1, <1>2, <2>2, <2>3
  <1>. QED  BY <1>2, <1>3, <1>4

\* Nothing in the past of a block is of a later round.
LEMMA PastIsEarlier ==
    ASSUME NEW b \in Blocks, NEW x \in Past[b]
    PROVE  x \in Blocks /\ Round[x] <= Round[b]
  <1>. DEFINE Bad == {c \in Blocks : \E y \in Past[c] : ~(Round[y] <= Round[c])}
  <1>1. x \in Blocks
    BY Zenon, DagAssumption
  <1>2. Bad = {}
    <2>. SUFFICES ASSUME Bad # {}  PROVE FALSE
      BY Zenon
    <2>1. PICK c \in Bad : \A d \in Bad : Round[c] <= Round[d]
      BY Zenon, LowestBlockExists
    <2>2. PICK y \in Past[c] : ~(Round[y] <= Round[c])
      BY Zenon
    <2>3. Past[c] = {c} \cup UNION {Past[a] : a \in Ancestors[c]}
      BY Zenon, DagAssumption
    <2>4. c \in Blocks /\ Round[c] \in Nat
      BY Zenon, DagAssumption
    <2>5. PICK a \in Ancestors[c] : y \in Past[a]
      BY <2>2, <2>3, <2>4
    <2>6. a \in Blocks /\ Round[a] < Round[c] /\ Round[a] \in Nat /\ y \in Blocks /\ Round[y] \in Nat
      BY Zenon, <2>4, <2>5, DagAssumption DEF VerifiedBlock
    <2>7. Round[y] <= Round[a]
      BY <2>1, <2>4, <2>5, <2>6
    <2>. QED  BY <2>2, <2>4, <2>6, <2>7
  <1>. QED  BY Zenon, <1>1, <1>2

\* The past of a block in the past is in the past.
LEMMA PastIsTransitive ==
    ASSUME NEW b \in Blocks, NEW x \in Past[b]
    PROVE  Past[x] \subseteq Past[b]
  <1>. DEFINE Bad == {c \in Blocks : \E y \in Past[c] : ~(Past[y] \subseteq Past[c])}
  <1>1. Bad = {}
    <2>. SUFFICES ASSUME Bad # {}  PROVE FALSE
      BY Zenon
    <2>1. PICK c \in Bad : \A d \in Bad : Round[c] <= Round[d]
      BY Zenon, LowestBlockExists
    <2>2. PICK y \in Past[c] : ~(Past[y] \subseteq Past[c])
      BY Zenon
    <2>3. Past[c] = {c} \cup UNION {Past[a] : a \in Ancestors[c]}
      BY Zenon, DagAssumption
    <2>5. PICK a \in Ancestors[c] : y \in Past[a]
      BY ZenonT(30), <2>2, <2>3
    <2>6. a \in Blocks /\ Round[a] < Round[c] /\ Round[a] \in Nat /\ Round[c] \in Nat
      BY Zenon, <2>5, DagAssumption DEF VerifiedBlock
    <2>7. Past[y] \subseteq Past[a]
      BY <2>1, <2>5, <2>6
    <2>. QED  BY Zenon, <2>2, <2>3, <2>5, <2>7
  <1>. QED  BY Zenon, <1>1

\* A set of blocks that holds the ancestors above round g of its members.
ClosedAbove(D, g) ==
    \A b \in D : \A a \in Ancestors[b] : Round[a] > g => a \in D

LEMMA PastInClosedSet ==
    ASSUME NEW g \in Nat, NEW D \in SUBSET Blocks, ClosedAbove(D, g),
           NEW b \in D, NEW x \in Past[b], Round[x] > g
    PROVE  x \in D
  <1>. DEFINE Bad == {c \in D : \E y \in Past[c] : Round[y] > g /\ y \notin D}
  <1>1. Bad = {}
    <2>. SUFFICES ASSUME Bad # {}  PROVE FALSE
      BY Zenon
    <2>1. PICK c \in Bad : \A d \in Bad : Round[c] <= Round[d]
      BY Zenon, LowestBlockExists
    <2>2. PICK y \in Past[c] : Round[y] > g /\ y \notin D
      BY Zenon
    <2>3. Past[c] = {c} \cup UNION {Past[a] : a \in Ancestors[c]}
      BY Zenon, DagAssumption
    <2>4. PICK a \in Ancestors[c] : y \in Past[a]
      BY Zenon, <2>2, <2>3
    <2>5. a \in Blocks /\ Round[a] < Round[c] /\ Round[a] \in Nat /\ Round[c] \in Nat
      BY Zenon, <2>4, DagAssumption DEF VerifiedBlock
    <2>6. y \in Blocks /\ Round[y] <= Round[a] /\ Round[y] \in Nat
      BY Zenon, <2>4, <2>5, PastIsEarlier, DagAssumption
    <2>7. a \in D
      BY <2>2, <2>4, <2>5, <2>6 DEF ClosedAbove
    <2>. QED  BY <2>1, <2>2, <2>4, <2>5, <2>7
  <1>. QED  BY Zenon, <1>1

\* Two or more rounds above r, a block has a quorum of the blocks of round
\* r + 1 in its past.
LEMMA PastHoldsQuorum ==
    ASSUME NEW r \in Nat \ {0}, NEW k \in Blocks, Round[k] >= r + 2
    PROVE  \E P \in SUBSET Past[k] : /\ \A x \in P : x \in Blocks /\ Round[x] = r + 1
                                     /\ ReachesQuorum(P)
  <1>. DEFINE S == {x \in Past[k] : Round[x] >= r + 2}
  <1>0. Past[k] \subseteq Blocks /\ k \in Past[k]
    BY Zenon, DagAssumption
  <1>1. S \in SUBSET Blocks /\ S # {}
    BY Zenon, <1>0
  <1>2. PICK c \in S : \A d \in S : Round[c] <= Round[d]
    BY Zenon, <1>1, LowestBlockExists
  <1>3. c \in Blocks /\ Round[c] \in Nat /\ Round[c] >= r + 2 /\ Round[c] > 1
        /\ Ancestors[c] \subseteq Past[k]
    BY <1>0, <1>1, DagAssumption
  <1>. DEFINE P == {a \in Ancestors[c] : Round[a] = Round[c] - 1}
  <1>4. Stake[Authors(P)] >= committee.quorum
    BY Zenon, <1>3, DagAssumption DEF VerifiedBlock, ReachesQuorum
  <1>5. P # {}
    <2>. SUFFICES ASSUME P = {}  PROVE FALSE
      BY Zenon
    <2>1. Authors(P) = {}
      BY Zenon DEF Authors
    <2>. HIDE DEF P
    <2>. QED  BY <2>1, <1>4, StakeAssumption, CommitteeFacts
  <1>6. PICK p \in P : TRUE
    BY Zenon, <1>5
  <1>7. p \in Past[k] /\ Round[p] \in Nat /\ Round[p] = Round[c] - 1
    BY Zenon, <1>3, <1>6, <1>0, DagAssumption
  <1>8. Round[c] = r + 2
    BY <1>2, <1>3, <1>7
  <1>9. P \in SUBSET Past[k] /\ \A x \in P : x \in Blocks /\ Round[x] = r + 1
    BY <1>0, <1>3, <1>8
  <1>. QED  BY Zenon, <1>4, <1>9 DEF ReachesQuorum

-----------------------------------------------------------------------------
(* Sequences of commits.                                                    *)

Before(cs, i) == SubSeq(cs, 1, i - 1)

LEMMA BeforeProperties ==
    ASSUME NEW cs \in Seq(Commits), NEW i \in 1 .. Len(cs) + 1
    PROVE  /\ Before(cs, i) \in Seq(Commits)
           /\ Len(Before(cs, i)) = i - 1
           /\ \A j \in 1 .. i - 1 : Before(cs, i)[j] = cs[j]
  <1>1. i - 1 \in 0 .. Len(cs)
    BY SequenceOfCommits
  <1>. QED  BY Zenon, <1>1, FirstCommits DEF Before

LEMMA EqualBefore ==
    ASSUME NEW cs \in Seq(Commits), NEW ds \in Seq(Commits),
           NEW i \in 1 .. Len(cs) + 1, i \in 1 .. Len(ds) + 1,
           \A j \in 1 .. i - 1 : cs[j] = ds[j]
    PROVE  Before(cs, i) = Before(ds, i)
  <1>1. Len(cs) \in Nat /\ Len(ds) \in Nat
    BY Zenon, SequenceOfCommits
  <1>2. /\ Before(cs, i) \in Seq(Commits) /\ Before(ds, i) \in Seq(Commits)
        /\ Len(Before(cs, i)) = i - 1 /\ Len(Before(ds, i)) = i - 1
        /\ \A j \in 1 .. i - 1 : Before(cs, i)[j] = Before(ds, i)[j]
    BY Zenon, BeforeProperties
  <1>. QED  BY Zenon, <1>2, SameCommits

LEMMA BeforeTheEnd ==
    ASSUME NEW cs \in Seq(Commits)
    PROVE  Before(cs, Len(cs) + 1) = cs
  <1>1. Len(cs) \in Nat /\ Len(cs) + 1 - 1 = Len(cs)
    BY SequenceOfCommits
  <1>2. /\ SubSeq(cs, 1, Len(cs)) \in Seq(Commits) /\ Len(SubSeq(cs, 1, Len(cs))) = Len(cs)
        /\ \A i \in 1 .. Len(cs) : SubSeq(cs, 1, Len(cs))[i] = cs[i]
    BY <1>1, FirstCommits
  <1>. QED  BY <1>1, <1>2, SameCommits DEF Before

LEMMA BeforeAppend ==
    ASSUME NEW cs \in Seq(Commits), NEW c \in Commits, NEW i \in 1 .. Len(cs) + 1
    PROVE  /\ Append(cs, c) \in Seq(Commits)
           /\ Len(Append(cs, c)) = Len(cs) + 1
           /\ Before(Append(cs, c), i) = Before(cs, i)
           /\ i <= Len(cs) => Append(cs, c)[i] = cs[i]
           /\ Append(cs, c)[Len(cs) + 1] = c
  <1>0. Len(cs) \in Nat
    BY Zenon, SequenceOfCommits
  <1>1. /\ Append(cs, c) \in Seq(Commits)
        /\ Len(Append(cs, c)) = Len(cs) + 1
        /\ \A j \in 1 .. Len(cs) : Append(cs, c)[j] = cs[j]
        /\ Append(cs, c)[Len(cs) + 1] = c
    BY Zenon, OneMoreCommit
  <1>2. Before(Append(cs, c), i) = Before(cs, i)
    <2>. DEFINE ds == Append(cs, c)
    <2>1. /\ ds \in Seq(Commits) /\ i \in 1 .. Len(ds) + 1
          /\ \A j \in 1 .. i - 1 : ds[j] = cs[j]
      BY <1>0, <1>1
    <2>. HIDE DEF ds
    <2>2. Before(ds, i) = Before(cs, i)
      BY Zenon, <2>1, EqualBefore
    <2>. QED  BY Zenon, <2>2 DEF ds
  <1>. QED  BY <1>0, <1>1, <1>2

LEMMA CommittedAppend ==
    ASSUME NEW cs \in Seq(Commits), NEW c \in Commits
    PROVE  Committed(Append(cs, c)) = Committed(cs) \cup c.blocks
  <1>0. Len(cs) \in Nat /\ DOMAIN cs = 1 .. Len(cs)
    BY Zenon, SequenceOfCommits
  <1>1. /\ Append(cs, c) \in Seq(Commits)
        /\ Len(Append(cs, c)) = Len(cs) + 1
        /\ \A j \in 1 .. Len(cs) : Append(cs, c)[j] = cs[j]
        /\ Append(cs, c)[Len(cs) + 1] = c
    BY Zenon, OneMoreCommit
  <1>2. DOMAIN Append(cs, c) = 1 .. Len(cs) + 1
    BY Zenon, <1>1, SequenceOfCommits
  <1>. QED  BY <1>0, <1>1, <1>2 DEF Committed

LEMMA CommittedFacts ==
    ASSUME NEW cs \in Seq(Commits)
    PROVE  /\ Committed(cs) \in SUBSET Blocks
           /\ \A i \in 1 .. Len(cs) : cs[i].blocks \subseteq Committed(cs)
           /\ last_commit_round(cs) \in Nat
           /\ gc_round(cs) \in Nat
           /\ gc_round(cs) <= last_commit_round(cs)
  <1>1. /\ Len(cs) \in Nat /\ DOMAIN cs = 1 .. Len(cs)
        /\ \A i \in 1 .. Len(cs) : cs[i] \in Commits
    BY Zenon, SequenceOfCommits
  <1>2. \A i \in 1 .. Len(cs) : cs[i].leaders \in SUBSET Blocks
                                /\ cs[i].blocks \in SUBSET Blocks /\ cs[i].round \in Nat
    BY Zenon, <1>1, DagAssumption DEF Commits, Rounds
  <1>3. last_commit_round(cs) \in Nat
    <2>1. CASE cs = <<>>
      BY Zenon, <2>1 DEF last_commit_round
    <2>2. CASE cs # <<>>
      <3>1. Len(cs) \in 1 .. Len(cs)
        BY <1>1, <2>2, EmptySequence
      <3>. QED  BY Zenon, <1>2, <2>2, <3>1 DEF last_commit_round
    <2>. QED  BY Zenon, <2>1, <2>2
  <1>4. ASSUME NEW m \in Nat
        PROVE  calculate_gc_round(m) \in Nat /\ calculate_gc_round(m) <= m
    BY GcAssumption DEF calculate_gc_round
  <1>5. gc_round(cs) \in Nat /\ gc_round(cs) <= last_commit_round(cs)
    BY Zenon, <1>3, <1>4 DEF gc_round
  <1>6. Committed(cs) \in SUBSET Blocks /\ \A i \in 1 .. Len(cs) : cs[i].blocks \subseteq Committed(cs)
    BY Zenon, <1>1, <1>2 DEF Committed
  <1>. QED  BY Zenon, <1>3, <1>5, <1>6

LEMMA GcRoundGrows ==
    ASSUME NEW cs \in Seq(Commits), NEW c \in Commits, c.round >= last_commit_round(cs)
    PROVE  gc_round(Append(cs, c)) >= gc_round(cs) /\ last_commit_round(Append(cs, c)) = c.round
  <1>1. /\ Append(cs, c) \in Seq(Commits) /\ Append(cs, c) # << >>
        /\ Len(Append(cs, c)) = Len(cs) + 1 /\ Append(cs, c)[Len(cs) + 1] = c
    BY Zenon, OneMoreCommit
  <1>2. last_commit_round(Append(cs, c)) = c.round
    BY Zenon, <1>1 DEF last_commit_round
  <1>3. c.round \in Nat /\ last_commit_round(cs) \in Nat
    BY Zenon, CommittedFacts, DagAssumption DEF Commits, Rounds
  <1>4. ASSUME NEW m \in Nat, NEW n \in Nat, m <= n
        PROVE  calculate_gc_round(m) <= calculate_gc_round(n)
    BY <1>4, GcAssumption DEF calculate_gc_round
  <1>5. calculate_gc_round(last_commit_round(cs)) <= calculate_gc_round(c.round)
    BY Zenon, <1>3, <1>4
  <1>6. calculate_gc_round(last_commit_round(cs)) \in Nat /\ calculate_gc_round(c.round) \in Nat
    BY <1>3, GcAssumption DEF calculate_gc_round
  <1>. QED  BY Zenon, <1>2, <1>5, <1>6 DEF gc_round

LEMMA SubDagFacts ==
    ASSUME NEW leaders \in SUBSET Blocks, NEW cs \in Seq(Commits), NEW b \in SubDag(leaders, cs)
    PROVE  /\ b \in Blocks
           /\ b \notin Committed(cs)
           /\ \E l \in leaders : b \in Past[l]
           /\ \A x \in Past[b] :
                  Round[x] > gc_round(cs) => x \in SubDag(leaders, cs) \cup Committed(cs)
  <1>1. PICK l \in leaders : b \in Past[l]
    BY Zenon DEF SubDag
  <1>2. b \in Blocks /\ Past[b] \subseteq Past[l]
    BY Zenon, <1>1, PastIsEarlier, PastIsTransitive
  <1>. QED  BY Zenon, <1>1, <1>2 DEF SubDag

\* The blocks of a commit whose leaders were accepted have been accepted.
LEMMA SubDagInView ==
    ASSUME NEW D \in SUBSET Blocks, NEW cs \in Seq(Commits), ClosedAbove(D, gc_round(cs)),
           NEW leaders \in SUBSET D
    PROVE  SubDag(leaders, cs) \subseteq D
  <1>. SUFFICES ASSUME NEW x \in SubDag(leaders, cs)  PROVE x \in D
    BY Zenon
  <1>1. PICK l \in leaders : x \in Past[l]
    BY Zenon DEF SubDag
  <1>2. Round[x] > gc_round(cs) /\ gc_round(cs) \in Nat
    BY Zenon, CommittedFacts DEF SubDag
  <1>. QED  BY Zenon, <1>1, <1>2, PastInClosedSet

-----------------------------------------------------------------------------
(* The commits of a validator and the blocks it holds.                      *)

\* Commit c extends the commits P.
Follows(P, c) ==
    /\ c.round > last_commit_round(P)
    /\ \A b \in c.leaders : Round[b] = c.round
    /\ c.leaders # {}
    /\ c.blocks = SubDag(c.leaders, P)

\* The commits cs and the blocks D of a validator, in memory or in storage.
Chain(D, cs) ==
    /\ \A i \in 1 .. Len(cs) : Follows(Before(cs, i), cs[i])
    /\ \A b \in Committed(cs) : Round[b] <= last_commit_round(cs)
    /\ Committed(cs) \subseteq D
    /\ ClosedAbove(D, gc_round(cs))

LEMMA EmptyChain == Chain({}, <<>>)
  <1>1. Len(<<>>) = 0 /\ DOMAIN <<>> = {}
    OBVIOUS
  <1>2. Committed(<<>>) = {}
    BY Zenon, <1>1 DEF Committed
  <1>. QED  BY <1>1, <1>2 DEF Chain, ClosedAbove

LEMMA FollowingBlocks ==
    ASSUME NEW P \in Seq(Commits), NEW c \in Commits, Follows(P, c)
    PROVE  /\ c.leaders \in SUBSET Blocks
           /\ \A b \in c.blocks : b \in Blocks /\ Round[b] <= c.round
  <1>1. c.leaders \in SUBSET Blocks
    BY Zenon DEF Commits
  <1>2. ASSUME NEW b \in c.blocks  PROVE b \in Blocks /\ Round[b] <= c.round
    <2>1. b \in SubDag(c.leaders, P)
      BY Zenon DEF Follows
    <2>2. PICK l \in c.leaders : b \in Past[l]
      BY Zenon, <1>1, <2>1, SubDagFacts
    <2>3. l \in Blocks /\ Round[l] = c.round
      BY Zenon, <1>1 DEF Follows
    <2>. QED  BY Zenon, <2>2, <2>3, PastIsEarlier
  <1>. QED  BY Zenon, <1>1, <1>2

\* The blocks of a commit that follows may be there before the commit is.
LEMMA ChainWithBlocks ==
    ASSUME NEW D \in SUBSET Blocks, NEW cs \in Seq(Commits), Chain(D, cs),
           NEW c \in Commits, Follows(cs, c)
    PROVE  Chain(D \cup c.blocks, cs)
  <1>1. /\ c.leaders \in SUBSET Blocks /\ c.blocks = SubDag(c.leaders, cs)
        /\ \A b \in c.blocks : b \in Blocks
    BY Zenon, FollowingBlocks DEF Follows
  <1>2. ClosedAbove(D \cup c.blocks, gc_round(cs))
    <2>. SUFFICES ASSUME NEW b \in D \cup c.blocks, NEW a \in Ancestors[b], Round[a] > gc_round(cs)
                  PROVE  a \in D \cup c.blocks
      BY Zenon DEF ClosedAbove
    <2>1. CASE b \in D
      BY Zenon, <2>1 DEF Chain, ClosedAbove
    <2>2. CASE b \in c.blocks
      <3>1. a \in Past[b]
        BY Zenon, <1>1, <2>2, DagAssumption
      <3>2. a \in c.blocks \cup Committed(cs)
        BY <1>1, <2>2, <3>1, SubDagFacts
      <3>. QED  BY Zenon, <3>2 DEF Chain
    <2>. QED  BY Zenon, <2>1, <2>2
  <1>. QED  BY Zenon, <1>2 DEF Chain

\* A commit that follows extends the chain, once its blocks are there.
LEMMA ChainExtended ==
    ASSUME NEW D \in SUBSET Blocks, NEW cs \in Seq(Commits), Chain(D, cs),
           NEW c \in Commits, Follows(cs, c)
    PROVE  /\ Chain(D \cup c.blocks, Append(cs, c))
           /\ c.blocks \cap Committed(cs) = {}
           /\ c.leaders \cap Committed(cs) = {}
  <1>. DEFINE ds == Append(cs, c)
  <1>1. /\ last_commit_round(cs) \in Nat /\ c.round \in Nat /\ c.round > last_commit_round(cs)
        /\ gc_round(cs) \in Nat /\ gc_round(ds) \in Nat
        /\ gc_round(ds) >= gc_round(cs) /\ last_commit_round(ds) = c.round
    <2>1. last_commit_round(cs) \in Nat /\ c.round \in Nat /\ gc_round(cs) \in Nat
      BY Zenon, CommittedFacts, DagAssumption DEF Commits, Rounds
    <2>2. c.round > last_commit_round(cs)
      BY Zenon, <2>1 DEF Follows
    <2>3. ds \in Seq(Commits)
      BY Zenon, OneMoreCommit
    <2>4. gc_round(ds) \in Nat
      BY Zenon, <2>3, CommittedFacts
    <2>. QED  BY <2>1, <2>2, <2>4, GcRoundGrows
  <1>2. Committed(ds) = Committed(cs) \cup c.blocks
    BY Zenon, CommittedAppend
  <1>3. ASSUME NEW i \in 1 .. Len(ds)  PROVE Follows(Before(ds, i), ds[i])
    <2>1. Len(cs) \in Nat /\ Len(ds) = Len(cs) + 1
      BY Zenon, SequenceOfCommits, OneMoreCommit
    <2>2. i \in 1 .. Len(cs) + 1
      BY Zenon, <2>1
    <2>3. /\ Before(ds, i) = Before(cs, i)
          /\ i <= Len(cs) => ds[i] = cs[i]
          /\ ds[Len(cs) + 1] = c
      BY Zenon, <2>2, BeforeAppend
    <2>4. CASE i <= Len(cs)
      <3>1. i \in 1 .. Len(cs)
        BY <2>1, <2>2, <2>4
      <3>. QED  BY Zenon, <2>3, <2>4, <3>1 DEF Chain
    <2>5. CASE i = Len(cs) + 1
      BY Zenon, <2>3, <2>5, BeforeTheEnd
    <2>. QED  BY <2>1, <2>2, <2>4, <2>5
  <1>4. /\ \A b \in c.leaders : b \in Blocks /\ Round[b] = c.round
        /\ \A b \in c.blocks : b \in Blocks /\ Round[b] <= c.round
    BY Zenon, FollowingBlocks DEF Follows
  <1>5. \A b \in Committed(cs) : b \in Blocks /\ Round[b] \in Nat /\ Round[b] <= last_commit_round(cs)
    BY Zenon, CommittedFacts, DagAssumption DEF Chain
  <1>6. \A b \in Committed(ds) : Round[b] <= last_commit_round(ds)
    <2>. HIDE DEF ds
    <2>. QED  BY <1>1, <1>2, <1>4, <1>5
  <1>7. Committed(ds) \subseteq D \cup c.blocks
    BY Zenon, <1>2 DEF Chain
  <1>8. c.leaders \in SUBSET Blocks /\ c.blocks = SubDag(c.leaders, cs)
    BY Zenon, FollowingBlocks DEF Follows
  <1>9. ClosedAbove(D \cup c.blocks, gc_round(ds))
    <2>1. ClosedAbove(D \cup c.blocks, gc_round(cs))
      BY Zenon, ChainWithBlocks DEF Chain
    <2>2. \A b \in D \cup c.blocks : \A a \in Ancestors[b] : a \in Blocks /\ Round[a] \in Nat
      BY Zenon, <1>4, DagAssumption
    <2>. HIDE DEF ds
    <2>. QED  BY <1>1, <2>1, <2>2 DEF ClosedAbove
  <1>10. c.blocks \cap Committed(cs) = {}
    BY <1>8, SubDagFacts
  <1>11. c.leaders \cap Committed(cs) = {}
    <2>. HIDE DEF ds
    <2>. QED  BY <1>1, <1>4, <1>5
  <1>. QED  BY Zenon, <1>3, <1>6, <1>7, <1>9, <1>10, <1>11 DEF Chain

LEMMA BlockAccepted ==
    ASSUME NEW D \in SUBSET Blocks, NEW cs \in Seq(Commits), Chain(D, cs),
           NEW b \in Blocks, Acceptable(b, D, cs)
    PROVE  Chain(D \cup {b}, cs)
  BY Zenon DEF Chain, Acceptable, ClosedAbove

LEMMA ChainHasNothingTwice ==
    ASSUME NEW D, NEW cs \in Seq(Commits), Chain(D, cs)
    PROVE  NothingTwice(cs)
  <1>2. DOMAIN cs = 1 .. Len(cs) /\ Len(cs) \in Nat
    BY Zenon, SequenceOfCommits
  <1>3. ASSUME NEW i \in 1 .. Len(cs), NEW j \in 1 .. Len(cs), i < j
        PROVE  cs[i].blocks \cap cs[j].blocks = {}
    <2>1. j \in 1 .. Len(cs) + 1 /\ i \in 1 .. j - 1
      BY <1>2, <1>3
    <2>2. /\ Before(cs, j) \in Seq(Commits) /\ Len(Before(cs, j)) = j - 1
          /\ Before(cs, j)[i] = cs[i]
      BY Zenon, <2>1, BeforeProperties
    <2>3. cs[i].blocks \subseteq Committed(Before(cs, j))
      BY ZenonT(30), <2>1, <2>2, CommittedFacts
    <2>4. cs[j].blocks = SubDag(cs[j].leaders, Before(cs, j))
      BY Zenon DEF Chain, Follows
    <2>. QED  BY Zenon, <2>3, <2>4 DEF SubDag
  <1>4. ASSUME NEW i \in 1 .. Len(cs), NEW j \in 1 .. Len(cs), i # j
        PROVE  cs[i].blocks \cap cs[j].blocks = {}
    <2>1. i < j \/ j < i
      BY <1>4
    <2>. QED  BY Zenon, <1>3, <2>1
  <1>. QED  BY Zenon, <1>2, <1>4 DEF NothingTwice

LEMMA ChainIsInCausalOrder ==
    ASSUME NEW D, NEW cs \in Seq(Commits), Chain(D, cs)
    PROVE  InCausalOrder(cs)
  <1>. SUFFICES ASSUME NEW i \in DOMAIN cs, NEW b \in cs[i].blocks, NEW x \in Past[b],
                       Round[x] > gc_round(SubSeq(cs, 1, i - 1))
                PROVE  x \in Committed(SubSeq(cs, 1, i))
    BY Zenon DEF InCausalOrder
  <1>. DEFINE P == Before(cs, i)
              U == Before(cs, i + 1)
  <1>2. i \in 1 .. Len(cs) /\ Len(cs) \in Nat
    BY Zenon, SequenceOfCommits
  <1>3. i \in 1 .. Len(cs) + 1 /\ i + 1 \in 1 .. Len(cs) + 1 /\ (i + 1) - 1 = i
    BY <1>2
  <1>4. /\ P \in Seq(Commits) /\ Len(P) = i - 1 /\ \A j \in 1 .. i - 1 : P[j] = cs[j]
        /\ U \in Seq(Commits) /\ Len(U) = i /\ \A j \in 1 .. i : U[j] = cs[j]
    BY Zenon, <1>3, BeforeProperties
  <1>5. cs[i] \in Commits
    BY Zenon, <1>2, SequenceOfCommits
  <1>6. cs[i].blocks = SubDag(cs[i].leaders, P) /\ cs[i].leaders \in SUBSET Blocks
    BY Zenon, <1>2, <1>5 DEF Chain, Follows, Commits
  <1>7. x \in cs[i].blocks \cup Committed(P)
    <2>1. b \in SubDag(cs[i].leaders, P) /\ Round[x] > gc_round(P)
      BY Zenon, <1>6 DEF Before
    <2>. HIDE DEF P
    <2>. QED  BY Zenon, <1>4, <1>6, <2>1, SubDagFacts
  <1>8. cs[i].blocks \subseteq Committed(U)
    <2>1. i \in 1 .. i
      BY <1>2
    <2>. HIDE DEF U
    <2>. QED  BY Zenon, <1>4, <2>1, CommittedFacts
  <1>9. Committed(P) \subseteq Committed(U)
    <2>. HIDE DEF P, U
    <2>1. DOMAIN P = 1 .. i - 1 /\ DOMAIN U = 1 .. i
      BY Zenon, <1>4, SequenceOfCommits
    <2>. QED  BY <1>2, <1>4, <2>1 DEF Committed
  <1>10. U = SubSeq(cs, 1, i)
    BY Zenon, <1>3 DEF Before
  <1>. QED  BY Zenon, <1>7, <1>8, <1>9, <1>10

-----------------------------------------------------------------------------
(* Sequences of commits that begin alike, and the log they make up.         *)

Begins(cs, ds) == Len(cs) <= Len(ds) /\ \A i \in 1 .. Len(cs) : cs[i] = ds[i]

LEMMA AppendFacts ==
    ASSUME NEW cs \in Seq(Commits), NEW c
    PROVE  /\ Len(Append(cs, c)) = Len(cs) + 1
           /\ DOMAIN Append(cs, c) = 1 .. Len(cs) + 1
           /\ Append(cs, c)[Len(cs) + 1] = c
           /\ \A i \in 1 .. Len(cs) : Append(cs, c)[i] = cs[i]
           /\ Begins(cs, Append(cs, c))
  BY DEF Begins

LEMMA BeginningIsSubSeq ==
    ASSUME NEW cs \in Seq(Commits), NEW ds \in Seq(Commits), Begins(cs, ds)
    PROVE  Len(cs) \in 0 .. Len(ds) /\ cs = SubSeq(ds, 1, Len(cs))
  <1>1. Len(cs) \in Nat /\ Len(ds) \in Nat /\ Len(cs) <= Len(ds)
    BY Zenon, SequenceOfCommits DEF Begins
  <1>2. /\ SubSeq(ds, 1, Len(cs)) \in Seq(Commits)
        /\ Len(SubSeq(ds, 1, Len(cs))) = Len(cs)
        /\ \A i \in 1 .. Len(cs) : SubSeq(ds, 1, Len(cs))[i] = ds[i]
    BY <1>1
  <1>. QED  BY <1>1, <1>2, SameCommits DEF Begins

LEMMA InEntriesOf ==
    ASSUME NEW S, NEW e
    PROVE  e \in EntriesOf(S) <=> \E cs \in S : \E i \in DOMAIN cs : e = <<i, cs[i]>>
  BY SMT DEF EntriesOf

LEMMA OneMoreSequence ==
    ASSUME NEW S, NEW cs
    PROVE  EntriesOf(S \cup {cs}) = EntriesOf(S) \cup {<<i, cs[i]>> : i \in DOMAIN cs}
  <1>1. ASSUME NEW e
        PROVE  e \in EntriesOf(S \cup {cs})
               <=> e \in EntriesOf(S) \/ \E i \in DOMAIN cs : e = <<i, cs[i]>>
    BY InEntriesOf
  <1>. QED  BY Zenon, <1>1

\* One more commit after the sequence cs makes one entry of the log of S, which
\* no entry of that index differs from.
LogExtended(S, cs, commit) ==
    /\ EntriesOf(S \cup {Append(cs, commit)}) = EntriesOf(S) \cup {<<Len(cs) + 1, commit>>}
    /\ \A e \in EntriesOf(S) : e[1] = Len(cs) + 1 => e[2] = commit
    /\ Len(cs) + 1 \in DOMAIN Append(cs, commit)
    /\ Append(cs, commit)[Len(cs) + 1] = commit

LEMMA EntryAdded ==
    ASSUME NEW S, NEW cs \in Seq(Commits), cs \in S \cup {<<>>}, NEW commit,
           Agree(S \cup {Append(cs, commit)})
    PROVE  LogExtended(S, cs, commit)
  <1>. DEFINE ds == Append(cs, commit)
              next == Len(cs) + 1
  <1>0. Agree(S \cup {ds})
    BY Zenon
  <1>1. /\ next \in DOMAIN ds /\ ds[next] = commit
        /\ DOMAIN ds = (DOMAIN cs) \cup {next}
        /\ \A i \in DOMAIN cs : ds[i] = cs[i]
    BY AppendFacts, SequenceOfCommits
  <1>2. ASSUME NEW e \in EntriesOf(S), e[1] = next  PROVE e[2] = commit
    <2>1. PICK es \in S : \E i \in DOMAIN es : e = <<i, es[i]>>
      BY Zenon, <1>2 DEF EntriesOf
    <2>2. next \in DOMAIN es /\ e[2] = es[next]
      BY <1>2, <2>1
    <2>3. es[next] = ds[next]
      <3>. HIDE DEF ds, next
      <3>. QED  BY <1>0, <1>1, <2>1, <2>2 DEF Agree
    <2>. QED  BY Zenon, <1>1, <2>2, <2>3
  <1>3. EntriesOf(S \cup {ds}) = EntriesOf(S) \cup {<<i, ds[i]>> : i \in DOMAIN ds}
    BY Zenon, OneMoreSequence
  <1>4. {<<i, ds[i]>> : i \in DOMAIN ds} = {<<i, cs[i]>> : i \in DOMAIN cs} \cup {<<next, commit>>}
    <2>. HIDE DEF ds, next
    <2>1. ASSUME NEW i \in DOMAIN ds
          PROVE  <<i, ds[i]>> \in {<<j, cs[j]>> : j \in DOMAIN cs} \cup {<<next, commit>>}
      BY Zenon, <1>1
    <2>2. ASSUME NEW i \in DOMAIN cs  PROVE <<i, cs[i]>> \in {<<j, ds[j]>> : j \in DOMAIN ds}
      BY Zenon, <1>1
    <2>3. <<next, commit>> \in {<<j, ds[j]>> : j \in DOMAIN ds}
      BY Zenon, <1>1
    <2>. QED  BY Zenon, <2>1, <2>2, <2>3
  <1>5. {<<i, cs[i]>> : i \in DOMAIN cs} \subseteq EntriesOf(S)
    <2>1. CASE cs \in S
      BY Zenon, <2>1 DEF EntriesOf
    <2>2. CASE cs = <<>>
      BY <2>2
    <2>. QED  BY Zenon, <2>1, <2>2
  <1>6. EntriesOf(S \cup {ds}) = EntriesOf(S) \cup {<<next, commit>>}
    BY Zenon, <1>3, <1>4, <1>5
  <1>. QED  BY Zenon, <1>1, <1>2, <1>6 DEF LogExtended
=============================================================================

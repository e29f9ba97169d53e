------------------------- MODULE BlockManager_proof -------------------------
(* Safety of block suspension for every DAG and garbage-collection depth.  *)
EXTENDS BlockManager, WellFoundedInduction, TLAPS

\* The two maps are each other's inverse, and a suspended block misses some of
\* its ancestors and nothing else.
DualMaps(susp, miss) ==
    /\ DOMAIN susp \subseteq Blocks
    /\ DOMAIN miss \subseteq Blocks
    /\ susp = [c \in DOMAIN susp |-> susp[c]]
    /\ miss = [x \in DOMAIN miss |-> miss[x]]
    /\ \A c \in DOMAIN susp : susp[c] # {} /\ susp[c] \subseteq Ancestors[c]
    /\ \A c \in DOMAIN susp : \A x \in susp[c] : x \in DOMAIN miss /\ c \in miss[x]
    /\ \A x \in DOMAIN miss : \A c \in miss[x] : c \in DOMAIN susp /\ x \in susp[c]

\* A nonempty set of blocks has one of the lowest round.
LEMMA LowestBlockExists ==
    ASSUME NEW S \in SUBSET Blocks, S # {}
    PROVE  \E b \in S : \A c \in S : Round[b] <= Round[c]
  <1>. DEFINE T == {Round[b] : b \in S}
  <1>1. T \subseteq Nat /\ T # {}
    BY Zenon, BlocksAssumption
  <1>2. PICK r \in T : \A s \in T : ~ (<<s, r>> \in OpToRel(<, Nat))
    BY Zenon, <1>1, NatLessThanWellFounded, WFMin
  <1>3. \A s \in T : ~ (s < r)
    BY Zenon, <1>1, <1>2 DEF OpToRel
  <1>4. PICK b \in S : r = Round[b]
    BY Zenon
  <1>5. \A c \in S : Round[c] \in Nat /\ Round[c] \in T
    BY Zenon, <1>1
  <1>6. \A c \in S : Round[b] <= Round[c]
    <2>. SUFFICES ASSUME NEW c \in S
                  PROVE  Round[b] <= Round[c]
      BY Zenon
    <2>1. ~ (Round[c] < r)
      BY Zenon, <1>3, <1>5
    <2>. QED  BY <2>1, <1>4, <1>5
  <1>. QED
    BY Zenon, <1>6

\* In dual maps the dependencies the loop takes off a block are the ones gone.
LEMMA ResolvedInDualMaps ==
    ASSUME NEW susp, NEW miss, DualMaps(susp, miss), NEW gone, NEW c \in DOMAIN susp
    PROVE  Resolved(miss, gone, c) = susp[c] \cap gone
  BY Zenon DEF DualMaps, Resolved

\* The released blocks are a closed set.
LEMMA UnsuspendedIsClosed ==
    ASSUME NEW susp, NEW miss, NEW avail
    PROVE  Closed(susp, miss, avail, Unsuspended(susp, miss, avail))
  BY Zenon DEF Closed, Unsuspended, Resolved

\* Each released block has lost all its dependencies.
LEMMA UnsuspendedIsJustified ==
    ASSUME NEW susp, NEW miss, NEW avail, NEW c \in Unsuspended(susp, miss, avail)
    PROVE  susp[c] \subseteq avail \cup Unsuspended(susp, miss, avail)
  <1>. DEFINE freed == Unsuspended(susp, miss, avail)
              W == {d \in freed : susp[d] \subseteq Resolved(miss, avail \cup freed, d)}
  <1>1. Closed(susp, miss, avail, W)
    BY Zenon, UnsuspendedIsClosed DEF Closed, Resolved
  <1>2. W \in SUBSET DOMAIN susp
    BY Zenon DEF Unsuspended
  <1>3. c \in W
    BY Zenon, <1>1, <1>2 DEF Unsuspended
  <1>. QED
    BY Zenon, <1>3 DEF Resolved

\* What the worklist makes of dual maps: it does not panic, releases blocks
\* whose dependencies are all gone and leaves dual maps behind.
LEMMA UnsuspendKeepsDualMaps ==
    ASSUME NEW susp, NEW miss, DualMaps(susp, miss), NEW avail, NEW freed,
           freed = Unsuspended(susp, miss, avail),
           TryUnsuspendChildrenBlocks(susp, miss, avail, freed)
    PROVE  /\ freed \subseteq DOMAIN susp
           /\ \A c \in freed : susp[c] \subseteq avail \cup freed
           /\ ~ UnsuspendPanics(susp, miss, avail \cup freed)
           /\ Suspended' = DOMAIN susp \ freed
           /\ Referenced' = DOMAIN miss \ (avail \cup freed)
           /\ \A c \in Suspended' : suspended_blocks'[c] = susp[c] \ (avail \cup freed)
           /\ DualMaps(suspended_blocks', missing_ancestors')
  <1>1. freed \subseteq DOMAIN susp /\ \A c \in freed : susp[c] \subseteq avail \cup freed
    BY Zenon, UnsuspendedIsJustified DEF Unsuspended
  <1>2. ~ UnsuspendPanics(susp, miss, avail \cup freed)
    BY Zenon DEF DualMaps, UnsuspendPanics
  <1>3. /\ Suspended' = DOMAIN susp \ freed
        /\ Referenced' = DOMAIN miss \ (avail \cup freed)
        /\ \A x \in Referenced' : missing_ancestors'[x] = miss[x]
    BY Zenon DEF TryUnsuspendChildrenBlocks, Suspended, Referenced
  <1>4. \A c \in Suspended' : suspended_blocks'[c] = susp[c] \ (avail \cup freed)
    BY <1>3, ResolvedInDualMaps DEF TryUnsuspendChildrenBlocks, Suspended
  <1>5. \A c \in Suspended' : suspended_blocks'[c] # {}
    <2>. SUFFICES ASSUME NEW c \in Suspended', suspended_blocks'[c] = {}
                  PROVE  FALSE
      BY Zenon
    <2>1. susp[c] \subseteq avail \cup freed /\ susp[c] # {} /\ c \in DOMAIN susp
      BY <1>3, <1>4 DEF DualMaps
    <2>2. Resolved(miss, avail \cup freed, c) = susp[c]
      BY <2>1, ResolvedInDualMaps
    <2>3. c \in freed
      BY Zenon, <2>1, <2>2, UnsuspendedIsClosed DEF Closed
    <2>. QED  BY Zenon, <2>3, <1>3
  <1>6. DualMaps(suspended_blocks', missing_ancestors')
    <2>1. /\ suspended_blocks' = [c \in Suspended' |-> suspended_blocks'[c]]
          /\ missing_ancestors' = [x \in Referenced' |-> missing_ancestors'[x]]
      BY Zenon DEF TryUnsuspendChildrenBlocks, Suspended, Referenced
    <2>2. \A c \in Suspended' : \A x \in suspended_blocks'[c] :
             x \in Referenced' /\ c \in missing_ancestors'[x]
      BY <1>3, <1>4 DEF DualMaps
    <2>3. \A x \in Referenced' : \A c \in missing_ancestors'[x] :
             c \in Suspended' /\ x \in suspended_blocks'[c]
      BY <1>1, <1>3, <1>4 DEF DualMaps
    <2>4. \A c \in Suspended' : suspended_blocks'[c] \subseteq Ancestors[c]
      BY <1>3, <1>4 DEF DualMaps
    <2>. QED
      BY Zenon, <1>3, <1>5, <2>1, <2>2, <2>3, <2>4 DEF DualMaps, Suspended, Referenced
  <1>. QED  BY Zenon, <1>1, <1>2, <1>3, <1>4, <1>6

-----------------------------------------------------------------------------

\* The history of a block is its least set closed under ancestors.
LEMMA HistoryIsLeast ==
    ASSUME NEW l \in Blocks
    PROVE  /\ l \in History[l]
           /\ History[l] \subseteq Blocks
           /\ \A x \in History[l] : Ancestors[x] \subseteq History[l]
           /\ \A W \in SUBSET Blocks :
                 l \in W /\ (\A x \in W : Ancestors[x] \subseteq W) => History[l] \subseteq W
  BY Zenon, BlocksAssumption DEF History

\* An ancestor of c is waited for, accepted or garbage collected.
AncestorsAccounted ==
    \A c \in Suspended : \A a \in Ancestors[c] :
        a \in suspended_blocks[c] \/ a \in dag \/ Round[a] <= gc_round

\* What is being accepted as part of a certified commit.
CertifiedInv ==
    /\ \A b \in certified : \A a \in Ancestors[b] :
          a \in dag \/ a \in certified \/ Round[a] <= gc_round
    /\ \A l \in leader : Round[l] >= last_commit_round
                        /\ SubDag(l) \subseteq dag \cup certified

\* The inductive invariant. Between calls no entry is at or below the
\* garbage-collection round; while certified commits are being accepted,
\* entries below it may still wait to be released.
IInv ==
    /\ TypeOK
    /\ NeverPanics
    /\ DualMaps(suspended_blocks, missing_ancestors)
    /\ MissingBlocksAreUnfetched
    /\ dag \cap (Suspended \cup Referenced) = {}
    /\ DagIsCausallyComplete
    /\ CommittedIsAccepted
    /\ AncestorsAccounted
    /\ committing \/ \A x \in Referenced : Round[x] > gc_round
    /\ CertifiedInv

\* The types of the two maps follow from their duality.
LEMMA DualMapsType ==
    ASSUME DualMaps(suspended_blocks, missing_ancestors)
    PROVE  /\ Suspended \subseteq Blocks
           /\ suspended_blocks \in [Suspended -> SUBSET Blocks]
           /\ Referenced \subseteq Blocks
           /\ missing_ancestors \in [Referenced -> SUBSET Blocks]
  <1>1. \A c \in Suspended : suspended_blocks[c] \subseteq Blocks
    BY Zenon, BlocksAssumption DEF DualMaps, Suspended
  <1>2. \A x \in Referenced : missing_ancestors[x] \subseteq Blocks
    BY Zenon DEF DualMaps, Referenced
  <1>. QED  BY Zenon, <1>1, <1>2 DEF DualMaps, Suspended, Referenced

\* The initial states satisfy the invariant.
LEMMA InitIInv == Init => IInv
  <1>. SUFFICES ASSUME Init
                PROVE  IInv
    BY Zenon
  <1>1. Suspended = {} /\ Referenced = {}
    BY Zenon DEF Init, Suspended, Referenced, NoBlocks
  <1>2. DualMaps(suspended_blocks, missing_ancestors)
    BY Zenon, <1>1 DEF Init, DualMaps, Suspended, Referenced, NoBlocks
  <1>3. TypeOK
    BY Zenon, <1>2, DualMapsType DEF Init, TypeOK
  <1>. QED
    BY Zenon, <1>1, <1>2, <1>3 DEF Init, IInv, NeverPanics, MissingBlocksAreUnfetched,
       DagIsCausallyComplete, CommittedIsAccepted, AncestorsAccounted, CertifiedInv

\* Suspending a received block preserves the duality of the maps.
LEMMA SuspendKeepsDualMaps ==
    ASSUME IInv, NEW b \in Blocks, ~AlreadyProcessed(b),
           MissingAncestorsOf(b) # {}, SuspendBlock(b)
    PROVE  /\ Suspended' = Suspended \cup {b}
           /\ Referenced' = Referenced \cup MissingAncestorsOf(b)
           /\ suspended_blocks'[b] = MissingAncestorsOf(b)
           /\ \A c \in Suspended : suspended_blocks'[c] = suspended_blocks[c]
           /\ MissingAncestorsOf(b) \subseteq Ancestors[b]
           /\ b \notin MissingAncestorsOf(b)
           /\ DualMaps(suspended_blocks', missing_ancestors')
  <1>. DEFINE missing == MissingAncestorsOf(b)
  <1>1. /\ Suspended' = Suspended \cup {b}
        /\ Referenced' = Referenced \cup missing
        /\ suspended_blocks'[b] = missing
        /\ \A c \in Suspended : suspended_blocks'[c] = suspended_blocks[c]
    BY Zenon DEF SuspendBlock, Suspended, Referenced, AlreadyProcessed
  <1>2. missing \subseteq Ancestors[b] /\ missing \subseteq Blocks /\ b \notin missing
    BY BlocksAssumption DEF MissingAncestorsOf
  <1>3. \A x \in Referenced' : missing_ancestors'[x] =
             (IF x \in Referenced THEN missing_ancestors[x] ELSE {})
               \cup (IF x \in missing THEN {b} ELSE {})
    BY Zenon, <1>1 DEF SuspendBlock, Referenced
  <1>4. /\ suspended_blocks' = [c \in Suspended' |-> suspended_blocks'[c]]
        /\ missing_ancestors' = [x \in Referenced' |-> missing_ancestors'[x]]
    BY Zenon DEF SuspendBlock, Suspended, Referenced
  <1>5. \A c \in Suspended' : \A x \in suspended_blocks'[c] :
           x \in Referenced' /\ c \in missing_ancestors'[x]
    BY <1>1, <1>3 DEF IInv, DualMaps, Suspended, Referenced
  <1>6. \A x \in Referenced' : \A c \in missing_ancestors'[x] :
           c \in Suspended' /\ x \in suspended_blocks'[c]
    BY <1>1, <1>3 DEF IInv, DualMaps, Suspended, Referenced, AlreadyProcessed
  <1>7. \A c \in Suspended' : suspended_blocks'[c] # {} /\ suspended_blocks'[c] \subseteq Ancestors[c]
    BY <1>1, <1>2 DEF IInv, DualMaps, Suspended
  <1>8. Suspended' \subseteq Blocks /\ Referenced' \subseteq Blocks
    BY Zenon, <1>1, <1>2 DEF IInv, DualMaps, Suspended, Referenced
  <1>. QED
    BY Zenon, <1>1, <1>2, <1>4, <1>5, <1>6, <1>7, <1>8 DEF DualMaps, Suspended, Referenced

\* Accepting a block whose ancestors are accounted for, with the blocks it
\* releases. The maps are the current ones, without b if it was suspended.
LEMMA AcceptKeepsInv ==
    ASSUME IInv, NEW b \in Blocks, b \notin dag, NEW susp, NEW miss,
           DualMaps(susp, miss),
           DOMAIN susp = Suspended \ {b},
           DOMAIN miss = Referenced,
           \A c \in DOMAIN susp : susp[c] = suspended_blocks[c],
           \A a \in Ancestors[b] : a \in dag \/ Round[a] <= gc_round,
           AcceptWithChildren(b, susp, miss)
    PROVE  /\ ~panicked' /\ panicked' \in BOOLEAN
           /\ DualMaps(suspended_blocks', missing_ancestors')
           /\ MissingBlocksAreUnfetched'
           /\ dag' \cap (Suspended' \cup Referenced') = {}
           /\ dag \cup {b} \subseteq dag' /\ dag' \subseteq Blocks
           /\ Referenced' \subseteq Referenced
           /\ \A d \in dag' : \A a \in Ancestors[d] : a \in dag' \/ Round[a] <= gc_round
           /\ \A c \in Suspended' : \A a \in Ancestors[c] :
                 a \in suspended_blocks'[c] \/ a \in dag' \/ Round[a] <= gc_round
  <1>. DEFINE freed == Unsuspended(susp, miss, {b})
  <1>1. /\ TryUnsuspendChildrenBlocks(susp, miss, {b}, freed)
        /\ missing_blocks' = missing_blocks \ {b}
        /\ dag' = dag \cup {b} \cup freed
        /\ panicked' = UnsuspendPanics(susp, miss, {b} \cup freed)
    BY Zenon DEF AcceptWithChildren
  <1>2. /\ freed \subseteq DOMAIN susp
        /\ \A c \in freed : susp[c] \subseteq {b} \cup freed
        /\ ~ UnsuspendPanics(susp, miss, {b} \cup freed)
        /\ Suspended' = DOMAIN susp \ freed
        /\ Referenced' = DOMAIN miss \ ({b} \cup freed)
        /\ \A c \in Suspended' : suspended_blocks'[c] = susp[c] \ ({b} \cup freed)
        /\ DualMaps(suspended_blocks', missing_ancestors')
    BY Zenon, <1>1, UnsuspendKeepsDualMaps
  <1>. HIDE DEF freed
  <1>3. MissingBlocksAreUnfetched'
    BY Zenon, <1>1, <1>2 DEF IInv, MissingBlocksAreUnfetched
  <1>4. dag' \cap (Suspended' \cup Referenced') = {}
    BY Zenon, <1>1, <1>2 DEF IInv
  <1>5. dag' \subseteq Blocks
    BY Zenon, <1>1, <1>2 DEF IInv, TypeOK
  <1>6. \A d \in dag' : \A a \in Ancestors[d] : a \in dag' \/ Round[a] <= gc_round
    BY Zenon, <1>1, <1>2 DEF IInv, DagIsCausallyComplete, AncestorsAccounted
  <1>7. \A c \in Suspended' : \A a \in Ancestors[c] :
                 a \in suspended_blocks'[c] \/ a \in dag' \/ Round[a] <= gc_round
    BY <1>1, <1>2 DEF IInv, AncestorsAccounted
  <1>8. ~panicked' /\ panicked' \in BOOLEAN
    BY Zenon, <1>1, <1>2 DEF UnsuspendPanics
  <1>. QED
    BY Zenon, <1>1, <1>2, <1>3, <1>4, <1>5, <1>6, <1>7, <1>8

\* The round of garbage collection never goes back.
LEMMA GcRoundAdvances ==
    ASSUME NEW m \in Nat, NEW n \in Nat, m <= n
    PROVE  /\ calculate_gc_round(m) \in Nat
           /\ calculate_gc_round(n) \in Nat
           /\ calculate_gc_round(m) <= calculate_gc_round(n)
           /\ m > 0 => calculate_gc_round(m) < m
  BY BlocksAssumption DEF calculate_gc_round

\* A block received in order, or suspended.
LEMMA TryAcceptBlocksKeepsIInv ==
    ASSUME IInv, NEW b \in Blocks, TryAcceptBlocks(b)
    PROVE  IInv'
  <1>0. gc_round \in Nat
    BY GcRoundAdvances DEF IInv, TypeOK, gc_round
  <1>1. /\ gc_round' = gc_round
        /\ UNCHANGED commits
        /\ ~committing /\ certified = {} /\ leader = {}
        /\ \A x \in Referenced : Round[x] > gc_round
    BY Zenon DEF TryAcceptBlocks, commits, gc_round, Idle, IInv, TypeOK
  <1>2. CertifiedInv'
    BY Zenon, <1>1 DEF CertifiedInv, commits
  <1>3. CASE MissingAncestorsOf(b) # {} /\ SuspendBlock(b)
    <2>1. ~AlreadyProcessed(b) /\ b \notin dag
      BY Zenon DEF TryAcceptBlocks, AlreadyProcessed
    <2>2. /\ Suspended' = Suspended \cup {b}
          /\ Referenced' = Referenced \cup MissingAncestorsOf(b)
          /\ suspended_blocks'[b] = MissingAncestorsOf(b)
          /\ \A c \in Suspended : suspended_blocks'[c] = suspended_blocks[c]
          /\ MissingAncestorsOf(b) \subseteq Ancestors[b]
          /\ b \notin MissingAncestorsOf(b)
          /\ DualMaps(suspended_blocks', missing_ancestors')
      BY Zenon, <1>3, <2>1, SuspendKeepsDualMaps
    <2>3. UNCHANGED <<dag, panicked>>
      BY Zenon, <1>3 DEF SuspendBlock
    <2>4. MissingBlocksAreUnfetched'
      BY Zenon, <1>3, <2>2 DEF SuspendBlock, IInv, MissingBlocksAreUnfetched
    <2>5. dag' \cap (Suspended' \cup Referenced') = {}
      BY Zenon, <2>1, <2>2, <2>3 DEF IInv, MissingAncestorsOf
    <2>6. AncestorsAccounted'
      BY <1>1, <2>2, <2>3, <1>0, BlocksAssumption DEF IInv, AncestorsAccounted, MissingAncestorsOf
    <2>7. \A x \in Referenced' : Round[x] > gc_round'
      BY Zenon, <1>1, <2>2 DEF MissingAncestorsOf
    <2>8. TypeOK'
      BY ZenonT(30), <1>1, <2>2, <2>3, <2>4, DualMapsType
         DEF IInv, TypeOK, commits, MissingBlocksAreUnfetched, DualMaps, Suspended, Referenced
    <2>. QED
      BY Zenon, <1>1, <1>2, <2>2, <2>3, <2>4, <2>5, <2>6, <2>7, <2>8
         DEF IInv, NeverPanics, DagIsCausallyComplete, CommittedIsAccepted, commits
  <1>4. CASE /\ MissingAncestorsOf(b) = {}
             /\ AcceptWithChildren(b, suspended_blocks, missing_ancestors)
    <2>1. /\ b \notin dag /\ b \notin Suspended
          /\ \A a \in Ancestors[b] : a \in dag \/ Round[a] <= gc_round
      BY <1>4, <1>0, BlocksAssumption
         DEF TryAcceptBlocks, AlreadyProcessed, MissingAncestorsOf
    <2>2. /\ ~panicked' /\ panicked' \in BOOLEAN
          /\ DualMaps(suspended_blocks', missing_ancestors')
          /\ MissingBlocksAreUnfetched'
          /\ dag' \cap (Suspended' \cup Referenced') = {}
          /\ dag \cup {b} \subseteq dag' /\ dag' \subseteq Blocks
          /\ Referenced' \subseteq Referenced
          /\ \A d \in dag' : \A a \in Ancestors[d] : a \in dag' \/ Round[a] <= gc_round
          /\ \A c \in Suspended' : \A a \in Ancestors[c] :
                a \in suspended_blocks'[c] \/ a \in dag' \/ Round[a] <= gc_round
      <3>1. DOMAIN suspended_blocks = Suspended \ {b} /\ DOMAIN missing_ancestors = Referenced
        BY Zenon, <2>1 DEF Suspended, Referenced
      <3>. QED  BY Zenon, <1>4, <2>1, <3>1, AcceptKeepsInv DEF IInv
    <2>3. TypeOK'
      BY Zenon, <1>1, <2>2, DualMapsType
         DEF IInv, TypeOK, commits, MissingBlocksAreUnfetched, DualMaps, Suspended, Referenced
    <2>. QED
      BY Zenon, <1>1, <1>2, <2>2, <2>3
         DEF IInv, NeverPanics, DagIsCausallyComplete, CommittedIsAccepted, AncestorsAccounted, commits
  <1>. QED
    BY Zenon, <1>3, <1>4 DEF TryAcceptBlocks

\* A block asked for without being an ancestor of a suspended one.
LEMMA TryFindBlocksKeepsIInv ==
    ASSUME IInv, NEW b \in Blocks, TryFindBlocks(b)
    PROVE  IInv'
  <1>1. /\ gc_round' = gc_round
        /\ UNCHANGED <<suspended_blocks, dag, panicked>>
        /\ UNCHANGED <<committed, last_commit_round, certified, leader, committing>>
        /\ b \notin dag \cup Suspended /\ Round[b] > gc_round
        /\ missing_blocks' = missing_blocks \cup {b}
    BY Zenon DEF TryFindBlocks, commits, gc_round
  <1>2. /\ Suspended' = Suspended
        /\ Referenced' = Referenced \cup {b}
        /\ \A x \in Referenced' : missing_ancestors'[x] =
               IF x \in Referenced THEN missing_ancestors[x] ELSE {}
        /\ missing_ancestors' = [x \in Referenced' |-> missing_ancestors'[x]]
    BY Zenon, <1>1 DEF TryFindBlocks, Suspended, Referenced
  <1>3. DualMaps(suspended_blocks', missing_ancestors')
    BY <1>1, <1>2 DEF IInv, DualMaps, Suspended, Referenced
  <1>4. MissingBlocksAreUnfetched'
    BY Zenon, <1>1, <1>2 DEF IInv, MissingBlocksAreUnfetched
  <1>5. CertifiedInv'
    BY Zenon, <1>1 DEF IInv, CertifiedInv, SubDag
  <1>6. TypeOK'
    BY ZenonT(30), <1>1, <1>3, <1>4, DualMapsType
       DEF IInv, TypeOK, MissingBlocksAreUnfetched, DualMaps, Suspended, Referenced
  <1>. QED
    BY Zenon, <1>1, <1>2, <1>3, <1>4, <1>5, <1>6 DEF IInv, NeverPanics, DagIsCausallyComplete,
       CommittedIsAccepted, AncestorsAccounted

\* Above the garbage-collection round, the history of an accepted block is
\* accepted.
LEMMA HistoryIsAccepted ==
    ASSUME IInv, NEW l \in dag
    PROVE  \A b \in History[l] : b \in dag \/ Round[b] <= gc_round
  <1>. DEFINE W == {b \in Blocks : b \in dag \/ Round[b] <= gc_round}
  <1>1. gc_round \in Nat /\ dag \subseteq Blocks
    BY GcRoundAdvances DEF IInv, TypeOK, gc_round
  <1>2. \A x \in W : Ancestors[x] \subseteq W
    <2>. SUFFICES ASSUME NEW x \in W, NEW a \in Ancestors[x]
                  PROVE  a \in W
      BY Zenon
    <2>1. a \in Blocks /\ x \in Blocks /\ Round[a] \in Nat /\ Round[x] \in Nat
          /\ Round[a] < Round[x]
      BY Zenon, BlocksAssumption
    <2>2. CASE x \in dag
      BY Zenon, <2>1, <2>2 DEF IInv, DagIsCausallyComplete
    <2>3. CASE Round[x] <= gc_round
      BY <1>1, <2>1, <2>3
    <2>. QED  BY Zenon, <2>2, <2>3
  <1>3. W \in SUBSET Blocks /\ l \in W
    BY Zenon, <1>1
  <1>4. History[l] \subseteq W
    BY Zenon, <1>1, <1>2, <1>3, HistoryIsLeast
  <1>. QED  BY Zenon, <1>4

\* What a later garbage-collection round does to the invariant.
LEMMA LaterCommitRound ==
    ASSUME IInv, last_commit_round' \in Nat, last_commit_round' >= last_commit_round
    PROVE  /\ gc_round \in Nat /\ gc_round' \in Nat /\ gc_round <= gc_round'
           /\ \A b \in Blocks : Round[b] <= gc_round => Round[b] <= gc_round'
  <1>1. gc_round \in Nat /\ gc_round' \in Nat /\ gc_round <= gc_round'
    <2>. DEFINE m == last_commit_round
                n == last_commit_round'
    <2>1. m \in Nat /\ n \in Nat /\ m <= n
      BY Zenon DEF IInv, TypeOK
    <2>2. gc_round = calculate_gc_round(m) /\ gc_round' = calculate_gc_round(n)
      BY Zenon DEF gc_round, calculate_gc_round
    <2>. HIDE DEF m, n
    <2>. QED  BY Zenon, <2>1, <2>2, GcRoundAdvances
  <1>. QED  BY <1>1, BlocksAssumption

\* The local decision rule commits a leader.
LEMMA CommitLocallyKeepsIInv ==
    ASSUME IInv, NEW l \in Blocks, CommitLocally(l)
    PROVE  IInv'
  <1>1. /\ UNCHANGED <<suspended_blocks, missing_ancestors, missing_blocks>>
        /\ UNCHANGED <<dag, certified, leader, panicked>>
        /\ certified = {} /\ l \in dag
        /\ committed' = committed \cup SubDag(l)
        /\ last_commit_round' = Round[l]
        /\ Round[l] >= last_commit_round
        /\ committing'
    BY Zenon DEF CommitLocally, manager, AddCommit, NextLeader
  <1>2. Round[l] \in Nat
    BY Zenon, BlocksAssumption
  <1>3. /\ gc_round \in Nat /\ gc_round' \in Nat /\ gc_round <= gc_round'
        /\ \A b \in Blocks : Round[b] <= gc_round => Round[b] <= gc_round'
    BY Zenon, <1>1, <1>2, LaterCommitRound
  <1>4. SubDag(l) \subseteq dag
    <2>1. \A b \in SubDag(l) : b \in Blocks /\ Round[b] \in Nat /\ ~ (Round[b] <= gc_round)
      BY <1>3, BlocksAssumption, HistoryIsLeast DEF SubDag
    <2>. QED  BY Zenon, <1>1, <2>1, HistoryIsAccepted DEF SubDag
  <1>5. leader = {}
    BY Zenon, <1>1 DEF IInv, TypeOK
  <1>6. Suspended' = Suspended /\ Referenced' = Referenced
    BY Zenon, <1>1 DEF Suspended, Referenced
  <1>7. TypeOK'
    BY Zenon, <1>1, <1>2, <1>4, <1>6 DEF CommitLocally, AddCommit, IInv, TypeOK
  <1>8. DagIsCausallyComplete'
    <2>1. \A d \in dag : Ancestors[d] \subseteq Blocks
      BY Zenon, BlocksAssumption DEF IInv, TypeOK
    <2>. QED  BY Zenon, <1>1, <1>3, <2>1 DEF IInv, DagIsCausallyComplete
  <1>9. AncestorsAccounted'
    <2>1. \A c \in Suspended : Ancestors[c] \subseteq Blocks
      BY Zenon, BlocksAssumption DEF IInv, TypeOK
    <2>. QED  BY Zenon, <1>1, <1>3, <1>6, <2>1 DEF IInv, AncestorsAccounted
  <1>10. CertifiedInv' /\ CommittedIsAccepted'
    BY Zenon, <1>1, <1>4, <1>5 DEF IInv, CertifiedInv, CommittedIsAccepted
  <1>. QED
    BY Zenon, <1>1, <1>6, <1>7, <1>8, <1>9, <1>10 DEF IInv, NeverPanics, MissingBlocksAreUnfetched

\* A certified commit arrives: its blocks have their ancestors in the commit,
\* in an earlier one or below the garbage-collection round.
LEMMA StartCertifiedCommitKeepsIInv ==
    ASSUME IInv, NEW l \in Blocks, StartCertifiedCommit(l)
    PROVE  IInv'
  <1>1. /\ UNCHANGED <<suspended_blocks, missing_ancestors, missing_blocks>>
        /\ UNCHANGED <<dag, committed, last_commit_round, committing, panicked>>
        /\ certified' = SubDag(l) /\ leader' = {l}
        /\ Round[l] >= last_commit_round /\ l \notin committed
    BY Zenon DEF StartCertifiedCommit, manager, NextLeader
  <1>2. Suspended' = Suspended /\ Referenced' = Referenced /\ gc_round' = gc_round
    BY Zenon, <1>1 DEF Suspended, Referenced, gc_round
  <1>3. gc_round \in Nat /\ gc_round < Round[l]
    <2>1. Round[l] \in Nat /\ Round[l] > 0 /\ last_commit_round \in Nat
      BY BlocksAssumption DEF IInv, TypeOK
    <2>2. last_commit_round > 0 => calculate_gc_round(last_commit_round) < last_commit_round
      BY <2>1, GcRoundAdvances
    <2>3. last_commit_round = 0 => calculate_gc_round(last_commit_round) = 0
      BY BlocksAssumption DEF calculate_gc_round
    <2>4. gc_round \in Nat
      BY <2>1, GcRoundAdvances DEF gc_round
    <2>. QED  BY <1>1, <2>1, <2>2, <2>3, <2>4 DEF gc_round
  <1>4. l \in SubDag(l) /\ SubDag(l) \subseteq Blocks
    BY Zenon, <1>1, <1>3, HistoryIsLeast, BlocksAssumption DEF SubDag
  <1>5. \A b \in SubDag(l) : \A a \in Ancestors[b] :
           a \in dag \/ a \in SubDag(l) \/ Round[a] <= gc_round
    <2>. SUFFICES ASSUME NEW b \in SubDag(l), NEW a \in Ancestors[b], a \notin SubDag(l), a \notin dag
                  PROVE  Round[a] <= gc_round
      BY Zenon
    <2>1. a \in History[l] /\ a \in Blocks
      BY Zenon, HistoryIsLeast, BlocksAssumption DEF SubDag
    <2>2. a \notin committed /\ Round[a] \in Nat
      BY Zenon, <2>1, BlocksAssumption DEF IInv, CommittedIsAccepted
    <2>3. ~ (Round[a] > gc_round)
      BY Zenon, <2>1, <2>2 DEF SubDag
    <2>. QED  BY <1>3, <2>2, <2>3
  <1>6. SubDag(l)' = SubDag(l)
    BY Zenon, <1>1, <1>2 DEF SubDag
  <1>7. CertifiedInv'
    BY Zenon, <1>1, <1>2, <1>5, <1>6 DEF CertifiedInv
  <1>8. TypeOK'
    BY Zenon, <1>1, <1>2, <1>4 DEF IInv, TypeOK
  <1>. QED
    BY Zenon, <1>1, <1>2, <1>7, <1>8 DEF IInv, NeverPanics, MissingBlocksAreUnfetched,
       DagIsCausallyComplete, CommittedIsAccepted, AncestorsAccounted

\* Taking a committed block out of the maps leaves them dual.
LEMMA WithoutCommittedBlockDual ==
    ASSUME IInv, NEW b \in Blocks
    PROVE  /\ DOMAIN WithoutSuspended(b) = Suspended \ {b}
           /\ DOMAIN WithoutReferences(b) = Referenced
           /\ \A c \in Suspended \ {b} : WithoutSuspended(b)[c] = suspended_blocks[c]
           /\ DualMaps(WithoutSuspended(b), WithoutReferences(b))
  <1>. DEFINE susp == WithoutSuspended(b)
              miss == WithoutReferences(b)
  <1>1. /\ DOMAIN susp = Suspended \ {b}
        /\ DOMAIN miss = Referenced
        /\ \A c \in Suspended \ {b} : susp[c] = suspended_blocks[c]
        /\ susp = [c \in DOMAIN susp |-> susp[c]]
        /\ miss = [x \in DOMAIN miss |-> miss[x]]
    BY Zenon DEF WithoutSuspended, WithoutReferences
  <1>2. \A x \in Referenced : miss[x] = missing_ancestors[x] \ {b}
    BY DEF WithoutReferences, IInv, DualMaps, Suspended, Referenced
  <1>. HIDE DEF susp, miss
  <1>3. DualMaps(susp, miss)
    BY <1>1, <1>2 DEF IInv, DualMaps, Suspended, Referenced
  <1>. QED  BY Zenon, <1>1, <1>3 DEF susp, miss

\* A block of a certified commit is accepted, and with the last one the commit
\* is added.
LEMMA TryAcceptOneCommittedBlockKeepsIInv ==
    ASSUME IInv, NEW b \in certified, TryAcceptOneCommittedBlock(b)
    PROVE  IInv'
  <1>1. /\ b \in Blocks /\ certified \subseteq Blocks
        /\ certified' = certified \ {b}
        /\ \A c \in certified : Round[b] <= Round[c]
        /\ gc_round \in Nat
    BY GcRoundAdvances DEF IInv, TypeOK, TryAcceptOneCommittedBlock, gc_round
  <1>2. \A a \in Ancestors[b] : a \in dag \/ Round[a] <= gc_round
    <2>. SUFFICES ASSUME NEW a \in Ancestors[b], a \in certified
                  PROVE  FALSE
      BY Zenon DEF IInv, CertifiedInv
    <2>1. Round[a] < Round[b] /\ Round[a] \in Nat /\ Round[b] \in Nat /\ Round[b] <= Round[a]
      BY Zenon, <1>1, BlocksAssumption
    <2>. QED  BY <2>1
  <1>3. /\ ~panicked' /\ panicked' \in BOOLEAN
        /\ DualMaps(suspended_blocks', missing_ancestors')
        /\ MissingBlocksAreUnfetched'
        /\ dag' \cap (Suspended' \cup Referenced') = {}
        /\ dag \cup {b} \subseteq dag' /\ dag' \subseteq Blocks
        /\ Referenced' \subseteq Referenced
        /\ \A d \in dag' : \A a \in Ancestors[d] : a \in dag' \/ Round[a] <= gc_round
        /\ \A c \in Suspended' : \A a \in Ancestors[c] :
              a \in suspended_blocks'[c] \/ a \in dag' \/ Round[a] <= gc_round
    <2>1. CASE b \in dag
      <3>1. UNCHANGED <<suspended_blocks, missing_ancestors, missing_blocks, dag, panicked>>
        BY Zenon, <2>1 DEF TryAcceptOneCommittedBlock, manager
      <3>2. Suspended' = Suspended /\ Referenced' = Referenced
        BY Zenon, <3>1 DEF Suspended, Referenced
      <3>. QED
        BY Zenon, <2>1, <3>1, <3>2 DEF IInv, TypeOK, NeverPanics, MissingBlocksAreUnfetched,
           DagIsCausallyComplete, AncestorsAccounted
    <2>2. CASE b \notin dag
      <3>1. AcceptWithChildren(b, WithoutSuspended(b), WithoutReferences(b))
        BY Zenon, <2>2 DEF TryAcceptOneCommittedBlock
      <3>. DEFINE susp == WithoutSuspended(b)
                  miss == WithoutReferences(b)
      <3>2. /\ DOMAIN susp = Suspended \ {b}
            /\ DOMAIN miss = Referenced
            /\ \A c \in DOMAIN susp : susp[c] = suspended_blocks[c]
            /\ DualMaps(susp, miss)
        BY Zenon, <1>1, WithoutCommittedBlockDual
      <3>3. AcceptWithChildren(b, susp, miss)
        BY Zenon, <3>1
      <3>. HIDE DEF susp, miss
      <3>. QED  BY Zenon, <1>1, <1>2, <2>2, <3>2, <3>3, AcceptKeepsInv
    <2>. QED  BY Zenon, <2>1, <2>2
  <1>4. missing_blocks' \subseteq Blocks
        /\ Suspended' \subseteq Blocks
        /\ suspended_blocks' \in [Suspended' -> SUBSET Blocks]
        /\ Referenced' \subseteq Blocks
        /\ missing_ancestors' \in [Referenced' -> SUBSET Blocks]
    <2>1. \A c \in Suspended' : suspended_blocks'[c] \subseteq Blocks
      BY Zenon, <1>3, BlocksAssumption DEF DualMaps, Suspended
    <2>2. \A x \in Referenced' : missing_ancestors'[x] \subseteq Blocks
      BY Zenon, <1>3 DEF DualMaps, Referenced
    <2>. QED  BY Zenon, <1>3, <2>1, <2>2 DEF DualMaps, Suspended, Referenced, MissingBlocksAreUnfetched
  <1>5. CASE certified # {b}
    <2>1. UNCHANGED <<committed, last_commit_round, committing, leader>>
      BY Zenon, <1>5 DEF TryAcceptOneCommittedBlock
    <2>2. gc_round' = gc_round
      BY Zenon, <2>1 DEF gc_round
    <2>3. \A l \in Blocks : SubDag(l)' = SubDag(l)
      BY Zenon, <2>1, <2>2 DEF SubDag
    <2>4. CertifiedInv'
      BY ZenonT(30), <1>1, <1>3, <2>1, <2>2, <2>3 DEF IInv, TypeOK, CertifiedInv
    <2>5. TypeOK'
      BY Zenon, <1>1, <1>3, <1>4, <1>5, <2>1 DEF IInv, TypeOK
    <2>. QED
      BY Zenon, <1>3, <2>1, <2>2, <2>4, <2>5 DEF IInv, NeverPanics, DagIsCausallyComplete,
         CommittedIsAccepted, AncestorsAccounted
  <1>6. CASE certified = {b}
    <2>1. PICK l \in leader : AddCommit(l)
      BY Zenon, <1>6 DEF TryAcceptOneCommittedBlock
    <2>2. /\ l \in Blocks /\ leader' = {} /\ certified' = {}
          /\ committed' = committed \cup SubDag(l)
          /\ last_commit_round' = Round[l] /\ Round[l] \in Nat
          /\ committing' = TRUE
          /\ Round[l] >= last_commit_round
          /\ SubDag(l) \subseteq dag \cup {b}
      BY Zenon, <1>1, <1>6, <2>1, BlocksAssumption
         DEF TryAcceptOneCommittedBlock, AddCommit, IInv, TypeOK, CertifiedInv
    <2>3. \A x \in Blocks : Round[x] <= gc_round => Round[x] <= gc_round'
      BY Zenon, <2>2, LaterCommitRound
    <2>4. committed' \subseteq dag'
      BY Zenon, <1>3, <2>2 DEF IInv, CommittedIsAccepted
    <2>5. DagIsCausallyComplete'
      <3>1. \A d \in dag' : Ancestors[d] \subseteq Blocks
        BY Zenon, <1>3, BlocksAssumption
      <3>. QED  BY Zenon, <1>3, <2>3, <3>1 DEF DagIsCausallyComplete
    <2>6. AncestorsAccounted'
      <3>1. \A c \in Suspended' : Ancestors[c] \subseteq Blocks
        BY Zenon, <1>4, BlocksAssumption
      <3>. QED  BY Zenon, <1>3, <2>3, <3>1 DEF AncestorsAccounted
    <2>7. TypeOK'
      BY Zenon, <1>3, <1>4, <2>2, <2>4 DEF TypeOK
    <2>. QED
      BY Zenon, <1>3, <2>2, <2>4, <2>5, <2>6, <2>7 DEF IInv, NeverPanics, CommittedIsAccepted, CertifiedInv
  <1>. QED  BY Zenon, <1>5, <1>6

\* Every entry at or below the garbage-collection round is dropped: an entry
\* that is itself suspended only waits for lower ones.
LEMMA GcReleasesEveryEntry ==
    ASSUME IInv, NEW collected, collected = {x \in Referenced \ Suspended : ReleasesGc(x)}
    PROVE  \A x \in Referenced \cap Suspended : ReleasesGc(x) =>
              x \in Unsuspended(suspended_blocks, missing_ancestors, collected)
  <1>. DEFINE freed == Unsuspended(suspended_blocks, missing_ancestors, collected)
              S == {x \in Referenced \cap Suspended : ReleasesGc(x) /\ x \notin freed}
  <1>. SUFFICES ASSUME S # {}
                PROVE  FALSE
    BY Zenon
  <1>0. gc_round \in Nat
    BY GcRoundAdvances DEF IInv, TypeOK, gc_round
  <1>1. S \in SUBSET Blocks
    BY Zenon DEF IInv, TypeOK
  <1>2. PICK x \in S : \A y \in S : Round[x] <= Round[y]
    BY Zenon, <1>1, LowestBlockExists
  <1>3. \A y \in suspended_blocks[x] : y \in collected \cup freed
    <2>. SUFFICES ASSUME NEW y \in suspended_blocks[x], y \notin freed
                  PROVE  y \in collected
      BY Zenon
    <2>1. y \in Referenced /\ y \in Ancestors[x]
      BY Zenon, <1>2 DEF IInv, DualMaps, Suspended, Referenced
    <2>2. Round[y] < Round[x] /\ Round[y] \in Nat /\ Round[x] \in Nat /\ Round[x] <= gc_round
      BY Zenon, <1>1, <1>2, <2>1, BlocksAssumption DEF ReleasesGc
    <2>3. ReleasesGc(y)
      BY <1>0, <2>2 DEF ReleasesGc
    <2>4. y \notin S
      BY <1>2, <2>2
    <2>. QED  BY Zenon, <2>1, <2>3, <2>4
  <1>4. x \in Suspended /\ suspended_blocks[x] # {}
    BY Zenon, <1>2 DEF IInv, DualMaps, Suspended
  <1>5. Resolved(missing_ancestors, collected \cup freed, x) = suspended_blocks[x]
    BY SMTT(30), <1>3, <1>4, ResolvedInDualMaps DEF IInv, Suspended
  <1>6. x \in freed
    BY Zenon, <1>4, <1>5, UnsuspendedIsClosed DEF Closed, Suspended
  <1>. QED  BY Zenon, <1>6, <1>2

\* Garbage collection releases the blocks suspended below the new round.
LEMMA TryUnsuspendForGcKeepsIInv ==
    ASSUME IInv, TryUnsuspendBlocksForLatestGcRound
    PROVE  IInv'
  <1>. DEFINE collected == {x \in Referenced \ Suspended : ReleasesGc(x)}
              freed == Unsuspended(suspended_blocks, missing_ancestors, collected)
  <1>1. /\ TryUnsuspendChildrenBlocks(suspended_blocks, missing_ancestors, collected, freed)
        /\ missing_blocks' = missing_blocks \ collected
        /\ dag' = dag \cup freed
        /\ panicked' = \/ UnsuspendPanics(suspended_blocks, missing_ancestors, collected \cup freed)
                       \/ \E x \in Referenced \cap Suspended : ReleasesGc(x) /\ x \notin freed
        /\ committing' = FALSE /\ certified = {} /\ leader = {}
        /\ UNCHANGED <<committed, last_commit_round, certified, leader>>
    <2>1. certified = {} /\ leader = {}
      BY Zenon DEF TryUnsuspendBlocksForLatestGcRound, IInv, TypeOK
    <2>. QED  BY Zenon, <2>1 DEF TryUnsuspendBlocksForLatestGcRound
  <1>2. /\ freed \subseteq Suspended
        /\ \A c \in freed : suspended_blocks[c] \subseteq collected \cup freed
        /\ ~ UnsuspendPanics(suspended_blocks, missing_ancestors, collected \cup freed)
        /\ Suspended' = Suspended \ freed
        /\ Referenced' = Referenced \ (collected \cup freed)
        /\ \A c \in Suspended' : suspended_blocks'[c] = suspended_blocks[c] \ (collected \cup freed)
        /\ DualMaps(suspended_blocks', missing_ancestors')
    BY Zenon, <1>1, UnsuspendKeepsDualMaps DEF IInv, Suspended, Referenced
  <1>3. \A x \in Referenced \cap Suspended : ReleasesGc(x) => x \in freed
    BY Zenon, GcReleasesEveryEntry
  <1>4. /\ gc_round \in Nat /\ gc_round' = gc_round
        /\ \A x \in collected : x \in Referenced /\ x \notin Suspended /\ Round[x] <= gc_round
    BY <1>1, GcRoundAdvances DEF IInv, TypeOK, gc_round, ReleasesGc
  <1>5. \A x \in Referenced' : Round[x] > gc_round'
    <2>1. \A x \in Referenced' : x \in Blocks /\ Round[x] \in Nat /\ ~ReleasesGc(x)
      BY Zenon, <1>2, <1>3, BlocksAssumption DEF IInv, TypeOK
    <2>. QED  BY <1>4, <2>1 DEF ReleasesGc
  <1>6. ~panicked' /\ panicked' \in BOOLEAN
    BY Zenon, <1>1, <1>2, <1>3
  <1>. HIDE DEF collected, freed
  <1>7. MissingBlocksAreUnfetched'
    BY Zenon, <1>1, <1>2, <1>4 DEF IInv, MissingBlocksAreUnfetched
  <1>8. dag' \cap (Suspended' \cup Referenced') = {}
    BY Zenon, <1>1, <1>2 DEF IInv
  <1>9. DagIsCausallyComplete'
    BY Zenon, <1>1, <1>2, <1>4 DEF IInv, DagIsCausallyComplete, AncestorsAccounted
  <1>10. AncestorsAccounted'
    BY ZenonT(30), <1>1, <1>2, <1>4 DEF IInv, AncestorsAccounted
  <1>11. CertifiedInv' /\ CommittedIsAccepted'
    BY Zenon, <1>1 DEF IInv, CertifiedInv, CommittedIsAccepted
  <1>12. TypeOK'
    <2>1. \A c \in Suspended' : suspended_blocks'[c] \subseteq Blocks
      BY Zenon, <1>2, BlocksAssumption DEF DualMaps, Suspended
    <2>2. \A x \in Referenced' : missing_ancestors'[x] \subseteq Blocks
      BY Zenon, <1>2 DEF DualMaps, Referenced
    <2>3. dag' \subseteq Blocks /\ missing_blocks' \subseteq Blocks
      BY Zenon, <1>1, <1>2 DEF IInv, TypeOK
    <2>. QED
      BY Zenon, <1>1, <1>2, <1>6, <2>1, <2>2, <2>3 DEF IInv, TypeOK, DualMaps, Suspended, Referenced
  <1>. QED
    BY Zenon, <1>1, <1>2, <1>5, <1>6, <1>7, <1>8, <1>9, <1>10, <1>11, <1>12 DEF IInv, NeverPanics

-----------------------------------------------------------------------------

\* Every step preserves the invariant.
LEMMA NextIInv == IInv /\ [Next]_vars => IInv'
  <1>. SUFFICES ASSUME IInv, [Next]_vars
                PROVE  IInv'
    BY Zenon
  <1>1. CASE UNCHANGED vars
    <2>1. /\ UNCHANGED <<suspended_blocks, missing_ancestors, missing_blocks, dag, panicked>>
          /\ UNCHANGED <<committed, last_commit_round, certified, leader, committing>>
      BY Zenon, <1>1 DEF vars, manager, commits
    <2>2. Suspended' = Suspended /\ Referenced' = Referenced /\ gc_round' = gc_round
      BY Zenon, <2>1 DEF Suspended, Referenced, gc_round
    <2>3. \A l \in leader : SubDag(l)' = SubDag(l)
      BY Zenon, <2>1, <2>2 DEF SubDag
    <2>. QED
      BY Zenon, <2>1, <2>2, <2>3 DEF IInv, TypeOK, NeverPanics, MissingBlocksAreUnfetched,
         DagIsCausallyComplete, CommittedIsAccepted, AncestorsAccounted, CertifiedInv
  <1>2. ASSUME NEW b \in Blocks, TryAcceptBlocks(b)
        PROVE  IInv'
    BY Zenon, <1>2, TryAcceptBlocksKeepsIInv
  <1>3. ASSUME NEW b \in Blocks, TryFindBlocks(b)
        PROVE  IInv'
    BY Zenon, <1>3, TryFindBlocksKeepsIInv
  <1>4. ASSUME NEW l \in Blocks, CommitLocally(l)
        PROVE  IInv'
    BY Zenon, <1>4, CommitLocallyKeepsIInv
  <1>5. ASSUME NEW l \in Blocks, StartCertifiedCommit(l)
        PROVE  IInv'
    BY Zenon, <1>5, StartCertifiedCommitKeepsIInv
  <1>6. ASSUME NEW b \in certified, TryAcceptOneCommittedBlock(b)
        PROVE  IInv'
    BY Zenon, <1>6, TryAcceptOneCommittedBlockKeepsIInv
  <1>7. CASE TryUnsuspendBlocksForLatestGcRound
    BY Zenon, <1>7, TryUnsuspendForGcKeepsIInv
  <1>. QED
    BY Zenon, <1>1, <1>2, <1>3, <1>4, <1>5, <1>6, <1>7 DEF Next

\* The inductive invariant holds throughout.
LEMMA IInvAlways == Spec => []IInv
  BY InitIInv, NextIInv, PTL DEF Spec

\* No expect() or assert! of the block manager can fail, for any DAG, in any
\* order of receiving, committing and garbage collecting its blocks.
THEOREM NeverPanicsAlways == Spec => [](TypeOK /\ NeverPanics)
  <1>1. IInv => TypeOK /\ NeverPanics
    BY Zenon DEF IInv
  <1>. QED  BY <1>1, IInvAlways, PTL

\* missing_blocks is what its comment says it is, at every step.
THEOREM MissingBlocksAreUnfetchedAlways == Spec => []MissingBlocksAreUnfetched
  <1>1. IInv => MissingBlocksAreUnfetched
    BY Zenon DEF IInv
  <1>. QED  BY <1>1, IInvAlways, PTL

\* DagState never holds a block without its ancestors above the
\* garbage-collection round, nor a commit with a block that is not accepted.
THEOREM DagIsCausallyCompleteAlways == Spec => [](DagIsCausallyComplete /\ CommittedIsAccepted)
  <1>1. IInv => DagIsCausallyComplete /\ CommittedIsAccepted
    BY Zenon DEF IInv
  <1>. QED  BY <1>1, IInvAlways, PTL

\* Between calls a block is suspended for exactly the ancestors that are
\* neither accepted nor garbage collected.
THEOREM SuspendedForAReasonAlways == Spec => []SuspendedForAReason
  <1>1. IInv => SuspendedForAReason
    <2>. SUFFICES ASSUME IInv, Idle, NEW c \in Suspended
                  PROVE  suspended_blocks[c] # {} /\ suspended_blocks[c] = MissingAncestorsOf(c)
      BY Zenon DEF SuspendedForAReason
    <2>1. /\ suspended_blocks[c] # {} /\ suspended_blocks[c] \subseteq Ancestors[c]
          /\ suspended_blocks[c] \subseteq Referenced
      BY Zenon DEF IInv, DualMaps, Suspended, Referenced
    <2>2. \A x \in Referenced : Round[x] > gc_round /\ x \notin dag
      BY Zenon DEF IInv, Idle
    <2>3. gc_round \in Nat /\ \A a \in Ancestors[c] : Round[a] \in Nat
      BY GcRoundAdvances, BlocksAssumption DEF IInv, TypeOK, gc_round
    <2>4. \A a \in Ancestors[c] : Round[a] > gc_round /\ a \notin dag => a \in suspended_blocks[c]
      BY <2>3 DEF IInv, AncestorsAccounted
    <2>. QED  BY Zenon, <2>1, <2>2, <2>4 DEF MissingAncestorsOf
  <1>. QED  BY <1>1, IInvAlways, PTL

\* Below every suspended block is one that the synchronizer is asked for: the
\* lowest suspended block of its history waits for one that is not suspended.
THEOREM SuspendedIsBeingFetchedAlways == Spec => []SuspendedIsBeingFetched
  <1>1. IInv => SuspendedIsBeingFetched
    <2>. SUFFICES ASSUME IInv, NEW c \in Suspended
                  PROVE  History[c] \cap missing_blocks # {}
      BY Zenon DEF SuspendedIsBeingFetched
    <2>1. c \in Blocks
      BY Zenon DEF IInv, TypeOK
    <2>. DEFINE S == History[c] \cap Suspended
    <2>2. S \in SUBSET Blocks /\ S # {}
      BY Zenon, <2>1, HistoryIsLeast
    <2>3. PICK d \in S : \A e \in S : Round[d] <= Round[e]
      BY Zenon, <2>2, LowestBlockExists
    <2>4. PICK y \in suspended_blocks[d] : y \in Referenced /\ y \in Ancestors[d]
      BY ZenonT(30), <2>3 DEF IInv, DualMaps, Suspended, Referenced
    <2>5. y \in History[c] /\ Round[y] < Round[d] /\ Round[y] \in Nat /\ Round[d] \in Nat
      BY Zenon, <2>1, <2>2, <2>4, HistoryIsLeast, BlocksAssumption
    <2>6. y \notin Suspended
      BY <2>3, <2>5
    <2>. QED  BY Zenon, <2>4, <2>5, <2>6 DEF IInv, MissingBlocksAreUnfetched
  <1>. QED  BY <1>1, IInvAlways, PTL
=============================================================================

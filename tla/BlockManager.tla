---------------------------- MODULE BlockManager ----------------------------
(***************************************************************************)
(* Suspension of blocks whose ancestors are missing                        *)
(* (consensus/core/src/block_manager.rs), as Core drives it.               *)
(*                                                                         *)
(* BlockManager belongs to the Core thread: each call below runs to its    *)
(* end before the next one. A batch of received blocks is handled one      *)
(* block at a time, and so is modelled as that many calls. The one call    *)
(* with a visible middle is the commit path: several certified commits may *)
(* be accepted, each moving the garbage-collection round, before the       *)
(* blocks suspended below that round are released.                         *)
(*                                                                         *)
(* The blocks that can exist are a constant DAG. Genesis blocks are always *)
(* in DagState, so they are left out of it.                                *)
(***************************************************************************)
EXTENDS Integers

CONSTANTS Blocks,      \* the references of all blocks ever produced
          Round,         \* the round of each
          Ancestors,     \* the ancestors of each, genesis blocks left out
          GcDepth        \* protocol_config.gc_depth

\* verify_block() only lets through blocks whose ancestors are of earlier rounds.
ASSUME BlocksAssumption ==
    /\ Round \in [Blocks -> Nat \ {0}]
    /\ Ancestors \in [Blocks -> SUBSET Blocks]
    /\ \A b \in Blocks : \A a \in Ancestors[b] : Round[a] < Round[b]
    /\ GcDepth \in Nat \ {0}

VARIABLES
    suspended_blocks,   \* block -> the ancestors it still misses
    missing_ancestors,  \* missing block -> the suspended blocks waiting for it
    missing_blocks,     \* the blocks to fetch
    dag,                \* DagState: the accepted blocks
    committed,          \* DagState: the committed ones
    last_commit_round,  \* DagState: the round of the last committed leader
    certified,          \* blocks of the certified commit being accepted
    leader,             \* its leader, a set of at most one block
    committing,         \* try_commit has committed, and not yet released blocks
    panicked            \* an assert! or expect() of the code has failed

manager == <<suspended_blocks, missing_ancestors, missing_blocks>>
commits == <<committed, last_commit_round, certified, leader, committing>>
vars == <<manager, dag, commits, panicked>>

-----------------------------------------------------------------------------

Suspended == DOMAIN suspended_blocks

Referenced == DOMAIN missing_ancestors

TypeOK ==
    /\ Suspended \subseteq Blocks
    /\ suspended_blocks \in [Suspended -> SUBSET Blocks]
    /\ Referenced \subseteq Blocks
    /\ missing_ancestors \in [Referenced -> SUBSET Blocks]
    /\ missing_blocks \subseteq Blocks
    /\ dag \subseteq Blocks
    /\ committed \subseteq Blocks
    /\ last_commit_round \in Nat
    /\ certified \subseteq Blocks
    /\ leader \subseteq Blocks
    /\ leader = {} <=> certified = {}
    /\ committing \in BOOLEAN
    /\ panicked \in BOOLEAN

NoBlocks == [b \in {} |-> {}]

Init ==
    /\ suspended_blocks = NoBlocks
    /\ missing_ancestors = NoBlocks
    /\ missing_blocks = {}
    /\ dag = {}
    /\ committed = {}
    /\ last_commit_round = 0
    /\ certified = {}
    /\ leader = {}
    /\ committing = FALSE
    /\ panicked = FALSE

calculate_gc_round(commit_round) ==
    IF commit_round > GcDepth THEN commit_round - GcDepth ELSE 0

gc_round == calculate_gc_round(last_commit_round)

-----------------------------------------------------------------------------
(* Releasing suspended blocks. "susp" and "miss" are the two maps, "avail"  *)
(* the blocks that no longer have to be waited for.                        *)

\* The dependencies of c among "gone" that the loop takes off c's list: it
\* finds c through missing_ancestors.
Resolved(miss, gone, c) == {x \in gone \cap DOMAIN miss : c \in miss[x]}

\* W holds every block whose last missing dependency is in avail or in W.
Closed(susp, miss, avail, W) ==
    \A c \in DOMAIN susp :
        LET resolved == Resolved(miss, avail \cup W, c)
        IN  resolved # {} /\ susp[c] \subseteq resolved => c \in W

\* The blocks the worklist of try_unsuspend_children_blocks ends up with: the
\* least closed set.
Unsuspended_children_only(susp, miss, avail) ==
    {c \in DOMAIN susp : /\ Resolved(miss, avail, c) # {}
                         /\ susp[c] \subseteq Resolved(miss, avail, c)}
Unsuspended(susp, miss, avail) ==
    LET closed == {W \in SUBSET DOMAIN susp : Closed(susp, miss, avail, W)}
    IN  {c \in DOMAIN susp : \A W \in closed : c \in W}

\* expect("Block should be in suspended map") and the assertion that the
\* dependency is on the block's list.
UnsuspendPanics(susp, miss, gone) ==
    \E x \in gone \cap DOMAIN miss :
        \E c \in miss[x] : c \notin DOMAIN susp \/ x \notin susp[c]

\* The maps once the worklist has run from avail and released "freed".
TryUnsuspendChildrenBlocks(susp, miss, avail, freed) ==
    /\ suspended_blocks' = [c \in DOMAIN susp \ freed |->
                               susp[c] \ Resolved(miss, avail \cup freed, c)]
    /\ missing_ancestors' = [x \in DOMAIN miss \ (avail \cup freed) |-> miss[x]]

\* Block b is accepted, and after it the blocks it releases.
AcceptWithChildren(b, susp, miss) ==
    \E freed \in {Unsuspended(susp, miss, {b})} :
        /\ TryUnsuspendChildrenBlocks(susp, miss, {b}, freed)
        /\ missing_blocks' = missing_blocks \ {b}
        /\ dag' = dag \cup {b} \cup freed
        /\ panicked' = UnsuspendPanics(susp, miss, {b} \cup freed)

-----------------------------------------------------------------------------
(* Calls from Core. *)

Idle == ~panicked /\ ~committing /\ certified = {}

\* The ancestors whose existence try_accept_one_block checks.
MissingAncestorsOf_off_by_one(b) == {a \in Ancestors[b] : Round[a] > gc_round + 1} \ dag
MissingAncestorsOf(b) == {a \in Ancestors[b] : Round[a] > gc_round} \ dag

\* try_accept_one_block returns before it changes anything.
AlreadyProcessed(b) == b \in Suspended \/ b \in dag \/ Round[b] <= gc_round

SuspendBlock(b) ==
    LET missing == MissingAncestorsOf(b)
    IN  /\ suspended_blocks' = [c \in Suspended \cup {b} |->
                                   IF c = b THEN missing ELSE suspended_blocks[c]]
        /\ missing_ancestors' = [x \in Referenced \cup missing |->
                                   (IF x \in Referenced THEN missing_ancestors[x] ELSE {})
                                     \cup (IF x \in missing THEN {b} ELSE {})]
        /\ missing_blocks' = (missing_blocks \cup (missing \ Suspended)) \ {b}
        /\ UNCHANGED <<dag, panicked>>

\* Core::add_blocks with block b: from a subscription, the synchronizer or a
\* certified commit's votes.
TryAcceptBlocks(b) ==
    /\ Idle
    /\ ~AlreadyProcessed(b)
    /\ \/ MissingAncestorsOf(b) # {} /\ SuspendBlock(b)
       \/ /\ MissingAncestorsOf(b) = {}
          /\ AcceptWithChildren(b, suspended_blocks, missing_ancestors)
    /\ UNCHANGED commits

-----------------------------------------------------------------------------
(* Commits. The blocks of a commit are the causal history of its leader,   *)
(* except what is committed already or garbage collected (linearizer.rs).  *)

\* The causal history of each block, itself included.
History ==
    [l \in Blocks |->
        {b \in Blocks : \A W \in SUBSET Blocks :
            l \in W /\ (\A x \in W : Ancestors[x] \subseteq W) => b \in W}]

NextLeader(l) == l \notin committed /\ Round[l] >= last_commit_round

SubDag(l) == {b \in History[l] \ committed : Round[b] > gc_round}

AddCommit(l) ==
    /\ committed' = committed \cup SubDag(l)
    /\ last_commit_round' = Round[l]
    /\ committing' = TRUE

\* The local decision rule commits a leader of the local DAG.
CommitLocally(l) ==
    /\ ~panicked
    /\ certified = {}
    /\ l \in dag
    /\ NextLeader(l)
    /\ AddCommit(l)
    /\ UNCHANGED <<manager, dag, certified, leader, panicked>>

\* The first, or the next, certified commit of a call to add_certified_commits.
StartCertifiedCommit(l) ==
    /\ ~panicked
    /\ certified = {}
    /\ NextLeader(l)
    /\ certified' = SubDag(l)
    /\ leader' = {l}
    /\ UNCHANGED <<manager, dag, committed, last_commit_round, committing, panicked>>

\* The two maps once a committed block is no longer suspended itself.
WithoutSuspended(b) == [c \in Suspended \ {b} |-> suspended_blocks[c]]
WithoutReferences_kept(b) == missing_ancestors
WithoutReferences(b) ==
    [x \in Referenced |->
        IF b \in Suspended /\ x \in suspended_blocks[b]
        THEN missing_ancestors[x] \ {b} ELSE missing_ancestors[x]]

\* try_accept_one_committed_block, in round order: the block is accepted
\* whatever it misses. The commit is added once its last block is accepted.
TryAcceptOneCommittedBlock(b) ==
    /\ ~panicked
    /\ b \in certified
    /\ \A c \in certified : Round[b] <= Round[c]
    /\ IF b \in dag
       THEN UNCHANGED <<manager, dag, panicked>>
       ELSE AcceptWithChildren(b, WithoutSuspended(b), WithoutReferences(b))
    /\ certified' = certified \ {b}
    /\ IF certified = {b}
       THEN (\E l \in leader : AddCommit(l)) /\ leader' = {}
       ELSE UNCHANGED <<committed, last_commit_round, committing, leader>>

\* try_unsuspend_blocks_for_latest_gc_round: entries at or below the round are
\* dropped lowest first, and what waited for them is released. An entry that
\* is itself suspended when it is reached fails the assertion.
ReleasesGc_strict(x) == Round[x] < gc_round
ReleasesGc(x) == Round[x] <= gc_round

TryUnsuspendBlocksForLatestGcRound ==
    /\ ~panicked
    /\ certified = {}
    /\ committing
    /\ \E collected \in {{x \in Referenced \ Suspended : ReleasesGc(x)}} :
       \E freed \in {Unsuspended(suspended_blocks, missing_ancestors, collected)} :
           /\ TryUnsuspendChildrenBlocks(suspended_blocks, missing_ancestors, collected, freed)
           /\ missing_blocks' = missing_blocks \ collected
           /\ dag' = dag \cup freed
           /\ panicked' = \/ UnsuspendPanics(suspended_blocks, missing_ancestors,
                                              collected \cup freed)
                          \/ \E x \in Referenced \cap Suspended :
                                 ReleasesGc(x) /\ x \notin freed
    /\ committing' = FALSE
    /\ UNCHANGED <<committed, last_commit_round, certified, leader>>

\* Core::check_block_refs: refs learnt from a peer's excluded ancestors.
TryFindBlocks(b) ==
    /\ Idle
    /\ Round[b] > gc_round
    /\ b \notin dag \cup Suspended \cup missing_blocks
    /\ missing_blocks' = missing_blocks \cup {b}
    /\ missing_ancestors' = [x \in Referenced \cup {b} |->
                               IF x \in Referenced THEN missing_ancestors[x] ELSE {}]
    /\ UNCHANGED <<suspended_blocks, dag, commits, panicked>>

Next ==
    \/ \E b \in Blocks : TryAcceptBlocks(b)
    \/ \E b \in Blocks : TryFindBlocks(b)
    \/ \E l \in Blocks : CommitLocally(l)
    \/ \E l \in Blocks : StartCertifiedCommit(l)
    \/ \E b \in certified : TryAcceptOneCommittedBlock(b)
    \/ TryUnsuspendBlocksForLatestGcRound

Spec == Init /\ [][Next]_vars

\* As long as blocks are missing the synchronizer fetches one of them, and a
\* call of Core runs to its end.
ReceiveMissingBlock == \E b \in missing_blocks : TryAcceptBlocks(b)

Fairness ==
    /\ WF_vars(ReceiveMissingBlock)
    /\ WF_vars(\E b \in certified : TryAcceptOneCommittedBlock(b))
    /\ WF_vars(TryUnsuspendBlocksForLatestGcRound)

FairSpec == Spec /\ Fairness

-----------------------------------------------------------------------------
(* Properties. *)

\* No expect() or assert! of the block manager fails: a block found through
\* missing_ancestors is always suspended and lists the dependency, whichever
\* mixture of received, committed and garbage-collected blocks led there.
NeverPanics == ~panicked

\* What the comment on missing_blocks says: the keys of missing_ancestors
\* without those of suspended_blocks. Nothing is fetched that is already here,
\* and nothing a suspended block waits for is forgotten.
MissingBlocksAreUnfetched == missing_blocks = Referenced \ Suspended

\* An accepted block has its ancestors accepted or garbage collected, which
\* DagState relies on when it looks up a parent.
DagIsCausallyComplete ==
    \A b \in dag : \A a \in Ancestors[b] : a \in dag \/ Round[a] <= gc_round

\* Every block of a commit is accepted when the commit is added, as the
\* expect() of the linearizer's traversal assumes.
CommittedIsAccepted == committed \subseteq dag

\* Between calls a block is suspended exactly because of the ancestors that
\* are neither accepted nor garbage collected, and there is one.
SuspendedForAReason ==
    Idle => \A c \in Suspended :
                /\ suspended_blocks[c] # {}
                /\ suspended_blocks[c] = MissingAncestorsOf(c)

\* A suspended block is not stuck: below it in the DAG is a block that the
\* synchronizer is asked for.
SuspendedIsBeingFetched ==
    \A c \in Suspended : History[c] \cap missing_blocks # {}

\* When every missing block is eventually delivered, every suspended block is
\* accepted, also when its ancestors are garbage collected first.
SuspendedIsAccepted == \A c \in Blocks : c \in Suspended ~> c \in dag
=============================================================================

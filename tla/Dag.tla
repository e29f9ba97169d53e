-------------------------------- MODULE Dag ---------------------------------
(***************************************************************************)
(* The DAG of blocks and the sequence of commits that DagState keeps, which *)
(* the commit rules of consensus v2 and v3 share.                          *)
(*                                                                         *)
(* The DAG is a constant: all the blocks ever produced, some by Byzantine  *)
(* authorities, which may fill a slot with several blocks. What differs    *)
(* between validators is the part of it they have accepted so far.         *)
(*                                                                         *)
(* A commit has a round, the leaders of that round and the blocks that it  *)
(* adds to the committed ones. In consensus v2 it has a single leader.     *)
(***************************************************************************)
EXTENDS Committee, Sequences

CONSTANTS
    committee,      \* the thresholds of the epoch's committee
    Byzantine,      \* the authorities that do not follow the protocol
    Blocks,         \* all blocks ever produced, genesis blocks left out
    Round, Author,  \* the round and the author of each
    Ancestors,      \* the blocks that each refers to, genesis blocks left out
    Past,           \* each block with all the blocks it refers to, transitively
    GcDepth         \* protocol_config.gc_depth

Rounds == {Round[b] : b \in Blocks}

Authors(S) == {Author[b] : b \in S}

ReachesQuorum(S) == Stake[Authors(S)] >= committee.quorum

\* Blocks that BlockVerifier::verify_block lets through: ancestors of earlier
\* rounds, at most one of each author, a quorum of them in the round before.
VerifiedBlock(b) ==
    /\ \A a \in Ancestors[b] : Round[a] < Round[b]
    /\ \A a1, a2 \in Ancestors[b] : Author[a1] = Author[a2] => a1 = a2
    /\ Round[b] > 1 =>
           ReachesQuorum({a \in Ancestors[b] : Round[a] = Round[b] - 1})

\* What the constructors of Committee assert of the thresholds of every
\* committee, and the fault assumption of the protocol.
ASSUME CommitteeAssumption ==
    /\ committee.total = Stake[Authorities]
    /\ committee.f \in Nat
    /\ committee.quorum \in Nat
    /\ committee.certification \in Nat
    /\ QuorumsShareHonestStake(committee)
    /\ ThresholdsArePositive(committee)
    /\ Byzantine \subseteq Authorities
    /\ Stake[Byzantine] <= committee.f

\* An authority that follows the protocol proposes once in a round.
ASSUME DagAssumption ==
    /\ Round \in [Blocks -> Nat \ {0}]
    /\ Author \in [Blocks -> Authorities]
    /\ Ancestors \in [Blocks -> SUBSET Blocks]
    /\ \A b \in Blocks : VerifiedBlock(b)
    /\ \A b1, b2 \in Blocks :
           Round[b1] = Round[b2] /\ Author[b1] = Author[b2] /\ Author[b1] \notin Byzantine
           => b1 = b2
    /\ Past \in [Blocks -> SUBSET Blocks]
    /\ \A b \in Blocks : Past[b] = {b} \cup UNION {Past[a] : a \in Ancestors[b]}
    /\ \A b \in Blocks : \A x \in Past[b] : Ancestors[x] \subseteq Past[b]

ASSUME GcAssumption == GcDepth \in Nat \ {0}

-----------------------------------------------------------------------------
(* A sequence cs of commits, and a set D of accepted blocks.                *)

Commits == [round : Rounds, leaders : SUBSET Blocks, blocks : SUBSET Blocks]

Committed(cs) == UNION {cs[i].blocks : i \in DOMAIN cs}

last_commit_round(cs) == IF cs = <<>> THEN 0 ELSE cs[Len(cs)].round

calculate_gc_round(commit_round) ==
    IF commit_round > GcDepth THEN commit_round - GcDepth ELSE 0

gc_round(cs) == calculate_gc_round(last_commit_round(cs))

BlocksAt(D, slot) == {b \in D : Round[b] = slot[1] /\ Author[b] = slot[2]}

\* A block is accepted when it is above the gc round and its ancestors above
\* the gc round have been accepted.
Acceptable(b, D, cs) ==
    /\ b \notin D
    /\ Round[b] > gc_round(cs)
    /\ \A a \in Ancestors[b] : Round[a] > gc_round(cs) => a \in D

\* The blocks that the traversal from the leaders commits. It stops at
\* committed blocks, whose history above the gc round is committed as well.
SubDag_off_by_one(leaders, cs) ==
    {x \in UNION {Past[b] : b \in leaders} : Round[x] >= gc_round(cs)} \ Committed(cs)
SubDag_parents(leaders, cs) ==
    {x \in leaders \cup UNION {Ancestors[b] : b \in leaders} : Round[x] > gc_round(cs)}
    \ Committed(cs)
SubDag(leaders, cs) ==
    {x \in UNION {Past[b] : b \in leaders} : Round[x] > gc_round(cs)} \ Committed(cs)

-----------------------------------------------------------------------------
(* What the commits of every validator have in common, in both versions.    *)

\* A block of commit i refers to nothing above the gc round that is committed
\* later than it: history is committed first or together.
InCausalOrder(cs) ==
    \A i \in DOMAIN cs :
        LET before == gc_round(SubSeq(cs, 1, i - 1))
            committed == Committed(SubSeq(cs, 1, i))
        IN  \A b \in cs[i].blocks : \A x \in Past[b] : Round[x] > before => x \in committed

\* Sequences of commits that are the same as far as both go.
Agree(S) ==
    \A cs, ds \in S : \A i \in DOMAIN cs \cap DOMAIN ds : cs[i] = ds[i]

\* The entries of the log that sequences of commits make up.
EntriesOf(S) == UNION {{<<i, cs[i]>> : i \in DOMAIN cs} : cs \in S}

NothingTwice(cs) ==
    \A i, j \in DOMAIN cs : i # j => cs[i].blocks \cap cs[j].blocks = {}
=============================================================================

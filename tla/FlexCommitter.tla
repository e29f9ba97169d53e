--------------------------- MODULE FlexCommitter ----------------------------
(***************************************************************************)
(* The commit rule of consensus v3 (flex_committer.rs and                  *)
(* leader_slot_decider.rs), run by several validators that receive the     *)
(* blocks of one DAG in different orders, stop and restart.                *)
(*                                                                         *)
(* Each validator's Core is one thread. After blocks or certified commits  *)
(* it runs the loop of try_commit_v3 to its end; "phase" is its place in   *)
(* it. Storage is written by other threads too, and so at any time.        *)
(***************************************************************************)
EXTENDS Dag

CONSTANTS
    Validators,     \* the validators whose Core is modelled
    Schedules,      \* the leader schedules there may be
    Allowed,        \* the authorities each schedule allows to lead
    Rank,           \* their order in each round, by the seeded shuffle
    ScheduleAfter,  \* the schedule that follows from all the leaders committed
    MaxCrashes,     \* bound on the restarts of a behaviour
    Skip, Undecided \* the statuses of a slot that are not a committed block

Slots == Rounds \X Authorities

\* What Committee::new_v3 asserts on top of that.
ASSUME CertificationAssumption ==
    /\ CertificateMeetsQuorum(committee)
    /\ CertificateSurvivesQuorum(committee)

\* A schedule ranks the leaders of a round differently from each other.
ASSUME ScheduleAssumption ==
    /\ Allowed \in [Schedules -> SUBSET Authorities]
    /\ Rank \in [Schedules -> [Slots -> Nat]]
    /\ \A s \in Schedules : \A r \in Rounds : \A a1, a2 \in Authorities :
           Rank[s][<<r, a1>>] = Rank[s][<<r, a2>>] => a1 = a2
    /\ ScheduleAfter \in [SUBSET Blocks -> Schedules]

ASSUME ConfigAssumption ==
    /\ MaxCrashes \in Nat
    /\ Skip \notin Blocks
    /\ Undecided \notin Blocks
    /\ Skip # Undecided

VARIABLES
    dag,        \* DagState of each validator: the blocks it accepted
    commits,    \* DagState: its commits
    status,     \* PendingCommitState: the status of each leader slot
    phase,      \* where its Core is in try_commit_v3
    cursor,     \* the round that try_indirect_commit looks at
    flushed,    \* its storage: what of dag and commits has been written
    crashes,    \* how many restarts there were
    decisions,  \* every <<schedule, slot, status>> ever decided, by any of them
    produced,   \* every sequence of commits there ever was, of any of them
    panicked    \* an assert! or unwrap() of the code has failed

core == <<dag, commits, status, phase, cursor>>
vars == <<core, flushed, crashes, decisions, produced, panicked>>

-----------------------------------------------------------------------------
(* What follows from a sequence of commits.                                 *)

min_next_leader_round(cs) == last_commit_round(cs) + 1

\* LeaderScheduleV3 computes scores from the commits alone. Leader rounds grow
\* from commit to commit, so all their leaders determine the commits.
schedule(cs) == ScheduleAfter[UNION {cs[i].leaders : i \in DOMAIN cs}]

SlotsOf(s) == Rounds \X Allowed[s]

LeaderSlots(cs) == SlotsOf(schedule(cs))

\* The order of leader slots under schedule s.
Earlier(s, slot1, slot2) ==
    \/ slot1[1] < slot2[1]
    \/ slot1[1] = slot2[1] /\ Rank[s][slot1] < Rank[s][slot2]

-----------------------------------------------------------------------------
(* LeaderSlotDecider, on a set D of accepted blocks.                        *)

VotingBlocks(D, slot) == {b \in D : Round[b] = slot[1] + 1}

Voting(V, b) == {x \in V : b \in Ancestors[x]}

ReachesCertification(S) == Stake[Authors(S)] >= committee.certification

DirectlyCommitted(D, slot) ==
    {b \in BlocksAt(D, slot) : ReachesQuorum(Voting(VotingBlocks(D, slot), b))}

DirectlySkipped(D, slot) ==
    LET V == VotingBlocks(D, slot)
    IN  {b \in BlocksAt(D, slot) : ReachesQuorum(V \ Voting(V, b))}

try_direct_decide(D, slot) ==
    IF ~ReachesQuorum(VotingBlocks(D, slot)) THEN Undecided
    ELSE IF DirectlyCommitted(D, slot) # {} THEN CHOOSE b \in DirectlyCommitted(D, slot) : TRUE
    ELSE IF BlocksAt(D, slot) \subseteq DirectlySkipped(D, slot) THEN Skip
    ELSE Undecided

\* "Block cannot be both committed and skipped".
DirectPanics(D, slot) ==
    /\ ReachesQuorum(VotingBlocks(D, slot))
    /\ DirectlyCommitted(D, slot) \cap DirectlySkipped(D, slot) # {}

\* The blocks the walk from the anchor visits above the slot's round.
Visited_off_by_one(anchor, slot) == {x \in Past[anchor] : Round[x] > slot[1] + 1}
Visited(anchor, slot) == {x \in Past[anchor] : Round[x] > slot[1]}

Certified(D, anchor, slot) ==
    LET V == {x \in Visited(anchor, slot) : Round[x] = slot[1] + 1}
    IN  {b \in BlocksAt(D, slot) : ReachesCertification(Voting(V, b))}

try_indirect_decide(D, anchor, slot) ==
    IF \E b \in Certified(D, anchor, slot) : Certified(D, anchor, slot) = {b}
    THEN CHOOSE b \in Certified(D, anchor, slot) : TRUE
    ELSE Skip

-----------------------------------------------------------------------------
(* FlexCommitter.                                                           *)

NothingDecided == [slot \in Slots |-> Undecided]

\* The pending state once the commits have become cs: a new schedule resets it,
\* otherwise the rounds up to the new commit are dropped.
maybe_refresh_pending_commit_state(st, old, cs) ==
    IF schedule(cs) # schedule(old) THEN NothingDecided
    ELSE [slot \in Slots |-> IF slot[1] < min_next_leader_round(cs) THEN Undecided
                             ELSE st[slot]]

\* update_slot_decision for all slots of S, where outcome is the outcome of each.
\* Slots that are decided already keep their decision.
Updated(v, S, outcome) ==
    /\ status' = [status EXCEPT ![v] =
           [slot \in Slots |-> IF slot \in S /\ @[slot] = Undecided THEN outcome[slot]
                               ELSE @[slot]]]
    /\ decisions' = decisions \cup
           {<<schedule(commits[v]), slot, outcome[slot]>> :
               slot \in {x \in S : status[v][x] = Undecided /\ outcome[x] # Undecided}}

\* try_direct_commit: every undecided leader slot that has a round above it.
TryDirectCommit(v) ==
    LET S == {slot \in LeaderSlots(commits[v]) :
                 /\ slot[1] >= min_next_leader_round(commits[v])
                 /\ \E b \in dag[v] : slot[1] < Round[b]
                 /\ status[v][slot] = Undecided}
        outcome == [slot \in S |-> try_direct_decide(dag[v], slot)]
    IN  /\ phase[v] \in {"added", "direct", "certified"}
        /\ Updated(v, S, outcome)
        /\ panicked' = (panicked \/ \E slot \in S : DirectPanics(dag[v], slot))
        /\ phase' = [phase EXCEPT ![v] = "find after direct"]
        /\ UNCHANGED <<dag, commits, cursor, flushed, crashes, produced>>

\* add_commit, then the refresh that the next call of the committer does.  (The
\* code compares the schedules once per call: certified commits handed over
\* together that change the schedule and change it back keep decisions which are
\* dropped here, and made again under the same schedule.)
PostCommit(v, commit) ==
    LET cs == Append(commits[v], commit)
    IN  /\ commits' = [commits EXCEPT ![v] = cs]
        /\ produced' = produced \cup {cs}
        /\ status' = [status EXCEPT ![v] =
                         maybe_refresh_pending_commit_state(@, commits[v], cs)]

\* The round that find_commit_leader_round returns.
CommitLeaderRound(v, r) ==
    /\ r >= min_next_leader_round(commits[v])
    /\ \A slot \in LeaderSlots(commits[v]) :
           /\ slot[1] \in min_next_leader_round(commits[v]) .. r - 1 => status[v][slot] = Skip
           /\ slot[1] = r => status[v][slot] # Undecided
    /\ \E slot \in LeaderSlots(commits[v]) : slot[1] = r /\ status[v][slot] \in Blocks

\* build_commit and post_commit; the loop of try_commit_v3 starts again.
BuildCommit(v) ==
    \E r \in Rounds :
        LET leaders == {b \in Blocks : \E slot \in LeaderSlots(commits[v]) :
                                          slot[1] = r /\ status[v][slot] = b}
            blocks == SubDag(leaders, commits[v])
        IN  /\ phase[v] \in {"find after direct", "find after indirect"}
            /\ CommitLeaderRound(v, r)
            /\ PostCommit(v, [round |-> r, leaders |-> leaders, blocks |-> blocks])
            /\ panicked' = (panicked \/ r <= gc_round(commits[v])
                                     \/ leaders \cap Committed(commits[v]) # {}
                                     \/ ~(blocks \subseteq dag[v]))
            /\ phase' = [phase EXCEPT ![v] = "direct"]
            /\ UNCHANGED <<dag, cursor, flushed, crashes, decisions>>

NothingToCommit(v) == ~\E r \in Rounds : CommitLeaderRound(v, r)

\* try_indirect_commit goes through the rounds that have an anchor two rounds
\* above them, from the highest one down.
StartIndirectCommit(v) ==
    /\ phase[v] = "find after direct"
    /\ NothingToCommit(v)
    /\ phase' = [phase EXCEPT ![v] = "indirect"]
    /\ \E highest \in {0} \cup Rounds :
           /\ \A b \in dag[v] : Round[b] <= highest
           /\ highest = 0 \/ \E b \in dag[v] : Round[b] = highest
           /\ cursor' = [cursor EXCEPT ![v] = highest - 2]
    /\ UNCHANGED <<dag, commits, status, flushed, crashes, decisions, produced, panicked>>

\* The slot of the block that find_anchor_block returns for slots of round r:
\* the first one that is not skipped, if it is committed.
AnchorSlot_any(v, r, slot) ==
    /\ slot \in LeaderSlots(commits[v])
    /\ slot[1] >= r + 2
    /\ status[v][slot] \in Blocks
AnchorSlot(v, r, slot) ==
    /\ slot \in LeaderSlots(commits[v])
    /\ slot[1] >= r + 2
    /\ status[v][slot] \in Blocks
    /\ \A other \in LeaderSlots(commits[v]) :
           other[1] >= r + 2 /\ Earlier(schedule(commits[v]), other, slot)
           => status[v][other] = Skip

\* decide_with_anchor_block: slots decided before are evaluated again, and must
\* come out the same.
DecideWithAnchorBlock(v, anchor, S) ==
    LET outcome == [slot \in S |-> try_indirect_decide(dag[v], anchor, slot)]
    IN  /\ Updated(v, S, outcome)
        /\ panicked' = (panicked \/ \E slot \in S :
               \/ status[v][slot] \notin {Undecided, outcome[slot]}
               \/ ~(Visited(anchor, slot) \subseteq dag[v]))

TryIndirectCommit(v) ==
    LET r == cursor[v]
        S == {slot \in LeaderSlots(commits[v]) : slot[1] = r}
    IN  /\ phase[v] = "indirect"
        /\ r >= min_next_leader_round(commits[v])
        /\ cursor' = [cursor EXCEPT ![v] = r - 1]
        /\ \/ /\ \E slot \in S : status[v][slot] = Undecided
              /\ \E slot \in Slots :
                     /\ AnchorSlot(v, r, slot)
                     /\ DecideWithAnchorBlock(v, status[v][slot], S)
           \/ /\ \/ \A slot \in S : status[v][slot] # Undecided
                 \/ ~\E slot \in Slots : AnchorSlot(v, r, slot)
              /\ UNCHANGED <<status, decisions, panicked>>
        /\ UNCHANGED <<dag, commits, phase, flushed, crashes, produced>>

EndIndirectCommit(v) ==
    /\ phase[v] = "indirect"
    /\ cursor[v] < min_next_leader_round(commits[v])
    /\ phase' = [phase EXCEPT ![v] = "find after indirect"]
    /\ cursor' = [cursor EXCEPT ![v] = 0]
    /\ UNCHANGED <<dag, commits, status, flushed, crashes, decisions, produced, panicked>>

EndTryCommit(v) ==
    /\ phase[v] = "find after indirect"
    /\ NothingToCommit(v)
    /\ phase' = [phase EXCEPT ![v] = "idle"]
    /\ UNCHANGED <<dag, commits, status, cursor, flushed, crashes, decisions, produced, panicked>>

-----------------------------------------------------------------------------
(* Core, DagState and the restart of a validator.                           *)

\* BlockManager accepts a block, alone, with others, or when a commit has moved
\* the gc round past the ancestors that it waited for.
AddBlock_new_round_only(v) ==
    /\ phase[v] \in {"idle", "added", "certified", "direct"}
    /\ \E b \in Blocks :
           /\ Acceptable(b, dag[v], commits[v])
           /\ dag' = [dag EXCEPT ![v] = @ \cup {b}]
           /\ phase' = [phase EXCEPT ![v] =
                  IF @ = "idle" /\ \A x \in dag[v] : Round[x] < Round[b] THEN "added" ELSE @]
    /\ UNCHANGED <<commits, status, cursor, flushed, crashes, decisions, produced, panicked>>
AddBlock(v) ==
    /\ phase[v] \in {"idle", "added", "certified", "direct"}
    /\ \E b \in Blocks :
           /\ Acceptable(b, dag[v], commits[v])
           /\ dag' = [dag EXCEPT ![v] = @ \cup {b}]
    /\ phase' = [phase EXCEPT ![v] = IF @ = "idle" THEN "added" ELSE @]
    /\ UNCHANGED <<commits, status, cursor, flushed, crashes, decisions, produced, panicked>>

\* A certified commit, which a peer has made: its blocks are accepted as they
\* are and the commit is added without a decision of this validator. Storage may
\* be written in between. The commit has to chain onto the last one, and none of
\* its blocks may be committed yet.
AddCertifiedCommit(v) ==
    \E cs \in produced :
        LET commit == cs[Len(commits[v]) + 1]
            accepted == dag[v] \cup commit.blocks
        IN  /\ phase[v] \in {"idle", "added", "certified"}
            /\ Len(cs) > Len(commits[v])
            /\ dag' = [dag EXCEPT ![v] = accepted]
            /\ \/ flushed' = flushed
               \/ /\ crashes < MaxCrashes
                  /\ flushed' = [flushed EXCEPT ![v] = [dag |-> accepted, commits |-> commits[v]]]
            /\ PostCommit(v, commit)
            /\ panicked' = (panicked \/ SubSeq(cs, 1, Len(commits[v])) # commits[v]
                                     \/ commit.blocks \cap Committed(commits[v]) # {})
            /\ phase' = [phase EXCEPT ![v] = "certified"]
            /\ UNCHANGED <<cursor, crashes, decisions>>

\* DagState::flush writes blocks and commits in one batch.
Flush(v) ==
    /\ crashes < MaxCrashes
    /\ flushed' = [flushed EXCEPT ![v] = [dag |-> dag[v], commits |-> commits[v]]]
    /\ UNCHANGED <<core, crashes, decisions, produced, panicked>>

\* The validator stops and starts again from its storage. The pending state is
\* not stored. Core::recover runs try_commit.
Restart(v) ==
    /\ crashes < MaxCrashes
    /\ crashes' = crashes + 1
    /\ dag' = [dag EXCEPT ![v] = flushed[v].dag]
    /\ commits' = [commits EXCEPT ![v] = flushed[v].commits]
    /\ status' = [status EXCEPT ![v] = NothingDecided]
    /\ phase' = [phase EXCEPT ![v] = "direct"]
    /\ cursor' = [cursor EXCEPT ![v] = 0]
    /\ UNCHANGED <<flushed, decisions, produced, panicked>>

Init ==
    /\ dag = [v \in Validators |-> {}]
    /\ commits = [v \in Validators |-> <<>>]
    /\ status = [v \in Validators |-> NothingDecided]
    /\ phase = [v \in Validators |-> "idle"]
    /\ cursor = [v \in Validators |-> 0]
    /\ flushed = [v \in Validators |-> [dag |-> {}, commits |-> <<>>]]
    /\ crashes = 0
    /\ decisions = {}
    /\ produced = {}
    /\ panicked = FALSE

TryCommit(v) ==
    \/ TryDirectCommit(v)
    \/ BuildCommit(v)
    \/ StartIndirectCommit(v)
    \/ TryIndirectCommit(v)
    \/ EndIndirectCommit(v)
    \/ EndTryCommit(v)

Next ==
    \E v \in Validators :
        \/ AddBlock(v)
        \/ AddCertifiedCommit(v)
        \/ TryCommit(v)
        \/ Flush(v)
        \/ Restart(v)

Spec == Init /\ [][Next]_vars

\* The network delivers every block in the end, and a Core that has something
\* to do goes on. The deliveries of one block are one action.
FairSpec ==
    /\ Spec
    /\ \A v \in Validators : WF_vars(TryCommit(v)) /\ WF_vars(AddBlock(v))

-----------------------------------------------------------------------------

Phases == {"idle", "added", "direct", "certified", "find after direct", "indirect", "find after indirect"}

TypeOK ==
    /\ dag \in [Validators -> SUBSET Blocks]
    /\ commits \in [Validators -> Seq(Commits)]
    /\ status \in [Validators -> [Slots -> Blocks \cup {Skip, Undecided}]]
    /\ phase \in [Validators -> Phases]
    /\ cursor \in [Validators -> Int]
    /\ flushed \in [Validators -> [dag : SUBSET Blocks, commits : Seq(Commits)]]
    /\ crashes \in Nat
    /\ decisions \subseteq Schedules \X Slots \X (Blocks \cup {Skip})
    /\ produced \subseteq Seq(Commits)
    /\ panicked \in BOOLEAN

\* No assertion of the committer fails: no block is both committed and skipped,
\* the indirect rule never contradicts a decision of the direct rule, no block
\* is committed twice, and the blocks it walks through are there.
NeverPanics == ~panicked

\* Validators never decide a leader slot differently, whichever of the two
\* rules each of them uses, whatever blocks each has seen, and also across
\* restarts (find_anchor_block: "Every validator will select the same anchor
\* block").
DecisionsAgree ==
    \A d1, d2 \in decisions : d1[1] = d2[1] /\ d1[2] = d2[2] => d1[3] = d2[3]

\* No two validators ever have different commits of the same index: the leaders,
\* their rounds and all the blocks are the same, also when one of them lost its
\* commit in a restart and makes it again.
CommitsAgree == Agree(produced)

\* A committed block never follows a block that refers to it, directly or not,
\* unless it was below the gc round: history is committed first or together.
CommittedInCausalOrder == \A v \in Validators : InCausalOrder(commits[v])

\* No block is in two commits of a validator.
CommittedOnce == \A v \in Validators : NothingTwice(commits[v])

\* Every commit that was ever made is made, or fetched, by every validator in the
\* end: nobody has to fetch a commit for it, the blocks are enough.
CommitsConverge ==
    <>[](\A v \in Validators : \A cs \in produced :
            Len(cs) <= Len(commits[v]) /\ cs = SubSeq(commits[v], 1, Len(cs)))

Log == INSTANCE CommitLog WITH log <- EntriesOf(produced), copies <- commits

\* The validators hold copies of the beginning of one log: a commit that anyone
\* ever made of an index is the one that everyone makes, or fetches, of that
\* index, and a restart cuts a copy back without changing it.
ImplementsCommitLog == Log!LogSpec
=============================================================================

------------------------- MODULE UniversalCommitter -------------------------
(***************************************************************************)
(* The commit rule of consensus v2 (universal_committer.rs and             *)
(* base_committer.rs) with Core::try_commit, the linearizer and the leader *)
(* schedule, run by several validators that receive the blocks of one DAG  *)
(* in different orders, stop and restart.                                  *)
(*                                                                         *)
(* A round has one leader. The pipelined committers between them take      *)
(* every round r as a leader round, with votes in round r + 1 and          *)
(* certificates in round r + 2. Each validator's Core is one thread,       *)
(* "phase" is its place in try_commit; storage is written at any time.     *)
(***************************************************************************)
EXTENDS Dag, FiniteSets

CONSTANTS
    Genesis,         \* the authorities whose genesis block each block refers to
    Validators,      \* the validators whose Core is modelled
    Schedules,       \* the leader swap tables there may be
    Leader,          \* the leader of each round under each of them
    ScheduleAfter,   \* the table that follows from the leaders scored
    num_commits_per_schedule,
    MaxCrashes,      \* bound on the restarts of a behaviour
    Skip, Undecided  \* the statuses of a leader that are not a block to commit

\* The first ancestor of a block is of its own author.
ASSUME GenesisAssumption ==
    /\ Genesis \in [Blocks -> SUBSET Authorities]
    /\ \A b \in Blocks : Author[b] \in Authors(Ancestors[b]) \cup Genesis[b]

ASSUME ScheduleAssumption ==
    /\ Leader \in [Schedules -> [Rounds -> Authorities]]
    /\ ScheduleAfter \in [SUBSET Blocks -> Schedules]
    /\ num_commits_per_schedule \in Nat \ {0}

ASSUME ConfigAssumption ==
    /\ MaxCrashes \in Nat
    /\ Skip \notin Blocks
    /\ Undecided \notin Blocks
    /\ Skip # Undecided

VARIABLES
    dag,          \* DagState of each validator: the blocks it accepted
    commits,      \* DagState: its commits
    scored,       \* DagState: how many of them the leader schedule takes in
    last_decided, \* Core: the round of last_decided_leader
    status,       \* try_decide: the status of the leader of each round
    phase,        \* where its Core is in try_commit
    cursor,       \* the round that try_decide looks at
    flushed,      \* its storage: what of dag, commits and scored is written
    crashes,      \* how many restarts there were
    decisions,    \* every <<schedule, round, status>> ever decided, by any of them
    produced,     \* every sequence of commits there ever was, of any of them
    panicked      \* an assert!, panic! or expect() of the code has failed

core == <<dag, commits, scored, last_decided, status, phase, cursor>>
vars == <<core, flushed, crashes, decisions, produced, panicked>>

-----------------------------------------------------------------------------
(* LeaderSchedule.                                                          *)

\* Rounds grow from commit to commit, so their leaders determine the commits.
ScheduleOf(cs) == ScheduleAfter[UNION {cs[i].leaders : i \in DOMAIN cs}]

leader_swap_table(v) == ScheduleOf(SubSeq(commits[v], 1, scored[v]))

elect_leader(v, r) == <<r, Leader[leader_swap_table(v)][r]>>

scoring_subdags_count(v) == Len(commits[v]) - scored[v]

commits_until_leader_schedule_update(v) ==
    num_commits_per_schedule - scoring_subdags_count(v)

-----------------------------------------------------------------------------
(* BaseCommitter, on a set D of accepted blocks.                            *)

At(D, r) == {x \in D : Round[x] = r}

\* Voters that refer to no block of the leader at all, of whatever round.
enough_leader_blame(D, slot) ==
    ReachesQuorum({x \in At(D, slot[1] + 1) :
                      slot[2] \notin Authors(Ancestors[x]) \cup Genesis[x]})

\* A block of the round after b's supports b if it refers to it directly:
\* find_supported_block goes no deeper from there.
is_vote(x, b) == Round[x] = Round[b] + 1 /\ b \in Ancestors[x]

is_certificate(x, b) == ReachesQuorum({y \in Ancestors[x] : is_vote(y, b)})

enough_leader_support_votes(D, b) == ReachesQuorum({x \in At(D, Round[b] + 1) : is_vote(x, b)})
enough_leader_support(D, b) ==
    ReachesQuorum({x \in At(D, Round[b] + 2) : is_certificate(x, b)})

Supported(D, slot) == {b \in BlocksAt(D, slot) : enough_leader_support(D, b)}

\* Blame comes first: a leader with both would be skipped.
try_direct_decide(D, slot) ==
    IF enough_leader_blame(D, slot) THEN Skip
    ELSE IF Supported(D, slot) # {} THEN CHOOSE b \in Supported(D, slot) : TRUE
    ELSE Undecided

ancestors_at_round(x, r) == At(Past[x], r)

CertifiedLeaders(D, anchor, slot) ==
    {b \in BlocksAt(D, slot) :
        \E x \in ancestors_at_round(anchor, slot[1] + 2) : is_certificate(x, b)}

decide_leader_from_anchor(D, anchor, slot) ==
    IF CertifiedLeaders(D, anchor, slot) = {} THEN Skip
    ELSE CHOOSE b \in CertifiedLeaders(D, anchor, slot) : TRUE

\* A block that is not found in storage, among the ancestors of S.
MissingAncestors(v, S) ==
    \E x \in S : \E a \in Ancestors[x] : Round[a] > gc_round(commits[v]) /\ a \notin dag[v]

\* "Round have committed blocks" and "More than one candidate".
DirectPanics(v, slot) ==
    \/ slot[1] < last_commit_round(commits[v])
    \/ MissingAncestors(v, At(dag[v], slot[1] + 2))
    \/ \E b1, b2 \in Supported(dag[v], slot) : b1 # b2

\* "Block should exist in DAG" and "More than one certified leader".
IndirectPanics(v, anchor, slot) ==
    \/ ~({x \in Past[anchor] : Round[x] >= slot[1] + 2} \subseteq dag[v])
    \/ MissingAncestors(v, ancestors_at_round(anchor, slot[1] + 2))
    \/ \E b1, b2 \in CertifiedLeaders(dag[v], anchor, slot) : b1 # b2

-----------------------------------------------------------------------------
(* UniversalCommitter::try_decide.                                          *)

NothingDecided == [r \in Rounds |-> Undecided]

\* The loop of try_commit starts with the schedule.
UpdateLeaderSchedule(v) ==
    /\ phase[v] \in {"added", "loop", "certified"}
    /\ commits_until_leader_schedule_update(v) = 0
    /\ scored' = [scored EXCEPT ![v] = Len(commits[v])]
    /\ UNCHANGED <<dag, commits, last_decided, status, phase, cursor,
                   flushed, crashes, decisions, produced, panicked>>

StartTryDecide(v) ==
    /\ phase[v] \in {"added", "loop", "certified"}
    /\ commits_until_leader_schedule_update(v) > 0
    /\ phase' = [phase EXCEPT ![v] = "decide"]
    /\ \E highest \in {0} \cup Rounds :
           /\ \A b \in dag[v] : Round[b] <= highest
           /\ highest = 0 \/ \E b \in dag[v] : Round[b] = highest
           /\ cursor' = [cursor EXCEPT ![v] = highest - 2]
    /\ UNCHANGED <<dag, commits, scored, last_decided, status,
                   flushed, crashes, decisions, produced, panicked>>

\* The round of the anchor for round r: the first that is not skipped, of those
\* above the decision round, if its leader is committed.
AnchorRound(st, r, a) ==
    /\ a >= r + 3
    /\ st[a] \in Blocks
    /\ \A x \in Rounds : x \in r + 3 .. a - 1 => st[x] = Skip

Decide(v, slot, st) ==
    /\ status' = [status EXCEPT ![v][slot[1]] = st]
    /\ decisions' = IF st = Undecided THEN decisions
                    ELSE decisions \cup {<<leader_swap_table(v), slot[1], st>>}

TryDecide(v) ==
    LET slot == elect_leader(v, cursor[v])
        direct == try_direct_decide(dag[v], slot)
    IN  /\ phase[v] = "decide"
        /\ cursor[v] > last_decided[v]
        /\ cursor' = [cursor EXCEPT ![v] = @ - 1]
        /\ \/ /\ direct # Undecided
              /\ Decide(v, slot, direct)
              /\ panicked' = (panicked \/ DirectPanics(v, slot))
           \/ /\ direct = Undecided
              /\ \E a \in Rounds :
                     /\ AnchorRound(status[v], slot[1], a)
                     /\ Decide(v, slot, decide_leader_from_anchor(dag[v], status[v][a], slot))
                     /\ panicked' = (panicked \/ DirectPanics(v, slot)
                                              \/ IndirectPanics(v, status[v][a], slot))
           \/ /\ direct = Undecided
              /\ ~\E a \in Rounds : AnchorRound(status[v], slot[1], a)
              /\ Decide(v, slot, Undecided)
              /\ panicked' = (panicked \/ DirectPanics(v, slot))
        /\ UNCHANGED <<dag, commits, scored, last_decided, phase, flushed, crashes, produced>>

\* The leaders to commit among those up to the last one taken.
ToCommit(v, last) ==
    {r \in Rounds : /\ r \in last_commit_round(commits[v]) + 1 .. last
                    /\ status[v][r] \in Blocks}

DecidedUpTo(v, last) ==
    \A r \in last_decided[v] + 1 .. last : r \in Rounds /\ status[v][r] # Undecided

\* The last leader that try_commit takes from the decided ones. They end at the
\* first undecided one and at the limit, which skipped ones count for as well.
Taken(v, last) ==
    LET limit == last_decided[v] + commits_until_leader_schedule_update(v)
    IN  /\ last \in last_decided[v] .. limit
        /\ DecidedUpTo(v, last)
        /\ last = limit \/ ~DecidedUpTo(v, last + 1)

EndTryDecide(v) ==
    /\ phase[v] = "decide"
    /\ cursor[v] <= last_decided[v]
    /\ cursor' = [cursor EXCEPT ![v] = 0]
    /\ \E last \in {0} \cup Rounds :
           /\ Taken(v, last)
           /\ last_decided' = [last_decided EXCEPT ![v] = last]
           /\ \/ /\ ToCommit(v, last) # {}
                 /\ phase' = [phase EXCEPT ![v] = "commit"]
                 /\ UNCHANGED status
              \/ /\ ToCommit(v, last) = {}
                 /\ phase' = [phase EXCEPT ![v] = "idle"]
                 /\ status' = [status EXCEPT ![v] = NothingDecided]
    /\ UNCHANGED <<dag, commits, scored, flushed, crashes, decisions, produced, panicked>>

\* The linearizer commits the leaders one by one, certified ones as well.
CommitLeader(v) ==
    /\ phase[v] \in {"commit", "commit certified"}
    /\ \E r \in ToCommit(v, last_decided[v]) :
        LET leader == status[v][r]
            blocks == SubDag({leader}, commits[v])
            parents == {a \in Ancestors[leader] : Round[a] = r - 1}
            commit == [round |-> r, leaders |-> {leader}, blocks |-> blocks]
            done == ToCommit(v, last_decided[v]) = {r}
        IN  /\ \A x \in ToCommit(v, last_decided[v]) : r <= x
            /\ commits' = [commits EXCEPT ![v] = Append(@, commit)]
            /\ produced' = produced \cup {Append(commits[v], commit)}
            /\ panicked' = (panicked \/ leader \in Committed(commits[v])
                                     \/ r <= gc_round(commits[v])
                                     \/ ~(blocks \cup parents \subseteq dag[v])
                                     \/ commits_until_leader_schedule_update(v) = 0)
            /\ status' = IF done THEN [status EXCEPT ![v] = NothingDecided] ELSE status
            /\ phase' = [phase EXCEPT ![v] =
                   IF ~done THEN @ ELSE IF @ = "commit" THEN "loop" ELSE "certified"]
    /\ UNCHANGED <<dag, scored, last_decided, cursor, flushed, crashes, decisions>>

-----------------------------------------------------------------------------
(* Core, DagState and the restart of a validator.                           *)

\* BlockManager accepts a block, alone, with others, or when a commit has moved
\* the gc round past the ancestors that it waited for.
AddBlock_new_round_only(v) ==
    /\ phase[v] \in {"idle", "added", "certified", "loop"}
    /\ \E b \in Blocks :
           /\ Acceptable(b, dag[v], commits[v])
           /\ dag' = [dag EXCEPT ![v] = @ \cup {b}]
           /\ phase' = [phase EXCEPT ![v] =
                  IF @ = "idle" /\ \A x \in dag[v] : Round[x] < Round[b] THEN "added" ELSE @]
    /\ UNCHANGED <<commits, scored, last_decided, status, cursor,
                   flushed, crashes, decisions, produced, panicked>>
AddBlock(v) ==
    /\ phase[v] \in {"idle", "added", "certified", "loop"}
    /\ \E b \in Blocks :
           /\ Acceptable(b, dag[v], commits[v])
           /\ dag' = [dag EXCEPT ![v] = @ \cup {b}]
    /\ phase' = [phase EXCEPT ![v] = IF @ = "idle" THEN "added" ELSE @]
    /\ UNCHANGED <<commits, scored, last_decided, status, cursor,
                   flushed, crashes, decisions, produced, panicked>>

\* The blocks that are accepted before certified commit i is made.
CertifiedBlocks(cs, i) == cs[i].blocks

\* A certified commit, which a peer has made: its blocks are accepted as they
\* are, and its leader is committed next. The result must be the same commit.
AcceptCertifiedCommit(v) ==
    \E cs \in produced :
        LET i == Len(commits[v]) + 1
            commit == cs[i]
        IN  /\ phase[v] \in {"idle", "added", "certified"}
            /\ commits_until_leader_schedule_update(v) > 0
            /\ Len(cs) >= i
            /\ dag' = [dag EXCEPT ![v] = @ \cup CertifiedBlocks(cs, i)]
            /\ last_decided' = [last_decided EXCEPT ![v] = commit.round]
            /\ \E leader \in commit.leaders :
                   status' = [status EXCEPT ![v][commit.round] = leader]
            /\ panicked' = (panicked \/ SubSeq(cs, 1, Len(commits[v])) # commits[v]
                                     \/ commit.blocks # SubDag(commit.leaders, commits[v]))
            /\ phase' = [phase EXCEPT ![v] = "commit certified"]
            /\ UNCHANGED <<commits, scored, cursor, flushed, crashes, decisions, produced>>

\* DagState::flush writes blocks, commits and commit info in one batch.
Flush(v) ==
    /\ crashes < MaxCrashes
    /\ flushed' = [flushed EXCEPT ![v] =
           [dag |-> dag[v], commits |-> commits[v], scored |-> scored[v]]]
    /\ UNCHANGED <<core, crashes, decisions, produced, panicked>>

\* The commits up to the last commit info have been scored. DagState::new puts
\* the later ones into the scoring sub-DAG.
RecoveredScored_all(stored) == Len(stored.commits)
RecoveredScored(stored) == stored.scored

\* The validator stops and starts again from its storage. Core::recover runs
\* try_commit.
Restart(v) ==
    /\ crashes < MaxCrashes
    /\ crashes' = crashes + 1
    /\ dag' = [dag EXCEPT ![v] = flushed[v].dag]
    /\ commits' = [commits EXCEPT ![v] = flushed[v].commits]
    /\ scored' = [scored EXCEPT ![v] = RecoveredScored(flushed[v])]
    /\ last_decided' = [last_decided EXCEPT ![v] = last_commit_round(flushed[v].commits)]
    /\ status' = [status EXCEPT ![v] = NothingDecided]
    /\ phase' = [phase EXCEPT ![v] = "loop"]
    /\ cursor' = [cursor EXCEPT ![v] = 0]
    /\ UNCHANGED <<flushed, decisions, produced, panicked>>

Init ==
    /\ dag = [v \in Validators |-> {}]
    /\ commits = [v \in Validators |-> <<>>]
    /\ scored = [v \in Validators |-> 0]
    /\ last_decided = [v \in Validators |-> 0]
    /\ status = [v \in Validators |-> NothingDecided]
    /\ phase = [v \in Validators |-> "idle"]
    /\ cursor = [v \in Validators |-> 0]
    /\ flushed = [v \in Validators |-> [dag |-> {}, commits |-> <<>>, scored |-> 0]]
    /\ crashes = 0
    /\ decisions = {}
    /\ produced = {}
    /\ panicked = FALSE

TryCommit(v) ==
    \/ UpdateLeaderSchedule(v)
    \/ StartTryDecide(v)
    \/ TryDecide(v)
    \/ EndTryDecide(v)
    \/ CommitLeader(v)

Next ==
    \E v \in Validators :
        \/ AddBlock(v)
        \/ AcceptCertifiedCommit(v)
        \/ TryCommit(v)
        \/ Flush(v)
        \/ Restart(v)

Spec == Init /\ [][Next]_vars

\* The network delivers every block in the end, and a Core that has something
\* to do goes on.
FairSpec ==
    /\ Spec
    /\ \A v \in Validators : WF_vars(TryCommit(v)) /\ WF_vars(AddBlock(v))

-----------------------------------------------------------------------------

\* No assertion of the committer, the linearizer and the leader schedule fails:
\* no slot has two certified leaders, nothing is committed twice, the blocks
\* that are walked through are there, a certified commit comes out as it was,
\* and no more commits are made than the schedule allows.
NeverPanics == ~panicked

\* Validators never decide the leader of a round differently under the same
\* schedule, whichever of the two rules each of them uses, whatever blocks each
\* has seen, and also across restarts.
DecisionsAgree ==
    \A d1, d2 \in decisions : d1[1] = d2[1] /\ d1[2] = d2[2] => d1[3] = d2[3]

\* Every commit that was ever made is made again, or fetched, by every validator,
\* the ones that lost it in a restart as well: nobody has to fetch a commit for
\* it, the blocks are enough.
CommitsConverge ==
    <>[](\A v \in Validators : \A cs \in produced :
            Len(cs) <= Len(commits[v]) /\ cs = SubSeq(commits[v], 1, Len(cs)))

Log == INSTANCE CommitLog WITH log <- EntriesOf(produced), copies <- commits

\* The validators hold copies of the beginning of one log: a commit that anyone
\* ever made of an index is the one that everyone makes, or fetches, of that
\* index, and a restart cuts a copy back without changing it.
ImplementsCommitLog == Log!LogSpec
=============================================================================

------------------------------ MODULE Proposer ------------------------------
(***************************************************************************)
(* How validators propose blocks: ThresholdClock, ValidatorProposer, the   *)
(* leader timeout that forces proposals, and the recovery of the last own  *)
(* round from peers after a start ("amnesia recovery").                    *)
(*                                                                         *)
(* Core is one thread. It has written the new block to storage when it     *)
(* broadcasts it, and may stop between the two. Commits, and the blocks    *)
(* that they garbage collect, are left out.                                *)
(***************************************************************************)
EXTENDS Committee, FiniteSets

CONSTANTS
    committee,
    Up,            \* the authorities that run, at least a quorum
    Leaders,       \* the leaders of each round that proposals wait for
    LowScoring,    \* the authorities whose ancestors may be in state EXCLUDE
    enable_v3,     \* the v3 protocol: a leader is never excluded
    SyncOwnBlock,  \* those who ask peers for their last own round after a start
    MaxRound,      \* bound on the rounds of proposals
    Timed, Faulty, \* bounds on who sees timeouts, and who sees faults
    Amnesiac,      \* who may also lose its storage: one validator at most
    MaxFaults,     \* bound on the restarts, losses of storage, retries and delays
    None

ASSUME ProposerAssumption ==
    /\ IsFiniteSet(Authorities) /\ \A v \in Authorities : Authorities # {v}
    /\ committee.total = Stake[Authorities]
    /\ committee.quorum \in Nat \ {0} /\ committee.validity \in Nat
    /\ MaxRound \in Nat \ {0}
    /\ Leaders \in [0 .. MaxRound -> SUBSET Authorities]
    /\ Up \subseteq Authorities /\ Stake[Up] >= committee.quorum
    /\ LowScoring \cup SyncOwnBlock \cup Timed \cup Faulty \subseteq Authorities
    /\ enable_v3 \in BOOLEAN
    /\ MaxFaults \in Nat
    /\ None \notin Nat

\* One that loses its storage asks its peers, and f+1 stake of answers meets every
\* quorum. Committee::new gives such thresholds, Committee::new_v3 does if it has
\* no budget for crashes.
ASSUME AmnesiaAssumption ==
    /\ Amnesiac \subseteq SyncOwnBlock \cap Faulty
    /\ \A v, w \in Amnesiac : v = w
    /\ committee.validity + committee.quorum > committee.total

VARIABLES
    dag,            \* DagState of each validator: the blocks it accepted
    stored,         \* the part of it that is in storage
    clock,          \* ThresholdClock: its round and the authors seen in it
    known,          \* last_known_proposed_round, None until it is synced
    last_included,  \* the round of the last ancestor included of each authority
    stopped,        \* the process has ended between writing a block and broadcasting it
    last_signaled,  \* last_signaled_round of Core
    timer,          \* LeaderTimeoutTask: its round, and which timers have fired
    sync,           \* who has answered with our last block, and its highest round
    delayed,        \* the propagation delay is too high to propose
    ancestors,      \* the ancestors of every block ever signed
    sent,           \* the blocks ever broadcast, and those that peers fetch for them
    faults,         \* how often a validator was started again, and the other faults
    panicked,       \* an assert! or panic! has failed
    forgotten       \* history: the lost own blocks that no quorum had stored

\* What a step of Core changes.
core == <<dag, stored, clock, last_included, stopped, last_signaled, ancestors, sent, panicked>>
vars == <<core, known, timer, sync, delayed, faults, forgotten>>

\* A block by its reference. A validator signs at most one of a round in each
\* of its lives, from start to stop.
Ref(a, r, life) == [author |-> a, round |-> r, life |-> life]
Genesis == {Ref(a, 0, 0) : a \in Authorities}

Authors(S) == {b.author : b \in S}
ReachesQuorum(A) == Stake[A] >= committee.quorum
At(D, r) == {b \in D : b.round = r}

\* The last block of authority a below round r, equivocations in a fixed order.
Latest(D, a, r) ==
    CHOOSE b \in D : /\ b.author = a /\ b.round < r
                     /\ \A x \in D : x.author = a /\ x.round < r => x.round <= b.round

last_proposed_round(v, D) == Latest(D, v, MaxRound + 1).round

-----------------------------------------------------------------------------
(* ThresholdClock.                                                          *)

\* The authors are counted anew in every round. A single author with a quorum that
\* takes the clock past rounds is still counted in the next one.
add_block_not_cleared(c, b) ==
    CASE b.round < c.round -> c
      [] b.round = c.round /\ ReachesQuorum(c.seen \cup {b.author}) ->
             [round |-> b.round + 1, seen |-> c.seen]
      [] b.round = c.round /\ ~ReachesQuorum(c.seen \cup {b.author}) ->
             [round |-> b.round, seen |-> c.seen \cup {b.author}]
      [] b.round > c.round ->
             [round |-> IF ReachesQuorum({b.author}) THEN b.round + 1 ELSE b.round, seen |-> {b.author}]
add_block(c, b) ==
    CASE b.round < c.round -> c
      [] b.round = c.round /\ ReachesQuorum(c.seen \cup {b.author}) ->
             [round |-> b.round + 1, seen |-> {}]
      [] b.round = c.round /\ ~ReachesQuorum(c.seen \cup {b.author}) ->
             [round |-> b.round, seen |-> c.seen \cup {b.author}]
      [] b.round > c.round ->
             [round |-> IF ReachesQuorum({b.author}) THEN b.round + 1 ELSE b.round, seen |-> {b.author}]

NewClock == [round |-> 1, seen |-> {}]

\* DagState::new adds the recovered blocks from the lowest round to the highest.
RecoveredClock(D) ==
    LET after[S \in SUBSET D] ==
            IF S = {} THEN NewClock
            ELSE LET last == CHOOSE b \in S : \A x \in S : x.round <= b.round
                 IN  add_block(after[S \ {last}], last)
    IN  after[D]

-----------------------------------------------------------------------------
(* ValidatorProposer, on accepted blocks D and for a round r.               *)

should_propose(r, kn, late) == ~late /\ kn # None /\ r > kn

\* The blocks that may become ancestors: no author's twice.
Candidates(v, D, r, li) ==
    {b \in {Latest(D, a, r) : a \in Authorities \ {v}} : b.round > li[b.author]}

\* The ancestors taken at once. X are the authors in state EXCLUDE.
IncludedAncestors(v, D, r, li, X) ==
    {Latest(D, v, MaxRound + 1)} \cup
    {b \in Candidates(v, D, r, li) :
        b.author \notin X \/ (enable_v3 /\ b.round = r - 1 /\ b.author \in Leaders[r - 1])}

\* Excluded parents are taken one by one, as long as the quorum is not there.
Fillers_none(Inc, Exc, r) == {{}}
Fillers(Inc, Exc, r) ==
    {S \in SUBSET At(Exc, r - 1) :
        /\ ReachesQuorum(Authors(At(Inc, r - 1) \cup S)) \/ S = At(Exc, r - 1)
        /\ S = {} \/ \E b \in S : ~ReachesQuorum(Authors(At(Inc, r - 1) \cup (S \ {b})))}

\* Of the other excluded authors the last block up to the round that a quorum
\* has accepted, if there is one above the last included.
AcceptedByQuorum(D, Exc, li, low) ==
    {b \in D : /\ b.author \in Authors(Exc)
               /\ b.round > 0 /\ b.round > li[b.author]
               /\ b = Latest(D, b.author, low[b.author] + 1)}

\* smart_ancestors_to_propose: all the sets of ancestors it may come to.
AncestorsToPropose(v, D, r, li, X) ==
    LET Inc == IncludedAncestors(v, D, r, li, X)
        Exc == Candidates(v, D, r, li) \ Inc
    IN  UNION {{Inc \cup S \cup AcceptedByQuorum(D, Exc \ S, li, low) :
                   low \in [LowScoring -> 0 .. r - 1]} : S \in Fillers(Inc, Exc, r)}

\* A proposal that is not forced waits for the leaders and for enough ancestors
\* that are not excluded. It may also be refused as too soon after the last.
ReadyUnforced(v, D, r, li, X) ==
    /\ \A a \in Leaders[r - 1] : \E b \in At(D, r - 1) : b.author = a
    /\ ReachesQuorum(Authors(At(IncludedAncestors(v, D, r, li, X), r - 1)))

NowIncluded(li, parents) ==
    [a \in Authorities |->
        IF a \in Authors(parents) THEN (CHOOSE b \in parents : b.author = a).round ELSE li[a]]

\* The proposal is possible in the state D, c, kn, li of the validator.
MayPropose(v, D, c, kn, late) ==
    /\ should_propose(c.round, kn, late)
    /\ c.round > last_proposed_round(v, D)
    /\ c.round <= MaxRound

try_signal_new_round(v, c, signaled) ==
    last_signaled' = [last_signaled EXCEPT ![v] = IF c.round > signaled THEN c.round ELSE signaled]

Faults(f) == f.starts + f.others

\* signals.new_block sends the block that has been written, or the process ends
\* first. With the block, peers get those of its ancestors that they miss: an own
\* block of D that was not broadcast is one.
BroadcastOrStop(v, D, b) ==
    \/ /\ sent' = sent \cup D \cup {b}
       /\ stopped' = [stopped EXCEPT ![v] = FALSE]
    \/ /\ v \in Faulty
       /\ Faults(faults') < MaxFaults
       /\ stopped' = [stopped EXCEPT ![v] = TRUE]
       /\ UNCHANGED sent

\* try_new_block makes a block, accepts it and flushes it with all the others;
\* try_propose broadcasts it. The states of the ancestors, and the
\* rounds that a quorum accepted, are any that AncestorStateManager can come to.
NewBlock(v, D, c, li, force, signaled) ==
    \E X \in {{}, LowScoring \ {v}} :
    \E parents \in AncestorsToPropose(v, D, c.round, li, X) :
        LET b == Ref(v, c.round, faults'.starts)
        IN  /\ force \/ ReadyUnforced(v, D, c.round, li, X)
            /\ dag' = [dag EXCEPT ![v] = D \cup {b}]
            /\ stored' = [stored EXCEPT ![v] = D \cup {b}]
            /\ clock' = [clock EXCEPT ![v] = add_block(c, b)]
            /\ ancestors' = [x \in DOMAIN ancestors \cup {b} |-> IF x = b THEN parents ELSE ancestors[x]]
            /\ last_included' = [last_included EXCEPT ![v] = NowIncluded(li, parents)]
            /\ BroadcastOrStop(v, D, b)
            /\ try_signal_new_round(v, add_block(c, b), signaled)
            /\ panicked' = (panicked \/ ~ReachesQuorum(Authors(At(parents, c.round - 1))))

\* No block is made: D and c are kept.
NoBlock(v, D, c, li, signaled) ==
    /\ dag' = [dag EXCEPT ![v] = D]
    /\ clock' = [clock EXCEPT ![v] = c]
    /\ last_included' = [last_included EXCEPT ![v] = li]
    /\ try_signal_new_round(v, c, signaled)
    /\ UNCHANGED ancestors

\* Core::try_propose. A proposal that is not forced may find no leader, too few
\* good ancestors, or that it is too soon.
TryPropose(v, D, c, kn, late, force) ==
    \/ /\ MayPropose(v, D, c, kn, late)
       /\ NewBlock(v, D, c, last_included[v], force, last_signaled[v])
    \/ /\ ~force \/ ~MayPropose(v, D, c, kn, late)
       /\ NoBlock(v, D, c, last_included[v], last_signaled[v])
       /\ UNCHANGED <<stored, stopped, sent, panicked>>

-----------------------------------------------------------------------------
(* The commands of CoreThread.                                              *)

\* add_blocks, of one block. A block of the own slot may come back from peers,
\* and must not meet another one there.
AddBlock(v) ==
    \E b \in sent \ dag[v] :
        LET twice == b.author = v /\ \E x \in dag[v] : x.author = v /\ x.round = b.round
        IN  /\ ~stopped[v]
            /\ ancestors[b] \subseteq dag[v]
            /\ UNCHANGED <<known, timer, sync, delayed, faults, forgotten>>
            /\ \/ /\ twice
                  /\ panicked' = TRUE
                  /\ UNCHANGED <<dag, stored, clock, last_included, stopped, last_signaled, ancestors, sent>>
               \/ /\ ~twice
                  /\ TryPropose(v, dag[v] \cup {b}, add_block(clock[v], b), known[v], delayed[v], FALSE)

\* Core::new_block for round r.
NewBlockCommand(v, r, force) ==
    \/ /\ last_proposed_round(v, dag[v]) < r
       /\ TryPropose(v, dag[v], clock[v], known[v], delayed[v], force)
    \/ /\ last_proposed_round(v, dag[v]) >= r
       /\ UNCHANGED core

\* LeaderTimeoutTask: a new round resets the timers, the first one tries to
\* propose, the second one forces it.
NewRound(v) ==
    /\ ~stopped[v] /\ v \in Timed
    /\ timer[v].round # last_signaled[v]
    /\ timer' = [timer EXCEPT ![v] = [round |-> last_signaled[v], fired |-> "none"]]
    /\ UNCHANGED <<core, known, sync, delayed, faults, forgotten>>

MinTimeout(v) ==
    /\ ~stopped[v] /\ v \in Timed
    /\ timer[v].fired = "none"
    /\ timer' = [timer EXCEPT ![v].fired = "min"]
    /\ UNCHANGED <<known, sync, delayed, faults, forgotten>>
    /\ NewBlockCommand(v, timer[v].round, FALSE)

MaxTimeout(v) ==
    /\ ~stopped[v]
    /\ timer[v].fired = "min"
    /\ timer' = [timer EXCEPT ![v].fired = "max"]
    /\ UNCHANGED <<known, sync, delayed, faults, forgotten>>
    /\ NewBlockCommand(v, timer[v].round, TRUE)

\* set_propagation_delay, above the threshold and back. When it allows to propose
\* again a block is forced: the timers of the round may have fired in vain.
DelayTooHigh(v) ==
    /\ ~stopped[v] /\ v \in Faulty
    /\ ~delayed[v] /\ Faults(faults) < MaxFaults
    /\ faults' = [faults EXCEPT !.others = @ + 1]
    /\ delayed' = [delayed EXCEPT ![v] = TRUE]
    /\ UNCHANGED <<core, known, timer, sync, forgotten>>

DelayAcceptable_no_proposal(v) ==
    /\ ~stopped[v]
    /\ delayed[v]
    /\ delayed' = [delayed EXCEPT ![v] = FALSE]
    /\ UNCHANGED <<core, known, timer, sync, faults, forgotten>>
DelayAcceptable(v) ==
    /\ ~stopped[v]
    /\ delayed[v]
    /\ delayed' = [delayed EXCEPT ![v] = FALSE]
    /\ UNCHANGED <<known, timer, sync, faults, forgotten>>
    /\ TryPropose(v, dag[v], clock[v], known[v], FALSE, TRUE)

-----------------------------------------------------------------------------
(* The synchronizer's task that asks peers for the last own block.          *)

NotSyncing == [on |-> FALSE, replied |-> {}, highest |-> 0]
Syncing == [on |-> TRUE, replied |-> {}, highest |-> 0]

\* A peer answers with the last block that it has accepted of v.
FetchOwnLastBlock(v) ==
    \E p \in Up \ ({v} \cup sync[v].replied) :
        LET r == last_proposed_round(v, dag[p])
        IN  /\ sync[v].on /\ ~stopped[v] /\ ~stopped[p]
            /\ sync' = [sync EXCEPT ![v] =
                           [on |-> TRUE, replied |-> sync[v].replied \cup {p},
                            highest |-> IF r > sync[v].highest THEN r ELSE sync[v].highest]]
            /\ UNCHANGED <<core, known, timer, delayed, faults, forgotten>>

EnoughReplies_none(A) == TRUE
EnoughReplies(A) == Stake[A] >= committee.validity

\* The timeout, or the last answer. With too little stake all are asked again.
EndFetchOwnLastBlock(v) ==
    /\ sync[v].on /\ ~stopped[v]
    /\ UNCHANGED <<timer, delayed, forgotten>>
    /\ \/ /\ EnoughReplies(sync[v].replied)
          /\ sync' = [sync EXCEPT ![v] = NotSyncing]
          /\ known' = [known EXCEPT ![v] = sync[v].highest]
          /\ faults' = faults
          /\ TryPropose(v, dag[v], clock[v], sync[v].highest, delayed[v], TRUE)
       \/ /\ ~EnoughReplies(sync[v].replied)
          /\ Faults(faults) < MaxFaults
          /\ faults' = [faults EXCEPT !.others = @ + 1]
          /\ sync' = [sync EXCEPT ![v] = Syncing]
          /\ UNCHANGED <<core, known>>

-----------------------------------------------------------------------------
(* Storage and restarts.                                                    *)

NothingIncluded == [a \in Authorities |-> -1]

\* Core::new_validator and recover_validator on the blocks D. A proposal is
\* forced; without one the last block is broadcast again. The timers are reset,
\* and do nothing until a round above the last own block is signalled.
Start(v, D) ==
    LET c == RecoveredClock(D)
        kn == IF v \in SyncOwnBlock THEN None ELSE 0
        last == Latest(D, v, MaxRound + 1)
    IN  /\ known' = [known EXCEPT ![v] = kn]
        /\ sync' = [sync EXCEPT ![v] = IF v \in SyncOwnBlock THEN Syncing ELSE NotSyncing]
        /\ timer' = [timer EXCEPT ![v] = [round |-> last.round, fired |-> "none"]]
        /\ delayed' = [delayed EXCEPT ![v] = FALSE]
        /\ \/ /\ MayPropose(v, D, c, kn, FALSE)
              /\ NewBlock(v, D, c, NothingIncluded, TRUE, last.round)
           \/ /\ ~MayPropose(v, D, c, kn, FALSE)
              /\ NoBlock(v, D, c, NothingIncluded, last.round)
              /\ stored' = [stored EXCEPT ![v] = D]
              /\ sent' = sent \cup D
              /\ stopped' = [stopped EXCEPT ![v] = FALSE]
              /\ panicked' = (panicked \/ (should_propose(c.round, kn, FALSE) /\ last.round = 0))

\* Other threads may have flushed some of the blocks accepted since.
Restart(v) ==
    /\ v \in Faulty /\ Faults(faults) < MaxFaults
    /\ faults' = [faults EXCEPT !.starts = @ + 1]
    /\ \E flushed \in SUBSET (dag[v] \ stored[v]) :
           /\ \A b \in flushed : ancestors[b] \subseteq stored[v] \cup flushed
           /\ Start(v, stored[v] \cup flushed)
    /\ UNCHANGED forgotten

\* The storage is lost as well.
Wipe(v) ==
    /\ v \in Amnesiac /\ Faults(faults) < MaxFaults
    /\ faults' = [faults EXCEPT !.starts = @ + 1]
    /\ forgotten' = forgotten \cup
           {b \in stored[v] : /\ b.author = v /\ b.round > 0
                              /\ ~ReachesQuorum({p \in Authorities : b \in stored[p]})}
    /\ Start(v, Genesis)

\* After the first start. Without a sync it has made the block of round 1.
FirstBlock(v) == IF v \in SyncOwnBlock \/ v \notin Up THEN {} ELSE {Ref(v, 1, 0)}

Init ==
    /\ dag = [v \in Authorities |-> Genesis \cup FirstBlock(v)]
    /\ stored = dag
    /\ clock = [v \in Authorities |-> RecoveredClock(dag[v])]
    /\ known = [v \in Authorities |-> IF v \in SyncOwnBlock THEN None ELSE 0]
    /\ last_included = [v \in Authorities |->
           IF v \in SyncOwnBlock THEN NothingIncluded ELSE [a \in Authorities |-> 0]]
    /\ stopped = [v \in Authorities |-> FALSE]
    /\ last_signaled = [v \in Authorities |-> clock[v].round]
    /\ timer = [v \in Authorities |-> [round |-> 0, fired |-> "none"]]
    /\ sync = [v \in Authorities |-> IF v \in SyncOwnBlock THEN Syncing ELSE NotSyncing]
    /\ delayed = [v \in Authorities |-> FALSE]
    /\ ancestors = [b \in Genesis \cup UNION {FirstBlock(v) : v \in Authorities} |->
                        IF b \in Genesis THEN {} ELSE Genesis]
    /\ sent = DOMAIN ancestors
    /\ faults = [starts |-> 0, others |-> 0]
    /\ panicked = FALSE
    /\ forgotten = {}

Run(v) ==
    \/ AddBlock(v)
    \/ NewRound(v)
    \/ MinTimeout(v)
    \/ MaxTimeout(v)
    \/ DelayAcceptable(v)
    \/ FetchOwnLastBlock(v)
    \/ EndFetchOwnLastBlock(v)

Next ==
    \E v \in Up :
        \/ Run(v)
        \/ DelayTooHigh(v)
        \/ Restart(v)
        \/ Wipe(v)

Spec == Init /\ [][Next]_vars

-----------------------------------------------------------------------------
(* Properties.                                                              *)

\* The asserts on the proposal path hold: the parents of a new block have a quorum
\* of stake, a second own block of a slot is never accepted, and a start that may
\* propose has produced a block.
NeverPanics == forgotten = {} => ~panicked

SlotBlocks(v, r) == {b \in DOMAIN ancestors : b.author = v /\ b.round = r}

\* A validator never signs two blocks of one round, wherever it stops and whenever
\* its timers fire: the block is in storage before anything else can happen, and
\* the last proposed round is read back from there. One that loses its storage
\* finds every block that a quorum, itself included, had stored: the f+1 stake of
\* answers it waits for meets that quorum.
OneBlockPerRound ==
    \A v \in Authorities, r \in 1 .. MaxRound : Cardinality(SlotBlocks(v, r) \ forgotten) <= 1

\* The incremental ThresholdClock is at the round after the highest one with a
\* quorum of accepted blocks, and has counted all blocks of its round, in whatever
\* order the blocks came and after every recovery from storage.
ClockFollowsTheDag ==
    \A v \in Authorities :
        LET r == clock[v].round
        IN  /\ clock[v].seen = Authors(At(dag[v], r))
            /\ \A b \in dag[v] : b.round <= r
            /\ ReachesQuorum(Authors(At(dag[v], r - 1)))

\* Nothing is left for a validator to do: no block to accept, no timer to come,
\* no answer or lower delay to wait for.
AtRest(v) ==
    /\ ~stopped[v] /\ ~delayed[v] /\ ~sync[v].on
    /\ timer[v] = [round |-> last_signaled[v], fired |-> "max"]
    /\ \A b \in sent \ dag[v] : ~(ancestors[b] \subseteq dag[v])

\* Validators come to rest after the last round only: a timer that fired in vain,
\* while the delay was too high or the own last round was unknown, never was the
\* last chance to propose. Every step uses up what it waited for, so this is
\* the progress of the rounds.
NobodyGetsStuck ==
    (\A v \in Up : AtRest(v)) => \A v \in Up : clock[v].round > MaxRound
=============================================================================

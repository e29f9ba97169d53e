---------------------------- MODULE CommitSyncer ----------------------------
(***************************************************************************)
(* Commit synchronisation of one authority                                 *)
(* (consensus/core/src/commit_syncer.rs), together with the three actors   *)
(* it shares state with:                                                   *)
(*                                                                         *)
(*  - the schedule loop: one task that ticks, joins finished fetches and   *)
(*    sends contiguous certified commits to Core, waiting for the answer;  *)
(*  - the fetch tasks, which return a non-empty certified prefix of the    *)
(*    range they were spawned for, in any order;                           *)
(*  - Core, which also commits by its own decision rule at any time;       *)
(*  - the commit consumer and the commit vote monitor, which advance the   *)
(*    highest handled and the quorum commit index.                         *)
(*                                                                         *)
(* A fetched commit is abstracted to its index: verify_commits() only lets *)
(* through chains that start at the requested index, are consecutive and   *)
(* are certified by a quorum.                                              *)
(***************************************************************************)
EXTENDS Integers, FiniteSets

CONSTANTS BatchSize,        \* parameters.commit_sync_batch_size
          BatchesAhead,     \* parameters.commit_sync_batches_ahead
          ParallelFetches,  \* commit_sync_parallel_fetches, capped by the peers
          MaxCommit         \* bound on the commit indices of a behaviour

ASSUME ParametersAssumption ==
    /\ BatchSize \in Nat \ {0}
    /\ BatchesAhead \in Nat \ {0}
    /\ ParallelFetches \in Nat
    /\ MaxCommit \in Nat

VARIABLES
    inflight_fetches,         \* ranges being fetched by a task of the JoinSet
    pending_fetches,          \* ranges waiting for a task
    fetched_ranges,           \* ranges fetched but not yet sent to Core
    highest_scheduled_index,  \* 0 stands for None: every reader unwraps to 0
    synced_commit_index,
    sending,                  \* the range Core has been handed, while awaited
    pc,                       \* where the schedule loop is suspended
    core_running,             \* the Core thread still accepts commands
    last_commit_index,        \* DagState's, advanced by Core only
    quorum_commit_index,      \* CommitVoteMonitor's
    highest_handled_index     \* CommitConsumerMonitor's

syncerVars == <<inflight_fetches, pending_fetches, fetched_ranges,
                highest_scheduled_index, synced_commit_index, sending, pc>>
vars == <<syncerVars, core_running, last_commit_index, quorum_commit_index,
          highest_handled_index>>

-----------------------------------------------------------------------------
(* Commit ranges, with inclusive bounds and the order of their BTree keys. *)

Indices == 0 .. MaxCommit

NoRange == <<0, 0>>

CommitRanges == {r \in (1 .. MaxCommit) \X (1 .. MaxCommit) : r[1] <= r[2]}

start(r) == r[1]

end(r) == r[2]

Before(r, s) == start(r) < start(s) \/ (start(r) = start(s) /\ end(r) < end(s))

Larger(a, b) == IF a >= b THEN a ELSE b

Smaller(a, b) == IF a <= b THEN a ELSE b

TypeOK ==
    /\ inflight_fetches \in SUBSET CommitRanges
    /\ pending_fetches \in SUBSET CommitRanges
    /\ fetched_ranges \in SUBSET CommitRanges
    /\ highest_scheduled_index \in Indices
    /\ synced_commit_index \in Indices
    /\ sending \in CommitRanges \cup {NoRange}
    /\ pc \in {"select", "sending", "answered", "stopped"}
    /\ core_running \in BOOLEAN
    /\ last_commit_index \in Indices
    /\ quorum_commit_index \in Indices
    /\ highest_handled_index \in Indices

Init ==
    /\ inflight_fetches = {}
    /\ pending_fetches = {}
    /\ fetched_ranges = {}
    /\ highest_scheduled_index = 0
    /\ last_commit_index \in Indices
    /\ synced_commit_index = last_commit_index
    /\ sending = NoRange
    /\ pc = "select"
    /\ core_running = TRUE
    /\ quorum_commit_index \in Indices
    /\ highest_handled_index \in 0 .. last_commit_index

-----------------------------------------------------------------------------
(* The schedule loop. *)

unhandled_commits_threshold == BatchSize * BatchesAhead

\* The number of batches scheduled after index "after": whole batches only, up
\* to the quorum index, and no further ahead of the consumer than the threshold.
ScheduledCount(after) ==
    LET limit == Smaller(quorum_commit_index,
                         highest_handled_index + unhandled_commits_threshold)
    IN  IF limit < after THEN 0 ELSE (limit - after) \div BatchSize

Batch(after, i) == <<after + (i - 1) * BatchSize + 1, after + i * BatchSize>>

\* New ranges start after everything synced or already scheduled.
FetchAfterIndex_synced_only(synced) == synced
FetchAfterIndex(synced) == Larger(synced, highest_scheduled_index)

\* The set of the n lowest ranges of S.
LowestRanges(S, n) == {r \in S : Cardinality({s \in S : Before(s, r)}) < n}

\* Fetches are started lowest range first, and fewer of them run when many
\* fetched ranges wait behind a gap; one is always allowed.
TargetParallelFetches(fetched) ==
    Larger(1, Smaller(ParallelFetches,
                      Larger(0, BatchesAhead - Cardinality(fetched))))

TryStartFetches(pending, inflight, fetched) ==
    LET slots == Larger(0, TargetParallelFetches(fetched) - Cardinality(inflight))
        started == LowestRanges(pending, slots)
    IN  /\ pending_fetches' = pending \ started
        /\ inflight_fetches' = inflight \cup started

\* interval.tick(): try_schedule_once, then try_start_fetches.
TryScheduleOnce ==
    /\ pc = "select"
    /\ LET synced == Larger(synced_commit_index, last_commit_index)
           after == FetchAfterIndex(synced)
           count == ScheduledCount(after)
       IN  /\ synced_commit_index' = synced
           /\ highest_scheduled_index' =
                 IF count = 0 THEN highest_scheduled_index ELSE after + count * BatchSize
           /\ TryStartFetches(pending_fetches \cup {Batch(after, i) : i \in 1 .. count},
                              inflight_fetches, fetched_ranges)
    /\ UNCHANGED <<fetched_ranges, sending, pc, core_running, last_commit_index,
                   quorum_commit_index, highest_handled_index>>

\* No gap between the synced commits and a fetched range; bounds are inclusive.
Contiguous_off_by_one(range, synced) == start(range) <= synced + 2
Contiguous_exclusive(range, synced) == start(range) <= synced
Contiguous(range, synced) == start(range) <= synced + 1

\* The loop at the end of handle_fetch_result, up to its next await: ranges
\* that are already synced are dropped, the first other range is handed to
\* Core unless there is a gap before it. When nothing is left to send the loop
\* returns to select, starting fetches on the way.
ProcessFetchedRanges(fetched, synced, pending, inflight) ==
    LET unsynced == {r \in fetched : end(r) > synced}
        after == {r \in fetched : \E u \in unsynced : ~ Before(r, u)}
    IN  \/ \E next \in unsynced :
              /\ \A r \in unsynced \ {next} : Before(next, r)
              /\ Contiguous(next, synced)
              /\ pc' = "sending"
              /\ sending' = next
              /\ fetched_ranges' = after \ {next}
              /\ pending_fetches' = pending
              /\ inflight_fetches' = inflight
        \/ /\ \A r \in unsynced : ~ Contiguous(r, synced)
           /\ pc' = "select"
           /\ sending' = NoRange
           /\ fetched_ranges' = after
           /\ TryStartFetches(pending, inflight, after)

\* The part of a range a fetch did not return is queued again.
Remainder_dropped(range, commit_end) == {}
Remainder(range, commit_end) ==
    IF commit_end < end(range) THEN {<<commit_end + 1, end(range)>>} ELSE {}

\* inflight_fetches.join_next(): the task for "range" returned the commits
\* start(range) .. commit_end.
HandleFetchResult(range, commit_end) ==
    /\ pc = "select"
    /\ range \in inflight_fetches
    /\ commit_end \in start(range) .. end(range)
    /\ LET synced == Larger(synced_commit_index, last_commit_index)
           returned == IF synced < commit_end THEN {<<start(range), commit_end>>} ELSE {}
       IN  /\ synced_commit_index' = synced
           /\ ProcessFetchedRanges(fetched_ranges \cup returned, synced,
                                   pending_fetches \cup Remainder(range, commit_end),
                                   inflight_fetches \ {range})
    /\ UNCHANGED <<highest_scheduled_index, core_running, last_commit_index,
                   quorum_commit_index, highest_handled_index>>

\* The answer of Core to add_certified_commits: the range counts as synced and
\* the loop over the fetched ranges continues.
ResumeAfterAnswer ==
    /\ pc = "answered"
    /\ LET synced == Larger(synced_commit_index, end(sending))
       IN  /\ synced_commit_index' = synced
           /\ ProcessFetchedRanges(fetched_ranges, synced, pending_fetches,
                                   inflight_fetches)
    /\ UNCHANGED <<highest_scheduled_index, core_running, last_commit_index,
                   quorum_commit_index, highest_handled_index>>

\* add_certified_commits fails because Core has shut down: the handler gives
\* up, and the loop goes on until its own shutdown signal.
ResumeAfterShutdownError ==
    /\ pc = "sending"
    /\ ~core_running
    /\ pc' = "select"
    /\ sending' = NoRange
    /\ TryStartFetches(pending_fetches, inflight_fetches, fetched_ranges)
    /\ UNCHANGED <<fetched_ranges, highest_scheduled_index, synced_commit_index,
                   core_running, last_commit_index, quorum_commit_index,
                   highest_handled_index>>

\* rx_shutdown: the running fetches are aborted and the loop ends.
Shutdown ==
    /\ pc = "select"
    /\ pc' = "stopped"
    /\ inflight_fetches' = {}
    /\ UNCHANGED <<pending_fetches, fetched_ranges, highest_scheduled_index,
                   synced_commit_index, sending, core_running, last_commit_index,
                   quorum_commit_index, highest_handled_index>>

-----------------------------------------------------------------------------
(* Core, the consumer and the vote monitor. *)

\* Core::filter_new_commits keeps the commits above the last one, and accepts
\* the batch only if the first of them is the next commit.
FilterNewCommits(range) == {i \in start(range) .. end(range) : i > last_commit_index}

NoCommitGap(range) ==
    FilterNewCommits(range) # {} => last_commit_index + 1 \in FilterNewCommits(range)

\* Core::add_certified_commits: the new certified commits are committed, then
\* the local decision rule may commit more.
AddCertifiedCommits_answered_early ==
    /\ pc = "sending"
    /\ core_running
    /\ pc' = "answered"
    /\ UNCHANGED <<inflight_fetches, pending_fetches, fetched_ranges,
                   highest_scheduled_index, synced_commit_index, sending,
                   core_running, last_commit_index, quorum_commit_index,
                   highest_handled_index>>
AddCertifiedCommits ==
    /\ pc = "sending"
    /\ core_running
    /\ NoCommitGap(sending)
    /\ \E committed \in Indices :
          /\ committed >= Larger(last_commit_index, end(sending))
          /\ last_commit_index' = committed
    /\ pc' = "answered"
    /\ UNCHANGED <<inflight_fetches, pending_fetches, fetched_ranges,
                   highest_scheduled_index, synced_commit_index, sending,
                   core_running, quorum_commit_index, highest_handled_index>>

\* Core commits the next leader from its own DAG, handling other commands.
CommitLocally ==
    /\ core_running
    /\ last_commit_index < MaxCommit
    /\ last_commit_index' = last_commit_index + 1
    /\ UNCHANGED <<syncerVars, core_running, quorum_commit_index,
                   highest_handled_index>>

CoreShutdown ==
    /\ core_running
    /\ core_running' = FALSE
    /\ UNCHANGED <<syncerVars, last_commit_index, quorum_commit_index,
                   highest_handled_index>>

\* CommitVoteMonitor::observe_block raises the quorum index.
ObserveCommitVotes ==
    /\ quorum_commit_index < MaxCommit
    /\ quorum_commit_index' = quorum_commit_index + 1
    /\ UNCHANGED <<syncerVars, core_running, last_commit_index,
                   highest_handled_index>>

\* The consumer acknowledges the next commit.
HandleCommit ==
    /\ highest_handled_index < last_commit_index
    /\ highest_handled_index' = highest_handled_index + 1
    /\ UNCHANGED <<syncerVars, core_running, last_commit_index,
                   quorum_commit_index>>

FetchFinishes ==
    \E range \in inflight_fetches :
        \E commit_end \in start(range) .. end(range) : HandleFetchResult(range, commit_end)

Next ==
    \/ TryScheduleOnce
    \/ FetchFinishes
    \/ ResumeAfterAnswer
    \/ ResumeAfterShutdownError
    \/ Shutdown
    \/ AddCertifiedCommits
    \/ CommitLocally
    \/ CoreShutdown
    \/ ObserveCommitVotes
    \/ HandleCommit

Spec == Init /\ [][Next]_vars

\* The interval keeps ticking, a fetch loops over the known peers until one
\* serves it, Core answers its commands and the consumer its commits.
Fairness ==
    /\ WF_vars(TryScheduleOnce)
    /\ WF_vars(FetchFinishes)
    /\ WF_vars(ResumeAfterAnswer)
    /\ WF_vars(ResumeAfterShutdownError)
    /\ WF_vars(AddCertifiedCommits)
    /\ WF_vars(HandleCommit)

FairSpec == Spec /\ Fairness

-----------------------------------------------------------------------------
(* Properties. *)

Covers(r) == start(r) .. end(r)

Scheduled == pending_fetches \cup inflight_fetches \cup fetched_ranges

\* Whatever Core commits on its own between the check of the syncer and the
\* handling of the command, the batch it is handed leaves no gap, so the
\* expect("Certified commits validation failed") of Core is never reached.
CertifiedCommitsAreContiguous ==
    pc = "sending" => NoCommitGap(sending)

\* No scheduled index is lost: each one above the synced index is pending, in
\* flight, fetched or handed to Core. Scheduling restarts above the highest
\* scheduled index, so a lost one would never be fetched again.
NoScheduledCommitLost ==
    core_running /\ pc # "stopped" =>
        \A i \in Indices :
            synced_commit_index < i /\ i <= highest_scheduled_index =>
                \/ \E r \in Scheduled : i \in Covers(r)
                \/ pc # "select" /\ i \in Covers(sending)

\* No commit is downloaded twice: queued, running and fetched ranges are
\* disjoint, despite partial answers and rescheduling.
NoDuplicateFetch ==
    /\ pending_fetches \cap inflight_fetches = {}
    /\ pending_fetches \cap fetched_ranges = {}
    /\ inflight_fetches \cap fetched_ranges = {}
    /\ \A r, s \in Scheduled : r # s => Covers(r) \cap Covers(s) = {}

\* The syncer never believes a commit to be synced that Core has not made: the
\* index is ratcheted only after Core has answered.
SyncedIsCommitted == synced_commit_index <= last_commit_index

\* A lagging authority catches up to less than one batch behind the quorum,
\* unless it is shut down.
CatchesUp ==
    <>[](\/ pc = "stopped"
         \/ ~core_running
         \/ quorum_commit_index < synced_commit_index + BatchSize)
=============================================================================

------------------------- MODULE CommitSyncer_proof -------------------------
(* Safety of commit synchronisation for every batch size and bound.        *)
EXTENDS CommitSyncer, TLAPS

\* A whole number of batches that fits below n indices does not exceed them.
LEMMA BatchesFit ==
    ASSUME NEW n \in Nat, NEW b \in Nat \ {0}, NEW i \in 1 .. (n \div b)
    PROVE  i * b <= n /\ (i - 1) * b + 1 <= i * b /\ i * b \in Nat /\ (i-1) * b \in Nat
  <1>. DEFINE q == n \div b
  <1>1. q \in Nat /\ q * b <= n
    OBVIOUS
  <1>2. i * b <= q * b
    BY <1>1
  <1>3. i * b = (i - 1) * b + b
    OBVIOUS
  <1>. QED  BY <1>1, <1>2, <1>3

\* The batches after an index are ranges of commits.
LEMMA ScheduledBatches ==
    ASSUME TypeOK, NEW after \in Indices
    PROVE  /\ ScheduledCount(after) \in Nat
           /\ \A i \in 1 .. ScheduledCount(after) :
                 Batch(after, i) \in CommitRanges /\ after + i * BatchSize \in Indices
  <1>. DEFINE count == ScheduledCount(after)
              limit == Smaller(quorum_commit_index,
                               highest_handled_index + unhandled_commits_threshold)
  <1>1. unhandled_commits_threshold \in Nat
    BY ParametersAssumption DEF unhandled_commits_threshold
  <1>2. limit \in Indices
    BY <1>1, ParametersAssumption DEF Smaller, Indices, TypeOK
  <1>3. CASE limit < after
    BY <1>3 DEF ScheduledCount
  <1>4. CASE ~ (limit < after)
    <2>1. count = (limit - after) \div BatchSize /\ limit - after \in Nat
      BY <1>2, <1>4, ParametersAssumption DEF ScheduledCount, Indices
    <2>2. count \in Nat
      BY <2>1, ParametersAssumption
    <2>3. SUFFICES ASSUME NEW i \in 1 .. count
                   PROVE  Batch(after, i) \in CommitRanges
                          /\ after + i * BatchSize \in Indices
      BY Zenon, <2>2
    <2>4. /\ i * BatchSize <= limit - after
          /\ (i - 1) * BatchSize + 1 <= i * BatchSize
          /\ i * BatchSize \in Nat
          /\ (i - 1) * BatchSize \in Nat
      BY Zenon, <2>1, BatchesFit, ParametersAssumption
    <2>. QED
      BY <2>4, <1>2, ParametersAssumption DEF Batch, CommitRanges, Indices
  <1>. QED  BY Zenon, <1>3, <1>4

\* What the indices and the range handed to Core satisfy at every step: the
\* syncer lags Core, a range is sent only when it continues the synced commits,
\* and Core answers only once it has committed all of it.
SendInv ==
    /\ TypeOK
    /\ SyncedIsCommitted
    /\ pc = "sending" => sending \in CommitRanges /\ start(sending) <= synced_commit_index + 1
    /\ pc = "answered" => sending \in CommitRanges /\ end(sending) <= last_commit_index

\* Starting fetches moves ranges from the pending to the running ones.
LEMMA TryStartFetchesMoves ==
    ASSUME NEW pending, NEW inflight, NEW fetched,
           TryStartFetches(pending, inflight, fetched)
    PROVE  /\ pending_fetches' \cup inflight_fetches' = pending \cup inflight
           /\ pending_fetches' \subseteq pending
           /\ \A r \in pending_fetches' : r \notin inflight => r \notin inflight_fetches'
  BY Zenon DEF TryStartFetches, LowestRanges

\* The ranges the loop over the fetched ranges can leave behind.
LEMMA ProcessFetchedRangesType ==
    ASSUME NEW fetched \in SUBSET CommitRanges, NEW synced \in Indices,
           NEW pending \in SUBSET CommitRanges, NEW inflight \in SUBSET CommitRanges,
           ProcessFetchedRanges(fetched, synced, pending, inflight)
    PROVE  /\ fetched_ranges' \in SUBSET CommitRanges
           /\ pending_fetches' \in SUBSET CommitRanges
           /\ inflight_fetches' \in SUBSET CommitRanges
           /\ \/ /\ pc' = "sending"
                 /\ sending' \in CommitRanges
                 /\ start(sending') <= synced + 1
              \/ pc' = "select" /\ sending' = NoRange
  BY TryStartFetchesMoves DEF ProcessFetchedRanges, Contiguous

\* The initial states satisfy the invariant on the range handed to Core.
LEMMA InitSendInv == Init => SendInv
  BY ParametersAssumption DEF Init, SendInv, TypeOK, SyncedIsCommitted, Indices

\* Every step preserves it.
LEMMA NextSendInv == SendInv /\ [Next]_vars => SendInv'
  <1>. SUFFICES ASSUME SendInv, [Next]_vars
                PROVE  SendInv'
    BY Zenon
  <1>. USE DEF SendInv, TypeOK, SyncedIsCommitted
  <1>1. CASE TryScheduleOnce
    <2>. DEFINE synced == Larger(synced_commit_index, last_commit_index)
                after == FetchAfterIndex(synced)
                count == ScheduledCount(after)
                batches == {Batch(after, i) : i \in 1 .. count}
    <2>1. synced \in Indices /\ synced = last_commit_index /\ after \in Indices
      BY ParametersAssumption DEF FetchAfterIndex, Larger, Indices
    <2>2. count \in Nat /\ \A i \in 1 .. count :
             Batch(after, i) \in CommitRanges /\ after + i * BatchSize \in Indices
      BY Zenon, <2>1, ScheduledBatches
    <2>3. pending_fetches \cup batches \in SUBSET CommitRanges
      BY Zenon, <2>2
    <2>4. pending_fetches' \cup inflight_fetches' \in SUBSET CommitRanges
      BY <2>3, <1>1, TryStartFetchesMoves DEF TryScheduleOnce
    <2>5. highest_scheduled_index' \in Indices
      <3>1. CASE count = 0
        BY Zenon, <3>1, <1>1 DEF TryScheduleOnce
      <3>2. CASE count # 0
        <4>1. count \in 1 .. count
          BY <3>2, <2>2
        <4>. QED  BY Zenon, <4>1, <3>2, <2>2, <1>1 DEF TryScheduleOnce
      <3>. QED  BY Zenon, <3>1, <3>2
    <2>. QED
      BY <2>1, <2>4, <2>5, <1>1, ParametersAssumption DEF TryScheduleOnce, Indices
  <1>2. CASE FetchFinishes
    <2>0. PICK range \in inflight_fetches :
             \E e \in start(range) .. end(range) : HandleFetchResult(range, e)
      BY Zenon, <1>2 DEF FetchFinishes
    <2>1. PICK commit_end \in start(range) .. end(range) : HandleFetchResult(range, commit_end)
      BY Zenon, <2>0
    <2>. DEFINE synced == Larger(synced_commit_index, last_commit_index)
                returned == IF synced < commit_end THEN {<<start(range), commit_end>>} ELSE {}
                rest == Remainder(range, commit_end)
    <2>2. synced \in Indices /\ synced = last_commit_index
      BY ParametersAssumption DEF Larger, Indices
    <2>3. range \in CommitRanges /\ returned \in SUBSET CommitRanges
                                /\ rest \in SUBSET CommitRanges
      BY <2>1, ParametersAssumption DEF Remainder, CommitRanges, start, end
    <2>4. ProcessFetchedRanges(fetched_ranges \cup returned, synced,
                               pending_fetches \cup rest, inflight_fetches \ {range})
      BY Zenon, <2>1 DEF HandleFetchResult
    <2>5. /\ fetched_ranges' \in SUBSET CommitRanges
          /\ pending_fetches' \in SUBSET CommitRanges
          /\ inflight_fetches' \in SUBSET CommitRanges
          /\ \/ pc' = "sending" /\ sending' \in CommitRanges /\ start(sending') <= synced + 1
             \/ pc' = "select" /\ sending' = NoRange
      BY <2>2, <2>3, <2>4, ProcessFetchedRangesType
    <2>. QED
      BY <2>1, <2>2, <2>5, ParametersAssumption DEF HandleFetchResult, Indices
  <1>3. CASE ResumeAfterAnswer
    <2>. DEFINE synced == Larger(synced_commit_index, end(sending))
    <2>1. sending \in CommitRanges /\ synced \in Indices /\ synced <= last_commit_index
      BY <1>3, ParametersAssumption
         DEF ResumeAfterAnswer, Larger, Indices, CommitRanges, end
    <2>2. ProcessFetchedRanges(fetched_ranges, synced, pending_fetches, inflight_fetches)
      BY Zenon, <1>3 DEF ResumeAfterAnswer
    <2>3. /\ fetched_ranges' \in SUBSET CommitRanges
          /\ pending_fetches' \in SUBSET CommitRanges
          /\ inflight_fetches' \in SUBSET CommitRanges
          /\ \/ pc' = "sending" /\ sending' \in CommitRanges /\ start(sending') <= synced + 1
             \/ pc' = "select" /\ sending' = NoRange
      BY Zenon, <2>1, <2>2, ProcessFetchedRangesType
    <2>. QED
      BY Zenon, <1>3, <2>1, <2>3, ParametersAssumption DEF ResumeAfterAnswer, Indices
  <1>4. CASE ResumeAfterShutdownError
    BY <1>4, TryStartFetchesMoves DEF ResumeAfterShutdownError
  <1>5. CASE Shutdown
    BY Zenon, <1>5 DEF Shutdown
  <1>6. CASE AddCertifiedCommits
    BY <1>6, ParametersAssumption
       DEF AddCertifiedCommits, Larger, Indices, CommitRanges, end
  <1>7. CASE CommitLocally
    BY <1>7, ParametersAssumption
       DEF CommitLocally, syncerVars, Indices, CommitRanges, end
  <1>8. CASE CoreShutdown
    BY Zenon, <1>8 DEF CoreShutdown, syncerVars
  <1>9. CASE ObserveCommitVotes
    BY <1>9, ParametersAssumption DEF ObserveCommitVotes, syncerVars, Indices
  <1>10. CASE HandleCommit
    BY <1>10, ParametersAssumption DEF HandleCommit, syncerVars, Indices
  <1>11. CASE UNCHANGED vars
    BY Zenon, <1>11 DEF vars, syncerVars
  <1>. QED
    BY Zenon, <1>1, <1>2, <1>3, <1>4, <1>5, <1>6, <1>7, <1>8, <1>9, <1>10, <1>11 DEF Next

\* A range that continues the synced commits leaves no gap after Core's last
\* commit, whatever Core has committed since.
LEMMA ContiguousRangeHasNoGap ==
    ASSUME SendInv
    PROVE  CertifiedCommitsAreContiguous
  <1>. SUFFICES ASSUME pc = "sending"
                PROVE  NoCommitGap(sending)
    BY Zenon DEF CertifiedCommitsAreContiguous
  <1>1. /\ start(sending) \in Int /\ end(sending) \in Int
        /\ start(sending) <= last_commit_index + 1
        /\ last_commit_index \in Int
    BY ParametersAssumption
       DEF SendInv, TypeOK, SyncedIsCommitted, CommitRanges, start, end, Indices
  <1>. QED  BY <1>1 DEF NoCommitGap, FilterNewCommits

\* The syncer's variables keep their types, and no commit counts as synced
\* before Core has made it.
THEOREM SyncedIsCommittedAlways == Spec => [](TypeOK /\ SyncedIsCommitted)
  <1>1. SendInv => TypeOK /\ SyncedIsCommitted
    BY Zenon DEF SendInv
  <1>. QED  BY <1>1, InitSendInv, NextSendInv, PTL DEF Spec

\* For every batch size, every parallelism and every interleaving with Core's
\* own commits, Core never receives certified commits that leave a gap: its
\* expect("Certified commits validation failed") cannot fail.
THEOREM CertifiedCommitsAreContiguousAlways == Spec => []CertifiedCommitsAreContiguous
  BY InitSendInv, NextSendInv, ContiguousRangeHasNoGap, PTL DEF Spec

-----------------------------------------------------------------------------
(* Where the scheduled ranges are.                                          *)

\* The ranges of P, I and F are different and have no index in common.
NoOverlap(P, I, F) ==
    /\ P \cap I = {}
    /\ P \cap F = {}
    /\ I \cap F = {}
    /\ \A r, s \in P \cup I \cup F : r # s => Covers(r) \cap Covers(s) = {}

\* New batches start above all that is scheduled: the index only grows, and no
\* range ends above it.
RangesInv ==
    /\ NoOverlap(pending_fetches, inflight_fetches, fetched_ranges)
    /\ \A r \in Scheduled : end(r) <= highest_scheduled_index

\* Starting fetches takes ranges from the pending to the running ones.
LEMMA TryStartFetchesKeeps ==
    ASSUME NEW P, NEW I, NEW G, NEW F, TryStartFetches(P, I, G), NoOverlap(P, I, F)
    PROVE  /\ NoOverlap(pending_fetches', inflight_fetches', F)
           /\ pending_fetches' \cup inflight_fetches' = P \cup I
  <1>1. PICK started \in SUBSET P : /\ pending_fetches' = P \ started
                                    /\ inflight_fetches' = I \cup started
    BY Zenon DEF TryStartFetches, LowestRanges
  <1>2. pending_fetches' \cup inflight_fetches' = P \cup I
    BY Zenon, <1>1
  <1>. QED  BY Zenon, <1>1, <1>2 DEF NoOverlap

\* The loop over the fetched ranges keeps every range, unless it is synced or
\* is the one that is handed to Core next.
LEMMA ProcessFetchedRangesKeeps ==
    ASSUME NEW fetched \in SUBSET CommitRanges, NEW synced \in Indices,
           NEW pending \in SUBSET CommitRanges, NEW inflight \in SUBSET CommitRanges,
           ProcessFetchedRanges(fetched, synced, pending, inflight),
           NoOverlap(pending, inflight, fetched)
    PROVE  /\ NoOverlap(pending_fetches', inflight_fetches', fetched_ranges')
           /\ pending_fetches' \cup inflight_fetches' = pending \cup inflight
           /\ fetched_ranges' \subseteq fetched
           /\ \A r \in fetched : \/ r \in fetched_ranges'
                                 \/ end(r) <= synced
                                 \/ pc' # "select" /\ sending' = r
  <1>. DEFINE unsynced == {r \in fetched : end(r) > synced}
              after == {r \in fetched : \E u \in unsynced : ~ Before(r, u)}
  <1>1. \A r \in fetched : r \in after \/ end(r) <= synced
    BY ParametersAssumption DEF Before, CommitRanges, start, end, Indices
  <1>2. CASE \E next \in unsynced :
                /\ pc' = "sending" /\ sending' = next /\ fetched_ranges' = after \ {next}
                /\ pending_fetches' = pending /\ inflight_fetches' = inflight
    <2>1. fetched_ranges' \subseteq fetched
      BY Zenon, <1>2
    <2>2. NoOverlap(pending_fetches', inflight_fetches', fetched_ranges')
      BY Zenon, <1>2, <2>1 DEF NoOverlap
    <2>. QED  BY Zenon, <1>1, <1>2, <2>1, <2>2
  <1>3. CASE fetched_ranges' = after /\ TryStartFetches(pending, inflight, after)
    <2>1. fetched_ranges' \subseteq fetched
      BY Zenon, <1>3
    <2>2. NoOverlap(pending, inflight, fetched_ranges')
      BY Zenon, <2>1 DEF NoOverlap
    <2>. HIDE DEF after
    <2>. QED  BY Zenon, <1>1, <1>3, <2>1, <2>2, TryStartFetchesKeeps
  <1>. QED  BY Zenon, <1>2, <1>3 DEF ProcessFetchedRanges

\* Batches do not overlap, and between them hold every index.
LEMMA BatchesPartition ==
    ASSUME NEW b \in Nat \ {0}, NEW n \in Nat
    PROVE  /\ \A i, j \in 1 .. n : i < j => i * b <= (j - 1) * b
           /\ \A i \in 1 .. n : i * b <= n * b
           /\ \A x \in 1 .. n * b : \E i \in 1 .. n : (i - 1) * b + 1 <= x /\ x <= i * b
  <1>1. ASSUME NEW p \in Nat, NEW q \in Nat, p <= q  PROVE p * b <= q * b
    BY <1>1
  <1>2. \A i, j \in 1 .. n : i < j => i * b <= (j - 1) * b
    <2>. SUFFICES ASSUME NEW i \in 1 .. n, NEW j \in 1 .. n, i < j  PROVE i * b <= (j - 1) * b
      BY Zenon
    <2>1. i \in Nat /\ j - 1 \in Nat /\ i <= j - 1
      OBVIOUS
    <2>. QED  BY Zenon, <2>1, <1>1
  <1>3. \A i \in 1 .. n : i * b <= n * b
    BY <1>1
  <1>4. ASSUME NEW x \in 1 .. n * b
        PROVE  \E i \in 1 .. n : (i - 1) * b + 1 <= x /\ x <= i * b
    <2>. DEFINE q == (x - 1) \div b
    <2>0. n * b \in Nat /\ x - 1 \in Nat
      OBVIOUS
    <2>1. q \in Nat /\ q * b <= x - 1 /\ x - 1 < q * b + b
      BY <2>0
    <2>. HIDE DEF q
    <2>2. ~(n <= q)
      <3>. SUFFICES ASSUME n <= q  PROVE FALSE
        BY Zenon
      <3>1. n * b <= q * b
        BY Zenon, <1>1, <2>1
      <3>2. q * b \in Nat
        BY <2>1
      <3>. QED  BY <2>0, <2>1, <3>1, <3>2
    <2>3. q + 1 \in 1 .. n /\ (q + 1) * b = q * b + b /\ ((q + 1) - 1) * b = q * b
      BY <2>1, <2>2
    <2>4. q * b \in Nat
      BY <2>1
    <2>5. ((q + 1) - 1) * b + 1 <= x /\ x <= (q + 1) * b
      BY <2>0, <2>1, <2>3, <2>4
    <2>. QED  BY Zenon, <2>3, <2>5
  <1>. QED  BY Zenon, <1>2, <1>3, <1>4

LEMMA RangesApart ==
    ASSUME NEW a \in Nat, NEW p \in Nat, NEW q \in Nat, NEW u \in Nat, NEW w \in Nat,
           q <= u \/ w <= p
    PROVE  (a + p + 1 .. a + q) \cap (a + u + 1 .. a + w) = {}
  OBVIOUS

FetchInv ==
    /\ SendInv
    /\ RangesInv
    /\ NoScheduledCommitLost

\* The ranges added by try_schedule_once are above all others, and reach up to
\* the new highest index without a gap.
LEMMA TryScheduleOnceFetchInv ==
    ASSUME FetchInv, TryScheduleOnce
    PROVE  RangesInv' /\ NoScheduledCommitLost'
  <1>. DEFINE synced == Larger(synced_commit_index, last_commit_index)
              after == FetchAfterIndex(synced)
              count == ScheduledCount(after)
              batches == {Batch(after, i) : i \in 1 .. count}
              P == pending_fetches \cup batches
              high == after + count * BatchSize
  <1>1. /\ pc = "select" /\ pc' = pc /\ core_running' = core_running
        /\ synced_commit_index' = synced
        /\ highest_scheduled_index' = IF count = 0 THEN highest_scheduled_index ELSE high
        /\ TryStartFetches(P, inflight_fetches, fetched_ranges)
        /\ fetched_ranges' = fetched_ranges
    BY Zenon DEF TryScheduleOnce
  <1>2. /\ TypeOK
        /\ synced \in Indices /\ after \in Indices /\ highest_scheduled_index \in Indices
        /\ synced <= after /\ highest_scheduled_index <= after
        /\ after = synced \/ after = highest_scheduled_index
        /\ synced_commit_index <= synced /\ synced_commit_index \in Indices
    BY ParametersAssumption DEF FetchInv, SendInv, TypeOK, FetchAfterIndex, Larger, Indices
  <1>3. count \in Nat /\ \A i \in 1 .. count : Batch(after, i) \in CommitRanges
    BY Zenon, <1>2, ScheduledBatches
  <1>4. /\ pending_fetches \in SUBSET CommitRanges /\ inflight_fetches \in SUBSET CommitRanges
        /\ fetched_ranges \in SUBSET CommitRanges
        /\ NoOverlap(pending_fetches, inflight_fetches, fetched_ranges)
        /\ \A r \in Scheduled : end(r) <= highest_scheduled_index
    BY Zenon DEF FetchInv, SendInv, TypeOK, RangesInv
  <1>. HIDE DEF synced, after, count
  <1>5. /\ BatchSize \in Nat \ {0} /\ after \in Nat /\ count * BatchSize \in Nat
        /\ \A i, j \in 1 .. count : i < j => i * BatchSize <= (j - 1) * BatchSize
        /\ \A i \in 1 .. count : i * BatchSize <= count * BatchSize
        /\ \A x \in 1 .. count * BatchSize :
              \E i \in 1 .. count : (i - 1) * BatchSize + 1 <= x /\ x <= i * BatchSize
        /\ \A i \in 0 .. count : i * BatchSize \in Nat
    <2>1. BatchSize \in Nat \ {0} /\ after \in Nat
      BY <1>2, ParametersAssumption DEF Indices
    <2>2. ASSUME NEW m \in Nat  PROVE m * BatchSize \in Nat
      BY <2>1
    <2>3. count * BatchSize \in Nat /\ \A i \in 0 .. count : i * BatchSize \in Nat
      BY <1>3, <2>2
    <2>. QED  BY Zenon, <1>3, <2>1, <2>3, BatchesPartition
  <1>6. ASSUME NEW i \in 1 .. count
        PROVE  /\ Covers(Batch(after, i)) = after + (i - 1) * BatchSize + 1 .. after + i * BatchSize
               /\ end(Batch(after, i)) <= high
               /\ start(Batch(after, i)) > after
    BY <1>3, <1>5 DEF Covers, Batch, start, end
  <1>7. ASSUME NEW r \in batches, NEW s \in batches, r # s  PROVE Covers(r) \cap Covers(s) = {}
    <2>1. PICK i \in 1 .. count : r = Batch(after, i)
      BY Zenon
    <2>2. PICK j \in 1 .. count : s = Batch(after, j)
      BY Zenon
    <2>3. i < j \/ j < i
      BY <1>3, <1>7, <2>1, <2>2
    <2>4. /\ i * BatchSize \in Nat /\ j * BatchSize \in Nat
          /\ (i - 1) * BatchSize \in Nat /\ (j - 1) * BatchSize \in Nat
      BY <1>3, <1>5
    <2>5. i * BatchSize <= (j - 1) * BatchSize \/ j * BatchSize <= (i - 1) * BatchSize
      BY Zenon, <1>5, <2>3
    <2>6. /\ Covers(r) = after + (i - 1) * BatchSize + 1 .. after + i * BatchSize
          /\ Covers(s) = after + (j - 1) * BatchSize + 1 .. after + j * BatchSize
      BY Zenon, <1>6, <2>1, <2>2
    <2>7. (after + (i - 1) * BatchSize + 1 .. after + i * BatchSize)
             \cap (after + (j - 1) * BatchSize + 1 .. after + j * BatchSize) = {}
      BY Zenon, <1>5, <2>4, <2>5, RangesApart
    <2>. QED  BY Zenon, <2>6, <2>7
  <1>8. ASSUME NEW r \in Scheduled, NEW s \in batches
        PROVE  r # s /\ Covers(r) \cap Covers(s) = {}
    <2>1. r \in CommitRanges /\ end(r) <= highest_scheduled_index
      BY Zenon, <1>4 DEF Scheduled
    <2>2. s \in CommitRanges /\ start(s) > after
      BY Zenon, <1>3, <1>6
    <2>. QED  BY <1>2, <2>1, <2>2, ParametersAssumption DEF Covers, CommitRanges, start, end, Indices
  <1>. HIDE DEF batches
  <1>9. NoOverlap(P, inflight_fetches, fetched_ranges)
    BY Zenon, <1>4, <1>7, <1>8 DEF NoOverlap, Scheduled
  <1>10. /\ NoOverlap(pending_fetches', inflight_fetches', fetched_ranges')
         /\ pending_fetches' \cup inflight_fetches' = P \cup inflight_fetches
    BY Zenon, <1>1, <1>9, TryStartFetchesKeeps
  <1>11. Scheduled' = Scheduled \cup batches
    BY Zenon, <1>1, <1>10 DEF Scheduled
  <1>12. /\ highest_scheduled_index' \in Nat /\ highest_scheduled_index <= highest_scheduled_index'
         /\ highest_scheduled_index' <= high
         /\ count # 0 => highest_scheduled_index' = high
    BY <1>1, <1>2, <1>3, <1>5 DEF Indices
  <1>13. \A r \in Scheduled' : end(r) <= highest_scheduled_index'
    <2>1. ASSUME NEW r \in Scheduled  PROVE end(r) <= highest_scheduled_index'
      <3>1. r \in CommitRanges /\ end(r) <= highest_scheduled_index
        BY Zenon, <1>4 DEF Scheduled
      <3>. QED  BY <1>2, <1>12, <3>1, ParametersAssumption DEF CommitRanges, end, Indices
    <2>2. ASSUME NEW r \in batches  PROVE end(r) <= highest_scheduled_index'
      <3>1. PICK i \in 1 .. count : r = Batch(after, i)
        BY Zenon DEF batches
      <3>2. count # 0
        BY <1>3, <3>1
      <3>. QED  BY Zenon, <1>6, <1>12, <3>1, <3>2
    <2>. QED  BY Zenon, <1>11, <2>1, <2>2
  <1>14. NoScheduledCommitLost'
    <2>. SUFFICES ASSUME core_running, NEW x \in Indices, synced < x, x <= highest_scheduled_index'
                  PROVE  \E r \in Scheduled' : x \in Covers(r)
      BY Zenon, <1>1 DEF NoScheduledCommitLost
    <2>1. CASE x <= highest_scheduled_index
      <3>1. synced_commit_index < x
        BY <1>2 DEF Indices
      <3>2. \E r \in Scheduled : x \in Covers(r)
        BY Zenon, <1>1, <2>1, <3>1 DEF FetchInv, NoScheduledCommitLost
      <3>. QED  BY Zenon, <1>11, <3>2
    <2>2. CASE ~(x <= highest_scheduled_index)
      <3>1. count # 0 /\ x \in Nat /\ x > after /\ x <= high
        BY <1>1, <1>2, <1>12, <2>2 DEF Indices
      <3>2. x - after \in 1 .. count * BatchSize
        BY <1>5, <3>1
      <3>3. PICK i \in 1 .. count : (i - 1) * BatchSize + 1 <= x - after /\ x - after <= i * BatchSize
        BY Zenon, <1>5, <3>2
      <3>4. x \in Covers(Batch(after, i))
        <4>1. (i - 1) * BatchSize \in Nat /\ i * BatchSize \in Nat
          BY <1>3, <1>5
        <4>. QED  BY <1>5, <1>6, <3>1, <3>3, <4>1
      <3>. QED  BY Zenon, <1>11, <3>4 DEF batches
    <2>. QED  BY Zenon, <2>1, <2>2
  <1>. QED  BY Zenon, <1>10, <1>13, <1>14 DEF RangesInv

\* A finished fetch is replaced by what it returned and by the rest of it.
LEMMA HandleFetchResultFetchInv ==
    ASSUME FetchInv, NEW range \in inflight_fetches, NEW commit_end \in start(range) .. end(range),
           HandleFetchResult(range, commit_end)
    PROVE  RangesInv' /\ NoScheduledCommitLost'
  <1>. DEFINE synced == Larger(synced_commit_index, last_commit_index)
              returned == IF synced < commit_end THEN {<<start(range), commit_end>>} ELSE {}
              rest == Remainder(range, commit_end)
              F == fetched_ranges \cup returned
              P == pending_fetches \cup rest
              I == inflight_fetches \ {range}
  <1>1. /\ pc = "select" /\ core_running' = core_running
        /\ synced_commit_index' = synced /\ highest_scheduled_index' = highest_scheduled_index
        /\ ProcessFetchedRanges(F, synced, P, I)
    BY Zenon DEF HandleFetchResult
  <1>2. /\ pending_fetches \in SUBSET CommitRanges /\ inflight_fetches \in SUBSET CommitRanges
        /\ fetched_ranges \in SUBSET CommitRanges
        /\ NoOverlap(pending_fetches, inflight_fetches, fetched_ranges)
        /\ \A r \in Scheduled : end(r) <= highest_scheduled_index
        /\ highest_scheduled_index \in Indices
    BY Zenon DEF FetchInv, SendInv, TypeOK, RangesInv
  <1>3. synced \in Indices /\ synced_commit_index <= synced /\ synced_commit_index \in Indices
    BY ParametersAssumption DEF FetchInv, SendInv, TypeOK, Larger, Indices
  <1>4. range \in CommitRanges /\ range \in Scheduled
    BY Zenon, <1>2 DEF Scheduled
  <1>. HIDE DEF synced
  <1>5. ASSUME NEW r \in returned \cup rest
        PROVE  /\ r \in CommitRanges /\ Covers(r) \subseteq Covers(range) /\ Covers(r) # {}
               /\ end(r) <= end(range)
    BY <1>4, ParametersAssumption DEF Remainder, CommitRanges, Covers, start, end
  <1>6. ASSUME NEW r \in returned, NEW t \in rest
        PROVE  r # t /\ Covers(r) \cap Covers(t) = {}
    BY <1>4, ParametersAssumption DEF Remainder, CommitRanges, Covers, start, end
  <1>7. ASSUME NEW r \in returned \cup rest, NEW t \in pending_fetches \cup I \cup fetched_ranges
        PROVE  r # t /\ Covers(r) \cap Covers(t) = {}
    <2>1. t # range
      BY Zenon, <1>2 DEF NoOverlap
    <2>2. Covers(range) \cap Covers(t) = {}
      BY Zenon, <1>2, <2>1 DEF NoOverlap
    <2>. QED  BY Zenon, <1>5, <2>2
  <1>8. (\A r, t \in returned : r = t) /\ (\A r, t \in rest : r = t)
    BY Zenon DEF Remainder
  <1>9. ASSUME NEW i \in Covers(range)
        PROVE  i <= synced \/ \E r \in returned \cup rest : i \in Covers(r)
    <2>1. CASE commit_end < i
      <3>1. commit_end < end(range) /\ i \in Covers(<<commit_end + 1, end(range)>>)
        BY <1>4, <2>1, ParametersAssumption DEF CommitRanges, Covers, start, end
      <3>2. <<commit_end + 1, end(range)>> \in rest
        BY Zenon, <3>1 DEF Remainder
      <3>. QED  BY Zenon, <3>1, <3>2
    <2>2. CASE i <= commit_end /\ synced < commit_end
      <3>1. i \in Covers(<<start(range), commit_end>>)
        BY <1>4, <2>2, ParametersAssumption DEF CommitRanges, Covers, start, end
      <3>. QED  BY Zenon, <2>2, <3>1
    <2>3. commit_end \in Nat /\ i \in Nat
      BY <1>4, ParametersAssumption DEF CommitRanges, Covers, start, end
    <2>4. CASE i <= commit_end /\ ~(synced < commit_end)
      BY <1>3, <2>3, <2>4, ParametersAssumption DEF Indices
    <2>. QED  BY <2>1, <2>2, <2>3, <2>4
  <1>. HIDE DEF returned, rest
  <1>10. NoOverlap(P, I, F)
    BY Zenon, <1>2, <1>6, <1>7, <1>8 DEF NoOverlap
  <1>11. P \in SUBSET CommitRanges /\ I \in SUBSET CommitRanges /\ F \in SUBSET CommitRanges
    BY Zenon, <1>2, <1>5
  <1>12. /\ NoOverlap(pending_fetches', inflight_fetches', fetched_ranges')
         /\ pending_fetches' \cup inflight_fetches' = P \cup I
         /\ fetched_ranges' \subseteq F
         /\ \A r \in F : \/ r \in fetched_ranges'
                         \/ end(r) <= synced
                         \/ pc' # "select" /\ sending' = r
    <2>. HIDE DEF P, I, F
    <2>. QED  BY Zenon, <1>1, <1>3, <1>10, <1>11, ProcessFetchedRangesKeeps
  <1>13. \A r \in Scheduled' : end(r) <= highest_scheduled_index'
    <2>1. ASSUME NEW r \in returned \cup rest  PROVE end(r) <= highest_scheduled_index
      BY <1>2, <1>4, <1>5, ParametersAssumption DEF CommitRanges, end, Indices
    <2>2. Scheduled' \subseteq Scheduled \cup returned \cup rest
      BY Zenon, <1>12 DEF Scheduled
    <2>. QED  BY Zenon, <1>1, <1>2, <2>1, <2>2
  <1>14. NoScheduledCommitLost'
    <2>. SUFFICES ASSUME core_running, NEW x \in Indices, synced < x, x <= highest_scheduled_index
                  PROVE  \/ \E r \in Scheduled' : x \in Covers(r)
                         \/ pc' # "select" /\ x \in Covers(sending')
      BY Zenon, <1>1 DEF NoScheduledCommitLost
    <2>1. synced_commit_index < x
      BY <1>3 DEF Indices
    <2>2. PICK r \in Scheduled : x \in Covers(r)
      BY Zenon, <1>1, <2>1 DEF FetchInv, NoScheduledCommitLost
    <2>3. PICK t \in P \cup I \cup F : x \in Covers(t)
      <3>1. CASE r = range
        BY <1>3, <1>9, <2>2, <3>1 DEF Indices
      <3>2. CASE r # range
        BY Zenon, <2>2, <3>2 DEF Scheduled
      <3>. QED  BY Zenon, <3>1, <3>2
    <2>4. CASE t \in P \cup I
      BY Zenon, <1>12, <2>3, <2>4 DEF Scheduled
    <2>5. CASE t \in F
      <3>1. ~(end(t) <= synced)
        BY <1>3, <1>11, <2>3, <2>5, ParametersAssumption DEF Covers, CommitRanges, start, end, Indices
      <3>. QED  BY Zenon, <1>12, <2>3, <2>5, <3>1 DEF Scheduled
    <2>. QED  BY Zenon, <2>3, <2>4, <2>5
  <1>. QED  BY Zenon, <1>12, <1>13, <1>14 DEF RangesInv

\* Once Core has answered, all of the range that it was handed is synced.
LEMMA ResumeAfterAnswerFetchInv ==
    ASSUME FetchInv, ResumeAfterAnswer
    PROVE  RangesInv' /\ NoScheduledCommitLost'
  <1>. DEFINE synced == Larger(synced_commit_index, end(sending))
  <1>1. /\ pc = "answered" /\ core_running' = core_running
        /\ synced_commit_index' = synced /\ highest_scheduled_index' = highest_scheduled_index
        /\ ProcessFetchedRanges(fetched_ranges, synced, pending_fetches, inflight_fetches)
    BY Zenon DEF ResumeAfterAnswer
  <1>2. /\ pending_fetches \in SUBSET CommitRanges /\ inflight_fetches \in SUBSET CommitRanges
        /\ fetched_ranges \in SUBSET CommitRanges /\ sending \in CommitRanges
        /\ NoOverlap(pending_fetches, inflight_fetches, fetched_ranges)
        /\ \A r \in Scheduled : end(r) <= highest_scheduled_index
    BY Zenon, <1>1 DEF FetchInv, SendInv, TypeOK, RangesInv
  <1>3. /\ synced \in Indices /\ synced_commit_index <= synced /\ synced_commit_index \in Indices
        /\ \A i \in Covers(sending) : i <= synced
    BY <1>2, ParametersAssumption
       DEF FetchInv, SendInv, TypeOK, Larger, Indices, CommitRanges, end, Covers, start
  <1>. HIDE DEF synced
  <1>4. /\ NoOverlap(pending_fetches', inflight_fetches', fetched_ranges')
        /\ pending_fetches' \cup inflight_fetches' = pending_fetches \cup inflight_fetches
        /\ fetched_ranges' \subseteq fetched_ranges
        /\ \A r \in fetched_ranges : \/ r \in fetched_ranges'
                                     \/ end(r) <= synced
                                     \/ pc' # "select" /\ sending' = r
    BY Zenon, <1>1, <1>2, <1>3, ProcessFetchedRangesKeeps
  <1>5. \A r \in Scheduled' : end(r) <= highest_scheduled_index'
    BY Zenon, <1>1, <1>2, <1>4 DEF Scheduled
  <1>6. NoScheduledCommitLost'
    <2>. SUFFICES ASSUME core_running, NEW x \in Indices, synced < x, x <= highest_scheduled_index
                  PROVE  \/ \E r \in Scheduled' : x \in Covers(r)
                         \/ pc' # "select" /\ x \in Covers(sending')
      BY Zenon, <1>1 DEF NoScheduledCommitLost
    <2>1. synced_commit_index < x /\ x \notin Covers(sending)
      BY <1>3 DEF Indices
    <2>2. PICK r \in Scheduled : x \in Covers(r)
      BY Zenon, <1>1, <2>1 DEF FetchInv, NoScheduledCommitLost
    <2>3. CASE r \in fetched_ranges
      <3>1. ~(end(r) <= synced)
        BY <1>2, <1>3, <2>2, <2>3, ParametersAssumption DEF Covers, CommitRanges, start, end, Indices
      <3>. QED  BY Zenon, <1>4, <2>2, <2>3, <3>1 DEF Scheduled
    <2>. QED  BY Zenon, <1>4, <2>2, <2>3 DEF Scheduled
  <1>. QED  BY Zenon, <1>4, <1>5, <1>6 DEF RangesInv

\* Every step preserves the invariant.
LEMMA NextFetchInv == FetchInv /\ [Next]_vars => FetchInv'
  <1>. SUFFICES ASSUME FetchInv, [Next]_vars  PROVE FetchInv'
    BY Zenon
  <1>0. SendInv'
    BY Zenon, NextSendInv DEF FetchInv
  <1>. SUFFICES RangesInv' /\ NoScheduledCommitLost'
    BY Zenon, <1>0 DEF FetchInv
  <1>1. CASE TryScheduleOnce
    BY Zenon, <1>1, TryScheduleOnceFetchInv
  <1>2. CASE FetchFinishes
    BY Zenon, <1>2, HandleFetchResultFetchInv DEF FetchFinishes
  <1>3. CASE ResumeAfterAnswer
    BY Zenon, <1>3, ResumeAfterAnswerFetchInv
  <1>4. CASE ResumeAfterShutdownError
    <2>1. /\ TryStartFetches(pending_fetches, inflight_fetches, fetched_ranges)
          /\ fetched_ranges' = fetched_ranges /\ highest_scheduled_index' = highest_scheduled_index
          /\ ~core_running /\ core_running' = core_running
      BY Zenon, <1>4 DEF ResumeAfterShutdownError
    <2>2. /\ NoOverlap(pending_fetches', inflight_fetches', fetched_ranges')
          /\ pending_fetches' \cup inflight_fetches' = pending_fetches \cup inflight_fetches
      BY Zenon, <2>1, TryStartFetchesKeeps DEF FetchInv, RangesInv
    <2>. QED  BY Zenon, <2>1, <2>2 DEF FetchInv, RangesInv, Scheduled, NoScheduledCommitLost
  <1>5. CASE Shutdown
    <2>1. NoOverlap(pending_fetches, {}, fetched_ranges)
      BY Zenon DEF FetchInv, RangesInv, NoOverlap
    <2>. QED  BY Zenon, <1>5, <2>1 DEF Shutdown, FetchInv, RangesInv, Scheduled, NoScheduledCommitLost
  <1>6. CASE UNCHANGED syncerVars /\ (core_running' => core_running)
    BY Zenon, <1>6 DEF syncerVars, FetchInv, RangesInv, Scheduled, NoScheduledCommitLost
  <1>7. CASE AddCertifiedCommits
    BY Zenon, <1>7 DEF AddCertifiedCommits, FetchInv, RangesInv, Scheduled, NoScheduledCommitLost
  <1>. QED
    BY <1>1, <1>2, <1>3, <1>4, <1>5, <1>6, <1>7
    DEF Next, CommitLocally, CoreShutdown, ObserveCommitVotes, HandleCommit, vars

\* No commit is ever downloaded twice and no scheduled commit is ever lost, for
\* every batch size and parallelism, whatever part of a range a fetch returns and
\* whatever Core commits meanwhile.
LEMMA FetchInvAlways == Spec => []FetchInv
  <1>1. Init => FetchInv
    <2>. SUFFICES ASSUME Init  PROVE FetchInv
      BY Zenon
    <2>1. RangesInv
      BY Zenon DEF Init, RangesInv, NoOverlap, Scheduled
    <2>2. NoScheduledCommitLost
      BY ParametersAssumption DEF Init, NoScheduledCommitLost, Indices
    <2>. QED  BY Zenon, <2>1, <2>2, InitSendInv DEF FetchInv
  <1>. QED  BY <1>1, NextFetchInv, PTL DEF Spec

\* The ranges that are pending, being fetched and fetched never overlap, so
\* schedule_loop never has a commit downloaded twice: for every batch size and
\* parallelism, whatever part of its range a fetch returns.
THEOREM NoDuplicateFetchAlways == Spec => []NoDuplicateFetch
  <1>1. FetchInv => NoDuplicateFetch
    BY Zenon DEF FetchInv, RangesInv, NoOverlap, NoDuplicateFetch, Scheduled
  <1>. QED  BY <1>1, FetchInvAlways, PTL

\* While Core runs, every index the syncer has scheduled and not synced is in
\* one of its ranges: nothing that partial answers, dropped ranges and Core's own
\* commits do leaves a gap that is never fetched.
THEOREM NoScheduledCommitLostAlways == Spec => []NoScheduledCommitLost
  <1>1. FetchInv => NoScheduledCommitLost
    BY Zenon DEF FetchInv
  <1>. QED  BY <1>1, FetchInvAlways, PTL

=============================================================================

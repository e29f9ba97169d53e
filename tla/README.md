# TLA+ models and proofs for the Haneul consensus core and indexer framework

Haneul is a blockchain node written in Rust. Two parts of it have to be right under every
interleaving, crash and late message and can hardly be tested into that state: the consensus core
(`consensus/core`), which turns a DAG of signed blocks into one sequence of commits, and the
indexer framework (`crates/haneul-indexer-alt-framework`), which turns checkpoints into database
rows with concurrent, retried, restartable pipelines. This directory models them in TLA+, checks
the models with TLC on small instances, and proves with TLAPS, for every value of the constants,
the statements that matter most.

## The system and how its parts interact

A validator proposes one block per round (`proposer.rs`). A block names the blocks it builds on,
among them a quorum of the previous round. Blocks arrive in any order; one whose ancestors are
missing is suspended (`block_manager.rs`) until they arrive or fall below the garbage-collection
round. Accepted blocks advance the threshold clock, which tells the proposer that a round has
begun, and feed the commit rule, which decides leader slots: `universal_committer.rs` and
`base_committer.rs` in consensus v2, `flex_committer.rs` and `leader_slot_decider.rs` in v3. A
decided leader commits its uncommitted history. A validator that lags downloads certified commits
instead (`commit_syncer.rs`). Committees (`config/src/committee.rs`) fix the stake thresholds.

In an indexer the broadcaster (`ingestion/broadcaster.rs`) hands each checkpoint to the pipelines.
A concurrent pipeline writes rows in any order and then moves a watermark; a pruner and a
reader-watermark task take old rows away. A sequential pipeline restores the order and writes rows
and watermark in one transaction.

## Modules

| Module | Models | State and steps |
|---|---|---|
| `CommitSyncer` | `commit_syncer.rs` | The fields of the struct plus the indices shared with Core, the vote monitor and the consumer. The loop is one task, so a handler is one action except where it awaits Core; `pc` says where it waits. |
| `BlockManager` | `block_manager.rs` | The three maps, the accepted and the committed blocks. One action per call: received blocks, blocks asked for, certified commits block by block, garbage collection. |
| `Committee`, `CommitteeEpochs` | `committee.rs`, `stake_aggregator.rs` | Both constructors with their integer division, as operators; an epoch is a step to another committee. |
| `Dag` | `dag_state.rs` (as read by the committers), `linearizer.rs` | All blocks ever produced as constants, equivocations included; sequences of commits, gc rounds and sub-DAGs as operators. |
| `FlexCommitter` | consensus v3 | Per validator: accepted blocks, commits, decided slots. Accepting a block, each decision, each commit, taking over a certified commit, writing to storage and restarting are steps. |
| `UniversalCommitter` | consensus v2 | The same, with the pipelined rounds, the truncation at the end of a leader schedule (`leader_schedule.rs`) and its recovery. |
| `CommitLog` | what both promise | One log that only grows, of which every validator holds a beginning. |
| `Proposer` | `proposer.rs`, `threshold_clock.rs`, `leader_timeout.rs`, `core_thread.rs`, recovery in `core.rs`, own last block in `synchronizer.rs` | Per validator its DAG, clock, last block, timers and pending commands; stops between any two steps, loss of storage. |
| `IndexerTable` | what a concurrent pipeline promises | Rows land in any order; the watermark moves only over checkpoints that are complete. |
| `IndexerPipeline` | concurrent collector, committer, `commit_watermark` | Batches, channels of bounded size, retried writes, restarts. |
| `IndexerPruner` | `pruner.rs`, `reader_watermark.rs`, the watermarks table | Chunks pruned by parallel tasks that fail and finish in any order, reads in flight. |
| `Broadcaster`, `SequentialPipeline` | `ingestion/broadcaster.rs`, `pipeline/sequential` | Rounds of ingestion beside a stream; reorder buffer, batches, transactions whose answer may be lost. |

`MC*` modules hold the instances, `*_proof` modules the theorems. `PROJECT.json` maps each
definition to the lines it stands for. The definitions named `X_y` directly before a definition
`X` are what a plausible mistake would make of `X`; with it in place of `X` the property fails.

Names, payloads, signatures and timestamps are left out. Where the code depends on heuristics
(scores, probes, choice of peers) the model takes any value they may have. Storage writes are
atomic, as the code's batches are.

## Runs

`commit_syncer`: seven commits in batches of three, two parallel fetches. Enough for partial
answers, answers out of order, local commits that overtake a fetch, and the limit on fetched
ranges. The floor of one parallel fetch (`.max(1)`) is never what keeps a fetch going here: ranges
are started lowest first, so that the first one has a slot before fetched ranges use up the limit.

`block_manager`: six blocks of two authorities over four rounds with gc depth 1; one block has
ancestors that are released at different gc rounds.

`flex_committer`: four authorities with six votes, one of them equivocating with a leader block
such that each twin can be certified for some anchor. One validator with one crash covers
agreement between two validators: the histories `decisions` and `produced` outlive the crash, so
what a first life decided and lost is compared with what a second life decides from another part
of the DAG. `flex_committer_liveness` has two validators, no faults, and a slot that only the
indirect rule decides. The code compares leader schedules once per call of the committer, the model
after every commit; they differ only when certified commits handed over together change the
schedule and change it back, and then in decisions that are dropped and made again.

`universal_committer`: the same argument with three authorities over six rounds and a change of
the leader schedule after two commits; a leader that has a quorum of votes and no certificate
waits for its anchor while a later one is decided.

`committee_epochs`: total stakes up to 40 and budgets up to 4, which covers all remainders of the
divisions.

`proposer`: two of three validators run, with one fault among them. Progress is an invariant on
the states in which nothing can run any more (`NobodyGetsStuck`). Peers answer the question for
the own last block truthfully, and the validator that may lose its storage is one that asks that
question. Restarts of consensus within a process are not modelled.

`indexer_pipeline`: a checkpoint without rows, one that fills a batch exactly and one that is
split, two failures and two restarts. `indexer_pipeline_lag` feeds the pipeline one checkpoint of
its past, and shows the first finding below.

`indexer_pruner`: four checkpoints, chunks of two, two reads, two failures, one restart, after
which the cohort may start one checkpoint lower. The delay between raising `reader_lo` and pruning
is modelled by what it is for: no read that began before it outlasts it. A failed write of
`pruner_hi` for the last chunk is retried only when new ranges come up; after a restart ranges may
be pruned again, so `NoRangePrunedTwice` is about one life. A pipeline that is fed a pruned
checkpoint again writes its rows again, and no range covers them any more. The history variable
`refed` names those checkpoints, and `NothingLeftBelowPrunerHi` and
`EverythingBelowReaderLoIsPruned` except them and nothing else. Readers are outside the framework
(GraphQL and JSON-RPC servers): `BeginRead` and `EndRead` are the environment.

`sequential_pipeline`: three checkpoints, one of them without rows, with or without a streaming
client, two broken or failing streams, so that the doubled backoff is used, one failed or
unacknowledged transaction, one restart with a cohort that lags by one. An ingestion error that is
not retried stops the service: it is a `Restart`. `sequential_pipeline_retry` needs no more than
one lost answer to a transaction, and shows the second finding.

Deadlock is not an error where the instance comes to an end: all blocks accepted, all checkpoints
indexed, all faults used up.

### Fairness

Every fair action is a loop of the code that ends only at shutdown: intervals tick, fetches and
transactions are retried, channels with something in them are read, missing blocks are asked for
again. Failures, crashes, broken streams and shutdowns are never fair and are bounded by a named
constant. Strong fairness occurs in `SequentialPipeline` only: fetches and stream wait in turn for
room in a channel, and the collector's `select!` is biased towards its channel.

## Findings

`indexer_pipeline_lag` violates `EverythingIsWatermarked`: when a batch is exactly full the
collector adds an empty part of the next checkpoint; if that part is reported after the rest of
the checkpoint was passed, it is inserted anew, never completes, and the watermark stops until a
restart (`commit_watermark.rs:96`). It needs a pipeline fed from below its watermark.

`sequential_pipeline_retry` violates `ExactlyOnceAndInOrder`, which is what `lib.rs:555` promises
("each checkpoint is committed exactly once and in order"): a transaction that took effect and
whose answer was lost is retried, the retry does not look at what `set_committer_watermark` returns
(`committer.rs:76`), and the batch is committed again. What holds all the same is
`CommittedWithoutGaps`.

Met while modelling, without a run of their own:
- rows of a pruned checkpoint that a lagging cohort feeds a pipeline again are written below
  `pruner_hi` (`collector.rs:123`) and stay, where the store's documentation says that nothing is
  left ("The pruner has already deleted up to this checkpoint (exclusive)"); the properties of
  `indexer_pruner` say that this is the only exception;
- after a restart `Core` starts without the last included ancestors that the proposer keeps
  (`core.rs:142`, `proposer.rs:97`); the properties hold all the same.

## Proofs

Assumptions are those of the modules' `ASSUME`s, which TLC evaluates on every instance. The
essential ones: stake is additive over sets of authorities; the Byzantine stake is at most `f`;
the thresholds satisfy what the constructors assert (proved of the constructors themselves in
`ThresholdsIntersectAlways` and `BudgetIsToleratedAlways`); blocks are as `BlockVerifier` lets
them through; an honest authority has one block per round; a schedule is a function of the leaders
committed. The number of validators, blocks, rounds, crashes and failures is arbitrary.

`CommitSyncer_proof`. `SendInv`: the synced index never exceeds Core's last commit, a range is
handed over only when it continues what is synced, and Core has all of a range when it answers.
From it `SyncedIsCommittedAlways` and `CertifiedCommitsAreContiguousAlways`. `FetchInv` adds
`RangesInv`: pending, in-flight and fetched ranges have no commit in common and none lies above the
highest scheduled index; with it, that these ranges and what is synced leave no scheduled commit
out is preserved by splitting, retrying and dropping ranges. From it `NoDuplicateFetchAlways` and
`NoScheduledCommitLostAlways`.

`BlockManager_proof`. `IInv`: suspended blocks and missing ancestors are two views of one relation
(`DualMaps`), every ancestor of a suspended block is accepted, collected or listed
(`AncestorsAccounted`), and a certified commit under way has what it needs (`CertifiedInv`). None
of the five theorems' properties is inductive alone: unsuspending a block is a cascade whose
intermediate states the maps must survive. `SuspendedIsBeingFetchedAlways` takes a suspended block
of the lowest round.

`Dag_proof`. The two quorum-intersection facts, minimal elements of sets of rounds, closure of a
DAG above its gc round (`ClosedAbove`), chains of commits (`Chain`: each commit is the sub-DAG
above the gc round that the ones before it leave) and the arguments shared by both refinements.

`FlexCommitter_proof`. `DecisionsInv` carries the agreement argument: every
decision ever made, by anyone, has evidence, direct (a quorum or a certificate of votes in the
constant DAG) or indirect (an anchor, which is the first later slot not skipped, and what its past
shows); and no two decisions on a slot differ. A new decision is compared with the old ones: direct
evidence meets direct evidence in an honest voter, direct evidence is visible to every anchor, and
two anchors are the same because the slots between are agreed on. `StatusInv` ties what a
validator holds in memory to these decisions, `StoreInv` what it has stored, `ProducedInv` every
sequence of commits there ever was. `IInv` is their conjunction. It gives `NeverPanicsAlways`,
`DecisionsAgreeAlways`, `CommitsAgreeAlways`, `CommittedOnceAlways`,
`CommittedInCausalOrderAlways` and, step by step, `FlexImplementsCommitLog`.

`UniversalCommitter_proof`. The same argument for consensus v2, per
leader schedule: decisions are agreed on under a schedule, the schedule is agreed on because it is
a function of agreed commits, and so is the next commit. What is new is `PhaseInv`: leaders that
are decided and not yet committed always fit into the current schedule, and when it is full none
is left, so that nothing decided under an old schedule is committed under a new one. It gives
`NeverPanicsAlways`, `DecisionsAgreeAlways` and `UniversalImplementsCommitLog`.

`Proposer_proof`. `Inv` has four parts, each used by the ones after it.
- `DagInv`: what a validator has, in memory and in storage, contains the ancestors of its blocks;
  every block has a quorum of parents; and the clock is what the blocks amount to (`Follows`). The
  code adds blocks one by one, in any order that respects ancestry, or in order of rounds when it
  recovers; either way the clock is one round past the last that has a quorum of authors, and
  since a block comes after its quorum of parents it is never of a later round. This is
  `ClockFollowsTheDagHolds`.
- `OwnInv`: no two remembered blocks of an author share a round, and a block its author has lost
  was in the storage of a quorum (`Remembered`), each member of which has either not answered yet
  or answered with a round at least as high. Answers of `f + 1` stake meet that quorum, so the
  round that the validator then starts from is not below the lost block. This is
  `OneBlockPerRoundHolds`. A lost block that no quorum had is `forgotten`; about those nothing is
  claimed, in the code or here.
- `PanicInv`: the asserts on the proposal path hold, and a validator that does not ask its peers
  has a block of its own in storage, for `NeverPanicsHolds`.
- `RestInv`: a new round is signalled at once; what a running validator accepted can be fetched; a
  round reported by peers is that of a block all can get; and after the last timer of a round only
  a condition that will be tested again can have stopped the proposal (`ForcedInv`). When all
  are at rest they have accepted the same blocks, so their clocks agree; each has a block of that
  round, by `ForcedInv` or by what its peers reported; these are a quorum, and the clock would have
  passed it. Hence `NobodyGetsStuckHolds`.

Its assumptions are those of the committee and `AmnesiaAssumption`: at most one validator loses its
storage, it is one that asks its peers, and validity and quorum threshold exceed the total. The
last is true of `Committee::new`, and of `Committee::new_v3` only without a budget for crashes. The
committee has more than one authority; the shortcut of `synchronizer.rs` for a single one is not
modelled.

`IndexerPruner_proof`. `SafeInv`: reads in flight, and ranges waiting, running or failed, all lie on
their side of the reader watermark; it gives `ReadsAreSafe` and `PrunedOnce`. `GoneInv` adds that
what is below `pruner_hi` or in a pruned range, and was not fed again since, has no rows, that every
checkpoint scheduled so far is gone or still pending, and that all the pruner works on is below
`hi + 1`, where no row lands for the first time: `PrunerHiIsTrue`, for any lag.

`SequentialPipeline_proof`. For the broadcaster `BroadcastInv` says of each checkpoint whether it
has been sent: below `checkpoint_hi`, fetched in this round, or streamed in this round, the three
ranges being disjoint, for `EachCheckpointOnceAlways`. For the pipeline `CommitInv`: the queued
batches are contiguous, the first continues the watermark or, after a lost acknowledgement, repeats
the batch that ends there, and the last ends where the collector goes on, for
`CommittedWithoutGapsAlways`. `PendingInv` adds that a checkpoint is in one place only, being
processed or pending; rows being additive over disjoint sets of checkpoints, what the collector takes off
its counter is what it had added: `PendingRowsAreCountedAlways`.

### Only model-checked

- Liveness (`CatchesUp`, `SuspendedIsAccepted`, `CommitsConverge`, `EverythingIsWatermarked`,
  `EverythingBelowReaderLoIsPruned`, `EverythingIsCommitted`): fairness is outside the prover.
  `NobodyGetsStuck` is proved as the invariant it is, with the conditions for a rest written out.
- `RowsAccountedFor` and `ImplementsTable` of `IndexerPipeline`: the watermark moves when the parts
  of a checkpoint add up to its rows, in whatever batches they were written. The invariant
  behind both is a sum over batches in channels, in writers and in the table, which needs induction
  over data that the prover does not do.

## Not modelled

In the consensus core: transaction voting and finality, leader scoring, round probing, the
networking and storage layers, and the order of blocks and the timestamp within a commit. In the
indexer: handlers, clients, backfill tasks and graceful shutdown. The rest of the node
(checkpoints, execution, epochs, bridge, Move) is listed in `PROJECT.json` with the reasons.

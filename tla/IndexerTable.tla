---------------------------- MODULE IndexerTable ----------------------------
(***************************************************************************)
(* What a concurrent indexing pipeline promises about the table it fills   *)
(* (crates/haneul-indexer-alt-framework): rows are upserted in any order,  *)
(* in any grouping and any number of times, but the high watermark         *)
(* `checkpoint_hi_inclusive` moves only over checkpoints whose rows are    *)
(* all in the database.  IndexerPipeline implements this specification;    *)
(* IndexerPruner adds the tasks that take rows away again.                 *)
(***************************************************************************)
EXTENDS Integers

CONSTANTS
    FirstCheckpoint, \* where a pipeline without a watermark starts
    LastCheckpoint, \* the network's latest checkpoint: indexing stops there
    RowsOf,         \* checkpoint -> the number of rows a processor makes of it
    MaxLag          \* how far behind this pipeline another one of its cohort is

ASSUME TableAssumption ==
    /\ LastCheckpoint \in Nat
    /\ FirstCheckpoint \in 0 .. LastCheckpoint
    /\ MaxLag \in Nat
    /\ RowsOf \in [0 .. LastCheckpoint -> Nat]

VARIABLES
    db,     \* the rows in the table, <<checkpoint, index>>
    hi,     \* checkpoint_hi_inclusive in the watermarks table, -1 before the first
    first,  \* the first checkpoint the running indexer ingests
    start   \* the checkpoint after `hi` when it started

tableVars == <<db, hi, first, start>>

Checkpoints == 0 .. LastCheckpoint

RowsIn(c) == {<<c, i>> : i \in 1 .. RowsOf[c]}

Row == UNION {RowsIn(c) : c \in Checkpoints}

\* Indexer::add_pipeline resumes after the watermark of the pipeline; ingestion
\* starts from the smallest such checkpoint among the pipelines of a cohort, so
\* a pipeline may be fed checkpoints it has already watermarked.
StartsAt(h) == {c \in 0 .. h + 1 : c + MaxLag >= h + 1}

TableInit ==
    /\ db = {}
    /\ hi = FirstCheckpoint - 1
    /\ first \in StartsAt(hi)
    /\ start = hi + 1

\* Rows are written to the table, over what is there.
Upsert(rows) ==
    /\ db' = db \cup rows
    /\ UNCHANGED <<hi, first, start>>

\* A commit that reaches the database: also one that reported an error.  Once
\* the watermark is past a checkpoint no commit of its rows is left, but those
\* a pipeline is fed again because its cohort starts lower may land any time.
CommitRows(rows) ==
    /\ \A r \in rows : r[1] > hi \/ r[1] \in first .. start - 1
    /\ Upsert(rows)

\* set_committer_watermark only ever raises the watermark.
AdvanceTo(h) ==
    /\ h > hi
    /\ \A c \in hi + 1 .. h : RowsIn(c) \subseteq db
    /\ hi' = h
    /\ UNCHANGED <<db, first, start>>

RestartTable ==
    /\ first' \in StartsAt(hi)
    /\ start' = hi + 1
    /\ UNCHANGED <<db, hi>>

TableNext ==
    \/ \E rows \in SUBSET Row : CommitRows(rows)
    \/ \E h \in Checkpoints : AdvanceTo(h)
    \/ RestartTable

TableSpec == TableInit /\ [][TableNext]_tableVars
=============================================================================

--------------------------- MODULE MCCommitSyncer ---------------------------
(* CommitSyncer with the commits of a few batches.                         *)
EXTENDS CommitSyncer
=============================================================================

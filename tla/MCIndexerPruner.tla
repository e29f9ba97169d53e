-------------------------- MODULE MCIndexerPruner --------------------------
(***************************************************************************)
(* Instances of IndexerPruner.                                             *)
(***************************************************************************)
EXTENDS IndexerPruner

\* cfg values
OneRowEach == [c \in Checkpoints |-> 1]
=============================================================================

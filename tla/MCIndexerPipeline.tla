-------------------------- MODULE MCIndexerPipeline --------------------------
(***************************************************************************)
(* Instances of IndexerPipeline: a checkpoint without rows, one that fills *)
(* a batch exactly, and one split between two batches.                     *)
(***************************************************************************)
EXTENDS IndexerPipeline, TLC

\* cfg values
ThreeCheckpoints == 0 :> 2 @@ 1 :> 0 @@ 2 :> 2
LaggedCheckpoints == 0 :> 1 @@ 1 :> 1 @@ 2 :> 1
=============================================================================

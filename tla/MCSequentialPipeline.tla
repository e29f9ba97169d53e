------------------------ MODULE MCSequentialPipeline ------------------------
(***************************************************************************)
(* Instance of SequentialPipeline with Broadcaster.                        *)
(***************************************************************************)
EXTENDS SequentialPipeline, TLC

\* cfg value
ThreeCheckpoints == 0 :> 1 @@ 1 :> 2 @@ 2 :> 0
=============================================================================

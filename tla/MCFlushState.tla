---------------------------- MODULE MCFlushState ----------------------------
(***************************************************************************)
(* A chain of three blocks above the genesis block, 0.                     *)
(***************************************************************************)
EXTENDS FlushState, TLC

ParentC == 1 :> 0 @@ 2 :> 1 @@ 3 :> 2
=============================================================================

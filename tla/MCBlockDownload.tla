---------------------------- MODULE MCBlockDownload ----------------------------
(* Peer good has a branch of three blocks.  Peer mute announces a block on *)
(* the first of them, and need not answer.                                 *)
EXTENDS BlockDownload, TLC

CONSTANTS good, mute

MCParent == (1 :> 0) @@ (2 :> 1) @@ (3 :> 2) @@ (4 :> 1)
MCMaxUnasked == (good :> 1) @@ (mute :> 2)
MCTips == (good :> {3}) @@ (mute :> {4})

================================================================================

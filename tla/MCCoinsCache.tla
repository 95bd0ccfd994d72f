---------------------------- MODULE MCCoinsCache ----------------------------
(***************************************************************************)
(* TLC instance of CoinsCache: two transactions, so that flushing one entry *)
(* is seen to leave the other alone, and two unspent values besides Pruned, *)
(* so that a stale unspent value differs from the current one.              *)
(***************************************************************************)
EXTENDS CoinsCache

CONSTANTS t1, t2, full, half, h1, h2

MCTxids == {t1, t2}
MCCoins == {Pruned, full, half}
MCHashes == {h1, h2}
=============================================================================

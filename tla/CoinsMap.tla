------------------------------ MODULE CoinsMap ------------------------------
(***************************************************************************)
(* What the stack of coin caches promises to validation: one map from      *)
(* transaction ids to their unspent coins, with the block it is the state  *)
(* of, in three versions.                                                  *)
(*   durable  what is on disk and survives a crash (the chainstate);       *)
(*   main     the state at the active tip (what pcoinsTip shows);          *)
(*   work     the state a block is being applied to (the local view of     *)
(*            ConnectTip or DisconnectTip); equal to main when there is    *)
(*            none.                                                        *)
(* Nothing is said of caching: no entries, no flags.                       *)
(***************************************************************************)
CONSTANTS
    Txids,      \* transaction ids
    Coins,      \* the values a CCoins can have
    Pruned,     \* the one with no unspent output; as good as no coins at all
    Hashes,     \* block hashes
    NullHash    \* the null hash: the best block of an empty chainstate

VARIABLES durable, main, work, open

vars == <<durable, main, work, open>>

Chainstate == [coins: [Txids -> Coins], best: Hashes \cup {NullHash}]

Empty == [coins |-> [t \in Txids |-> Pruned], best |-> NullHash]

Init ==
    /\ durable = Empty
    /\ main = Empty
    /\ work = Empty
    /\ open = FALSE

Begin ==
    /\ ~open
    /\ open' = TRUE
    /\ UNCHANGED <<durable, main, work>>

Write(t, c) ==
    /\ open
    /\ work' = [work EXCEPT !.coins[t] = c]
    /\ UNCHANGED <<durable, main, open>>

\* The block becomes part of the active chain: all of its changes, or none.
Commit(h) ==
    /\ open
    /\ work' = [work EXCEPT !.best = h]
    /\ main' = work'
    /\ open' = FALSE
    /\ UNCHANGED durable

Abandon ==
    /\ open
    /\ work' = main
    /\ open' = FALSE
    /\ UNCHANGED <<durable, main>>

Sync ==
    /\ ~open
    /\ durable' = main
    /\ UNCHANGED <<main, work, open>>

Restart ==
    /\ main' = durable
    /\ work' = durable
    /\ open' = FALSE
    /\ UNCHANGED durable

Next ==
    \/ Begin
    \/ \E t \in Txids, c \in Coins : Write(t, c)
    \/ \E h \in Hashes : Commit(h)
    \/ Abandon
    \/ Sync
    \/ Restart

Spec == Init /\ [][Next]_vars
=============================================================================

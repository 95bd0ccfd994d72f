---------------------------- MODULE MCBlockUndo -----------------------------
(***************************************************************************)
(* Three coinbases and four other transactions: one spends both outputs of *)
(* a coinbase, one spends an output of the same block, one leaves a sibling*)
(* output behind, one spends two transactions.  One output is unspendable, *)
(* one coinbase has nothing else, and two transactions have a negative     *)
(* version.                                                                *)
(***************************************************************************)
EXTENDS BlockUndo

CoinBases == {"c1", "c2", "c3"}

Others == {"all", "child", "half", "mixed"}

TxidsC == CoinBases \cup Others

VinC ==
    [t \in TxidsC |->
        CASE t = "all" -> <<<<"c1", 0>>, <<"c1", 1>>>>
          [] t = "child" -> <<<<"all", 0>>>>
          [] t = "half" -> <<<<"c1", 1>>>>
          [] t = "mixed" -> <<<<"c2", 0>>, <<"c1", 0>>>>
          [] OTHER -> <<>>]

VoutC == [t \in TxidsC |-> IF t \in {"c1", "all"} THEN {0, 1} ELSE {0}]

UnspendableC == {<<"all", 1>>, <<"c3", 0>>}

VersionC == [t \in TxidsC |-> IF t \in {"c2", "all"} THEN -1 ELSE 1]

\* A coinbase and up to two other transactions.
BodiesC ==
    {<<c>> : c \in CoinBases}
    \cup {<<"c3", t>> : t \in Others}
    \cup {<<"c2", "all", "child">>, <<"c3", "half", "mixed">>}
=============================================================================

----------------------------- MODULE MCMempool ------------------------------
(***************************************************************************)
(* Five coinbases and seven transactions: a has two outputs, b spends one,  *)
(* c the other and b's; d replaces b and has a relative lock; n is         *)
(* non-standard and spends the second output of the first coinbase, f is   *)
(* its child with a relative lock and a height lock; e spends c and the    *)
(* young coinbase.                                                         *)
(***************************************************************************)
EXTENDS Mempool

Coinbases == {"c1", "c2", "c3", "c4", "c5"}

TxidsC == Coinbases \cup {"a", "b", "c", "d", "e", "f", "n"}

VinC == [t \in Coinbases |-> {}] @@
        ("a" :> {<<"c1", 0>>} @@ "b" :> {<<"a", 0>>} @@ "c" :> {<<"a", 1>>, <<"b", 0>>} @@
         "d" :> {<<"a", 0>>} @@ "e" :> {<<"c2", 0>>, <<"c", 0>>} @@ "f" :> {<<"n", 0>>} @@ "n" :> {<<"c1", 1>>})

VoutC == [t \in TxidsC |-> IF t \in {"a", "c1"} THEN {0, 1} ELSE {0}]

FeeC == [t \in Coinbases |-> 0] @@
        ("a" :> 1 @@ "b" :> 2 @@ "c" :> 4 @@ "d" :> 8 @@ "e" :> 2 @@ "f" :> 3 @@ "n" :> 1)

SizeC == [t \in TxidsC |-> IF t = "a" THEN 2 ELSE 1]

LockTimeC == [t \in TxidsC |-> IF t = "f" THEN 3 ELSE 0]

RelLockC == [t \in TxidsC |-> IF t \in {"d", "f"} THEN 1 ELSE IF t = "c" THEN 0 ELSE -1]

BodiesC == {<<"c1">>, <<"c2">>, <<"c3">>, <<"c3", "n">>, <<"c3", "a", "b">>, <<"c3", "a", "b", "c">>, <<"c3", "n", "a">>,
            <<"c4">>, <<"c4", "d">>, <<"c4", "b">>, <<"c4", "n">>,
            <<"c5">>, <<"c5", "a">>}

InitChainC == << <<"c1">>, <<"c2">> >>
=============================================================================

--------------------------- MODULE BlockUndoProofs ---------------------------
(***************************************************************************)
(* ConnectBlock and DisconnectBlock are inverse, and so the chainstate     *)
(* depends on the active chain alone, for any transactions and blocks, any *)
(* heights and any number of reorganisations. The loops over inputs,       *)
(* transactions and blocks are recursive functions; each of them is shown  *)
(* to exist and to take the steps it is defined by, and what it computes   *)
(* is proved by induction on its counter.                                  *)
(***************************************************************************)
EXTENDS BlockUndo, FiniteSetTheorems, WellFoundedInduction, TLAPS

\* Every set of naturals with a member has a least one. Together with the two lemmas that
\* follow this is the induction the loops of the model need.
LEMMA LeastNatural ==
    ASSUME NEW T, T \subseteq Nat, T # {}
    PROVE  \E n \in T : \A m \in T : n <= m
<1> DEFINE R == OpToRel(<, Nat)
<1>1. IsWellFoundedOn(R, Nat)
  BY NatLessThanWellFounded, Zenon DEF OpToRel
<1> HIDE DEF R
<1>2. PICK n \in T : \A m \in T : ~ (<<m, n>> \in R)
  BY <1>1, WFMin, Zenon
<1>3. \A m \in Nat : m < n => <<m, n>> \in R
  BY <1>2, Zenon DEF R, OpToRel
<1>4. \A m \in T : ~ (m < n)
  BY <1>2, <1>3, Zenon
<1> QED
  BY <1>2, <1>4

\* Induction up to n.
LEMMA CountingUp ==
    ASSUME NEW n \in Nat, NEW S, 0 \in S, \A i \in 1..n : i - 1 \in S => i \in S
    PROVE  \A i \in 0..n : i \in S
<1> DEFINE T == {i \in 0..n : i \notin S}
<1> SUFFICES ASSUME T # {} PROVE FALSE
  OBVIOUS
<1>1. T \subseteq Nat
  OBVIOUS
<1> HIDE DEF T
<1>2. PICK i \in T : \A m \in T : i <= m
  BY <1>1, LeastNatural, Zenon
<1>3. i \in 0..n /\ i \notin S
  BY <1>2, Zenon DEF T
<1>4. i \in 1..n /\ i - 1 \in 0..n /\ ~ (i <= i - 1)
  BY <1>3
<1>5. i - 1 \in S
  BY <1>2, <1>4, Zenon DEF T
<1> QED
  BY <1>3, <1>4, <1>5, Zenon

\* Induction down from n.
LEMMA CountingDown ==
    ASSUME NEW n \in Nat, NEW S, n \in S, \A i \in 0..n - 1 : i + 1 \in S => i \in S
    PROVE  \A i \in 0..n : i \in S
<1> DEFINE T == {i \in 0..n : n - i \in S}
<1>1. 0 \in T
  OBVIOUS
<1>2. \A i \in 1..n : i - 1 \in T => i \in T
  OBVIOUS
<1> HIDE DEF T
<1>3. \A i \in 0..n : i \in T
  BY <1>1, <1>2, CountingUp, Zenon
<1>4. \A i \in 0..n : n - i \in 0..n /\ n - (n - i) = i
  OBVIOUS
<1>5. \A i \in 0..n : n - i \in T
  BY <1>3, <1>4, Zenon
<1> QED
  BY <1>4, <1>5 DEF T

-----------------------------------------------------------------------------
\* The loop over the inputs of UpdateCoins does what its recursion says.
LEMMA SpendInputsLoop ==
    ASSUME NEW cs, NEW t, Len(Vin[t]) \in Nat
    PROVE  SpendInputs(cs, t) =
             [j \in 0..Len(Vin[t]) |->
                IF j = 0 THEN [coins |-> cs, vprevout |-> <<>>]
                ELSE SpendInput(SpendInputs(cs, t)[j - 1], Vin[t][j])]
<1> DEFINE n == Len(Vin[t])
           first == [coins |-> cs, vprevout |-> <<>>]
           Is(f, k) == f = [j \in 0..k |-> IF j = 0 THEN first
                                           ELSE SpendInput(f[j - 1], Vin[t][j])]
           S == {k \in 0..n : \E f : Is(f, k)}
<1> HIDE DEF first
<1>1. \E f : Is(f, 0)
  <2> DEFINE g == [j \in 0..0 |-> first]
  <2>1. Is(g, 0)
    OBVIOUS
  <2> HIDE DEF Is, g
  <2> QED
    BY <2>1, Zenon
<1>2. ASSUME NEW k \in 1..n, \E f : Is(f, k - 1)
      PROVE  \E f : Is(f, k)
  <2>1. PICK f : Is(f, k - 1)
    BY <1>2, Zenon
  <2> DEFINE g == [j \in 0..k |-> IF j = k THEN SpendInput(f[k - 1], Vin[t][k]) ELSE f[j]]
  <2>2. ASSUME NEW j \in 0..k
        PROVE  g[j] = IF j = 0 THEN first ELSE SpendInput(g[j - 1], Vin[t][j])
    <3>1. CASE j = 0
      BY <2>1, <3>1
    <3>2. CASE j = k
      BY <2>1, <3>2
    <3>3. CASE j \in 1..k - 1
      <4>1. g[j] = f[j] /\ g[j - 1] = f[j - 1] /\ j \in 0..k - 1
        BY <3>3
      <4> QED
        BY <2>1, <3>3, <4>1, Zenon
    <3> QED
      BY <3>1, <3>2, <3>3
  <2>3. Is(g, k)
    BY <2>2, Zenon
  <2> HIDE DEF Is, g
  <2> QED
    BY <2>3, Zenon
<1> HIDE DEF Is
<1> HIDE DEF n
<1>3. 0 \in S /\ \A k \in 1..n : k - 1 \in S => k \in S
  <2>1. 0 \in 0..n /\ \A k \in 1..n : k \in 0..n
    BY DEF n
  <2> QED
    BY <1>1, <1>2, <2>1, Zenon
<1> USE DEF n
<1> HIDE DEF S
<1>4. n \in S
  <2>1. \A k \in 0..n : k \in S
    BY <1>3, CountingUp, Zenon
  <2> QED
    BY <2>1
<1>5. \E f : Is(f, n)
  BY <1>4, Zenon DEF S
<1>6. SpendInputs(cs, t) = CHOOSE f : Is(f, n)
  BY Zenon DEF SpendInputs, first, Is
<1>7. Is(SpendInputs(cs, t), n)
  BY <1>5, <1>6, Zenon
<1> QED
  BY <1>7, Zenon DEF Is, first

\* So does the loop over the transactions of ConnectBlock,
LEMMA ConnectTxsLoop ==
    ASSUME NEW cs, NEW b, NEW h, Len(b) \in Nat
    PROVE  ConnectTxs(cs, b, h) =
             [i \in 0..Len(b) |->
                IF i = 0 THEN [ok |-> PassesBIP30(cs, b), coins |-> cs, vtxundo |-> <<>>]
                ELSE ConnectTx(ConnectTxs(cs, b, h)[i - 1], b[i], h)]
<1> DEFINE n == Len(b)
           first == [ok |-> PassesBIP30(cs, b), coins |-> cs, vtxundo |-> <<>>]
           Is(f, k) == f = [i \in 0..k |-> IF i = 0 THEN first
                                           ELSE ConnectTx(f[i - 1], b[i], h)]
           S == {k \in 0..n : \E f : Is(f, k)}
<1> HIDE DEF first
<1>1. \E f : Is(f, 0)
  <2> DEFINE g == [i \in 0..0 |-> first]
  <2>1. Is(g, 0)
    OBVIOUS
  <2> HIDE DEF Is, g
  <2> QED
    BY <2>1, Zenon
<1>2. ASSUME NEW k \in 1..n, \E f : Is(f, k - 1)
      PROVE  \E f : Is(f, k)
  <2>1. PICK f : Is(f, k - 1)
    BY <1>2, Zenon
  <2> DEFINE g == [i \in 0..k |-> IF i = k THEN ConnectTx(f[k - 1], b[k], h) ELSE f[i]]
  <2>2. ASSUME NEW i \in 0..k
        PROVE  g[i] = IF i = 0 THEN first ELSE ConnectTx(g[i - 1], b[i], h)
    <3>1. CASE i = 0
      BY <2>1, <3>1
    <3>2. CASE i = k
      BY <2>1, <3>2
    <3>3. CASE i \in 1..k - 1
      <4>1. g[i] = f[i] /\ g[i - 1] = f[i - 1] /\ i \in 0..k - 1
        BY <3>3
      <4> QED
        BY <2>1, <3>3, <4>1, Zenon
    <3> QED
      BY <3>1, <3>2, <3>3
  <2>3. Is(g, k)
    BY <2>2, Zenon
  <2> HIDE DEF Is, g
  <2> QED
    BY <2>3, Zenon
<1> HIDE DEF Is
<1> HIDE DEF n
<1>3. 0 \in S /\ \A k \in 1..n : k - 1 \in S => k \in S
  <2>1. 0 \in 0..n /\ \A k \in 1..n : k \in 0..n
    BY DEF n
  <2> QED
    BY <1>1, <1>2, <2>1, Zenon
<1> USE DEF n
<1> HIDE DEF S
<1>4. n \in S
  <2>1. \A k \in 0..n : k \in S
    BY <1>3, CountingUp, Zenon
  <2> QED
    BY <2>1
<1>5. \E f : Is(f, n)
  BY <1>4, Zenon DEF S
<1>6. ConnectTxs(cs, b, h) = CHOOSE f : Is(f, n)
  BY Zenon DEF ConnectTxs, first, Is
<1>7. Is(ConnectTxs(cs, b, h), n)
  BY <1>5, <1>6, Zenon
<1> QED
  BY <1>7, Zenon DEF Is, first

\* the loop over the inputs of a transaction in DisconnectBlock,
LEMMA UndoInputsLoop ==
    ASSUME NEW start, NEW t, NEW vprevout, Len(Vin[t]) \in Nat
    PROVE  UndoInputs(start, t, vprevout) =
             [j \in 0..Len(Vin[t]) |->
                IF j = Len(Vin[t]) THEN start
                ELSE ApplyTxInUndo(UndoInputs(start, t, vprevout)[j + 1], vprevout[j + 1], Vin[t][j + 1])]
<1> DEFINE n == Len(Vin[t])
           first == start
           Is(f, k) == f = [j \in k..n |-> IF j = n THEN first
                                           ELSE ApplyTxInUndo(f[j + 1], vprevout[j + 1], Vin[t][j + 1])]
           S == {k \in 0..n : \E f : Is(f, k)}
<1> HIDE DEF first
<1>1. \E f : Is(f, n)
  <2> DEFINE g == [j \in n..n |-> first]
  <2>1. Is(g, n)
    OBVIOUS
  <2> HIDE DEF Is, g
  <2> QED
    BY <2>1, Zenon
<1>2. ASSUME NEW k \in 0..n - 1, \E f : Is(f, k + 1)
      PROVE  \E f : Is(f, k)
  <2>1. PICK f : Is(f, k + 1)
    BY <1>2, Zenon
  <2> DEFINE g == [j \in k..n |-> IF j = k THEN ApplyTxInUndo(f[k + 1], vprevout[k + 1], Vin[t][k + 1])
                                  ELSE f[j]]
  <2>2. ASSUME NEW j \in k..n
        PROVE  g[j] = IF j = n THEN first
                      ELSE ApplyTxInUndo(g[j + 1], vprevout[j + 1], Vin[t][j + 1])
    <3>1. CASE j = n
      BY <2>1, <3>1
    <3>2. CASE j = k
      BY <2>1, <3>2
    <3>3. CASE j \in k + 1..n - 1
      <4>1. g[j] = f[j] /\ g[j + 1] = f[j + 1] /\ j \in k + 1..n
        BY <3>3
      <4> QED
        BY <2>1, <3>3, <4>1, Zenon
    <3> QED
      BY <3>1, <3>2, <3>3
  <2>3. Is(g, k)
    BY <2>2, Zenon
  <2> HIDE DEF Is, g
  <2> QED
    BY <2>3, Zenon
<1> HIDE DEF Is
<1> HIDE DEF n
<1>3. n \in S /\ \A k \in 0..n - 1 : k + 1 \in S => k \in S
  <2>1. n \in 0..n /\ \A k \in 0..n - 1 : k \in 0..n
    BY DEF n
  <2> QED
    BY <1>1, <1>2, <2>1, Zenon
<1> USE DEF n
<1> HIDE DEF S
<1>4. 0 \in S
  <2>1. \A k \in 0..n : k \in S
    BY <1>3, CountingDown, Zenon
  <2> QED
    BY <2>1
<1>5. \E f : Is(f, 0)
  BY <1>4, Zenon DEF S
<1>6. UndoInputs(start, t, vprevout) = CHOOSE f : Is(f, 0)
  BY Zenon DEF UndoInputs, first, Is
<1>7. Is(UndoInputs(start, t, vprevout), 0)
  BY <1>5, <1>6, Zenon
<1> QED
  BY <1>7, Zenon DEF Is, first

\* the loop over its transactions,
LEMMA DisconnectTxsLoop ==
    ASSUME NEW cs, NEW b, NEW h, NEW vtxundo, Len(b) \in Nat
    PROVE  DisconnectTxs(cs, b, h, vtxundo) =
             [i \in 0..Len(b) |->
                IF i = Len(b) THEN [clean |-> TRUE, coins |-> cs]
                ELSE DisconnectTx(DisconnectTxs(cs, b, h, vtxundo)[i + 1], b[i + 1], h, vtxundo[i + 1])]
<1> DEFINE n == Len(b)
           first == [clean |-> TRUE, coins |-> cs]
           Is(f, k) == f = [i \in k..n |-> IF i = n THEN first
                                           ELSE DisconnectTx(f[i + 1], b[i + 1], h, vtxundo[i + 1])]
           S == {k \in 0..n : \E f : Is(f, k)}
<1> HIDE DEF first
<1>1. \E f : Is(f, n)
  <2> DEFINE g == [i \in n..n |-> first]
  <2>1. Is(g, n)
    OBVIOUS
  <2> HIDE DEF Is, g
  <2> QED
    BY <2>1, Zenon
<1>2. ASSUME NEW k \in 0..n - 1, \E f : Is(f, k + 1)
      PROVE  \E f : Is(f, k)
  <2>1. PICK f : Is(f, k + 1)
    BY <1>2, Zenon
  <2> DEFINE g == [i \in k..n |-> IF i = k THEN DisconnectTx(f[k + 1], b[k + 1], h, vtxundo[k + 1])
                                  ELSE f[i]]
  <2>2. ASSUME NEW i \in k..n
        PROVE  g[i] = IF i = n THEN first
                      ELSE DisconnectTx(g[i + 1], b[i + 1], h, vtxundo[i + 1])
    <3>1. CASE i = n
      BY <2>1, <3>1
    <3>2. CASE i = k
      BY <2>1, <3>2
    <3>3. CASE i \in k + 1..n - 1
      <4>1. g[i] = f[i] /\ g[i + 1] = f[i + 1] /\ i \in k + 1..n
        BY <3>3
      <4> QED
        BY <2>1, <3>3, <4>1, Zenon
    <3> QED
      BY <3>1, <3>2, <3>3
  <2>3. Is(g, k)
    BY <2>2, Zenon
  <2> HIDE DEF Is, g
  <2> QED
    BY <2>3, Zenon
<1> HIDE DEF Is
<1> HIDE DEF n
<1>3. n \in S /\ \A k \in 0..n - 1 : k + 1 \in S => k \in S
  <2>1. n \in 0..n /\ \A k \in 0..n - 1 : k \in 0..n
    BY DEF n
  <2> QED
    BY <1>1, <1>2, <2>1, Zenon
<1> USE DEF n
<1> HIDE DEF S
<1>4. 0 \in S
  <2>1. \A k \in 0..n : k \in S
    BY <1>3, CountingDown, Zenon
  <2> QED
    BY <2>1
<1>5. \E f : Is(f, 0)
  BY <1>4, Zenon DEF S
<1>6. DisconnectTxs(cs, b, h, vtxundo) = CHOOSE f : Is(f, 0)
  BY Zenon DEF DisconnectTxs, first, Is
<1>7. Is(DisconnectTxs(cs, b, h, vtxundo), 0)
  BY <1>5, <1>6, Zenon
<1> QED
  BY <1>7, Zenon DEF Is, first

\* and connecting a chain block by block.
LEMMA CoinsByHeightLoop ==
    ASSUME NEW ch, Len(ch) \in Nat
    PROVE  CoinsByHeight(ch) =
             [h \in 0..Len(ch) |->
                IF h = 0 THEN NoCoins
                ELSE ConnectBlock(CoinsByHeight(ch)[h - 1], ch[h], h).coins]
<1> DEFINE n == Len(ch)
           first == NoCoins
           Is(f, k) == f = [h \in 0..k |-> IF h = 0 THEN first
                                           ELSE ConnectBlock(f[h - 1], ch[h], h).coins]
           S == {k \in 0..n : \E f : Is(f, k)}
<1> HIDE DEF first
<1>1. \E f : Is(f, 0)
  <2> DEFINE g == [h \in 0..0 |-> first]
  <2>1. Is(g, 0)
    OBVIOUS
  <2> HIDE DEF Is, g
  <2> QED
    BY <2>1, Zenon
<1>2. ASSUME NEW k \in 1..n, \E f : Is(f, k - 1)
      PROVE  \E f : Is(f, k)
  <2>1. PICK f : Is(f, k - 1)
    BY <1>2, Zenon
  <2> DEFINE g == [h \in 0..k |-> IF h = k THEN ConnectBlock(f[k - 1], ch[k], k).coins
                                  ELSE f[h]]
  <2>2. ASSUME NEW h \in 0..k
        PROVE  g[h] = IF h = 0 THEN first ELSE ConnectBlock(g[h - 1], ch[h], h).coins
    <3>1. CASE h = 0
      BY <2>1, <3>1
    <3>2. CASE h = k
      BY <2>1, <3>2
    <3>3. CASE h \in 1..k - 1
      <4>1. g[h] = f[h] /\ g[h - 1] = f[h - 1] /\ h \in 0..k - 1
        BY <3>3
      <4> QED
        BY <2>1, <3>3, <4>1, Zenon
    <3> QED
      BY <3>1, <3>2, <3>3
  <2>3. Is(g, k)
    BY <2>2, Zenon
  <2> HIDE DEF Is, g
  <2> QED
    BY <2>3, Zenon
<1> HIDE DEF Is
<1> HIDE DEF n
<1>3. 0 \in S /\ \A k \in 1..n : k - 1 \in S => k \in S
  <2>1. 0 \in 0..n /\ \A k \in 1..n : k \in 0..n
    BY DEF n
  <2> QED
    BY <1>1, <1>2, <2>1, Zenon
<1> USE DEF n
<1> HIDE DEF S
<1>4. n \in S
  <2>1. \A k \in 0..n : k \in S
    BY <1>3, CountingUp, Zenon
  <2> QED
    BY <2>1
<1>5. \E f : Is(f, n)
  BY <1>4, Zenon DEF S
<1>6. CoinsByHeight(ch) = CHOOSE f : Is(f, n)
  BY Zenon DEF CoinsByHeight, first, Is
<1>7. Is(CoinsByHeight(ch), n)
  BY <1>5, <1>6, Zenon
<1> QED
  BY <1>7, Zenon DEF Is, first

-----------------------------------------------------------------------------
\* What the fields of coins may hold.
Versions == {0} \cup {Version[t] : t \in Txids} \cup {Encoded(Version[t]) : t \in Txids}

Outputs == Outpoints \ Unspendable

Vouts == UNION {[D -> Outputs] : D \in SUBSET Nat}

Coins == [fCoinBase : BOOLEAN, nHeight : 0..MaxHeight, nVersion : Versions, vout : Vouts]

\* Coins of transaction t: with an output left, the metadata are those of t.
IsCoinsOf(t, c) ==
    /\ c \in Coins
    /\ ~IsPruned(c) =>
         /\ c.fCoinBase = IsCoinBase(t)
         /\ c.nHeight # 0
         /\ c.nVersion \in {Version[t], Encoded(Version[t])}
         /\ \A n \in DOMAIN c.vout : c.vout[n] = <<t, n>>

CoinMaps == {cs \in [Txids -> Coins] : \A t \in Txids : IsCoinsOf(t, cs[t])}

\* Coins of one transaction that differ in no more than an encoded version, or have
\* no output left.
Alike(a, b) ==
    \/ IsPruned(a) /\ IsPruned(b)
    \/ ~IsPruned(a) /\ a.vout = b.vout /\ a.nHeight = b.nHeight

AllAlike(cs, ds) == \A t \in Txids : Alike(cs[t], ds[t])

Records == [txout : Outputs, fCoinBase : BOOLEAN, nHeight : 0..MaxHeight, nVersion : Versions]

\* A version that has been through a file is not changed by going through it again.
LEMMA EncodedFacts ==
    /\ \A v \in Int : Encoded(v) \in Int /\ Encoded(Encoded(v)) = Encoded(v)
    /\ \A v \in Nat : Encoded(v) = v
    /\ \A v \in Versions : Encoded(v) \in Versions /\ v \in Int
<1>1. \A v \in Int : Encoded(v) \in Nat
  BY DEF Encoded
<1>2. \A v \in Nat : Encoded(v) = v
  BY DEF Encoded
<1>3. \A t \in Txids : Version[t] \in Int
  BY ConstantsAssumption, Zenon
<1> QED
  BY <1>1, <1>2, <1>3 DEF Versions

\* What coins hold, and that an output of theirs is one that can be spent.
LEMMA VoutFacts ==
    /\ <<>> \in Vouts /\ DOMAIN <<>> = {}
    /\ \A v \in Vouts : /\ DOMAIN v \subseteq Nat
                        /\ v = [n \in DOMAIN v |-> v[n]]
                        /\ \A n \in DOMAIN v : v[n] \in Outputs
    /\ \A v \in Vouts : \A n : [k \in DOMAIN v \ {n} |-> v[k]] \in Vouts
    /\ \A v \in Vouts, n \in Nat, o \in Outputs : PutOutput(v, n, o) \in Vouts
<1>1. <<>> \in [{} -> Outputs] /\ DOMAIN <<>> = {}
  OBVIOUS
<1>2. \A v \in Vouts : \E D \in SUBSET Nat : v \in [D -> Outputs]
  BY Zenon DEF Vouts
<1>3. \A v \in Vouts : /\ DOMAIN v \in SUBSET Nat
                       /\ v \in [DOMAIN v -> Outputs]
  BY <1>2, Zenon
<1>4. \A D \in SUBSET Nat : [D -> Outputs] \subseteq Vouts
  BY Zenon DEF Vouts
<1>5. <<>> \in Vouts
  BY <1>1, <1>4, Zenon
<1>6. ASSUME NEW v \in Vouts, NEW n
      PROVE  [k \in DOMAIN v \ {n} |-> v[k]] \in Vouts
  <2>1. [k \in DOMAIN v \ {n} |-> v[k]] \in [DOMAIN v \ {n} -> Outputs]
    BY <1>3, Zenon
  <2>2. DOMAIN v \ {n} \in SUBSET Nat
    BY <1>3, Zenon
  <2> QED
    BY <1>4, <2>1, <2>2, Zenon
<1>7. ASSUME NEW v \in Vouts, NEW n \in Nat, NEW o \in Outputs
      PROVE  PutOutput(v, n, o) \in Vouts
  <2> DEFINE D == DOMAIN v \cup {n}
  <2>1. PutOutput(v, n, o) \in [D -> Outputs]
    BY <1>3, Zenon DEF PutOutput
  <2>2. D \in SUBSET Nat
    BY <1>3, Zenon
  <2> QED
    BY <1>4, <2>1, <2>2, Zenon
<1> QED
  BY <1>1, <1>3, <1>5, <1>6, <1>7, Zenon

\* Spend takes one output out of coins and leaves the rest of them.
LEMMA SpendFacts ==
    ASSUME NEW c \in Coins, NEW n
    PROVE  /\ Spend(c, n) \in Coins
           /\ DOMAIN Spend(c, n).vout = DOMAIN c.vout \ {n}
           /\ \A k \in DOMAIN c.vout \ {n} : Spend(c, n).vout[k] = c.vout[k]
           /\ Spend(c, n).fCoinBase = c.fCoinBase
           /\ Spend(c, n).nHeight = c.nHeight
           /\ Spend(c, n).nVersion = c.nVersion
<1> DEFINE v == [k \in DOMAIN c.vout \ {n} |-> c.vout[k]]
<1>1. c.vout \in Vouts
  BY Zenon DEF Coins
<1>2. v \in Vouts
  BY <1>1, VoutFacts, Zenon
<1>3. Spend(c, n) = [c EXCEPT !.vout = v]
  BY Zenon DEF Spend
<1>4. DOMAIN v = DOMAIN c.vout \ {n} /\ \A k \in DOMAIN c.vout \ {n} : v[k] = c.vout[k]
  OBVIOUS
<1> HIDE DEF v
<1>5. /\ [c EXCEPT !.vout = v] \in Coins
      /\ [c EXCEPT !.vout = v].vout = v
      /\ [c EXCEPT !.vout = v].fCoinBase = c.fCoinBase
      /\ [c EXCEPT !.vout = v].nHeight = c.nHeight
      /\ [c EXCEPT !.vout = v].nVersion = c.nVersion
  BY <1>2, Zenon DEF Coins
<1> QED
  BY <1>3, <1>4, <1>5, Zenon

\* Coins of a transaction stay coins of that transaction when an output is spent.
LEMMA SpendKeepsKind ==
    ASSUME NEW t \in Txids, NEW c, IsCoinsOf(t, c), NEW n
    PROVE  IsCoinsOf(t, Spend(c, n))
<1>1. c \in Coins
  BY Zenon DEF IsCoinsOf
<1> QED
  BY <1>1, SpendFacts DEF IsCoinsOf, IsPruned

\* Spending an output of coins that are alike leaves them alike and gives one record.
LEMMA SpendAlike ==
    ASSUME NEW t \in Txids, NEW c, NEW d, IsCoinsOf(t, c), IsCoinsOf(t, d), Alike(c, d),
           NEW n \in DOMAIN c.vout
    PROVE  /\ Alike(Spend(c, n), Spend(d, n))
           /\ UndoRecord(c, n) = UndoRecord(d, n)
           /\ UndoRecord(c, n) \in Records
<1>1. /\ c \in Coins /\ d \in Coins
      /\ ~IsPruned(c) /\ ~IsPruned(d)
      /\ c.vout = d.vout /\ c.nHeight = d.nHeight
      /\ c.fCoinBase = d.fCoinBase
  BY Zenon DEF IsCoinsOf, Alike, IsPruned
<1>2. Encoded(c.nVersion) = Encoded(d.nVersion)
  BY <1>1, EncodedFacts, ConstantsAssumption, Zenon DEF IsCoinsOf
<1>3. Spend(c, n).vout = Spend(d, n).vout
  BY <1>1, Zenon DEF Spend, Coins
<1>4. IsPruned(Spend(c, n)) <=> IsPruned(Spend(d, n))
  BY <1>3, Zenon DEF IsPruned
<1>5. Alike(Spend(c, n), Spend(d, n))
  BY <1>1, <1>3, <1>4, SpendFacts, Zenon DEF Alike
<1>6. UndoRecord(c, n) = UndoRecord(d, n)
  BY <1>1, <1>2, <1>4, Zenon DEF UndoRecord, NoMetadata
<1>7. UndoRecord(c, n) \in Records
  <2>1. c.vout[n] \in Outputs
    BY <1>1, VoutFacts, Zenon DEF Coins
  <2>2. Encoded(c.nVersion) \in Versions /\ 0 \in Versions
    BY <1>1, EncodedFacts, Zenon DEF Coins, Versions
  <2>3. 0 \in 0..MaxHeight
    BY ConstantsAssumption
  <2> QED
    BY <1>1, <2>1, <2>2, <2>3, Zenon DEF UndoRecord, NoMetadata, Records, Coins
<1> QED
  BY <1>5, <1>6, <1>7, Zenon
-----------------------------------------------------------------------------
\* The coins ApplyTxInUndo puts an output back into, and what it makes of them.
Emptied(old, undo) ==
    IF undo.nHeight # 0
    THEN [fCoinBase |-> undo.fCoinBase, nHeight |-> undo.nHeight,
          nVersion |-> undo.nVersion, vout |-> <<>>]
    ELSE old

Refilled(old, undo, n) ==
    [Emptied(old, undo) EXCEPT !.vout = PutOutput(Emptied(old, undo).vout, n, undo.txout)]

\* Outputs are equal when they have the same numbers and values.
LEMMA VoutsEqual ==
    ASSUME NEW v \in Vouts, NEW w \in Vouts, DOMAIN v = DOMAIN w,
           \A n \in DOMAIN v : v[n] = w[n]
    PROVE  v = w
<1>1. v = [n \in DOMAIN v |-> v[n]] /\ w = [n \in DOMAIN v |-> w[n]]
  BY VoutFacts, Zenon
<1>2. [n \in DOMAIN v |-> v[n]] = [n \in DOMAIN v |-> w[n]]
  OBVIOUS
<1> QED
  BY <1>1, <1>2, Zenon

\* What ApplyTxInUndo puts back is there afterwards, and nothing else changes.
LEMMA PutFacts ==
    ASSUME NEW c \in Coins, NEW n \in Nat, NEW o \in Outputs
    PROVE  LET e == [c EXCEPT !.vout = PutOutput(c.vout, n, o)]
           IN  /\ e \in Coins
               /\ e.vout = PutOutput(c.vout, n, o)
               /\ e.fCoinBase = c.fCoinBase /\ e.nHeight = c.nHeight /\ e.nVersion = c.nVersion
<1> DEFINE v == PutOutput(c.vout, n, o)
<1>1. v \in Vouts
  BY VoutFacts, Zenon DEF Coins
<1> HIDE DEF v
<1>2. LET e == [c EXCEPT !.vout = v]
      IN  /\ e \in Coins
          /\ e.vout = v
          /\ e.fCoinBase = c.fCoinBase /\ e.nHeight = c.nHeight /\ e.nVersion = c.nVersion
  BY <1>1, Zenon DEF Coins
<1> QED
  BY <1>2, Zenon DEF v

\* Putting the spent output back gives coins like those before, and finds nothing wrong.
LEMMA RefillInvertsSpend ==
    ASSUME NEW t \in Txids, NEW c, NEW d, IsCoinsOf(t, c), IsCoinsOf(t, d),
           NEW n \in DOMAIN c.vout, Alike(d, Spend(c, n))
    PROVE  LET undo == UndoRecord(c, n)
           IN  /\ undo.nHeight # 0 <=> IsPruned(d)
               /\ ~IsAvailable(Emptied(d, undo), n)
               /\ IsCoinsOf(t, Refilled(d, undo, n))
               /\ Alike(Refilled(d, undo, n), c)
<1> DEFINE undo == UndoRecord(c, n)
           e == Emptied(d, undo)
           r == Refilled(d, undo, n)
<1>1. /\ c \in Coins /\ d \in Coins /\ ~IsPruned(c)
      /\ c.vout \in Vouts /\ d.vout \in Vouts
      /\ n \in Nat /\ c.vout[n] \in Outputs /\ c.vout[n] = <<t, n>>
      /\ c.nHeight # 0 /\ c.fCoinBase = IsCoinBase(t)
      /\ c.nVersion \in {Version[t], Encoded(Version[t])}
  BY VoutFacts, Zenon DEF IsCoinsOf, IsPruned, Coins
<1>2. undo.txout = c.vout[n]
  BY Zenon DEF UndoRecord, NoMetadata
<1>3. Encoded(c.nVersion) = Encoded(Version[t]) /\ Encoded(c.nVersion) \in Versions
  BY <1>1, EncodedFacts, ConstantsAssumption, Zenon DEF Coins
<1>4. DOMAIN Spend(c, n).vout = DOMAIN c.vout \ {n}
  BY <1>1, SpendFacts, Zenon
<1>5. CASE IsPruned(Spend(c, n))
  <2>1. /\ undo.nHeight = c.nHeight /\ undo.fCoinBase = c.fCoinBase
        /\ undo.nVersion = Encoded(c.nVersion)
    BY <1>5, Zenon DEF UndoRecord
  <2>2. IsPruned(d)
    BY <1>5, Zenon DEF Alike, IsPruned
  <2>3. e = [fCoinBase |-> c.fCoinBase, nHeight |-> c.nHeight,
             nVersion |-> Encoded(c.nVersion), vout |-> <<>>]
    BY <1>1, <2>1, Zenon DEF Emptied
  <2>4. e \in Coins /\ e.vout = <<>> /\ DOMAIN e.vout = {}
    BY <1>1, <1>3, <2>3, VoutFacts DEF Coins
  <2>5. DOMAIN c.vout = {n}
    BY <1>4, <1>5, Zenon DEF IsPruned
  <2>6. /\ r \in Coins /\ r.vout = PutOutput(e.vout, n, c.vout[n])
        /\ r.fCoinBase = c.fCoinBase /\ r.nHeight = c.nHeight
        /\ r.nVersion = Encoded(c.nVersion)
    BY <1>1, <1>2, <2>3, <2>4, PutFacts DEF Refilled
  <2>7. DOMAIN r.vout = {n} /\ r.vout[n] = c.vout[n]
    BY <2>4, <2>6, Zenon DEF PutOutput
  <2>8. r.vout = c.vout
    <3>1. r.vout \in Vouts
      BY <2>6, Zenon DEF Coins
    <3> HIDE DEF r
    <3> QED
      BY <1>1, <2>5, <2>7, <3>1, VoutsEqual, Zenon
  <2>9. IsCoinsOf(t, r) /\ Alike(r, c)
    BY <1>1, <1>3, <2>6, <2>7, <2>8, Zenon DEF IsCoinsOf, Alike, IsPruned
  <2> QED
    BY <1>1, <2>1, <2>2, <2>4, <2>9, Zenon DEF IsAvailable
<1>6. CASE ~IsPruned(Spend(c, n))
  <2>1. undo.nHeight = 0
    BY <1>6, Zenon DEF UndoRecord, NoMetadata
  <2>2. e = d
    BY <2>1, Zenon DEF Emptied
  <2>3. /\ ~IsPruned(d) /\ DOMAIN d.vout = DOMAIN c.vout \ {n}
        /\ d.nHeight = c.nHeight
        /\ \A k \in DOMAIN d.vout : d.vout[k] = c.vout[k]
    BY <1>1, <1>4, <1>6, SpendFacts DEF Alike
  <2>4. /\ r \in Coins /\ r.vout = PutOutput(d.vout, n, c.vout[n])
        /\ r.fCoinBase = d.fCoinBase /\ r.nHeight = d.nHeight /\ r.nVersion = d.nVersion
    BY <1>1, <1>2, <2>2, PutFacts DEF Refilled
  <2>5. DOMAIN r.vout = DOMAIN c.vout /\ \A k \in DOMAIN c.vout : r.vout[k] = c.vout[k]
    BY <2>3, <2>4, Zenon DEF PutOutput
  <2>6. r.vout = c.vout
    <3>1. r.vout \in Vouts
      BY <2>4, Zenon DEF Coins
    <3> HIDE DEF r
    <3> QED
      BY <1>1, <2>5, <3>1, VoutsEqual, Zenon
  <2>7. IsCoinsOf(t, r) /\ Alike(r, c)
    BY <1>1, <2>3, <2>4, <2>6, Zenon DEF IsCoinsOf, Alike, IsPruned
  <2> QED
    BY <2>1, <2>2, <2>3, <2>7, Zenon DEF IsAvailable
<1> QED
  BY <1>5, <1>6, Zenon

\* The same for the coins of all transactions.
SpentMap(cs, out) == [cs EXCEPT ![out[1]] = Spend(cs[out[1]], out[2])]

\* ApplyTxInUndo, given the record of a spent output, restores the coins it was spent from,
\* also when they have been reloaded since or had become empty.
LEMMA UndoInvertsSpend ==
    ASSUME NEW cs \in CoinMaps, NEW view, view.clean, view.coins \in CoinMaps,
           NEW out \in Txids \X Nat, IsAvailable(cs[out[1]], out[2]),
           AllAlike(view.coins, SpentMap(cs, out))
    PROVE  LET after == ApplyTxInUndo(view, UndoRecord(cs[out[1]], out[2]), out)
           IN  after.clean /\ after.coins \in CoinMaps /\ AllAlike(after.coins, cs)
<1> DEFINE t == out[1]
           n == out[2]
           c == cs[t]
           d == view.coins[t]
           undo == UndoRecord(c, n)
           r == Refilled(d, undo, n)
           after == ApplyTxInUndo(view, undo, out)
<1>1. /\ t \in Txids /\ n \in DOMAIN c.vout
      /\ cs \in [Txids -> Coins] /\ view.coins \in [Txids -> Coins]
      /\ \A u \in Txids : IsCoinsOf(u, cs[u]) /\ IsCoinsOf(u, view.coins[u])
  BY Zenon DEF CoinMaps, IsAvailable
<1>2. \A u \in Txids : SpentMap(cs, out)[u] = IF u = t THEN Spend(c, n) ELSE cs[u]
  BY <1>1, Zenon DEF SpentMap
<1>3. Alike(d, Spend(c, n)) /\ \A u \in Txids \ {t} : Alike(view.coins[u], cs[u])
  BY <1>1, <1>2, Zenon DEF AllAlike
<1>4. /\ undo.nHeight # 0 <=> IsPruned(d)
      /\ ~IsAvailable(Emptied(d, undo), n)
      /\ IsCoinsOf(t, r)
      /\ Alike(r, c)
  BY <1>1, <1>3, RefillInvertsSpend, Zenon
<1>5. after = [clean |-> view.clean /\ (undo.nHeight # 0 <=> IsPruned(d))
                           /\ ~IsAvailable(Emptied(d, undo), n),
               coins |-> [view.coins EXCEPT ![t] = r]]
  BY Zenon DEF ApplyTxInUndo, Refilled, Emptied
<1> HIDE DEF undo, r, after, t, n, c, d
<1>6. after.clean
  BY <1>4, <1>5, Zenon
<1>7. after.coins = [view.coins EXCEPT ![t] = r]
  BY <1>5, Zenon
<1>8. r \in Coins
  BY <1>4, Zenon DEF IsCoinsOf
<1>9. \A u \in Txids : after.coins[u] = IF u = t THEN r ELSE view.coins[u]
  BY <1>1, <1>7, Zenon
<1>10. after.coins \in [Txids -> Coins]
  BY <1>1, <1>7, <1>8
<1>11. after.coins \in CoinMaps
  BY <1>1, <1>4, <1>9, <1>10, Zenon DEF CoinMaps
<1>12. AllAlike(after.coins, cs)
  BY <1>3, <1>4, <1>9, Zenon DEF AllAlike, c
<1> QED
  BY <1>6, <1>11, <1>12, Zenon DEF after, undo, c, n, t
-----------------------------------------------------------------------------
\* The inputs of t are unspent outputs: what CheckTxInputs establishes, but for maturity.
InputsAvailable(cs, t) ==
    \A j \in DOMAIN Vin[t] : IsAvailable(cs[Vin[t][j][1]], Vin[t][j][2])

\* The inputs of a transaction are outpoints, no two of them the same.
LEMMA VinFacts ==
    ASSUME NEW t \in Txids
    PROVE  /\ Vin[t] \in Seq(Txids \X Nat) /\ Len(Vin[t]) \in Nat
           /\ DOMAIN Vin[t] = 1..Len(Vin[t])
           /\ \A j \in 1..Len(Vin[t]) :
                /\ Vin[t][j] \in Txids \X Nat
                /\ Vin[t][j][1] \in Txids /\ Vin[t][j][2] \in Nat
                /\ Vin[t][j] = <<Vin[t][j][1], Vin[t][j][2]>>
           /\ \A i, j \in 1..Len(Vin[t]) : Vin[t][i] = Vin[t][j] => i = j
<1>1. Vin[t] \in Seq(Txids \X Nat)
  BY ConstantsAssumption, Zenon
<1>2. Len(Vin[t]) \in Nat /\ DOMAIN Vin[t] = 1..Len(Vin[t])
  BY <1>1
<1>3. \A j \in 1..Len(Vin[t]) : Vin[t][j] \in Txids \X Nat
  BY <1>1, <1>2
<1>4. \A i, j \in 1..Len(Vin[t]) : Vin[t][i] = Vin[t][j] => i = j
  BY <1>2, TransactionsAssumption, Zenon DEF IsInjective
<1>5. \A o \in Txids \X Nat : o[1] \in Txids /\ o[2] \in Nat /\ o = <<o[1], o[2]>>
  OBVIOUS
<1> QED
  BY <1>1, <1>2, <1>3, <1>4, <1>5, Zenon

\* The loop one step at a time.
LEMMA SpendSteps ==
    ASSUME NEW t \in Txids, NEW cs
    PROVE  /\ SpendInputs(cs, t)[0].coins = cs
           /\ SpendInputs(cs, t)[0].vprevout = <<>>
           /\ \A j \in 1..Len(Vin[t]) :
                LET before == SpendInputs(cs, t)[j - 1]
                    after == SpendInputs(cs, t)[j]
                    out == Vin[t][j]
                IN  /\ after.coins = SpentMap(before.coins, out)
                    /\ after.vprevout = Append(before.vprevout, UndoRecord(before.coins[out[1]], out[2]))
<1> DEFINE V == SpendInputs(cs, t)
           n == Len(Vin[t])
<1>1. n \in Nat
  BY VinFacts, Zenon
<1>2. V = [j \in 0..n |-> IF j = 0 THEN [coins |-> cs, vprevout |-> <<>>]
                          ELSE SpendInput(V[j - 1], Vin[t][j])]
  BY <1>1, SpendInputsLoop, Zenon
<1> HIDE DEF V
<1>3. V[0] = [coins |-> cs, vprevout |-> <<>>]
  BY <1>1, <1>2
<1>4. \A j \in 1..n : V[j] = SpendInput(V[j - 1], Vin[t][j])
  BY <1>1, <1>2
<1>5. \A v, out : /\ SpendInput(v, out).coins = SpentMap(v.coins, out)
                  /\ SpendInput(v, out).vprevout
                        = Append(v.vprevout, UndoRecord(v.coins[out[1]], out[2]))
  BY Zenon DEF SpendInput, SpentMap
<1>6. V[0].coins = cs /\ V[0].vprevout = <<>>
  BY <1>3
<1>7. ASSUME NEW j \in 1..n
      PROVE  /\ V[j].coins = SpentMap(V[j - 1].coins, Vin[t][j])
             /\ V[j].vprevout = Append(V[j - 1].vprevout,
                                       UndoRecord(V[j - 1].coins[Vin[t][j][1]], Vin[t][j][2]))
  BY <1>4, <1>5, Zenon
<1> QED
  BY <1>6, <1>7, Zenon DEF V

\* Spending an output changes the coins of its transaction alone.
LEMMA SpentMapFacts ==
    ASSUME NEW cs \in CoinMaps, NEW out \in Txids \X Nat
    PROVE  /\ SpentMap(cs, out) \in CoinMaps
           /\ \A u \in Txids : \A k : k \in DOMAIN SpentMap(cs, out)[u].vout
                                    <=> k \in DOMAIN cs[u].vout /\ out # <<u, k>>
<1> DEFINE t == out[1]
           n == out[2]
           ds == SpentMap(cs, out)
<1>1. t \in Txids /\ out = <<t, n>>
  OBVIOUS
<1>2. cs \in [Txids -> Coins] /\ \A u \in Txids : IsCoinsOf(u, cs[u])
  BY Zenon DEF CoinMaps
<1>3. Spend(cs[t], n) \in Coins /\ IsCoinsOf(t, Spend(cs[t], n))
  BY <1>1, <1>2, SpendFacts, SpendKeepsKind, Zenon
<1>4. DOMAIN Spend(cs[t], n).vout = DOMAIN cs[t].vout \ {n}
  BY <1>1, <1>2, SpendFacts
<1>5. ds \in [Txids -> Coins]
  BY <1>2, <1>3, Zenon DEF SpentMap
<1>6. \A u \in Txids : ds[u] = IF u = t THEN Spend(cs[t], n) ELSE cs[u]
  BY <1>2, Zenon DEF SpentMap
<1> HIDE DEF ds
<1>7. ds \in CoinMaps
  BY <1>2, <1>3, <1>5, <1>6, Zenon DEF CoinMaps
<1>8. ASSUME NEW u \in Txids, NEW k
      PROVE  k \in DOMAIN ds[u].vout <=> k \in DOMAIN cs[u].vout /\ out # <<u, k>>
  <2>1. CASE u = t
    <3>1. k = n <=> out = <<u, k>>
      BY <1>1, <2>1
    <3> QED
      BY <1>4, <1>6, <2>1, <3>1, Zenon
  <2>2. CASE u # t
    <3>1. out # <<u, k>>
      BY <1>1, <2>2
    <3> QED
      BY <1>6, <2>2, <3>1, Zenon
  <2> QED
    BY <2>1, <2>2, Zenon
<1> QED
  BY <1>7, <1>8, Zenon DEF ds

\* After j inputs exactly their outputs are gone; each input is available when its turn
\* comes, since no transaction spends an output twice.
LEMMA SpendingInputs ==
    ASSUME NEW t \in Txids, NEW cs \in CoinMaps, InputsAvailable(cs, t)
    PROVE  /\ \A j \in 0..Len(Vin[t]) :
                /\ SpendInputs(cs, t)[j].coins \in CoinMaps
                /\ \A u \in Txids : \A k :
                     k \in DOMAIN SpendInputs(cs, t)[j].coins[u].vout
                       <=> k \in DOMAIN cs[u].vout /\ \A i \in 1..j : Vin[t][i] # <<u, k>>
           /\ \A j \in 1..Len(Vin[t]) :
                IsAvailable(SpendInputs(cs, t)[j - 1].coins[Vin[t][j][1]], Vin[t][j][2])
<1> DEFINE V == SpendInputs(cs, t)
           n == Len(Vin[t])
           P(j) == /\ V[j].coins \in CoinMaps
                   /\ \A u \in Txids : \A k :
                        k \in DOMAIN V[j].coins[u].vout
                          <=> k \in DOMAIN cs[u].vout /\ \A i \in 1..j : Vin[t][i] # <<u, k>>
           S == {j \in 0..n : P(j)}
<1>1. n \in Nat
  BY VinFacts, Zenon
<1>2. V[0].coins = cs /\ \A j \in 1..n : V[j].coins = SpentMap(V[j - 1].coins, Vin[t][j])
  BY SpendSteps
<1> HIDE DEF V
<1>3. P(0)
  BY <1>2
<1>4. ASSUME NEW j \in 1..n, P(j - 1)
      PROVE  P(j)
  <2> DEFINE out == Vin[t][j]
  <2>1. out \in Txids \X Nat
    BY VinFacts, Zenon
  <2>2. /\ V[j].coins \in CoinMaps
        /\ \A u \in Txids : \A k : k \in DOMAIN V[j].coins[u].vout
                                 <=> k \in DOMAIN V[j - 1].coins[u].vout /\ out # <<u, k>>
    <3> DEFINE ds == V[j - 1].coins
    <3>1. ds \in CoinMaps /\ V[j].coins = SpentMap(ds, out)
      BY <1>2, <1>4, Zenon
    <3> HIDE DEF ds, out
    <3>2. /\ SpentMap(ds, out) \in CoinMaps
          /\ \A u \in Txids : \A k : k \in DOMAIN SpentMap(ds, out)[u].vout
                                   <=> k \in DOMAIN ds[u].vout /\ out # <<u, k>>
      BY <2>1, <3>1, SpentMapFacts, Zenon
    <3> QED
      BY <3>1, <3>2, Zenon DEF ds
  <2>3. \A i : i \in 1..j <=> i \in 1..j - 1 \/ i = j
    BY <1>1
  <2>4. ASSUME NEW u \in Txids, NEW k
        PROVE  k \in DOMAIN V[j].coins[u].vout
                 <=> k \in DOMAIN cs[u].vout /\ \A i \in 1..j : Vin[t][i] # <<u, k>>
    BY <1>4, <2>2, <2>3, Zenon
  <2> QED
    BY <2>2, <2>4, Zenon
<1> HIDE DEF P
<1>5. \A j \in 0..n : P(j)
  <2>1. 0 \in S /\ \A j \in 1..n : j - 1 \in S => j \in S
    <3>1. 0 \in 0..n /\ \A j \in 1..n : j \in 0..n
      BY <1>1
    <3> QED
      BY <1>3, <1>4, <3>1, Zenon
  <2> HIDE DEF S
  <2>2. \A j \in 0..n : j \in S
    BY <1>1, <2>1, CountingUp, Zenon
  <2> QED
    BY <2>2, Zenon DEF S
<1>6. ASSUME NEW j \in 1..n
      PROVE  IsAvailable(V[j - 1].coins[Vin[t][j][1]], Vin[t][j][2])
  <2> DEFINE u == Vin[t][j][1]
             k == Vin[t][j][2]
  <2>1. u \in Txids /\ Vin[t][j] = <<u, k>>
    BY VinFacts, Zenon
  <2>2. k \in DOMAIN cs[u].vout
    BY VinFacts, Zenon DEF InputsAvailable, IsAvailable
  <2>3. \A i \in 1..j - 1 : Vin[t][i] # <<u, k>>
    <3>1. \A i \in 1..j - 1 : i \in 1..n /\ i # j
      BY <1>1
    <3>2. \A i \in 1..n : Vin[t][i] = Vin[t][j] => i = j
      BY VinFacts, Zenon
    <3> QED
      BY <2>1, <3>1, <3>2, Zenon
  <2>4. j - 1 \in 0..n
    BY <1>1
  <2> HIDE DEF u, k
  <2> QED
    BY <1>5, <2>1, <2>2, <2>3, <2>4, Zenon DEF P, IsAvailable, u, k
<1> QED
  BY <1>5, <1>6, Zenon DEF P, V
-----------------------------------------------------------------------------
\* The undo records of the inputs before the j-th loop ends, in the order of the inputs.
LEMMA RecordsOfInputs ==
    ASSUME NEW t \in Txids, NEW cs \in CoinMaps, InputsAvailable(cs, t)
    PROVE  \A j \in 0..Len(Vin[t]) :
             LET vprevout == SpendInputs(cs, t)[j].vprevout
             IN  /\ vprevout \in Seq(Records) /\ Len(vprevout) = j
                 /\ \A i \in 1..j : vprevout[i] =
                      UndoRecord(SpendInputs(cs, t)[i - 1].coins[Vin[t][i][1]], Vin[t][i][2])
<1> DEFINE V == SpendInputs(cs, t)
           n == Len(Vin[t])
           R(i) == UndoRecord(V[i - 1].coins[Vin[t][i][1]], Vin[t][i][2])
           P(j) == /\ V[j].vprevout \in Seq(Records) /\ Len(V[j].vprevout) = j
                   /\ \A i \in 1..j : V[j].vprevout[i] = R(i)
           S == {j \in 0..n : P(j)}
<1>1. n \in Nat
  BY VinFacts, Zenon
<1>2. V[0].vprevout = <<>> /\ \A j \in 1..n : V[j].vprevout = Append(V[j - 1].vprevout, R(j))
  BY SpendSteps
<1>3. \A j \in 0..n : V[j].coins \in CoinMaps
  BY SpendingInputs, Zenon
<1>4. \A j \in 1..n : IsAvailable(V[j - 1].coins[Vin[t][j][1]], Vin[t][j][2])
  BY SpendingInputs, Zenon
<1> HIDE DEF V
<1>5. ASSUME NEW j \in 1..n PROVE R(j) \in Records
  <2> DEFINE c == V[j - 1].coins[Vin[t][j][1]]
  <2>1. Vin[t][j][1] \in Txids /\ j - 1 \in 0..n
    BY <1>1, VinFacts
  <2>2. IsCoinsOf(Vin[t][j][1], c)
    BY <1>3, <2>1, Zenon DEF CoinMaps
  <2>3. Vin[t][j][2] \in DOMAIN c.vout
    BY <1>4, Zenon DEF IsAvailable
  <2>4. Alike(c, c)
    BY Zenon DEF Alike
  <2> HIDE DEF c
  <2> QED
    BY <2>1, <2>2, <2>3, <2>4, SpendAlike, Zenon DEF c
<1> HIDE DEF R
<1>6. P(0)
  BY <1>2
<1>7. ASSUME NEW j \in 1..n, P(j - 1)
      PROVE  P(j)
  <2> DEFINE s == V[j - 1].vprevout
  <2>1. s \in Seq(Records) /\ Len(s) = j - 1 /\ R(j) \in Records /\ V[j].vprevout = Append(s, R(j))
    BY <1>2, <1>5, <1>7, Zenon
  <2> HIDE DEF s
  <2>2. /\ Append(s, R(j)) \in Seq(Records) /\ Len(Append(s, R(j))) = j
        /\ Append(s, R(j))[j] = R(j)
        /\ \A i \in 1..j - 1 : Append(s, R(j))[i] = s[i]
    BY <2>1
  <2>3. \A i \in 1..j : i \in 1..j - 1 \/ i = j
    BY <1>1
  <2> QED
    BY <1>7, <2>1, <2>2, <2>3, Zenon DEF s
<1> HIDE DEF P
<1>8. \A j \in 0..n : P(j)
  <2>1. 0 \in S /\ \A j \in 1..n : j - 1 \in S => j \in S
    <3>1. 0 \in 0..n /\ \A j \in 1..n : j \in 0..n
      BY <1>1
    <3> QED
      BY <1>6, <1>7, <3>1, Zenon
  <2> HIDE DEF S
  <2>2. \A j \in 0..n : j \in S
    BY <1>1, <2>1, CountingUp, Zenon
  <2> QED
    BY <2>2, Zenon DEF S
<1> QED
  BY <1>8, Zenon DEF P, V, R

\* The coins a transaction creates: its outputs that can be spent, at height h.
LEMMA FromTxFacts ==
    ASSUME NEW t \in Txids, NEW h \in 1..MaxHeight
    PROVE  /\ FromTx(t, h) \in Coins
           /\ FromTx(t, h).fCoinBase = IsCoinBase(t)
           /\ FromTx(t, h).nHeight = h
           /\ FromTx(t, h).nVersion = Version[t]
           /\ DOMAIN FromTx(t, h).vout = {n \in Vout[t] : <<t, n>> \notin Unspendable}
           /\ IsCoinsOf(t, FromTx(t, h))
<1> DEFINE all == [n \in Vout[t] |-> <<t, n>>]
           kept == {n \in Vout[t] : <<t, n>> \notin Unspendable}
           v == [n \in kept |-> <<t, n>>]
           c == [fCoinBase |-> IsCoinBase(t), nHeight |-> h, nVersion |-> Version[t], vout |-> v]
<1>1. v \in Vouts
  <2>1. kept \in SUBSET Nat
    BY ConstantsAssumption, Zenon
  <2>2. v \in [kept -> Outputs]
    BY DEF Outputs, Outpoints
  <2> HIDE DEF kept, v
  <2> QED
    BY <2>1, <2>2, Zenon DEF Vouts
<1>2. {k \in DOMAIN all : all[k] \notin Unspendable} = kept
  OBVIOUS
<1>3. [n \in kept |-> all[n]] = v
  OBVIOUS
<1>4. FromTx(t, h) = c
  <2> HIDE DEF all, kept, v
  <2>1. FromTx(t, h) = ClearUnspendable([fCoinBase |-> IsCoinBase(t), nHeight |-> h,
                                         nVersion |-> Version[t], vout |-> all])
    BY Zenon DEF FromTx, all
  <2> QED
    BY <1>2, <1>3, <2>1 DEF ClearUnspendable
<1>5. Version[t] \in Versions /\ h \in 0..MaxHeight /\ h # 0 /\ IsCoinBase(t) \in BOOLEAN
  BY ConstantsAssumption DEF Versions, IsCoinBase
<1>6. DOMAIN v = kept /\ \A n \in kept : v[n] = <<t, n>>
  OBVIOUS
<1> HIDE DEF v, kept
<1>7. c \in Coins
  BY <1>1, <1>5, Zenon DEF Coins
<1>8. IsCoinsOf(t, c)
  BY <1>5, <1>6, <1>7, Zenon DEF IsCoinsOf, IsPruned
<1> QED
  BY <1>4, <1>6, <1>7, <1>8 DEF kept

\* Coins are equal when their four fields are.
LEMMA CoinsEqual ==
    ASSUME NEW c \in Coins, NEW d \in Coins, c.fCoinBase = d.fCoinBase,
           c.nHeight = d.nHeight, c.nVersion = d.nVersion, c.vout = d.vout
    PROVE  c = d
BY DEF Coins

\* The comparison of DisconnectBlock accepts the outputs that ConnectBlock added.
LEMMA OutputsMatch ==
    ASSUME NEW t \in Txids, NEW h \in 1..MaxHeight, NEW c, IsCoinsOf(t, c),
           Alike(c, FromTx(t, h))
    PROVE  MatchesBlock(ClearUnspendable(c), t, h)
<1> DEFINE f == FromTx(t, h)
           cleared == ClearUnspendable(c)
           fixed == IF Version[t] < 0 THEN [cleared EXCEPT !.nVersion = Version[t]] ELSE cleared
           D == {k \in DOMAIN c.vout : c.vout[k] \notin Unspendable}
           w == [n \in D |-> c.vout[n]]
<1>1. c \in Coins /\ f \in Coins
  BY FromTxFacts, Zenon DEF IsCoinsOf
<1>2. D = DOMAIN c.vout /\ w = c.vout
  <2>1. \A n \in DOMAIN c.vout : c.vout[n] \notin Unspendable
    BY <1>1, VoutFacts, Zenon DEF Coins, Outputs
  <2>2. D = DOMAIN c.vout
    BY <2>1, Zenon
  <2>3. c.vout = [n \in DOMAIN c.vout |-> c.vout[n]]
    BY <1>1, VoutFacts, Zenon DEF Coins
  <2> QED
    BY <2>2, <2>3, Zenon
<1>3. cleared = c
  <2>1. cleared = [c EXCEPT !.vout = w]
    BY Zenon DEF ClearUnspendable
  <2> HIDE DEF w
  <2> QED
    BY <1>1, <1>2, <2>1, Zenon DEF Coins
<1> HIDE DEF cleared, f
<1>4. CASE IsPruned(c)
  <2>1. IsPruned(f)
    BY <1>4, Zenon DEF Alike, IsPruned, f
  <2>2. IsPruned(fixed)
    BY <1>1, <1>3, <1>4, Zenon DEF IsPruned, Coins
  <2> QED
    BY <2>1, <2>2, Zenon DEF MatchesBlock, SameCoins, f, cleared
<1>5. CASE ~IsPruned(c)
  <2>1. c.vout = f.vout /\ c.nHeight = f.nHeight
    BY <1>5, Zenon DEF Alike, f
  <2>2. /\ c.fCoinBase = IsCoinBase(t) /\ c.nVersion \in {Version[t], Encoded(Version[t])}
    BY <1>5, Zenon DEF IsCoinsOf
  <2>3. f.fCoinBase = IsCoinBase(t) /\ f.nVersion = Version[t] /\ Version[t] \in Versions
    BY FromTxFacts, Zenon DEF f, Versions
  <2>4. Version[t] \in Int
    BY ConstantsAssumption, Zenon
  <2>5. /\ fixed \in Coins /\ fixed.vout = c.vout /\ fixed.nHeight = c.nHeight
        /\ fixed.fCoinBase = c.fCoinBase
    BY <1>1, <1>3, <2>3, Zenon DEF Coins
  <2>6. fixed.nVersion = Version[t]
    <3>1. CASE Version[t] < 0
      BY <1>1, <1>3, <2>3, <3>1, Zenon DEF Coins
    <3>2. CASE ~(Version[t] < 0)
      BY <1>3, <2>2, <2>4, <3>2, Zenon DEF Encoded
    <3> QED
      BY <3>1, <3>2, Zenon
  <2> HIDE DEF fixed
  <2>7. fixed = f
    BY <1>1, <2>1, <2>2, <2>3, <2>5, <2>6, CoinsEqual, Zenon
  <2> QED
    BY <2>7, Zenon DEF MatchesBlock, SameCoins, f, cleared, fixed
<1> QED
  BY <1>4, <1>5, Zenon
-----------------------------------------------------------------------------
\* What UpdateCoins gives: the coins after the last input with the new outputs.
LEMMA UpdateCoinsFacts ==
    ASSUME NEW t \in Txids, NEW cs \in CoinMaps, InputsAvailable(cs, t), IsPruned(cs[t]),
           NEW h \in 1..MaxHeight
    PROVE  LET spent == SpendInputs(cs, t)[Len(Vin[t])]
               up == UpdateCoins(cs, t, h)
           IN  /\ up.vprevout = spent.vprevout
               /\ up.coins \in CoinMaps
               /\ up.coins[t] = FromTx(t, h)
               /\ \A u \in Txids \ {t} : up.coins[u] = spent.coins[u]
               /\ IsPruned(spent.coins[t])
<1> DEFINE n == Len(Vin[t])
           V == SpendInputs(cs, t)
           spent == V[n]
           up == UpdateCoins(cs, t, h)
<1>1. n \in Nat /\ n \in 0..n
  BY VinFacts
<1>2. spent.coins \in CoinMaps
  BY <1>1, SpendingInputs, Zenon
<1>3. IsPruned(spent.coins[t])
  <2>1. \A k : k \in DOMAIN spent.coins[t].vout => k \in DOMAIN cs[t].vout
    BY <1>1, SpendingInputs, Zenon
  <2> QED
    BY <2>1, Zenon DEF IsPruned
<1>4. spent = [coins |-> spent.coins, vprevout |-> spent.vprevout]
  <2>1. V = [j \in 0..n |-> IF j = 0 THEN [coins |-> cs, vprevout |-> <<>>]
                            ELSE SpendInput(V[j - 1], Vin[t][j])]
    BY <1>1, SpendInputsLoop, Zenon
  <2> HIDE DEF V, n
  <2>2. CASE n = 0
    BY <1>1, <2>1, <2>2, Zenon
  <2>3. CASE n # 0
    <3>1. spent = SpendInput(V[n - 1], Vin[t][n])
      BY <1>1, <2>1, <2>3, Zenon
    <3> QED
      BY <3>1, Zenon DEF SpendInput
  <2> QED
    BY <2>2, <2>3, Zenon
<1>5. up = [spent EXCEPT !.coins[t] = FromTx(t, h)]
  BY Zenon DEF UpdateCoins
<1> HIDE DEF spent, up
<1>6. /\ up.coins = [spent.coins EXCEPT ![t] = FromTx(t, h)]
      /\ up.vprevout = spent.vprevout
  BY <1>4, <1>5, Zenon
<1>7. /\ spent.coins \in [Txids -> Coins]
      /\ \A u \in Txids : IsCoinsOf(u, spent.coins[u])
  BY <1>2, Zenon DEF CoinMaps
<1>8. FromTx(t, h) \in Coins /\ IsCoinsOf(t, FromTx(t, h))
  BY FromTxFacts, Zenon
<1>9. \A u \in Txids : up.coins[u] = IF u = t THEN FromTx(t, h) ELSE spent.coins[u]
  BY <1>6, <1>7, Zenon
<1>10. up.coins \in [Txids -> Coins]
  BY <1>6, <1>7, <1>8, Zenon
<1>11. up.coins \in CoinMaps
  BY <1>7, <1>8, <1>9, <1>10, Zenon DEF CoinMaps
<1> QED
  BY <1>3, <1>6, <1>9, <1>11, Zenon DEF spent, up

\* Taking the outputs of t away leaves the coins as they were after its last input.
LEMMA OutputsRemoved ==
    ASSUME NEW t \in Txids, NEW cs \in CoinMaps, InputsAvailable(cs, t), IsPruned(cs[t]),
           NEW h \in 1..MaxHeight, NEW view, view.clean, view.coins \in CoinMaps,
           AllAlike(view.coins, UpdateCoins(cs, t, h).coins)
    PROVE  LET after == RemoveOutputs(view, t, h)
           IN  /\ after.clean /\ after.coins \in CoinMaps
               /\ AllAlike(after.coins, SpendInputs(cs, t)[Len(Vin[t])].coins)
<1> DEFINE after == RemoveOutputs(view, t, h)
           up == UpdateCoins(cs, t, h)
           spent == SpendInputs(cs, t)[Len(Vin[t])]
<1>1. /\ up.coins[t] = FromTx(t, h)
      /\ \A u \in Txids \ {t} : up.coins[u] = spent.coins[u]
      /\ IsPruned(spent.coins[t])
  BY UpdateCoinsFacts, Zenon
<1> HIDE DEF up, spent
<1>2. /\ view.coins \in [Txids -> Coins] /\ \A u \in Txids : IsCoinsOf(u, view.coins[u])
      /\ \A u \in Txids : Alike(view.coins[u], up.coins[u])
  BY Zenon DEF CoinMaps, AllAlike, up
<1>3. MatchesBlock(ClearUnspendable(view.coins[t]), t, h)
  BY <1>1, <1>2, OutputsMatch, Zenon
<1>4. after.clean /\ after.coins = [view.coins EXCEPT ![t] = Pruned]
  BY <1>3, Zenon DEF RemoveOutputs
<1>5. Pruned \in Coins /\ IsPruned(Pruned) /\ IsCoinsOf(t, Pruned)
  <2>1. 0 \in Versions /\ 0 \in 0..MaxHeight
    BY ConstantsAssumption DEF Versions
  <2>2. Pruned \in Coins
    BY <2>1, VoutFacts, Zenon DEF Pruned, Coins
  <2>3. IsPruned(Pruned)
    BY DEF Pruned, IsPruned
  <2> QED
    BY <2>2, <2>3, Zenon DEF IsCoinsOf
<1> HIDE DEF after
<1>6. \A u \in Txids : after.coins[u] = IF u = t THEN Pruned ELSE view.coins[u]
  BY <1>2, <1>4, Zenon
<1>7. after.coins \in [Txids -> Coins]
  BY <1>2, <1>4, <1>5, Zenon
<1>8. after.coins \in CoinMaps
  BY <1>2, <1>5, <1>6, <1>7, Zenon DEF CoinMaps
<1>9. AllAlike(after.coins, spent.coins)
  <2> SUFFICES ASSUME NEW u \in Txids PROVE Alike(after.coins[u], spent.coins[u])
    BY Zenon DEF AllAlike
  <2>1. CASE u = t
    BY <1>1, <1>5, <1>6, <2>1, Zenon DEF Alike
  <2>2. CASE u # t
    BY <1>1, <1>2, <1>6, <2>2, Zenon
  <2> QED
    BY <2>1, <2>2, Zenon
<1> QED
  BY <1>4, <1>8, <1>9, Zenon DEF after, spent

\* DisconnectBlock takes one transaction back exactly.
LEMMA DisconnectTxInverts ==
    ASSUME NEW t \in Txids, NEW cs \in CoinMaps, InputsAvailable(cs, t), IsPruned(cs[t]),
           NEW h \in 1..MaxHeight, NEW view, view.clean, view.coins \in CoinMaps,
           AllAlike(view.coins, UpdateCoins(cs, t, h).coins)
    PROVE  LET after == DisconnectTx(view, t, h, UpdateCoins(cs, t, h).vprevout)
           IN  after.clean /\ after.coins \in CoinMaps /\ AllAlike(after.coins, cs)
<1> DEFINE n == Len(Vin[t])
           V == SpendInputs(cs, t)
           vprevout == UpdateCoins(cs, t, h).vprevout
           start == RemoveOutputs(view, t, h)
           W == UndoInputs(start, t, vprevout)
           P(j) == W[j].clean /\ W[j].coins \in CoinMaps /\ AllAlike(W[j].coins, V[j].coins)
           S == {j \in 0..n : P(j)}
<1>1. n \in Nat /\ n \in 0..n /\ 0 \in 0..n
  BY VinFacts
<1>2. start.clean /\ start.coins \in CoinMaps /\ AllAlike(start.coins, V[n].coins)
  BY OutputsRemoved, Zenon
<1>3. vprevout = V[n].vprevout
  BY UpdateCoinsFacts, Zenon
<1>4. \A j \in 1..n : vprevout[j] = UndoRecord(V[j - 1].coins[Vin[t][j][1]], Vin[t][j][2])
  <2>1. \A j \in 1..n :
          V[n].vprevout[j] = UndoRecord(V[j - 1].coins[Vin[t][j][1]], Vin[t][j][2])
    BY <1>1, RecordsOfInputs, Zenon
  <2> QED
    BY <1>3, <2>1, Zenon
<1> HIDE DEF start, vprevout
<1>5. W = [j \in 0..n |-> IF j = n THEN start
                          ELSE ApplyTxInUndo(W[j + 1], vprevout[j + 1], Vin[t][j + 1])]
  <2>1. Len(Vin[t]) \in Nat
    BY <1>1, Zenon
  <2> QED
    BY <2>1, UndoInputsLoop
<1>6. V[0].coins = cs /\ \A j \in 1..n : V[j].coins = SpentMap(V[j - 1].coins, Vin[t][j])
  BY SpendSteps
<1>7. /\ \A j \in 0..n : V[j].coins \in CoinMaps
      /\ \A j \in 1..n : IsAvailable(V[j - 1].coins[Vin[t][j][1]], Vin[t][j][2])
  BY SpendingInputs, Zenon
<1>8. \A j \in 1..n : Vin[t][j] \in Txids \X Nat
  BY VinFacts, Zenon
<1> HIDE DEF W, V
<1>9. P(n)
  BY <1>1, <1>2, <1>5, Zenon
<1>10. ASSUME NEW j \in 0..n - 1, P(j + 1)
       PROVE  P(j)
  <2> DEFINE out == Vin[t][j + 1]
  <2>1. j \in 0..n /\ j # n /\ j + 1 \in 1..n /\ j + 1 - 1 = j
    BY <1>1
  <2>2. W[j] = ApplyTxInUndo(W[j + 1], vprevout[j + 1], out)
    BY <1>5, <2>1, Zenon
  <2>3. vprevout[j + 1] = UndoRecord(V[j].coins[out[1]], out[2])
    BY <1>4, <2>1
  <2>4. V[j + 1].coins = SpentMap(V[j].coins, out) /\ out \in Txids \X Nat
    <3> DEFINE i == j + 1
    <3>1. i \in 1..n /\ i - 1 = j
      BY <2>1
    <3> HIDE DEF i
    <3>2. V[i].coins = SpentMap(V[j].coins, Vin[t][i]) /\ Vin[t][i] \in Txids \X Nat
      BY <1>6, <1>8, <3>1, Zenon
    <3> QED
      BY <3>2, Zenon DEF i
  <2>5. V[j].coins \in CoinMaps /\ IsAvailable(V[j].coins[out[1]], out[2])
    BY <1>7, <2>1
  <2> HIDE DEF out
  <2> QED
    BY <1>10, <2>2, <2>3, <2>4, <2>5, UndoInvertsSpend, Zenon
<1> HIDE DEF P
<1>11. P(0)
  <2>1. n \in S /\ \A j \in 0..n - 1 : j + 1 \in S => j \in S
    <3>1. \A j \in 0..n - 1 : j \in 0..n
      BY <1>1
    <3> QED
      BY <1>1, <1>9, <1>10, <3>1, Zenon
  <2> HIDE DEF S
  <2>2. \A j \in 0..n : j \in S
    BY <1>1, <2>1, CountingDown, Zenon
  <2> QED
    BY <1>1, <2>2, Zenon DEF S
<1>12. DisconnectTx(view, t, h, vprevout) = W[0]
  BY Zenon DEF DisconnectTx, RestoreInputs, W, start
<1> QED
  BY <1>6, <1>11, <1>12, Zenon DEF P, vprevout

\* Coins that are alike stay so, and give the same undo data.
LEMMA UpdateCoinsAlike ==
    ASSUME NEW t \in Txids, NEW cs \in CoinMaps, NEW ds \in CoinMaps, AllAlike(cs, ds),
           InputsAvailable(cs, t), IsPruned(cs[t]), NEW h \in 1..MaxHeight
    PROVE  /\ InputsAvailable(ds, t) /\ IsPruned(ds[t])
           /\ AllAlike(UpdateCoins(cs, t, h).coins, UpdateCoins(ds, t, h).coins)
           /\ UpdateCoins(cs, t, h).vprevout = UpdateCoins(ds, t, h).vprevout
<1> DEFINE n == Len(Vin[t])
           V == SpendInputs(cs, t)
           W == SpendInputs(ds, t)
           P(j) == AllAlike(V[j].coins, W[j].coins) /\ V[j].vprevout = W[j].vprevout
           S == {j \in 0..n : P(j)}
<1>1. n \in Nat /\ n \in 0..n
  BY VinFacts
<1>2. \A u \in Txids : DOMAIN cs[u].vout = DOMAIN ds[u].vout
  BY Zenon DEF AllAlike, Alike, IsPruned
<1>3. InputsAvailable(ds, t)
  BY <1>2, VinFacts, Zenon DEF InputsAvailable, IsAvailable
<1>4. IsPruned(ds[t])
  BY <1>2, Zenon DEF IsPruned
<1>5. /\ V[0].coins = cs /\ W[0].coins = ds /\ V[0].vprevout = <<>> /\ W[0].vprevout = <<>>
  BY SpendSteps, Zenon
<1>6. \A j \in 1..n :
        /\ V[j].coins = SpentMap(V[j - 1].coins, Vin[t][j])
        /\ V[j].vprevout = Append(V[j - 1].vprevout,
                                  UndoRecord(V[j - 1].coins[Vin[t][j][1]], Vin[t][j][2]))
  BY SpendSteps
<1>7. \A j \in 1..n :
        /\ W[j].coins = SpentMap(W[j - 1].coins, Vin[t][j])
        /\ W[j].vprevout = Append(W[j - 1].vprevout,
                                  UndoRecord(W[j - 1].coins[Vin[t][j][1]], Vin[t][j][2]))
  BY SpendSteps
<1>8. \A j \in 0..n : V[j].coins \in CoinMaps /\ W[j].coins \in CoinMaps
  BY <1>3, SpendingInputs, Zenon
<1>9. \A j \in 1..n : IsAvailable(V[j - 1].coins[Vin[t][j][1]], Vin[t][j][2])
  BY SpendingInputs, Zenon
<1> HIDE DEF V, W
<1>10. P(0)
  BY <1>5, Zenon
<1>11. ASSUME NEW j \in 1..n, P(j - 1)
       PROVE  P(j)
  <2> DEFINE u == Vin[t][j][1]
             k == Vin[t][j][2]
             c == V[j - 1].coins
             d == W[j - 1].coins
  <2>1. j - 1 \in 0..n /\ u \in Txids
    BY <1>1, VinFacts
  <2>2. /\ c \in [Txids -> Coins] /\ d \in [Txids -> Coins]
        /\ \A x \in Txids : IsCoinsOf(x, c[x]) /\ IsCoinsOf(x, d[x]) /\ Alike(c[x], d[x])
        /\ k \in DOMAIN c[u].vout
    BY <1>8, <1>9, <1>11, <2>1, Zenon DEF CoinMaps, AllAlike, IsAvailable
  <2>3. Alike(Spend(c[u], k), Spend(d[u], k)) /\ UndoRecord(c[u], k) = UndoRecord(d[u], k)
    <3>1. u \in Txids /\ IsCoinsOf(u, c[u]) /\ IsCoinsOf(u, d[u]) /\ Alike(c[u], d[u])
          /\ k \in DOMAIN c[u].vout
      BY <2>1, <2>2, Zenon
    <3> DEFINE x == c[u]
               y == d[u]
    <3> HIDE DEF x, y, k, u
    <3>2. u \in Txids /\ IsCoinsOf(u, x) /\ IsCoinsOf(u, y) /\ Alike(x, y) /\ k \in DOMAIN x.vout
      BY <3>1, Zenon DEF x, y
    <3>3. Alike(Spend(x, k), Spend(y, k)) /\ UndoRecord(x, k) = UndoRecord(y, k)
      BY <3>2, SpendAlike
    <3> QED
      BY <3>3, Zenon DEF x, y
  <2>4. \A x \in Txids : /\ V[j].coins[x] = IF x = u THEN Spend(c[u], k) ELSE c[x]
                         /\ W[j].coins[x] = IF x = u THEN Spend(d[u], k) ELSE d[x]
    BY <1>6, <1>7, <2>2, Zenon DEF SpentMap
  <2>5. AllAlike(V[j].coins, W[j].coins)
    BY <2>2, <2>3, <2>4, Zenon DEF AllAlike
  <2>6. V[j].vprevout = W[j].vprevout
    BY <1>6, <1>7, <1>11, <2>3, Zenon
  <2> QED
    BY <2>5, <2>6, Zenon
<1> HIDE DEF P
<1>12. P(n)
  <2>1. 0 \in S /\ \A j \in 1..n : j - 1 \in S => j \in S
    <3>1. 0 \in 0..n /\ \A j \in 1..n : j \in 0..n
      BY <1>1
    <3> QED
      BY <1>10, <1>11, <3>1, Zenon
  <2> HIDE DEF S
  <2>2. \A j \in 0..n : j \in S
    BY <1>1, <2>1, CountingUp, Zenon
  <2> QED
    BY <1>1, <2>2, Zenon DEF S
<1>13. /\ UpdateCoins(cs, t, h).vprevout = V[n].vprevout
       /\ UpdateCoins(cs, t, h).coins[t] = FromTx(t, h)
       /\ \A u \in Txids \ {t} : UpdateCoins(cs, t, h).coins[u] = V[n].coins[u]
  BY UpdateCoinsFacts, Zenon DEF V
<1>14. /\ UpdateCoins(ds, t, h).vprevout = W[n].vprevout
       /\ UpdateCoins(ds, t, h).coins[t] = FromTx(t, h)
       /\ \A u \in Txids \ {t} : UpdateCoins(ds, t, h).coins[u] = W[n].coins[u]
  BY <1>3, <1>4, UpdateCoinsFacts, Zenon DEF W
<1>15. Alike(FromTx(t, h), FromTx(t, h))
  BY Zenon DEF Alike
<1>16. AllAlike(UpdateCoins(cs, t, h).coins, UpdateCoins(ds, t, h).coins)
  BY <1>12, <1>13, <1>14, <1>15, Zenon DEF P, AllAlike
<1> QED
  BY <1>3, <1>4, <1>12, <1>13, <1>14, <1>16, Zenon DEF P
-----------------------------------------------------------------------------
\* A block has transactions, each of them once.
LEMMA BodyFacts ==
    ASSUME NEW b \in Bodies
    PROVE  /\ b \in Seq(Txids) /\ Len(b) \in Nat /\ Len(b) # 0 /\ DOMAIN b = 1..Len(b)
           /\ \A i \in 1..Len(b) : b[i] \in Txids
           /\ \A i, j \in 1..Len(b) : b[i] = b[j] => i = j
<1>1. b \in Seq(Txids) /\ b # <<>>
  BY ConstantsAssumption, TransactionsAssumption, Zenon
<1>2. Len(b) \in Nat /\ DOMAIN b = 1..Len(b) /\ Len(b) # 0
  BY <1>1
<1>3. \A i \in 1..Len(b) : b[i] \in Txids
  BY <1>1, <1>2
<1>4. \A i, j \in 1..Len(b) : b[i] = b[j] => i = j
  BY <1>2, TransactionsAssumption, Zenon DEF IsInjective
<1> QED
  BY <1>1, <1>2, <1>3, <1>4, Zenon

\* The loop of ConnectBlock one step at a time.
LEMMA ConnectSteps ==
    ASSUME NEW b \in Bodies, NEW cs, NEW h
    PROVE  /\ ConnectTxs(cs, b, h)[0] =
                [ok |-> PassesBIP30(cs, b), coins |-> cs, vtxundo |-> <<>>]
           /\ \A i \in 1..Len(b) :
                ConnectTxs(cs, b, h)[i] = ConnectTx(ConnectTxs(cs, b, h)[i - 1], b[i], h)
<1> DEFINE C == ConnectTxs(cs, b, h)
           n == Len(b)
<1>1. n \in Nat
  BY BodyFacts, Zenon
<1>2. C = [i \in 0..n |-> IF i = 0 THEN [ok |-> PassesBIP30(cs, b), coins |-> cs, vtxundo |-> <<>>]
                          ELSE ConnectTx(C[i - 1], b[i], h)]
  BY <1>1, ConnectTxsLoop
<1> HIDE DEF C
<1>3. 0 \in 0..n /\ \A i \in 1..n : i \in 0..n /\ i # 0
  BY <1>1
<1>4. C[0] = [ok |-> PassesBIP30(cs, b), coins |-> cs, vtxundo |-> <<>>]
  BY <1>2, <1>3, Zenon
<1>5. \A i \in 1..n : C[i] = ConnectTx(C[i - 1], b[i], h)
  BY <1>2, <1>3, Zenon
<1> QED
  BY <1>4, <1>5, Zenon DEF C

\* A transaction is connected only after good ones and with good inputs.
LEMMA ConnectTxFacts ==
    ASSUME NEW view, NEW t \in Txids, NEW h, ConnectTx(view, t, h).ok
    PROVE  /\ view.ok
           /\ CheckTxInputs(view.coins, t, h)
           /\ InputsAvailable(view.coins, t)
           /\ ConnectTx(view, t, h).coins = UpdateCoins(view.coins, t, h).coins
           /\ ConnectTx(view, t, h).vtxundo
                = Append(view.vtxundo, UpdateCoins(view.coins, t, h).vprevout)
<1>1. view.ok /\ CheckTxInputs(view.coins, t, h)
  BY Zenon DEF ConnectTx
<1>2. ConnectTx(view, t, h) = [ok |-> TRUE, coins |-> UpdateCoins(view.coins, t, h).coins,
         vtxundo |-> Append(view.vtxundo, UpdateCoins(view.coins, t, h).vprevout)]
  BY <1>1, Zenon DEF ConnectTx
<1>3. InputsAvailable(view.coins, t)
  BY <1>1, Zenon DEF CheckTxInputs, InputsAvailable
<1> QED
  BY <1>1, <1>2, <1>3

\* A block that connects is good at every transaction.
LEMMA OkAllAlong ==
    ASSUME NEW b \in Bodies, NEW cs, NEW h, ConnectBlock(cs, b, h).ok
    PROVE  /\ \A i \in 0..Len(b) : ConnectTxs(cs, b, h)[i].ok
           /\ PassesBIP30(cs, b)
<1> DEFINE C == ConnectTxs(cs, b, h)
           n == Len(b)
           S == {i \in 0..n : C[i].ok}
<1>1. n \in Nat /\ n \in 0..n /\ 0 \in 0..n
  BY BodyFacts
<1>2. C[n].ok
  BY Zenon DEF ConnectBlock
<1>3. ASSUME NEW i \in 0..n - 1, C[i + 1].ok
      PROVE  C[i].ok
  <2> DEFINE j == i + 1
  <2>1. j \in 1..n /\ j - 1 = i
    BY <1>1
  <2>2. b[j] \in Txids
    BY <2>1, BodyFacts, Zenon
  <2> HIDE DEF j, C
  <2>3. C[j] = ConnectTx(C[i], b[j], h)
    BY <2>1, ConnectSteps, Zenon DEF C
  <2> QED
    <3>1. ConnectTx(C[i], b[j], h).ok
      BY <1>3, <2>3, Zenon DEF j
    <3> QED
      BY <2>2, <3>1, ConnectTxFacts, Zenon
<1> HIDE DEF C
<1>4. n \in S /\ \A i \in 0..n - 1 : i + 1 \in S => i \in S
  <2>1. \A i \in 0..n - 1 : i \in 0..n
    BY <1>1
  <2> QED
    BY <1>1, <1>2, <1>3, <2>1, Zenon
<1> HIDE DEF S
<1>5. \A i \in 0..n : i \in S
  BY <1>1, <1>4, CountingDown, Zenon
<1>6. \A i \in 0..n : C[i].ok
  BY <1>5, Zenon DEF S
<1>7. C[0] = [ok |-> PassesBIP30(cs, b), coins |-> cs, vtxundo |-> <<>>]
  BY ConnectSteps, Zenon DEF C
<1>8. C[0].ok = PassesBIP30(cs, b)
  <2> DEFINE p == PassesBIP30(cs, b)
             first == [ok |-> p, coins |-> cs, vtxundo |-> <<>>]
  <2>1. C[0] = first
    BY <1>7, Zenon
  <2> HIDE DEF p
  <2>2. first.ok = p
    OBVIOUS
  <2> HIDE DEF first
  <2> QED
    BY <2>1, <2>2, Zenon DEF p
<1>9. PassesBIP30(cs, b)
  BY <1>1, <1>6, <1>8, Zenon
<1> QED
  BY <1>6, <1>9, Zenon DEF C

\* When the turn of a transaction comes it has no coins, since it had none before the
\* block (BIP30) and is in the block once, and its inputs are there.
LEMMA ConnectingTxs ==
    ASSUME NEW b \in Bodies, NEW cs \in CoinMaps, NEW h \in 1..MaxHeight,
           ConnectBlock(cs, b, h).ok
    PROVE  /\ \A i \in 0..Len(b) : ConnectTxs(cs, b, h)[i].coins \in CoinMaps
           /\ \A i \in 1..Len(b) :
                LET before == ConnectTxs(cs, b, h)[i - 1]
                    after == ConnectTxs(cs, b, h)[i]
                IN  /\ InputsAvailable(before.coins, b[i])
                    /\ CheckTxInputs(before.coins, b[i], h)
                    /\ IsPruned(before.coins[b[i]])
                    /\ after.coins = UpdateCoins(before.coins, b[i], h).coins
                    /\ after.vtxundo
                         = Append(before.vtxundo, UpdateCoins(before.coins, b[i], h).vprevout)
<1> DEFINE C == ConnectTxs(cs, b, h)
           n == Len(b)
           P(i) == C[i].coins \in CoinMaps /\ \A j \in i + 1..n : IsPruned(C[i].coins[b[j]])
           S == {i \in 0..n : P(i)}
<1>1. n \in Nat
  BY BodyFacts, Zenon
<1>2. \A i \in 1..n : C[i].ok
  BY <1>1, OkAllAlong
<1>3. C[0].coins = cs /\ \A i \in 1..n : C[i] = ConnectTx(C[i - 1], b[i], h)
  <2>1. C[0] = [ok |-> PassesBIP30(cs, b), coins |-> cs, vtxundo |-> <<>>]
    BY ConnectSteps, Zenon
  <2>2. \A i \in 1..n : C[i] = ConnectTx(C[i - 1], b[i], h)
    BY ConnectSteps, Zenon
  <2> HIDE DEF C
  <2>3. C[0].coins = cs
    BY <2>1
  <2> QED
    BY <2>2, <2>3, Zenon
<1> HIDE DEF C
<1>4. \A i \in 1..n :
        /\ InputsAvailable(C[i - 1].coins, b[i])
        /\ CheckTxInputs(C[i - 1].coins, b[i], h)
        /\ C[i].coins = UpdateCoins(C[i - 1].coins, b[i], h).coins
        /\ C[i].vtxundo = Append(C[i - 1].vtxundo, UpdateCoins(C[i - 1].coins, b[i], h).vprevout)
  <2> SUFFICES ASSUME NEW i \in 1..n
               PROVE  /\ InputsAvailable(C[i - 1].coins, b[i])
                      /\ CheckTxInputs(C[i - 1].coins, b[i], h)
                      /\ C[i].coins = UpdateCoins(C[i - 1].coins, b[i], h).coins
                      /\ C[i].vtxundo = Append(C[i - 1].vtxundo,
                                               UpdateCoins(C[i - 1].coins, b[i], h).vprevout)
    OBVIOUS
  <2>1. b[i] \in Txids
    BY BodyFacts, Zenon
  <2>2. C[i] = ConnectTx(C[i - 1], b[i], h) /\ ConnectTx(C[i - 1], b[i], h).ok
    BY <1>2, <1>3, Zenon
  <2> DEFINE view == C[i - 1]
  <2> HIDE DEF view
  <2>3. ConnectTx(view, b[i], h).ok
    BY <2>2, Zenon DEF view
  <2>4. /\ CheckTxInputs(view.coins, b[i], h)
        /\ InputsAvailable(view.coins, b[i])
        /\ ConnectTx(view, b[i], h).coins = UpdateCoins(view.coins, b[i], h).coins
        /\ ConnectTx(view, b[i], h).vtxundo
             = Append(view.vtxundo, UpdateCoins(view.coins, b[i], h).vprevout)
    BY <2>1, <2>3, ConnectTxFacts, Zenon
  <2> QED
    BY <2>2, <2>4, Zenon DEF view
<1>5. P(0)
  <2>1. \A j \in 1..n : IsPruned(cs[b[j]])
    BY OkAllAlong, BodyFacts, Zenon DEF PassesBIP30
  <2> QED
    BY <1>3, <2>1
<1>6. ASSUME NEW i \in 1..n, P(i - 1)
      PROVE  P(i)
  <2> DEFINE t == b[i]
             ds == C[i - 1].coins
             up == UpdateCoins(ds, t, h)
             spent == SpendInputs(ds, t)[Len(Vin[t])]
  <2>1. t \in Txids /\ ds \in CoinMaps /\ InputsAvailable(ds, t) /\ C[i].coins = up.coins
    BY <1>4, <1>6, BodyFacts, Zenon
  <2>2. IsPruned(ds[t])
    BY <1>1, <1>6
  <2> HIDE DEF t, ds
  <2>3. up.coins \in CoinMaps /\ \A u \in Txids \ {t} : up.coins[u] = spent.coins[u]
    BY <2>1, <2>2, UpdateCoinsFacts, Zenon
  <2>4. \A u \in Txids : \A k : k \in DOMAIN spent.coins[u].vout => k \in DOMAIN ds[u].vout
    <3>1. Len(Vin[t]) \in 0..Len(Vin[t])
      BY <2>1, VinFacts
    <3> QED
      BY <2>1, <3>1, SpendingInputs
  <2> HIDE DEF up, spent
  <2>5. ASSUME NEW j \in i + 1..n
        PROVE  IsPruned(up.coins[b[j]])
    <3>1. j \in 1..n /\ j # i /\ j \in i - 1 + 1..n
      BY <1>1
    <3>2. b[j] \in Txids \ {t}
      BY <3>1, BodyFacts, Zenon DEF t
    <3>3. IsPruned(ds[b[j]])
      BY <1>6, <3>1, Zenon DEF ds
    <3> QED
      BY <2>3, <2>4, <3>2, <3>3, Zenon DEF IsPruned
  <2> QED
    BY <2>1, <2>3, <2>5, Zenon
<1> HIDE DEF P
<1>7. \A i \in 0..n : P(i)
  <2>1. 0 \in S /\ \A i \in 1..n : i - 1 \in S => i \in S
    <3>1. 0 \in 0..n /\ \A i \in 1..n : i \in 0..n
      BY <1>1
    <3> QED
      BY <1>5, <1>6, <3>1, Zenon
  <2> HIDE DEF S
  <2>2. \A i \in 0..n : i \in S
    BY <1>1, <2>1, CountingUp, Zenon
  <2> QED
    BY <2>2, Zenon DEF S
<1>8. \A i \in 1..n : IsPruned(C[i - 1].coins[b[i]])
  <2> SUFFICES ASSUME NEW i \in 1..n PROVE IsPruned(C[i - 1].coins[b[i]])
    OBVIOUS
  <2>1. i - 1 \in 0..n /\ i \in i - 1 + 1..n
    BY <1>1
  <2> QED
    BY <1>7, <2>1, Zenon DEF P
<1>9. \A i \in 0..n : C[i].coins \in CoinMaps
  BY <1>7, Zenon DEF P
<1> QED
  BY <1>4, <1>8, <1>9, Zenon DEF C
\* The undo data of a block is the undo data of its transactions, in their order.
LEMMA UndoOfBlock ==
    ASSUME NEW b \in Bodies, NEW cs \in CoinMaps, NEW h \in 1..MaxHeight,
           ConnectBlock(cs, b, h).ok
    PROVE  \A i \in 1..Len(b) :
             ConnectBlock(cs, b, h).vtxundo[i]
               = UpdateCoins(ConnectTxs(cs, b, h)[i - 1].coins, b[i], h).vprevout
<1> DEFINE C == ConnectTxs(cs, b, h)
           n == Len(b)
           U(i) == UpdateCoins(C[i - 1].coins, b[i], h).vprevout
           P(i) == C[i].vtxundo = [k \in 1..i |-> U(k)]
           S == {i \in 0..n : P(i)}
<1>1. n \in Nat /\ 0 \in 0..n /\ n \in 0..n /\ \A i \in 1..n : i \in 0..n
  BY BodyFacts
<1>2. C[0].vtxundo = <<>>
  <2>1. C[0] = [ok |-> PassesBIP30(cs, b), coins |-> cs, vtxundo |-> <<>>]
    BY ConnectSteps, Zenon
  <2> HIDE DEF C
  <2> QED
    BY <2>1
<1>3. \A i \in 1..n : C[i].vtxundo = Append(C[i - 1].vtxundo, U(i))
  BY ConnectingTxs, Zenon
<1>4. ConnectBlock(cs, b, h) = C[n]
  BY Zenon DEF ConnectBlock
<1> HIDE DEF C, U
<1>5. P(0)
  BY <1>2
<1>6. ASSUME NEW i \in 1..n, P(i - 1)
      PROVE  P(i)
  <2> DEFINE s == C[i - 1].vtxundo
             u == U(i)
  <2>1. s = [k \in 1..i - 1 |-> U(k)]
    BY <1>6, Zenon
  <2>2. C[i].vtxundo = Append(s, u)
    BY <1>3, Zenon
  <2>3. Append(s, u) = [k \in 1..i |-> IF k = i THEN u ELSE s[k]]
    <3> HIDE DEF s, u
    <3> QED
      BY <1>1, <2>1
  <2>4. \A k \in 1..i : (IF k = i THEN u ELSE s[k]) = U(k)
    BY <1>1, <2>1
  <2> HIDE DEF s, u
  <2> QED
    BY <2>2, <2>3, <2>4, Zenon
<1> HIDE DEF P
<1>7. 0 \in S /\ \A i \in 1..n : i - 1 \in S => i \in S
  BY <1>1, <1>5, <1>6, Zenon
<1> HIDE DEF S
<1>8. \A i \in 0..n : i \in S
  BY <1>1, <1>7, CountingUp, Zenon
<1>9. P(n)
  BY <1>1, <1>8, Zenon DEF S
<1>10. \A i \in 1..n : C[n].vtxundo[i] = U(i)
  BY <1>9, Zenon DEF P
<1> QED
  BY <1>4, <1>10, Zenon DEF C, U

\* DisconnectBlock takes back what ConnectBlock did: on coins alike to those after the
\* block it finds nothing wrong and leaves coins alike to those before.
LEMMA DisconnectBlockInverts ==
    ASSUME NEW b \in Bodies, NEW cs \in CoinMaps, NEW h \in 1..MaxHeight,
           ConnectBlock(cs, b, h).ok, NEW ds \in CoinMaps,
           AllAlike(ds, ConnectBlock(cs, b, h).coins)
    PROVE  LET undone == DisconnectBlock(ds, b, h, ConnectBlock(cs, b, h).vtxundo)
           IN  undone.clean /\ undone.coins \in CoinMaps /\ AllAlike(undone.coins, cs)
<1> DEFINE C == ConnectTxs(cs, b, h)
           n == Len(b)
           vtxundo == ConnectBlock(cs, b, h).vtxundo
           W == DisconnectTxs(ds, b, h, vtxundo)
           P(i) == W[i].clean /\ W[i].coins \in CoinMaps /\ AllAlike(W[i].coins, C[i].coins)
           S == {i \in 0..n : P(i)}
<1>1. n \in Nat /\ 0 \in 0..n /\ n \in 0..n /\ \A i \in 0..n - 1 : i \in 0..n
  BY BodyFacts
<1>2. W = [i \in 0..n |-> IF i = n THEN [clean |-> TRUE, coins |-> ds]
                          ELSE DisconnectTx(W[i + 1], b[i + 1], h, vtxundo[i + 1])]
  <2> HIDE DEF vtxundo
  <2> QED
    BY <1>1, DisconnectTxsLoop
<1>3. \A i \in 1..n : vtxundo[i] = UpdateCoins(C[i - 1].coins, b[i], h).vprevout
  BY UndoOfBlock, Zenon
<1>4. /\ \A i \in 0..n : C[i].coins \in CoinMaps
      /\ \A i \in 1..n : /\ InputsAvailable(C[i - 1].coins, b[i])
                         /\ IsPruned(C[i - 1].coins[b[i]])
                         /\ C[i].coins = UpdateCoins(C[i - 1].coins, b[i], h).coins
  BY ConnectingTxs, Zenon
<1>5. C[n] = ConnectBlock(cs, b, h)
  BY Zenon DEF ConnectBlock
<1>6. C[0].coins = cs
  <2>1. C[0] = [ok |-> PassesBIP30(cs, b), coins |-> cs, vtxundo |-> <<>>]
    BY ConnectSteps, Zenon
  <2> HIDE DEF C
  <2> QED
    BY <2>1
<1>7. DisconnectBlock(ds, b, h, vtxundo) = W[0]
  BY Zenon DEF DisconnectBlock
<1> HIDE DEF C, W, vtxundo
<1>8. P(n)
  <2>1. W[n] = [clean |-> TRUE, coins |-> ds]
    BY <1>1, <1>2, Zenon
  <2>2. W[n].clean /\ W[n].coins = ds
    BY <2>1
  <2> QED
    BY <1>5, <2>2, Zenon
<1>9. ASSUME NEW i \in 0..n - 1, P(i + 1)
      PROVE  P(i)
  <2> DEFINE j == i + 1
  <2>1. j \in 1..n /\ j - 1 = i /\ i \in 0..n /\ i # n
    BY <1>1
  <2> HIDE DEF j
  <2>2. W[i] = DisconnectTx(W[j], b[j], h, vtxundo[j])
    BY <1>2, <2>1, Zenon DEF j
  <2>3. vtxundo[j] = UpdateCoins(C[i].coins, b[j], h).vprevout
    BY <1>3, <2>1, Zenon
  <2>4. /\ C[i].coins \in CoinMaps /\ InputsAvailable(C[i].coins, b[j])
        /\ IsPruned(C[i].coins[b[j]])
        /\ C[j].coins = UpdateCoins(C[i].coins, b[j], h).coins
    BY <1>4, <2>1, Zenon
  <2>5. W[j].clean /\ W[j].coins \in CoinMaps /\ AllAlike(W[j].coins, C[j].coins)
    BY <1>9, Zenon DEF j
  <2>6. b[j] \in Txids
    BY <2>1, BodyFacts, Zenon
  <2> DEFINE view == W[j]
             bs == C[i].coins
             t == b[j]
  <2>7. view.clean /\ view.coins \in CoinMaps /\ AllAlike(view.coins, UpdateCoins(bs, t, h).coins)
    BY <2>4, <2>5, Zenon
  <2> HIDE DEF view, bs, t
  <2>8. LET after == DisconnectTx(view, t, h, UpdateCoins(bs, t, h).vprevout)
        IN  after.clean /\ after.coins \in CoinMaps /\ AllAlike(after.coins, bs)
    <3>1. t \in Txids /\ bs \in CoinMaps /\ InputsAvailable(bs, t) /\ IsPruned(bs[t])
      BY <2>4, <2>6, Zenon DEF t, bs
    <3> QED
      BY <2>7, <3>1, DisconnectTxInverts, Zenon
  <2>9. W[i] = DisconnectTx(view, t, h, UpdateCoins(bs, t, h).vprevout)
    BY <2>2, <2>3, Zenon DEF view, bs, t
  <2> QED
    BY <2>8, <2>9, Zenon DEF bs
<1> HIDE DEF P
<1>10. n \in S /\ \A i \in 0..n - 1 : i + 1 \in S => i \in S
  BY <1>1, <1>8, <1>9, Zenon
<1> HIDE DEF S
<1>11. \A i \in 0..n : i \in S
  BY <1>1, <1>10, CountingDown, Zenon
<1>12. P(0)
  BY <1>1, <1>11, Zenon DEF S
<1>13. W[0].clean /\ W[0].coins \in CoinMaps /\ AllAlike(W[0].coins, cs)
  BY <1>6, <1>12, Zenon DEF P
<1> QED
  BY <1>7, <1>13, Zenon DEF vtxundo

\* Coins that are alike accept the same transactions.
LEMMA CheckTxInputsAlike ==
    ASSUME NEW t \in Txids, NEW cs \in CoinMaps, NEW ds \in CoinMaps, AllAlike(cs, ds), NEW h,
           CheckTxInputs(cs, t, h)
    PROVE  CheckTxInputs(ds, t, h)
<1> SUFFICES ASSUME NEW j \in DOMAIN Vin[t]
             PROVE  /\ IsAvailable(ds[Vin[t][j][1]], Vin[t][j][2])
                    /\ IsMature(ds[Vin[t][j][1]], h)
  BY Zenon DEF CheckTxInputs
<1> DEFINE u == Vin[t][j][1]
           k == Vin[t][j][2]
<1>1. u \in Txids
  BY VinFacts, Zenon
<1>2. IsAvailable(cs[u], k) /\ IsMature(cs[u], h)
  BY Zenon DEF CheckTxInputs
<1> HIDE DEF u, k
<1>3. Alike(cs[u], ds[u])
  BY <1>1, Zenon DEF AllAlike
<1>4. IsCoinsOf(u, cs[u]) /\ IsCoinsOf(u, ds[u])
  BY <1>1, Zenon DEF CoinMaps
<1>5. ~IsPruned(cs[u]) /\ k \in DOMAIN cs[u].vout
  BY <1>2, Zenon DEF IsAvailable, IsPruned
<1>6. cs[u].vout = ds[u].vout /\ cs[u].nHeight = ds[u].nHeight /\ cs[u].fCoinBase = ds[u].fCoinBase
  BY <1>3, <1>4, <1>5, Zenon DEF Alike, IsCoinsOf, IsPruned
<1>7. IsAvailable(ds[u], k) /\ IsMature(ds[u], h)
  BY <1>2, <1>6, Zenon DEF IsAvailable, IsMature
<1> QED
  BY <1>7, Zenon DEF u, k
\* A block connects to coins alike as it does to the coins themselves, with the same undo
\* data.
LEMMA ConnectBlockAlike ==
    ASSUME NEW b \in Bodies, NEW cs \in CoinMaps, NEW ds \in CoinMaps, AllAlike(cs, ds),
           NEW h \in 1..MaxHeight, ConnectBlock(cs, b, h).ok
    PROVE  /\ ConnectBlock(cs, b, h).coins \in CoinMaps
           /\ ConnectBlock(ds, b, h).ok
           /\ ConnectBlock(ds, b, h).coins \in CoinMaps
           /\ AllAlike(ConnectBlock(cs, b, h).coins, ConnectBlock(ds, b, h).coins)
           /\ ConnectBlock(cs, b, h).vtxundo = ConnectBlock(ds, b, h).vtxundo
<1> DEFINE C == ConnectTxs(cs, b, h)
           D == ConnectTxs(ds, b, h)
           n == Len(b)
           P(i) == /\ D[i].ok /\ D[i].coins \in CoinMaps
                   /\ AllAlike(C[i].coins, D[i].coins)
                   /\ C[i].vtxundo = D[i].vtxundo
           S == {i \in 0..n : P(i)}
<1>1. n \in Nat /\ 0 \in 0..n /\ n \in 0..n /\ \A i \in 1..n : i \in 0..n
  BY BodyFacts
<1>2. C[n] = ConnectBlock(cs, b, h) /\ D[n] = ConnectBlock(ds, b, h)
  BY Zenon DEF ConnectBlock
<1>3. /\ \A i \in 0..n : C[i].coins \in CoinMaps
      /\ \A i \in 1..n :
           /\ InputsAvailable(C[i - 1].coins, b[i])
           /\ CheckTxInputs(C[i - 1].coins, b[i], h)
           /\ IsPruned(C[i - 1].coins[b[i]])
           /\ C[i].coins = UpdateCoins(C[i - 1].coins, b[i], h).coins
           /\ C[i].vtxundo = Append(C[i - 1].vtxundo, UpdateCoins(C[i - 1].coins, b[i], h).vprevout)
  BY ConnectingTxs, Zenon
<1>4. PassesBIP30(cs, b)
  BY OkAllAlong, Zenon
<1>5. C[0] = [ok |-> PassesBIP30(cs, b), coins |-> cs, vtxundo |-> <<>>]
  BY ConnectSteps, Zenon
<1>6. D[0] = [ok |-> PassesBIP30(ds, b), coins |-> ds, vtxundo |-> <<>>]
  BY ConnectSteps, Zenon
<1>7. \A i \in 1..n : D[i] = ConnectTx(D[i - 1], b[i], h)
  BY ConnectSteps, Zenon
<1> HIDE DEF C, D
<1>8. P(0)
  <2>1. PassesBIP30(ds, b)
    <3>1. \A i \in DOMAIN b : b[i] \in Txids
      BY BodyFacts, Zenon
    <3> QED
      BY <1>4, <3>1, Zenon DEF PassesBIP30, AllAlike, Alike
  <2>2. D[0] = [ok |-> TRUE, coins |-> ds, vtxundo |-> <<>>]
    BY <1>6, <2>1, Zenon
  <2>3. C[0].coins = cs /\ C[0].vtxundo = <<>>
    BY <1>5
  <2> QED
    BY <2>2, <2>3
<1>9. ASSUME NEW i \in 1..n, P(i - 1)
      PROVE  P(i)
  <2> DEFINE t == b[i]
             bs == C[i - 1].coins
             es == D[i - 1].coins
  <2>1. t \in Txids
    BY BodyFacts, Zenon
  <2>2. bs \in CoinMaps /\ InputsAvailable(bs, t) /\ CheckTxInputs(bs, t, h) /\ IsPruned(bs[t])
    <3>1. i - 1 \in 0..n
      BY <1>1
    <3> QED
      BY <1>3, <3>1, Zenon
  <2>3. C[i].coins = UpdateCoins(bs, t, h).coins
        /\ C[i].vtxundo = Append(C[i - 1].vtxundo, UpdateCoins(bs, t, h).vprevout)
    BY <1>3, Zenon
  <2>4. es \in CoinMaps /\ AllAlike(bs, es) /\ D[i - 1].ok /\ C[i - 1].vtxundo = D[i - 1].vtxundo
    BY <1>9, Zenon
  <2> HIDE DEF t, bs, es
  <2>5. CheckTxInputs(es, t, h)
    BY <2>1, <2>2, <2>4, CheckTxInputsAlike, Zenon
  <2>6. D[i] = [ok |-> TRUE, coins |-> UpdateCoins(es, t, h).coins,
                vtxundo |-> Append(D[i - 1].vtxundo, UpdateCoins(es, t, h).vprevout)]
    <3>1. D[i] = ConnectTx(D[i - 1], t, h)
      BY <1>7, Zenon DEF t
    <3>2. D[i - 1].ok /\ CheckTxInputs(D[i - 1].coins, t, h)
      BY <2>4, <2>5, Zenon DEF es
    <3> QED
      BY <3>1, <3>2, Zenon DEF ConnectTx, es
  <2>7. /\ InputsAvailable(es, t) /\ IsPruned(es[t])
        /\ AllAlike(UpdateCoins(bs, t, h).coins, UpdateCoins(es, t, h).coins)
        /\ UpdateCoins(bs, t, h).vprevout = UpdateCoins(es, t, h).vprevout
    BY <2>1, <2>2, <2>4, UpdateCoinsAlike, Zenon
  <2>8. UpdateCoins(es, t, h).coins \in CoinMaps
    BY <2>1, <2>4, <2>7, UpdateCoinsFacts, Zenon
  <2>9. /\ D[i].ok /\ D[i].coins = UpdateCoins(es, t, h).coins
        /\ D[i].vtxundo = Append(D[i - 1].vtxundo, UpdateCoins(es, t, h).vprevout)
    BY <2>6
  <2> QED
    BY <2>3, <2>4, <2>7, <2>8, <2>9, Zenon
<1> HIDE DEF P
<1>10. 0 \in S /\ \A i \in 1..n : i - 1 \in S => i \in S
  BY <1>1, <1>8, <1>9, Zenon
<1> HIDE DEF S
<1>11. \A i \in 0..n : i \in S
  BY <1>1, <1>10, CountingUp, Zenon
<1>12. P(n)
  BY <1>1, <1>11, Zenon DEF S
<1> QED
  BY <1>1, <1>2, <1>3, <1>12, Zenon DEF P

\* Being alike is symmetric...
LEMMA AlikeIsSymmetric ==
    ASSUME NEW cs, NEW ds, AllAlike(cs, ds)
    PROVE  AllAlike(ds, cs)
BY Zenon DEF AllAlike, Alike, IsPruned

\* ... and transitive.
LEMMA AlikeIsTransitive ==
    ASSUME NEW cs, NEW ds, NEW es, AllAlike(cs, ds), AllAlike(ds, es)
    PROVE  AllAlike(cs, es)
BY Zenon DEF AllAlike, Alike, IsPruned

-----------------------------------------------------------------------------
\* The first m blocks of a chain.
LEMMA Prefixes ==
    ASSUME NEW S, NEW ch \in Seq(S), NEW m \in 0..Len(ch)
    PROVE  /\ SubSeq(ch, 1, m) \in Seq(S)
           /\ Len(SubSeq(ch, 1, m)) = m
           /\ SubSeq(ch, 1, m) = [h \in 1..m |-> ch[h]]
<1>1. SubSeq(ch, 1, m) \in Seq(S)
  OBVIOUS
<1>2. Len(SubSeq(ch, 1, m)) = m
  OBVIOUS
<1>3. SubSeq(ch, 1, m) = [h \in 1..m |-> ch[h]]
  OBVIOUS
<1> QED
  BY <1>1, <1>2, <1>3, Zenon

\* The first blocks of the first blocks are first blocks.
LEMMA PrefixesOfPrefixes ==
    ASSUME NEW S, NEW ch \in Seq(S), NEW m \in 0..Len(ch), NEW h \in 0..m
    PROVE  SubSeq(SubSeq(ch, 1, m), 1, h) = SubSeq(ch, 1, h)
<1> DEFINE first == SubSeq(ch, 1, m)
<1>1. Len(ch) \in Nat /\ h \in 0..Len(ch)
  OBVIOUS
<1>2. first \in Seq(S) /\ Len(first) = m /\ first = [k \in 1..m |-> ch[k]]
  BY Prefixes, Zenon
<1> HIDE DEF first
<1>3. SubSeq(first, 1, h) = [k \in 1..h |-> first[k]]
  BY <1>2, Prefixes
<1>4. SubSeq(ch, 1, h) = [k \in 1..h |-> ch[k]]
  BY <1>1, Prefixes, Zenon
<1>5. \A k \in 1..h : first[k] = ch[k]
  BY <1>2
<1> QED
  BY <1>3, <1>4, <1>5, Zenon DEF first

\* A chain with one block more.
LEMMA Extended ==
    ASSUME NEW S, NEW ch \in Seq(S), NEW b \in S
    PROVE  LET after == Append(ch, b)
           IN  /\ after \in Seq(S) /\ after # <<>>
               /\ Len(ch) \in Nat /\ Len(after) = Len(ch) + 1 /\ after[Len(after)] = b
               /\ SubSeq(after, 1, Len(after) - 1) = ch
               /\ SubSeq(after, 1, Len(after)) = after
               /\ \A h \in 1..Len(ch) : SubSeq(after, 1, h) = SubSeq(ch, 1, h)
<1> DEFINE after == Append(ch, b)
<1>1. /\ after \in Seq(S) /\ after # <<>> /\ Len(after) = Len(ch) + 1 /\ Len(ch) \in Nat
      /\ after[Len(after)] = b /\ \A k \in 1..Len(ch) : after[k] = ch[k]
  OBVIOUS
<1> HIDE DEF after
<1>2. \A m \in 0..Len(ch) : SubSeq(after, 1, m) = SubSeq(ch, 1, m)
  <2> SUFFICES ASSUME NEW m \in 0..Len(ch) PROVE SubSeq(after, 1, m) = SubSeq(ch, 1, m)
    OBVIOUS
  <2>1. m \in 0..Len(after) /\ \A k \in 1..m : k \in 1..Len(ch)
    BY <1>1
  <2>2. SubSeq(after, 1, m) = [k \in 1..m |-> after[k]]
    BY <1>1, <2>1, Prefixes, Zenon
  <2>3. SubSeq(ch, 1, m) = [k \in 1..m |-> ch[k]]
    BY Prefixes, Zenon
  <2>4. \A k \in 1..m : after[k] = ch[k]
    BY <1>1, <2>1, Zenon
  <2> QED
    BY <2>2, <2>3, <2>4, Zenon
<1>3. SubSeq(ch, 1, Len(ch)) = ch
  BY <1>1
<1>4. SubSeq(after, 1, Len(after)) = after
  BY <1>1
<1>5. Len(after) - 1 = Len(ch) /\ Len(ch) \in 0..Len(ch) /\ \A h \in 1..Len(ch) : h \in 0..Len(ch)
  BY <1>1
<1>6. SubSeq(after, 1, Len(after) - 1) = ch
  BY <1>2, <1>3, <1>5, Zenon
<1> QED
  BY <1>1, <1>2, <1>4, <1>5, <1>6, Zenon DEF after

\* The coins of a chain are those of its first blocks, with the last block connected.
LEMMA CoinsOfLongerChain ==
    ASSUME NEW ch \in Seq(Bodies), ch # <<>>
    PROVE  CoinsOfChain(ch)
             = ConnectBlock(CoinsOfChain(SubSeq(ch, 1, Len(ch) - 1)), ch[Len(ch)], Len(ch)).coins
<1> DEFINE n == Len(ch)
           first == SubSeq(ch, 1, n - 1)
           F == CoinsByHeight(ch)
           G == CoinsByHeight(first)
           S == {h \in 0..n - 1 : F[h] = G[h]}
<1>1. n \in Nat /\ n # 0 /\ n - 1 \in Nat
  OBVIOUS
<1>2. Len(first) = n - 1 /\ \A h \in 1..n - 1 : first[h] = ch[h]
  <2>1. n - 1 \in 0..n
    BY <1>1
  <2>2. Len(first) = n - 1
    BY <2>1, Prefixes, Zenon
  <2>3. \A h \in 1..n - 1 : first[h] = ch[h]
    OBVIOUS
  <2> QED
    BY <2>2, <2>3, Zenon
<1>3. F = [h \in 0..n |-> IF h = 0 THEN NoCoins ELSE ConnectBlock(F[h - 1], ch[h], h).coins]
  BY <1>1, CoinsByHeightLoop, Zenon
<1>4. G = [h \in 0..n - 1 |-> IF h = 0 THEN NoCoins
                              ELSE ConnectBlock(G[h - 1], first[h], h).coins]
  <2> HIDE DEF first
  <2>1. Len(first) \in Nat
    BY <1>1, <1>2, Zenon
  <2>2. G = [h \in 0..Len(first) |-> IF h = 0 THEN NoCoins
                                     ELSE ConnectBlock(G[h - 1], first[h], h).coins]
    BY <2>1, CoinsByHeightLoop, Zenon
  <2> QED
    BY <1>2, <2>2, Zenon
<1>5. CoinsOfChain(ch) = F[n]
  BY Zenon DEF CoinsOfChain
<1>6. CoinsOfChain(first) = G[n - 1]
  <2> HIDE DEF first
  <2> QED
    BY <1>2, Zenon DEF CoinsOfChain
<1> HIDE DEF F, G, first
<1>7. 0 \in S /\ \A h \in 1..n - 1 : h - 1 \in S => h \in S
  <2>1. 0 \in 0..n - 1 /\ 0 \in 0..n
    BY <1>1
  <2>2. F[0] = NoCoins /\ G[0] = NoCoins
    BY <1>3, <1>4, <2>1, Zenon
  <2>3. ASSUME NEW h \in 1..n - 1, h - 1 \in S
        PROVE  h \in S
    <3>1. h \in 0..n /\ h \in 0..n - 1 /\ h # 0
      BY <1>1
    <3>2. F[h] = ConnectBlock(F[h - 1], ch[h], h).coins
      BY <1>3, <3>1, Zenon
    <3>3. G[h] = ConnectBlock(G[h - 1], ch[h], h).coins
      BY <1>2, <1>4, <3>1, Zenon
    <3>4. F[h - 1] = G[h - 1]
      BY <2>3, Zenon
    <3> QED
      BY <3>1, <3>2, <3>3, <3>4, Zenon
  <2> QED
    BY <2>1, <2>2, <2>3, Zenon
<1> DEFINE m == n - 1
<1>8. m \in Nat /\ 0 \in S /\ \A h \in 1..m : h - 1 \in S => h \in S
  BY <1>1, <1>7, Zenon
<1> HIDE DEF S, m
<1>9. \A h \in 0..m : h \in S
  BY <1>8, CountingUp, Zenon
<1>10. F[n - 1] = G[n - 1]
  <2>1. m \in 0..m
    BY <1>8
  <2> QED
    BY <1>9, <2>1, Zenon DEF S, m
<1>11. F[n] = ConnectBlock(F[n - 1], ch[n], n).coins
  <2>1. n \in 0..n
    BY <1>1
  <2> HIDE DEF n
  <2> QED
    BY <1>1, <1>3, <2>1, Zenon
<1> QED
  BY <1>5, <1>6, <1>10, <1>11, Zenon DEF first

\* Above the genesis block there are no coins.
LEMMA CoinsOfNoChain == CoinsOfChain(<<>>) = NoCoins
<1> DEFINE F == CoinsByHeight(<<>>)
<1>1. Len(<<>>) = 0
  OBVIOUS
<1>2. F = [h \in 0..Len(<<>>) |-> IF h = 0 THEN NoCoins
                                  ELSE ConnectBlock(F[h - 1], <<>>[h], h).coins]
  BY <1>1, CoinsByHeightLoop, Zenon
<1> HIDE DEF F
<1>3. F[0] = NoCoins
  BY <1>1, <1>2
<1> QED
  BY <1>1, <1>3, Zenon DEF CoinsOfChain, F
-----------------------------------------------------------------------------
\* The undo data kept for a block is what connecting the block to the coins of its chain
\* gives, whenever it was written.
Recorded(ch, vtxundo) ==
    LET n == Len(ch)
        before == CoinsOfChain(SubSeq(ch, 1, n - 1))
        done == ConnectBlock(before, ch[n], n)
    IN /\ ch \in Seq(Bodies) /\ ch # <<>> /\ n <= MaxHeight
       /\ before \in CoinMaps
       /\ done.ok
       /\ vtxundo = done.vtxundo

IInv ==
    /\ coins \in CoinMaps
    /\ chain \in Seq(Bodies) /\ Len(chain) <= MaxHeight
    /\ CoinsOfChain(chain) \in CoinMaps
    /\ AllAlike(coins, CoinsOfChain(chain))
    /\ \A h \in 1..Len(chain) : SubSeq(chain, 1, h) \in DOMAIN rev
    /\ \A ch \in DOMAIN rev : Recorded(ch, rev[ch])
    /\ nDisconnects \in 0..MaxDisconnects

\* The empty chainstate is well formed.
LEMMA NoCoinsFacts == NoCoins \in CoinMaps /\ AllAlike(NoCoins, NoCoins)
<1>1. <<>> \in Vouts
  <2>1. <<>> \in [{} -> Outputs]
    OBVIOUS
  <2> QED
    BY <2>1, Zenon DEF Vouts
<1>2. Pruned \in Coins
  <2>1. 0 \in 0..MaxHeight
    BY ConstantsAssumption
  <2>2. 0 \in Versions
    BY Zenon DEF Versions
  <2> HIDE DEF Vouts
  <2> QED
    BY <1>1, <2>1, <2>2, Zenon DEF Pruned, Coins
<1>3. IsPruned(Pruned)
  BY DEF IsPruned, Pruned
<1>4. \A t \in Txids : NoCoins[t] = Pruned
  BY Zenon DEF NoCoins
<1>5. NoCoins \in [Txids -> Coins]
  BY <1>2, Zenon DEF NoCoins
<1>6. \A t \in Txids : IsCoinsOf(t, NoCoins[t])
  BY <1>2, <1>3, <1>4, Zenon DEF IsCoinsOf
<1>7. AllAlike(NoCoins, NoCoins)
  BY <1>3, <1>4, Zenon DEF AllAlike, Alike
<1> QED
  BY <1>5, <1>6, <1>7, Zenon DEF CoinMaps

\* The invariant holds at the start.
LEMMA InitIInv == ASSUME Init PROVE IInv
<1>1. coins = NoCoins /\ chain = <<>> /\ DOMAIN rev = {} /\ nDisconnects = 0
  BY DEF Init, NoCoins
<1>2. CoinsOfChain(chain) = NoCoins
  BY <1>1, CoinsOfNoChain, Zenon
<1>3. chain \in Seq(Bodies) /\ Len(chain) <= MaxHeight /\ Len(chain) = 0
  BY <1>1, ConstantsAssumption
<1>4. nDisconnects \in 0..MaxDisconnects
  BY <1>1, ConstantsAssumption
<1>5. \A h \in 1..Len(chain) : SubSeq(chain, 1, h) \in DOMAIN rev
  BY <1>3
<1> QED
  BY <1>1, <1>2, <1>3, <1>4, <1>5, NoCoinsFacts, Zenon DEF IInv

\* The undo data of the tip is that of connecting it to the coins of the chain below.
LEMMA TipFacts ==
    ASSUME IInv, chain # <<>>
    PROVE  LET n == Len(chain)
               before == CoinsOfChain(SubSeq(chain, 1, n - 1))
               done == ConnectBlock(before, chain[n], n)
           IN  /\ n \in 1..MaxHeight /\ chain[n] \in Bodies
               /\ before \in CoinMaps /\ done.ok /\ rev[chain] = done.vtxundo
               /\ AllAlike(coins, done.coins)
<1> DEFINE n == Len(chain)
<1>1. /\ chain \in Seq(Bodies) /\ n <= MaxHeight /\ AllAlike(coins, CoinsOfChain(chain))
      /\ \A h \in 1..n : SubSeq(chain, 1, h) \in DOMAIN rev
      /\ \A ch \in DOMAIN rev : Recorded(ch, rev[ch])
  BY Zenon DEF IInv
<1>2. n \in 1..MaxHeight /\ n \in 1..n /\ chain[n] \in Bodies /\ SubSeq(chain, 1, n) = chain
  BY <1>1, ConstantsAssumption
<1>3. Recorded(chain, rev[chain])
  BY <1>1, <1>2, Zenon
<1>4. CoinsOfChain(chain) = ConnectBlock(CoinsOfChain(SubSeq(chain, 1, n - 1)), chain[n], n).coins
  BY <1>1, CoinsOfLongerChain, Zenon
<1> QED
  BY <1>1, <1>2, <1>3, <1>4, Zenon DEF Recorded

\* The tip can be disconnected, and what is left is alike to the coins of the chain below.
LEMMA TipUndone ==
    ASSUME IInv, chain # <<>>
    PROVE  LET n == Len(chain)
               undone == DisconnectBlock(coins, chain[n], n, rev[chain])
           IN  /\ undone.clean /\ undone.coins \in CoinMaps
               /\ AllAlike(undone.coins, CoinsOfChain(SubSeq(chain, 1, n - 1)))
<1> DEFINE n == Len(chain)
           b == chain[n]
           before == CoinsOfChain(SubSeq(chain, 1, n - 1))
<1>1. /\ n \in 1..MaxHeight /\ b \in Bodies /\ before \in CoinMaps
      /\ ConnectBlock(before, b, n).ok /\ rev[chain] = ConnectBlock(before, b, n).vtxundo
      /\ AllAlike(coins, ConnectBlock(before, b, n).coins)
  BY TipFacts, Zenon
<1>2. coins \in CoinMaps
  BY Zenon DEF IInv
<1> HIDE DEF n, b, before
<1>3. LET undone == DisconnectBlock(coins, b, n, ConnectBlock(before, b, n).vtxundo)
      IN  undone.clean /\ undone.coins \in CoinMaps /\ AllAlike(undone.coins, before)
  BY <1>1, <1>2, DisconnectBlockInverts, Zenon
<1> QED
  BY <1>1, <1>3, Zenon DEF n, b, before

\* Connecting a block keeps the invariant: the block connects to the coins of the chain as
\* it does to the tip, and undo data that is there already stays as it is.
LEMMA ConnectTipKeeps ==
    ASSUME IInv, NEW b \in Bodies, ConnectTip(b)
    PROVE  IInv'
<1> DEFINE after == Append(chain, b)
           n == Len(after)
           done == ConnectBlock(coins, b, n)
           bs == CoinsOfChain(chain)
           ref == ConnectBlock(bs, b, n)
<1>1. /\ coins \in CoinMaps /\ chain \in Seq(Bodies) /\ bs \in CoinMaps /\ AllAlike(coins, bs)
      /\ \A h \in 1..Len(chain) : SubSeq(chain, 1, h) \in DOMAIN rev
      /\ \A ch \in DOMAIN rev : Recorded(ch, rev[ch])
      /\ nDisconnects \in 0..MaxDisconnects
  BY Zenon DEF IInv
<1>2. /\ after \in Seq(Bodies) /\ after # <<>> /\ Len(chain) \in Nat /\ n = Len(chain) + 1
      /\ after[n] = b /\ SubSeq(after, 1, n - 1) = chain /\ SubSeq(after, 1, n) = after
      /\ \A h \in 1..Len(chain) : SubSeq(after, 1, h) = SubSeq(chain, 1, h)
  <2>1. chain \in Seq(Bodies)
    BY <1>1, Zenon
  <2> QED
    BY <2>1, Extended
<1>3. /\ n <= MaxHeight /\ done.ok /\ coins' = done.coins /\ chain' = after
      /\ rev' = UndoWriteToDisk(after, done.vtxundo) /\ nDisconnects' = nDisconnects
  BY Zenon DEF ConnectTip
<1>4. n \in 1..MaxHeight
  <2> HIDE DEF after
  <2> QED
    BY <1>2, <1>3, ConstantsAssumption
<1> HIDE DEF after, n, bs
<1>5. /\ done.coins \in CoinMaps /\ ref.ok /\ ref.coins \in CoinMaps
      /\ AllAlike(done.coins, ref.coins) /\ done.vtxundo = ref.vtxundo
  BY <1>1, <1>3, <1>4, ConnectBlockAlike, Zenon
<1>6. CoinsOfChain(after) = ref.coins
  <2>1. CoinsOfChain(after) = ConnectBlock(CoinsOfChain(SubSeq(after, 1, n - 1)), after[n], n).coins
    BY <1>2, CoinsOfLongerChain, Zenon DEF n
  <2> QED
    BY <1>2, <2>1, Zenon DEF bs
<1>7. Recorded(after, done.vtxundo)
  BY <1>1, <1>2, <1>3, <1>5, Zenon DEF Recorded, n, bs
<1> HIDE DEF done, ref
<1>8. DOMAIN rev' = DOMAIN rev \cup {after}
      /\ \A c \in DOMAIN rev' : rev'[c] = IF c \in DOMAIN rev THEN rev[c] ELSE done.vtxundo
  BY <1>3, Zenon DEF UndoWriteToDisk
<1>9. \A ch \in DOMAIN rev' : Recorded(ch, rev'[ch])
  BY <1>1, <1>7, <1>8, Zenon
<1>10. \A h \in 1..Len(after) : SubSeq(after, 1, h) \in DOMAIN rev'
  <2> SUFFICES ASSUME NEW h \in 1..Len(after) PROVE SubSeq(after, 1, h) \in DOMAIN rev'
    OBVIOUS
  <2>1. h = n \/ h \in 1..Len(chain)
    BY <1>2 DEF n
  <2> QED
    BY <1>1, <1>2, <1>8, <2>1, Zenon
<1>11. chain' \in Seq(Bodies) /\ Len(chain') <= MaxHeight
  BY <1>2, <1>3, Zenon DEF n
<1>12. coins' \in CoinMaps /\ CoinsOfChain(chain') \in CoinMaps
       /\ AllAlike(coins', CoinsOfChain(chain'))
  BY <1>3, <1>5, <1>6, Zenon
<1>13. \A h \in 1..Len(chain') : SubSeq(chain', 1, h) \in DOMAIN rev'
  BY <1>3, <1>10, Zenon
<1>14. nDisconnects' \in 0..MaxDisconnects
  BY <1>1, <1>3, Zenon
<1> QED
  BY <1>9, <1>11, <1>12, <1>13, <1>14, Zenon DEF IInv

\* Disconnecting the tip keeps the invariant: the record of the tip is exact, whenever it
\* was written.
LEMMA DisconnectTipKeeps ==
    ASSUME IInv, DisconnectTip
    PROVE  IInv'
<1> DEFINE n == Len(chain)
           first == SubSeq(chain, 1, n - 1)
           undone == DisconnectBlock(coins, chain[n], n, rev[chain])
<1>1. /\ chain \in Seq(Bodies) /\ n <= MaxHeight
      /\ \A h \in 1..n : SubSeq(chain, 1, h) \in DOMAIN rev
      /\ \A ch \in DOMAIN rev : Recorded(ch, rev[ch])
      /\ nDisconnects \in 0..MaxDisconnects
  BY Zenon DEF IInv
<1>2. /\ chain # <<>> /\ nDisconnects < MaxDisconnects /\ coins' = undone.coins
      /\ chain' = first /\ nDisconnects' = nDisconnects + 1 /\ rev' = rev
  BY Zenon DEF DisconnectTip
<1>3. undone.coins \in CoinMaps /\ AllAlike(undone.coins, CoinsOfChain(first))
  BY <1>2, TipUndone, Zenon
<1>4. CoinsOfChain(first) \in CoinMaps
  BY <1>2, TipFacts, Zenon
<1>5. n \in Nat /\ n # 0 /\ n - 1 \in 0..n
  BY <1>1, <1>2
<1>6. first \in Seq(Bodies) /\ Len(first) = n - 1
  BY <1>1, <1>5, Prefixes, Zenon
<1>7. \A h \in 1..n - 1 : SubSeq(first, 1, h) \in DOMAIN rev
  <2> SUFFICES ASSUME NEW h \in 1..n - 1 PROVE SubSeq(first, 1, h) \in DOMAIN rev
    OBVIOUS
  <2>1. h \in 1..n /\ h \in 0..n - 1
    BY <1>5
  <2>2. SubSeq(first, 1, h) = SubSeq(chain, 1, h)
    BY <1>1, <1>5, <2>1, PrefixesOfPrefixes, Zenon
  <2> QED
    BY <1>1, <2>1, <2>2, Zenon
<1> HIDE DEF first, undone
<1>8. chain' \in Seq(Bodies) /\ Len(chain') <= MaxHeight
  BY <1>1, <1>2, <1>5, <1>6, ConstantsAssumption
<1>9. nDisconnects' \in 0..MaxDisconnects
  BY <1>1, <1>2, ConstantsAssumption
<1>10. coins' \in CoinMaps /\ CoinsOfChain(chain') \in CoinMaps
       /\ AllAlike(coins', CoinsOfChain(chain'))
  BY <1>2, <1>3, <1>4, Zenon
<1>11. /\ \A h \in 1..Len(chain') : SubSeq(chain', 1, h) \in DOMAIN rev'
       /\ \A ch \in DOMAIN rev' : Recorded(ch, rev'[ch])
  BY <1>1, <1>2, <1>6, <1>7, Zenon
<1> QED
  BY <1>8, <1>9, <1>10, <1>11, Zenon DEF IInv

\* Coins that have been through the file are alike to what they were.
LEMMA FlushKeeps ==
    ASSUME IInv, FlushAndReload
    PROVE  IInv'
<1> DEFINE read(c) == [c EXCEPT !.nVersion = Encoded(c.nVersion)]
<1>1. coins \in CoinMaps /\ AllAlike(coins, CoinsOfChain(chain))
  BY Zenon DEF IInv
<1>2. /\ coins' = [t \in Txids |-> IF IsPruned(coins[t]) THEN Pruned ELSE read(coins[t])]
      /\ chain' = chain /\ rev' = rev /\ nDisconnects' = nDisconnects
  BY Zenon DEF FlushAndReload
<1>3. ASSUME NEW t \in Txids
      PROVE  /\ coins'[t] \in Coins /\ IsCoinsOf(t, coins'[t]) /\ Alike(coins'[t], coins[t])
  <2>1. coins[t] \in Coins /\ IsCoinsOf(t, coins[t])
    BY <1>1, Zenon DEF CoinMaps
  <2>2. CASE IsPruned(coins[t])
    <3>1. coins'[t] = NoCoins[t]
      BY <1>2, <2>2, Zenon DEF NoCoins
    <3>2. NoCoins[t] \in Coins /\ IsCoinsOf(t, NoCoins[t]) /\ IsPruned(NoCoins[t])
      <4>1. NoCoins[t] \in Coins /\ IsCoinsOf(t, NoCoins[t])
        BY NoCoinsFacts, Zenon DEF CoinMaps
      <4>2. IsPruned(NoCoins[t])
        BY DEF NoCoins, Pruned, IsPruned
      <4> QED
        BY <4>1, <4>2, Zenon
    <3> QED
      BY <2>2, <3>1, <3>2, Zenon DEF Alike
  <2>3. CASE ~IsPruned(coins[t])
    <3> DEFINE c == coins[t]
    <3>1. coins'[t] = read(c)
      BY <1>2, <2>3, Zenon
    <3>2. c \in Coins /\ IsCoinsOf(t, c) /\ ~IsPruned(c)
      BY <2>1, <2>3, Zenon
    <3> HIDE DEF c
    <3>3. c.nVersion \in Versions /\ Encoded(c.nVersion) \in Versions
      BY <3>2, EncodedFacts, Zenon DEF Coins
    <3>4. /\ read(c).vout = c.vout /\ read(c).nHeight = c.nHeight
          /\ read(c).fCoinBase = c.fCoinBase /\ read(c).nVersion = Encoded(c.nVersion)
      BY <3>2, Zenon DEF Coins
    <3>5. read(c) \in Coins
      BY <3>2, <3>3, Zenon DEF Coins
    <3>6. Version[t] \in Int
      BY ConstantsAssumption, Zenon
    <3>7. Encoded(c.nVersion) \in {Version[t], Encoded(Version[t])}
      BY <3>2, <3>6, EncodedFacts, Zenon DEF IsCoinsOf
    <3> HIDE DEF read
    <3>8. IsCoinsOf(t, read(c)) /\ ~IsPruned(read(c))
      BY <3>2, <3>4, <3>5, <3>7, Zenon DEF IsCoinsOf, IsPruned
    <3>9. Alike(read(c), c)
      BY <3>4, <3>8, Zenon DEF Alike
    <3> QED
      BY <3>1, <3>5, <3>8, <3>9, Zenon DEF c
  <2> QED
    BY <2>2, <2>3, Zenon
<1>4. coins' \in CoinMaps
  <2>1. coins' = [t \in Txids |-> coins'[t]]
    BY <1>2, Zenon
  <2>2. coins' \in [Txids -> Coins]
    BY <1>3, <2>1, Zenon
  <2> QED
    BY <1>3, <2>2, Zenon DEF CoinMaps
<1>5. AllAlike(coins', coins)
  BY <1>3, Zenon DEF AllAlike
<1>6. AllAlike(coins', CoinsOfChain(chain))
  BY <1>1, <1>5, AlikeIsTransitive, Zenon
<1> QED
  BY <1>2, <1>4, <1>6, Zenon DEF IInv

\* The inductive invariant: the coins are alike to those of the active chain, and every
\* undo record, of the active chain or not, is that of its block on its chain.
THEOREM UndoIsExact == Spec => []IInv
<1>1. Init => IInv
  BY InitIInv, Zenon
<1>2. IInv /\ [Next]_vars => IInv'
  <2> SUFFICES ASSUME IInv, [Next]_vars PROVE IInv'
    OBVIOUS
  <2>1. ASSUME NEW b \in Bodies, ConnectTip(b) PROVE IInv'
    BY <2>1, ConnectTipKeeps, Zenon
  <2>2. CASE DisconnectTip
    BY <2>2, DisconnectTipKeeps, Zenon
  <2>3. CASE FlushAndReload
    BY <2>3, FlushKeeps, Zenon
  <2>4. CASE UNCHANGED vars
    BY <2>4, Zenon DEF vars, IInv
  <2> QED
    BY <2>1, <2>2, <2>3, <2>4, Zenon DEF Next
<1> QED
  BY <1>1, <1>2, PTL DEF Spec

\* Coins of one transaction that are alike differ in their version at most.
LEMMA SameFromAlike ==
    ASSUME NEW t \in Txids, NEW a \in Coins, NEW b \in Coins, IsCoinsOf(t, a), IsCoinsOf(t, b),
           Alike(a, b)
    PROVE  SameButVersion(a, b)
<1> DEFINE x == [a EXCEPT !.nVersion = Encoded(a.nVersion)]
           y == [b EXCEPT !.nVersion = Encoded(b.nVersion)]
<1>1. x = [fCoinBase |-> a.fCoinBase, nHeight |-> a.nHeight, nVersion |-> Encoded(a.nVersion),
           vout |-> a.vout]
  BY DEF Coins
<1>2. y = [fCoinBase |-> b.fCoinBase, nHeight |-> b.nHeight, nVersion |-> Encoded(b.nVersion),
           vout |-> b.vout]
  BY DEF Coins
<1> HIDE DEF x, y
<1>3. CASE IsPruned(a)
  <2>1. IsPruned(b)
    BY <1>3, Zenon DEF Alike
  <2>2. IsPruned(x) /\ IsPruned(y)
    BY <1>1, <1>2, <1>3, <2>1, Zenon DEF IsPruned
  <2> QED
    BY <2>2, Zenon DEF SameButVersion, SameCoins, x, y
<1>4. CASE ~IsPruned(a)
  <2>1. a.vout = b.vout /\ a.nHeight = b.nHeight
    BY <1>4, Zenon DEF Alike
  <2>2. ~IsPruned(b)
    BY <1>4, <2>1, Zenon DEF IsPruned
  <2>3. Version[t] \in Int
    BY ConstantsAssumption, Zenon
  <2>4. Encoded(a.nVersion) = Encoded(b.nVersion) /\ a.fCoinBase = b.fCoinBase
    BY <1>4, <2>2, <2>3, EncodedFacts, Zenon DEF IsCoinsOf
  <2>5. x = y
    BY <1>1, <1>2, <2>1, <2>4, Zenon
  <2> QED
    BY <2>5, Zenon DEF SameButVersion, SameCoins, x, y
<1> QED
  BY <1>3, <1>4, Zenon

\* Taking blocks back is exact: after any connections, disconnections and reloads the coins
\* at the tip are those of connecting the active chain to an empty chainstate, and are
\* well formed.
THEOREM ChainCoins == Spec => []CoinsAreThoseOfTheChain
<1>1. IInv => CoinsAreThoseOfTheChain
  <2> SUFFICES ASSUME IInv PROVE CoinsAreThoseOfTheChain
    OBVIOUS
  <2> DEFINE ds == CoinsOfChain(chain)
  <2>1. coins \in CoinMaps /\ ds \in CoinMaps /\ AllAlike(coins, ds)
    BY Zenon DEF IInv
  <2> HIDE DEF ds
  <2>2. ASSUME NEW t \in Txids
        PROVE  IsCoins(coins[t]) /\ SameButVersion(coins[t], ds[t])
    <3>1. /\ coins[t] \in Coins /\ IsCoinsOf(t, coins[t]) /\ ds[t] \in Coins
          /\ IsCoinsOf(t, ds[t]) /\ Alike(coins[t], ds[t])
      BY <2>1, Zenon DEF CoinMaps, AllAlike
    <3>2. SameButVersion(coins[t], ds[t])
      BY <3>1, SameFromAlike, Zenon
    <3> DEFINE c == coins[t]
    <3> HIDE DEF c
    <3>3. c \in Coins
      BY <3>1, Zenon DEF c
    <3>4. /\ DOMAIN c = {"fCoinBase", "nHeight", "nVersion", "vout"}
          /\ c.fCoinBase \in BOOLEAN /\ c.nHeight \in 0..MaxHeight
          /\ c.nVersion \in Versions /\ c.vout \in Vouts
      BY <3>3, Zenon DEF Coins
    <3>5. \A n \in DOMAIN c.vout : c.vout[n] \in Outputs
      BY <3>4, Zenon DEF Vouts
    <3>6. IsCoins(c)
      BY <3>4, <3>5, Zenon DEF IsCoins, Versions, Outputs
    <3> QED
      BY <3>2, <3>6, Zenon DEF c
  <2>3. TypeOK
    BY <2>2, Zenon DEF IInv, TypeOK
  <2> QED
    BY <2>2, <2>3, Zenon DEF CoinsAreThoseOfTheChain, ds
<1> QED
  BY <1>1, UndoIsExact, PTL

\* DisconnectBlock of the tip never reports an inconsistency, however old its undo data is.
THEOREM CleanReorganisation == Spec => []TipDisconnectsCleanly
<1>1. IInv => TipDisconnectsCleanly
  BY TipUndone, Zenon DEF TipDisconnectsCleanly
<1> QED
  BY <1>1, UndoIsExact, PTL
-----------------------------------------------------------------------------
(* The balance of inclusions and spendings. *)

\* What a transaction u does to an output of t: it creates it, spends it or leaves it.
Moves(cs, after, u, t, k) ==
    /\ u = t => /\ ~IsAvailable(cs[t], k) /\ IsAvailable(after[t], k)
                /\ <<t, k>> \notin Range(Vin[u])
    /\ u # t /\ <<t, k>> \in Range(Vin[u])
          => IsAvailable(cs[t], k) /\ ~IsAvailable(after[t], k)
    /\ u # t /\ <<t, k>> \notin Range(Vin[u])
          => (IsAvailable(after[t], k) <=> IsAvailable(cs[t], k))

\* This is what UpdateCoins does.
LEMMA TxBalance ==
    ASSUME NEW u \in Txids, NEW cs \in CoinMaps, InputsAvailable(cs, u), IsPruned(cs[u]),
           NEW h \in 1..MaxHeight, NEW t \in Txids, NEW k \in Vout[t], <<t, k>> \notin Unspendable
    PROVE  Moves(cs, UpdateCoins(cs, u, h).coins, u, t, k)
<1> DEFINE after == UpdateCoins(cs, u, h).coins
           n == Len(Vin[u])
           spent == SpendInputs(cs, u)[n].coins
<1>1. after[u] = FromTx(u, h) /\ \A x \in Txids \ {u} : after[x] = spent[x]
  BY UpdateCoinsFacts
<1>2. k \in DOMAIN spent[t].vout
        <=> k \in DOMAIN cs[t].vout /\ \A i \in 1..n : Vin[u][i] # <<t, k>>
  <2>1. n \in 0..n
    BY VinFacts
  <2>2. \A j \in 0..n : \A x \in Txids : \A m :
          m \in DOMAIN SpendInputs(cs, u)[j].coins[x].vout
            <=> m \in DOMAIN cs[x].vout /\ \A i \in 1..j : Vin[u][i] # <<x, m>>
    BY SpendingInputs, Zenon
  <2> QED
    BY <2>1, <2>2, Zenon
<1>3. DOMAIN Vin[u] = 1..n
      /\ \A i \in 1..n : IsAvailable(cs[Vin[u][i][1]], Vin[u][i][2])
  BY VinFacts DEF InputsAvailable
<1>4. <<t, k>> \in Range(Vin[u]) <=> \E i \in 1..n : Vin[u][i] = <<t, k>>
  BY <1>3, Zenon DEF Range
<1>5. <<t, k>> \in Range(Vin[u]) => IsAvailable(cs[t], k)
  <2> SUFFICES ASSUME NEW i \in 1..n, Vin[u][i] = <<t, k>> PROVE IsAvailable(cs[t], k)
    BY <1>4, Zenon
  <2>1. Vin[u][i][1] = t /\ Vin[u][i][2] = k
    OBVIOUS
  <2> QED
    BY <1>3, <2>1, Zenon
<1> HIDE DEF after, spent
<1>6. CASE u = t
  <2>1. ~IsAvailable(cs[t], k)
    BY <1>6, Zenon DEF IsAvailable, IsPruned
  <2>2. k \in DOMAIN FromTx(t, h).vout
    <3>1. DOMAIN FromTx(t, h).vout = {m \in Vout[t] : <<t, m>> \notin Unspendable}
      BY FromTxFacts
    <3> QED
      BY <3>1
  <2>3. IsAvailable(after[t], k)
    BY <1>1, <1>6, <2>2, Zenon DEF IsAvailable
  <2> QED
    BY <1>5, <1>6, <2>1, <2>3, Zenon DEF after, Moves
<1>7. CASE u # t
  <2>1. after[t] = spent[t]
    BY <1>1, <1>7, Zenon
  <2>2. IsAvailable(after[t], k) <=> IsAvailable(cs[t], k) /\ <<t, k>> \notin Range(Vin[u])
    BY <1>2, <1>4, <2>1, Zenon DEF IsAvailable
  <2> QED
    BY <1>5, <1>7, <2>2, Zenon DEF after, Moves
<1> QED
  BY <1>6, <1>7, Zenon

\* The places A and B at which an output is created and spent balance: they are finite and
\* A has one place more than B when the output is there, and as many when it is not.
Balanced(A, B, there) ==
    /\ IsFiniteSet(A) /\ IsFiniteSet(B)
    /\ Cardinality(A) - Cardinality(B) = IF there THEN 1 ELSE 0

\* An output that is created or spent at a new place keeps its balance.
LEMMA BalanceGrows ==
    ASSUME NEW A, NEW B, NEW x, x \notin A, x \notin B
    PROVE  /\ Balanced(A, B, FALSE) => Balanced(A \cup {x}, B, TRUE)
           /\ Balanced(A, B, TRUE) => Balanced(A, B \cup {x}, FALSE)
<1>1. ASSUME Balanced(A, B, FALSE) PROVE Balanced(A \cup {x}, B, TRUE)
  <2>1. IsFiniteSet(A) /\ IsFiniteSet(B) /\ Cardinality(A) - Cardinality(B) = 0
    BY <1>1 DEF Balanced
  <2>2. Cardinality(A) \in Nat /\ Cardinality(B) \in Nat
    BY <2>1, FS_CardinalityType
  <2>3. IsFiniteSet(A \cup {x}) /\ Cardinality(A \cup {x}) = Cardinality(A) + 1
    BY <2>1, FS_AddElement
  <2> QED
    BY <2>1, <2>2, <2>3 DEF Balanced
<1>2. ASSUME Balanced(A, B, TRUE) PROVE Balanced(A, B \cup {x}, FALSE)
  <2>1. IsFiniteSet(A) /\ IsFiniteSet(B) /\ Cardinality(A) - Cardinality(B) = 1
    BY <1>2 DEF Balanced
  <2>2. Cardinality(A) \in Nat /\ Cardinality(B) \in Nat
    BY <2>1, FS_CardinalityType
  <2>3. IsFiniteSet(B \cup {x}) /\ Cardinality(B \cup {x}) = Cardinality(B) + 1
    BY <2>1, FS_AddElement
  <2> QED
    BY <2>1, <2>2, <2>3 DEF Balanced
<1> QED
  BY <1>1, <1>2

\* The places of block b, at height h, that include t or spend the output op.
Inclusions(b, h, t) == {<<h, i>> : i \in {j \in 1..Len(b) : b[j] = t}}

Spendings(b, h, op) == {<<h, i>> : i \in {j \in 1..Len(b) : op \in Range(Vin[b[j]])}}

\* Connecting a block at height h adds the places <<h, i>> of its transactions, and keeps
\* the balance of every output that can be spent.
LEMMA BlockBalance ==
    ASSUME NEW b \in Bodies, NEW cs \in CoinMaps, NEW h \in 1..MaxHeight,
           ConnectBlock(cs, b, h).ok,
           NEW t \in Txids, NEW k \in Vout[t], <<t, k>> \notin Unspendable,
           NEW A, NEW B, \A i \in 1..Len(b) : <<h, i>> \notin A /\ <<h, i>> \notin B,
           Balanced(A, B, IsAvailable(cs[t], k))
    PROVE  Balanced(A \cup Inclusions(b, h, t), B \cup Spendings(b, h, <<t, k>>),
                    IsAvailable(ConnectBlock(cs, b, h).coins[t], k))
<1> DEFINE C == ConnectTxs(cs, b, h)
           n == Len(b)
           made(i) == A \cup {<<h, j>> : j \in {g \in 1..i : b[g] = t}}
           used(i) == B \cup {<<h, j>> : j \in {g \in 1..i : <<t, k>> \in Range(Vin[b[g]])}}
           there(i) == IsAvailable(C[i].coins[t], k)
           P(i) == Balanced(made(i), used(i), there(i))
           S == {i \in 0..n : P(i)}
<1>1. n \in Nat /\ n \in 0..n /\ 0 \in 0..n /\ \A i \in 1..n : i \in 0..n /\ i - 1 \in 0..n
  BY BodyFacts
<1>2. C[n] = ConnectBlock(cs, b, h)
  BY DEF ConnectBlock
<1>3. C[0].coins = cs
  <2>1. C[0] = [ok |-> PassesBIP30(cs, b), coins |-> cs, vtxundo |-> <<>>]
    BY ConnectSteps, Zenon
  <2> HIDE DEF C
  <2> QED
    BY <2>1
<1>4. \A i \in 1..n : /\ C[i - 1].coins \in CoinMaps
                      /\ InputsAvailable(C[i - 1].coins, b[i])
                      /\ IsPruned(C[i - 1].coins[b[i]])
                      /\ C[i].coins = UpdateCoins(C[i - 1].coins, b[i], h).coins
  BY <1>1, ConnectingTxs, Zenon
<1> HIDE DEF C
<1>5. P(0)
  <2>1. made(0) = A /\ used(0) = B
    OBVIOUS
  <2> QED
    BY <1>3, <2>1, Zenon
<1>6. ASSUME NEW i \in 1..n, P(i - 1)
      PROVE  P(i)
  <2> DEFINE x == <<h, i>>
             u == b[i]
             spends == <<t, k>> \in Range(Vin[u])
             ds == C[i - 1].coins
  <2>1. u \in Txids
    BY BodyFacts
  <2>2. \A j : j \in 1..i <=> j \in 1..i - 1 \/ j = i
    BY <1>1
  <2>3. x \notin made(i - 1) /\ x \notin used(i - 1)
    <3>1. \A j \in 1..i - 1 : <<h, j>> # x
      BY <1>1
    <3>2. x \notin A /\ x \notin B
      BY Zenon
    <3> QED
      BY <3>1, <3>2, Zenon
  <2>4. made(i) = IF u = t THEN made(i - 1) \cup {x} ELSE made(i - 1)
    BY <2>2, Zenon
  <2>5. used(i) = IF spends THEN used(i - 1) \cup {x} ELSE used(i - 1)
    BY <2>2, Zenon
  <2>6. ds \in CoinMaps /\ InputsAvailable(ds, u) /\ IsPruned(ds[u])
        /\ C[i].coins = UpdateCoins(ds, u, h).coins
    BY <1>4, Zenon
  <2> DEFINE before == there(i - 1)
             now == there(i)
  <2>7. before = IsAvailable(ds[t], k) /\ now = IsAvailable(UpdateCoins(ds, u, h).coins[t], k)
    BY <2>6, Zenon
  <2> HIDE DEF ds, u, x
  <2>8. /\ u = t => ~before /\ now /\ ~spends
        /\ u # t /\ spends => before /\ ~now
        /\ u # t /\ ~spends => (now <=> before)
    <3> DEFINE after == UpdateCoins(ds, u, h).coins
    <3>1. Moves(ds, after, u, t, k)
      BY <2>1, <2>6, TxBalance, Zenon
    <3> HIDE DEF before, now, after
    <3>2. before = IsAvailable(ds[t], k) /\ now = IsAvailable(after[t], k)
      BY <2>7, Zenon DEF after
    <3> QED
      BY <3>1, <3>2, Zenon DEF Moves
  <2> DEFINE M == made(i - 1)
             U == used(i - 1)
  <2>9. Balanced(M, U, before)
    BY <1>6, Zenon
  <2> HIDE DEF made, used, there, spends
  <2>10. CASE u = t
    <3>1. Balanced(M, U, FALSE)
      BY <2>8, <2>9, <2>10 DEF Balanced
    <3>2. Balanced(M \cup {x}, U, TRUE)
      BY <2>3, <3>1, BalanceGrows, Zenon
    <3>3. made(i) = M \cup {x} /\ used(i) = U /\ now
      BY <2>4, <2>5, <2>8, <2>10, Zenon
    <3> QED
      BY <3>2, <3>3 DEF Balanced
  <2>11. CASE u # t /\ spends
    <3>1. Balanced(M, U, TRUE)
      BY <2>8, <2>9, <2>11 DEF Balanced
    <3>2. Balanced(M, U \cup {x}, FALSE)
      BY <2>3, <3>1, BalanceGrows, Zenon
    <3>3. made(i) = M /\ used(i) = U \cup {x} /\ ~now
      BY <2>4, <2>5, <2>8, <2>11, Zenon
    <3> QED
      BY <3>2, <3>3 DEF Balanced
  <2>12. CASE u # t /\ ~spends
    <3>1. made(i) = M /\ used(i) = U /\ (now <=> before)
      BY <2>4, <2>5, <2>8, <2>12, Zenon
    <3> QED
      BY <2>9, <3>1 DEF Balanced
  <2> QED
    BY <2>10, <2>11, <2>12, Zenon
<1> HIDE DEF P
<1>7. 0 \in S /\ \A i \in 1..n : i - 1 \in S => i \in S
  BY <1>1, <1>5, <1>6, Zenon
<1> HIDE DEF S
<1>8. \A i \in 0..n : i \in S
  BY <1>1, <1>7, CountingUp, Zenon
<1>9. P(n)
  BY <1>1, <1>8, Zenon DEF S
<1> QED
  BY <1>2, <1>9, Zenon DEF P, Inclusions, Spendings
\* The places of the first h blocks at which a transaction is included or an output spent.
IsIncluded(ch, h, t, x) == \E g \in 1..h : \E i \in 1..Len(ch[g]) : x = <<g, i>> /\ ch[g][i] = t

IsSpent(ch, h, op, x) ==
    \E g \in 1..h : \E i \in 1..Len(ch[g]) : x = <<g, i>> /\ op \in Range(Vin[ch[g][i]])

\* The sets Included and SpentAt of the first h blocks hold those places.
LEMMA PlacesOfPrefix ==
    ASSUME NEW ch \in Seq(Bodies), NEW h \in 0..Len(ch), NEW t, NEW op
    PROVE  /\ \A x : x \in Included(SubSeq(ch, 1, h), t) <=> IsIncluded(ch, h, t, x)
           /\ \A x : x \in SpentAt(SubSeq(ch, 1, h), op) <=> IsSpent(ch, h, op, x)
<1> DEFINE p == SubSeq(ch, 1, h)
<1>1. p = [g \in 1..h |-> ch[g]]
  BY Prefixes, Zenon
<1>2. DOMAIN p = 1..h /\ \A g \in 1..h : p[g] = ch[g]
  <2> HIDE DEF p
  <2> QED
    BY <1>1
<1>3. \A g \in 1..h : DOMAIN ch[g] = 1..Len(ch[g])
  <2> SUFFICES ASSUME NEW g \in 1..h PROVE DOMAIN ch[g] = 1..Len(ch[g])
    OBVIOUS
  <2>1. ch[g] \in Bodies
    OBVIOUS
  <2> DEFINE b == ch[g]
  <2> HIDE DEF b
  <2>2. DOMAIN b = 1..Len(b)
    BY <2>1, BodyFacts, Zenon DEF b
  <2> QED
    BY <2>2 DEF b
<1> HIDE DEF p
<1>4. \A x \in Places(p) : \E g \in 1..h : \E i \in 1..Len(ch[g]) : x = <<g, i>>
  <2> SUFFICES ASSUME NEW x \in Places(p)
               PROVE  \E f \in 1..h : \E i \in 1..Len(ch[f]) : x = <<f, i>>
    OBVIOUS
  <2>0. PICK g \in DOMAIN p : x \in {<<g, i>> : i \in DOMAIN p[g]}
    BY Zenon DEF Places
  <2>1. PICK i \in DOMAIN p[g] : x = <<g, i>>
    BY <2>0
  <2>2. g \in 1..h /\ i \in 1..Len(ch[g])
    BY <1>2, <1>3, Zenon
  <2> QED
    BY <2>1, <2>2, Zenon
<1>5. \A g \in 1..h : \A i \in 1..Len(ch[g]) : <<g, i>> \in Places(p)
  <2> SUFFICES ASSUME NEW g \in 1..h, NEW i \in 1..Len(ch[g]) PROVE <<g, i>> \in Places(p)
    OBVIOUS
  <2>1. g \in DOMAIN p /\ i \in DOMAIN p[g]
    BY <1>2, <1>3, Zenon
  <2>2. <<g, i>> \in {<<g, k>> : k \in DOMAIN p[g]}
    BY <2>1, Zenon
  <2> QED
    BY <2>1, <2>2, Zenon DEF Places
<1>6. \A g, i : <<g, i>>[1] = g /\ <<g, i>>[2] = i
  OBVIOUS
<1>7. ASSUME NEW x
      PROVE  x \in Included(p, t) <=> IsIncluded(ch, h, t, x)
  <2>1. ASSUME x \in Included(p, t) PROVE IsIncluded(ch, h, t, x)
    <3>1. PICK g \in 1..h : \E i \in 1..Len(ch[g]) : x = <<g, i>>
      BY <1>4, <2>1, Zenon DEF Included
    <3>2. PICK i \in 1..Len(ch[g]) : x = <<g, i>>
      BY <3>1, Zenon
    <3>3. p[x[1]][x[2]] = t /\ x[1] = g /\ x[2] = i
      BY <1>6, <2>1, <3>2, Zenon DEF Included
    <3>4. ch[g][i] = t
      BY <1>2, <3>3, Zenon
    <3> QED
      BY <3>2, <3>4, Zenon DEF IsIncluded
  <2>2. ASSUME IsIncluded(ch, h, t, x) PROVE x \in Included(p, t)
    <3>1. PICK g \in 1..h : \E i \in 1..Len(ch[g]) : x = <<g, i>> /\ ch[g][i] = t
      BY <2>2, Zenon DEF IsIncluded
    <3>2. PICK i \in 1..Len(ch[g]) : x = <<g, i>> /\ ch[g][i] = t
      BY <3>1, Zenon
    <3>3. x \in Places(p)
      BY <1>5, <3>2, Zenon
    <3>4. x[1] = g /\ x[2] = i
      BY <1>6, <3>2, Zenon
    <3>5. p[x[1]][x[2]] = t
      BY <1>2, <3>2, <3>4, Zenon
    <3> QED
      BY <3>3, <3>5, Zenon DEF Included
  <2> QED
    BY <2>1, <2>2, Zenon
<1>8. ASSUME NEW x
      PROVE  x \in SpentAt(p, op) <=> IsSpent(ch, h, op, x)
  <2>1. ASSUME x \in SpentAt(p, op) PROVE IsSpent(ch, h, op, x)
    <3>1. PICK g \in 1..h : \E i \in 1..Len(ch[g]) : x = <<g, i>>
      BY <1>4, <2>1, Zenon DEF SpentAt
    <3>2. PICK i \in 1..Len(ch[g]) : x = <<g, i>>
      BY <3>1, Zenon
    <3>3. op \in Range(Vin[p[x[1]][x[2]]]) /\ x[1] = g /\ x[2] = i
      BY <1>6, <2>1, <3>2, Zenon DEF SpentAt
    <3>4. op \in Range(Vin[ch[g][i]])
      BY <1>2, <3>3, Zenon
    <3> QED
      BY <3>2, <3>4, Zenon DEF IsSpent
  <2>2. ASSUME IsSpent(ch, h, op, x) PROVE x \in SpentAt(p, op)
    <3>1. PICK g \in 1..h : \E i \in 1..Len(ch[g]) : x = <<g, i>> /\ op \in Range(Vin[ch[g][i]])
      BY <2>2, Zenon DEF IsSpent
    <3>2. PICK i \in 1..Len(ch[g]) : x = <<g, i>> /\ op \in Range(Vin[ch[g][i]])
      BY <3>1, Zenon
    <3>3. x \in Places(p)
      BY <1>5, <3>2, Zenon
    <3>4. x[1] = g /\ x[2] = i
      BY <1>6, <3>2, Zenon
    <3>5. op \in Range(Vin[p[x[1]][x[2]]])
      BY <1>2, <3>2, <3>4, Zenon
    <3> QED
      BY <3>3, <3>5, Zenon DEF SpentAt
  <2> QED
    BY <2>1, <2>2, Zenon
<1> QED
  BY <1>7, <1>8, Zenon DEF p

\* One block more.
LEMMA OneBlockMore ==
    ASSUME NEW ch, NEW h \in Nat \ {0}, NEW t, NEW op, NEW x
    PROVE  /\ IsIncluded(ch, h, t, x)
                <=> IsIncluded(ch, h - 1, t, x) \/ x \in Inclusions(ch[h], h, t)
           /\ IsSpent(ch, h, op, x)
                <=> IsSpent(ch, h - 1, op, x) \/ x \in Spendings(ch[h], h, op)
<1> DEFINE In(g) == \E i \in 1..Len(ch[g]) : x = <<g, i>> /\ ch[g][i] = t
           Sp(g) == \E i \in 1..Len(ch[g]) : x = <<g, i>> /\ op \in Range(Vin[ch[g][i]])
           b == ch[h]
<1>1. \A g : g \in 1..h <=> g \in 1..h - 1 \/ g = h
  OBVIOUS
<1>2. In(h) <=> x \in Inclusions(b, h, t)
  BY Zenon DEF Inclusions
<1>3. Sp(h) <=> x \in Spendings(b, h, op)
  BY Zenon DEF Spendings
<1>4. \A m : /\ IsIncluded(ch, m, t, x) <=> \E g \in 1..m : In(g)
             /\ IsSpent(ch, m, op, x) <=> \E g \in 1..m : Sp(g)
  BY Zenon DEF IsIncluded, IsSpent
<1> HIDE DEF In, Sp, b
<1>5. (\E g \in 1..h : In(g)) <=> (\E g \in 1..h - 1 : In(g)) \/ In(h)
  BY <1>1, Zenon
<1>6. (\E g \in 1..h : Sp(g)) <=> (\E g \in 1..h - 1 : Sp(g)) \/ Sp(h)
  BY <1>1, Zenon
<1> QED
  BY <1>2, <1>3, <1>4, <1>5, <1>6, Zenon DEF b

\* Every block of the active chain connects to the coins of the blocks below it.
LEMMA BlocksOfChain ==
    ASSUME IInv, NEW h \in 1..Len(chain)
    PROVE  /\ h \in 1..MaxHeight /\ chain[h] \in Bodies
           /\ CoinsOfChain(SubSeq(chain, 1, h - 1)) \in CoinMaps
           /\ ConnectBlock(CoinsOfChain(SubSeq(chain, 1, h - 1)), chain[h], h).ok
           /\ CoinsOfChain(SubSeq(chain, 1, h))
                = ConnectBlock(CoinsOfChain(SubSeq(chain, 1, h - 1)), chain[h], h).coins
<1> DEFINE p == SubSeq(chain, 1, h)
<1>1. chain \in Seq(Bodies) /\ Len(chain) <= MaxHeight /\ p \in DOMAIN rev
      /\ Recorded(p, rev[p])
  BY Zenon DEF IInv
<1>2. Len(chain) \in Nat /\ h \in 1..MaxHeight /\ h \in 0..Len(chain) /\ h - 1 \in 0..h /\ h \in 1..h
      /\ chain[h] \in Bodies
  BY <1>1, ConstantsAssumption
<1>3. p \in Seq(Bodies) /\ Len(p) = h /\ p = [g \in 1..h |-> chain[g]]
  BY <1>1, <1>2, Prefixes, Zenon
<1>4. SubSeq(p, 1, h - 1) = SubSeq(chain, 1, h - 1)
  BY <1>1, <1>2, PrefixesOfPrefixes, Zenon
<1> HIDE DEF p
<1>5. p[h] = chain[h] /\ p # <<>>
  BY <1>2, <1>3
<1>6. CoinsOfChain(SubSeq(chain, 1, h - 1)) \in CoinMaps
      /\ ConnectBlock(CoinsOfChain(SubSeq(chain, 1, h - 1)), chain[h], h).ok
  BY <1>1, <1>3, <1>4, <1>5, Zenon DEF Recorded
<1>7. CoinsOfChain(p) = ConnectBlock(CoinsOfChain(SubSeq(p, 1, h - 1)), p[h], h).coins
  <2>1. CoinsOfChain(p)
          = ConnectBlock(CoinsOfChain(SubSeq(p, 1, Len(p) - 1)), p[Len(p)], Len(p)).coins
    BY <1>3, <1>5, CoinsOfLongerChain, Zenon
  <2> QED
    BY <1>3, <2>1, Zenon
<1> QED
  BY <1>2, <1>4, <1>5, <1>6, <1>7, Zenon DEF p

\* Every output that can be spent balances on the active chain.
LEMMA ChainBalance ==
    ASSUME IInv, NEW t \in Txids, NEW k \in Vout[t], <<t, k>> \notin Unspendable
    PROVE  Balanced(Included(chain, t), SpentAt(chain, <<t, k>>),
                    IsAvailable(CoinsOfChain(chain)[t], k))
<1> DEFINE n == Len(chain)
           op == <<t, k>>
           p(h) == SubSeq(chain, 1, h)
           P(h) == Balanced(Included(p(h), t), SpentAt(p(h), op),
                            IsAvailable(CoinsOfChain(p(h))[t], k))
           S == {h \in 0..n : P(h)}
<1>1. chain \in Seq(Bodies)
  BY DEF IInv
<1>2. n \in Nat /\ n \in 0..n /\ 0 \in 0..n /\ \A h \in 1..n : h \in 0..n /\ h - 1 \in 0..n
  BY <1>1
<1>3. P(0)
  <2>1. p(0) = <<>>
    BY <1>1
  <2>2. \A x : x \notin Included(p(0), t) /\ x \notin SpentAt(p(0), op)
    <3>1. 1..0 = {}
      OBVIOUS
    <3> QED
      BY <1>1, <1>2, <3>1, PlacesOfPrefix, Zenon DEF IsIncluded, IsSpent
  <2>3. Included(p(0), t) = {} /\ SpentAt(p(0), op) = {}
    BY <2>2, Zenon
  <2>4. ~IsAvailable(CoinsOfChain(p(0))[t], k)
    <3>1. CoinsOfChain(p(0)) = NoCoins
      BY <2>1, CoinsOfNoChain, Zenon
    <3>2. ~IsAvailable(NoCoins[t], k)
      BY DEF NoCoins, Pruned, IsAvailable
    <3> QED
      BY <3>1, <3>2, Zenon
  <2>5. IsFiniteSet({}) /\ Cardinality({}) = 0
    BY FS_EmptySet
  <2> HIDE DEF p, op
  <2> QED
    BY <2>3, <2>4, <2>5 DEF Balanced
<1>4. ASSUME NEW h \in 1..n, P(h - 1)
      PROVE  P(h)
  <2> DEFINE b == chain[h]
             cs == CoinsOfChain(p(h - 1))
             A == Included(p(h - 1), t)
             B == SpentAt(p(h - 1), op)
             I == Inclusions(b, h, t)
             J == Spendings(b, h, op)
  <2>1. /\ h \in 1..MaxHeight /\ b \in Bodies /\ cs \in CoinMaps /\ ConnectBlock(cs, b, h).ok
        /\ CoinsOfChain(p(h)) = ConnectBlock(cs, b, h).coins
    BY BlocksOfChain, Zenon
  <2>2. h \in Nat \ {0} /\ h \in 0..n /\ h - 1 \in 0..n
    BY <1>2
  <2>3. /\ \A x : x \in A <=> IsIncluded(chain, h - 1, t, x)
        /\ \A x : x \in B <=> IsSpent(chain, h - 1, op, x)
    BY <1>1, <2>2, PlacesOfPrefix, Zenon
  <2>4. /\ \A x : x \in Included(p(h), t) <=> IsIncluded(chain, h, t, x)
        /\ \A x : x \in SpentAt(p(h), op) <=> IsSpent(chain, h, op, x)
    BY <1>1, <2>2, PlacesOfPrefix, Zenon
  <2>5. \A x : /\ IsIncluded(chain, h, t, x) <=> IsIncluded(chain, h - 1, t, x) \/ x \in I
               /\ IsSpent(chain, h, op, x) <=> IsSpent(chain, h - 1, op, x) \/ x \in J
    BY <2>2, OneBlockMore, Zenon
  <2>6. \A i : ~IsIncluded(chain, h - 1, t, <<h, i>>) /\ ~IsSpent(chain, h - 1, op, <<h, i>>)
    <3>1. \A g \in 1..h - 1 : \A i, j : <<h, i>> # <<g, j>>
      BY <1>2
    <3> QED
      BY <3>1, Zenon DEF IsIncluded, IsSpent
  <2> HIDE DEF p, A, B, op, I, J
  <2>7. Included(p(h), t) = A \cup I
    BY <2>3, <2>4, <2>5, Zenon
  <2>8. SpentAt(p(h), op) = B \cup J
    BY <2>3, <2>4, <2>5, Zenon
  <2>9. \A i \in 1..Len(b) : <<h, i>> \notin A /\ <<h, i>> \notin B
    BY <2>3, <2>6, Zenon
  <2>10. Balanced(A, B, IsAvailable(cs[t], k))
    BY <1>4, Zenon DEF A, B, p
  <2> HIDE DEF cs, b
  <2>11. Balanced(A \cup I, B \cup J, IsAvailable(ConnectBlock(cs, b, h).coins[t], k))
    BY <2>1, <2>9, <2>10, BlockBalance, Zenon DEF op, I, J
  <2> QED
    BY <2>1, <2>7, <2>8, <2>11, Zenon
<1> HIDE DEF P
<1>5. 0 \in S /\ \A h \in 1..n : h - 1 \in S => h \in S
  BY <1>2, <1>3, <1>4, Zenon
<1> HIDE DEF S
<1>6. \A h \in 0..n : h \in S
  BY <1>2, <1>5, CountingUp, Zenon
<1>7. P(n)
  BY <1>2, <1>6, Zenon DEF S
<1>8. p(n) = chain
  BY <1>1
<1> QED
  BY <1>7, <1>8, Zenon DEF P

\* Conservation: an output that can be spent is unspent exactly when its transaction was
\* included once more often than the output was spent, whatever was connected,
\* disconnected and reloaded.
THEOREM Conservation == Spec => []UnspentIsIncludedMinusSpent
<1>1. IInv => UnspentIsIncludedMinusSpent
  <2> SUFFICES ASSUME IInv, NEW op \in Outpoints \ Unspendable
               PROVE  Cardinality(Included(chain, op[1])) - Cardinality(SpentAt(chain, op))
                        = IF IsAvailable(coins[op[1]], op[2]) THEN 1 ELSE 0
    BY Zenon DEF UnspentIsIncludedMinusSpent
  <2>1. PICK t \in Txids : \E k \in Vout[t] : op = <<t, k>>
    BY Zenon DEF Outpoints
  <2>2. PICK k \in Vout[t] : op = <<t, k>>
    BY <2>1
  <2>3. op[1] = t /\ op[2] = k /\ <<t, k>> \notin Unspendable
    BY <2>2
  <2>4. Balanced(Included(chain, t), SpentAt(chain, op), IsAvailable(CoinsOfChain(chain)[t], k))
    BY <2>2, <2>3, ChainBalance, Zenon
  <2>5. IsAvailable(CoinsOfChain(chain)[t], k) <=> IsAvailable(coins[t], k)
    <3>1. Alike(coins[t], CoinsOfChain(chain)[t])
      BY Zenon DEF IInv, AllAlike
    <3> QED
      BY <3>1, Zenon DEF Alike, IsPruned, IsAvailable
  <2> QED
    BY <2>3, <2>4, <2>5, Zenon DEF Balanced
<1> QED
  BY <1>1, UndoIsExact, PTL
=============================================================================

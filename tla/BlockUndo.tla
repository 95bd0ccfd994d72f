----------------------------- MODULE BlockUndo ------------------------------
(***************************************************************************)
(* Applying a block to the unspent coins and taking it back.               *)
(*                                                                         *)
(* ConnectBlock spends the inputs and adds the outputs of each transaction *)
(* in order and writes undo data: the spent output of every input and, only*)
(* in the record that spends the last output of a transaction, the height, *)
(* coinbase flag and version of that transaction.  DisconnectBlock has to  *)
(* replay the records in exactly the reverse order to find the metadata    *)
(* again.  A block that is connected a second time keeps the undo data of  *)
(* its first connection.                                                   *)
(*                                                                         *)
(* A CCoins is its flag, height, version and the function of its unspent   *)
(* outputs: vout without null entries, since Cleanup drops trailing nulls  *)
(* and a null in the middle is an output that is not available.  A version *)
(* that goes through a file or the database is changed by the encoding when*)
(* it is negative.                                                         *)
(***************************************************************************)
EXTENDS Integers, Sequences, FiniteSets, Functions

CONSTANTS
    Txids,           \* transaction ids
    Vin,             \* the outpoints <<txid, n>> a transaction spends
    Vout,            \* the positions of its outputs
    Unspendable,     \* the outpoints whose script can never be satisfied
    Version,         \* nVersion of a transaction
    Bodies,          \* block.vtx: sequences of transactions, coinbase first
    Maturity,        \* COINBASE_MATURITY
    MaxHeight,       \* bound: height of the chain
    MaxDisconnects   \* bound: blocks disconnected in a behaviour

IsCoinBase(t) == Vin[t] = <<>>

ASSUME ConstantsAssumption ==
    /\ Vout \in [Txids -> SUBSET Nat]
    /\ Vin \in [Txids -> Seq(Txids \X Nat)]
    /\ Version \in [Txids -> Int]
    /\ Bodies \subseteq Seq(Txids)
    /\ Maturity \in Nat /\ MaxHeight \in Nat /\ MaxDisconnects \in Nat

\* CheckTransaction and CheckBlock have seen to these.
ASSUME TransactionsAssumption ==
    /\ \A t \in Txids : IsInjective(Vin[t])
    /\ \A b \in Bodies : IsInjective(b)
    /\ \A b \in Bodies : b # <<>> /\ \A i \in DOMAIN b : IsCoinBase(b[i]) <=> i = 1

VARIABLES
    coins,         \* pcoinsTip: the coins of each transaction
    chain,         \* the bodies of the active chain above the genesis block
    rev,           \* the undo files: undo data by block, a block being named by its chain
    nDisconnects   \* blocks disconnected so far (for the bound)

vars == <<coins, chain, rev, nDisconnects>>

Pruned == [fCoinBase |-> FALSE, nHeight |-> 0, nVersion |-> 0, vout |-> <<>>]

IsPruned(c) == DOMAIN c.vout = {}

IsAvailable(c, n) == n \in DOMAIN c.vout

\* VARINT of a negative int is one byte with its low seven bits.
Encoded(v) == IF v < 0 THEN v % 128 ELSE v

ClearUnspendable(c) ==
    [c EXCEPT !.vout = [n \in {k \in DOMAIN c.vout : c.vout[k] \notin Unspendable} |-> c.vout[n]]]

FromTx(t, h) ==
    ClearUnspendable([fCoinBase |-> IsCoinBase(t), nHeight |-> h, nVersion |-> Version[t],
                      vout |-> [n \in Vout[t] |-> <<t, n>>]])

\* operator==: coins without an unspent output are equal whatever their metadata.
SameCoins(a, b) == a = b \/ (IsPruned(a) /\ IsPruned(b))

Spend(c, n) == [c EXCEPT !.vout = [k \in DOMAIN c.vout \ {n} |-> c.vout[k]]]

NoMetadata(c, n) == [txout |-> c.vout[n], fCoinBase |-> FALSE, nHeight |-> 0, nVersion |-> 0]

\* The undo record of spending output n of c, as it is read back from the file.
UndoRecord(c, n) ==
    IF IsPruned(Spend(c, n))
    THEN [txout |-> c.vout[n], fCoinBase |-> c.fCoinBase,
          nHeight |-> c.nHeight, nVersion |-> Encoded(c.nVersion)]
    ELSE NoMetadata(c, n)

(***************************************************************************)
(* ConnectBlock                                                            *)
(***************************************************************************)
\* view: the coins so far and the undo records of the transaction at hand.
SpendInput(view, out) ==
    LET c == view.coins[out[1]] IN
    [coins |-> [view.coins EXCEPT ![out[1]] = Spend(c, out[2])],
     vprevout |-> Append(view.vprevout, UndoRecord(c, out[2]))]

\* The views of the loop over the inputs: before the first one, after the first, ...
SpendInputs(cs, t) ==
    LET view[j \in 0..Len(Vin[t])] ==
            IF j = 0 THEN [coins |-> cs, vprevout |-> <<>>]
            ELSE SpendInput(view[j - 1], Vin[t][j])
    IN view

UpdateCoins(cs, t, h) ==
    LET spent == SpendInputs(cs, t)[Len(Vin[t])] IN
    [spent EXCEPT !.coins[t] = FromTx(t, h)]

IsMature(c, h) == c.fCoinBase => h - c.nHeight >= Maturity

CheckTxInputs(cs, t, h) ==
    \A i \in DOMAIN Vin[t] :
        LET c == cs[Vin[t][i][1]] IN IsAvailable(c, Vin[t][i][2]) /\ IsMature(c, h)

OverwriteAllowed(cs, b) == TRUE

PassesBIP30(cs, b) == \A i \in DOMAIN b : IsPruned(cs[b[i]])

\* view: the coins so far and the undo data; ok turns false at the first bad transaction.
ConnectTx(view, t, h) ==
    LET up == UpdateCoins(view.coins, t, h) IN
    IF view.ok /\ CheckTxInputs(view.coins, t, h)
    THEN [ok |-> TRUE, coins |-> up.coins, vtxundo |-> Append(view.vtxundo, up.vprevout)]
    ELSE [ok |-> FALSE, coins |-> view.coins, vtxundo |-> view.vtxundo]

\* The views of the loop over the transactions.
ConnectTxs(cs, b, h) ==
    LET view[i \in 0..Len(b)] ==
            IF i = 0 THEN [ok |-> PassesBIP30(cs, b), coins |-> cs, vtxundo |-> <<>>]
            ELSE ConnectTx(view[i - 1], b[i], h)
    IN view

ConnectBlock(cs, b, h) == ConnectTxs(cs, b, h)[Len(b)]

(***************************************************************************)
(* DisconnectBlock                                                         *)
(***************************************************************************)
PutOutput(vout, n, txout) == [k \in DOMAIN vout \cup {n} |-> IF k = n THEN txout ELSE vout[k]]

ForgetMetadata(view, undo, out) ==
    LET c == view.coins[out[1]] IN
    [clean |-> view.clean /\ ~IsAvailable(c, out[2]),
     coins |-> [view.coins EXCEPT ![out[1]].vout = PutOutput(c.vout, out[2], undo.txout)]]

ApplyTxInUndo(view, undo, out) ==
    LET old == view.coins[out[1]]
        last == undo.nHeight # 0
        c == IF last THEN [fCoinBase |-> undo.fCoinBase, nHeight |-> undo.nHeight,
                           nVersion |-> undo.nVersion, vout |-> <<>>]
             ELSE old
    IN [clean |-> view.clean /\ (last <=> IsPruned(old)) /\ ~IsAvailable(c, out[2]),
        coins |-> [view.coins EXCEPT
                       ![out[1]] = [c EXCEPT !.vout = PutOutput(c.vout, out[2], undo.txout)]]]

\* The views of the loop over the inputs, from the last one to the first.
UndoInputs(start, t, vprevout) ==
    LET view[j \in 0..Len(Vin[t])] ==
            IF j = Len(Vin[t]) THEN start
            ELSE ApplyTxInUndo(view[j + 1], vprevout[j + 1], Vin[t][j + 1])
    IN view

RestoreInputs(view, t, vprevout) == UndoInputs(view, t, vprevout)[0]

CompareVersions(c, t, h) == SameCoins(c, FromTx(t, h))

\* The comparison takes a negative version from the block, not from the coins.
MatchesBlock(c, t, h) ==
    SameCoins(IF Version[t] < 0 THEN [c EXCEPT !.nVersion = Version[t]] ELSE c, FromTx(t, h))

RemoveOutputs(view, t, h) ==
    [clean |-> view.clean /\ MatchesBlock(ClearUnspendable(view.coins[t]), t, h),
     coins |-> [view.coins EXCEPT ![t] = Pruned]]

DisconnectTx(view, t, h, vprevout) == RestoreInputs(RemoveOutputs(view, t, h), t, vprevout)

\* The views of the loop over the transactions, from the last one to the first.
DisconnectTxs(cs, b, h, vtxundo) ==
    LET view[i \in 0..Len(b)] ==
            IF i = Len(b) THEN [clean |-> TRUE, coins |-> cs]
            ELSE DisconnectTx(view[i + 1], b[i + 1], h, vtxundo[i + 1])
    IN view

DisconnectBlock(cs, b, h, vtxundo) == DisconnectTxs(cs, b, h, vtxundo)[0]

(***************************************************************************)
(* The active chain                                                        *)
(***************************************************************************)
Init ==
    /\ coins = [t \in Txids |-> Pruned]
    /\ chain = <<>>
    /\ rev = <<>>
    /\ nDisconnects = 0

\* Only a block without undo data gets one.
UndoWriteToDisk(block, vtxundo) ==
    [c \in DOMAIN rev \cup {block} |-> IF c \in DOMAIN rev THEN rev[c] ELSE vtxundo]

ConnectTip(b) ==
    LET after == Append(chain, b)
        done == ConnectBlock(coins, b, Len(after))
    IN /\ Len(after) <= MaxHeight
       /\ done.ok
       /\ coins' = done.coins
       /\ chain' = after
       /\ rev' = UndoWriteToDisk(after, done.vtxundo)
       /\ UNCHANGED nDisconnects

DisconnectTip ==
    /\ chain # <<>>
    /\ nDisconnects < MaxDisconnects
    /\ LET undone == DisconnectBlock(coins, chain[Len(chain)], Len(chain), rev[chain]) IN
       /\ undone.clean
       /\ coins' = undone.coins
    /\ chain' = SubSeq(chain, 1, Len(chain) - 1)
    /\ nDisconnects' = nDisconnects + 1
    /\ UNCHANGED rev

\* pcoinsTip is written to the chainstate and read again.
FlushAndReload ==
    /\ coins' = [t \in Txids |->
           IF IsPruned(coins[t]) THEN Pruned
           ELSE [coins[t] EXCEPT !.nVersion = Encoded(coins[t].nVersion)]]
    /\ UNCHANGED <<chain, rev, nDisconnects>>

Next ==
    \/ \E b \in Bodies : ConnectTip(b)
    \/ DisconnectTip
    \/ FlushAndReload

Spec == Init /\ [][Next]_vars
-----------------------------------------------------------------------------
Outpoints == UNION {{<<t, n>> : n \in Vout[t]} : t \in Txids}

IsCoins(c) ==
    /\ DOMAIN c = {"fCoinBase", "nHeight", "nVersion", "vout"}
    /\ c.fCoinBase \in BOOLEAN
    /\ c.nHeight \in 0..MaxHeight
    /\ c.nVersion \in {0} \cup {Version[t] : t \in Txids} \cup {Encoded(Version[t]) : t \in Txids}
    /\ \A n \in DOMAIN c.vout : c.vout[n] \in Outpoints \ Unspendable

\* Coins are well formed and hold no output that cannot be spent, whatever was
\* connected, disconnected and reloaded; undo data exists for every block of the chain.
TypeOK ==
    /\ \A t \in Txids : IsCoins(coins[t])
    /\ chain \in Seq(Bodies) /\ Len(chain) <= MaxHeight
    /\ \A h \in 1..Len(chain) : SubSeq(chain, 1, h) \in DOMAIN rev
    /\ nDisconnects \in 0..MaxDisconnects

\* Equal coins, but for a version that has been through a file.
SameButVersion(a, b) ==
    SameCoins([a EXCEPT !.nVersion = Encoded(a.nVersion)], [b EXCEPT !.nVersion = Encoded(b.nVersion)])

NoCoins == [t \in Txids |-> Pruned]

CoinsByHeight(ch) ==
    LET view[h \in 0..Len(ch)] ==
            IF h = 0 THEN NoCoins ELSE ConnectBlock(view[h - 1], ch[h], h).coins
    IN view

CoinsOfChain(ch) == CoinsByHeight(ch)[Len(ch)]

\* Taking blocks back is exact: whatever blocks were connected and disconnected before
\* (DisconnectBlock, ApplyTxInUndo), the coins at the tip are those of connecting the
\* active chain to an empty chainstate, heights and coinbase flags included, and are
\* well formed.
CoinsAreThoseOfTheChain ==
    /\ TypeOK
    /\ \A t \in Txids : SameButVersion(coins[t], CoinsOfChain(chain)[t])

\* A reorganisation never fails on good data: in every reachable state DisconnectBlock of
\* the tip reports no inconsistency, although the undo data may be from an earlier
\* connection of the block and coins may have been reloaded with another version.
TipDisconnectsCleanly ==
    chain # <<>> => DisconnectBlock(coins, chain[Len(chain)], Len(chain), rev[chain]).clean

\* Where the transactions of the chain are: <<height, position in the block>>.
Places(ch) == UNION {{<<h, i>> : i \in DOMAIN ch[h]} : h \in DOMAIN ch}

Included(ch, t) == {p \in Places(ch) : ch[p[1]][p[2]] = t}

SpentAt(ch, op) == {p \in Places(ch) : op \in Range(Vin[ch[p[1]][p[2]]])}

\* Conservation: an output is unspent exactly when its transaction was included once more
\* often than it was spent on the active chain, and never twice more, so a second
\* inclusion never overwrites an unspent output (the BIP30 test of ConnectBlock).
UnspentIsIncludedMinusSpent ==
    \A op \in Outpoints \ Unspendable :
        Cardinality(Included(chain, op[1])) - Cardinality(SpentAt(chain, op))
            = IF IsAvailable(coins[op[1]], op[2]) THEN 1 ELSE 0
=============================================================================

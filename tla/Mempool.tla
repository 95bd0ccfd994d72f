------------------------------ MODULE Mempool -------------------------------
(***************************************************************************)
(* The memory pool: entries with links to their parents and children in the*)
(* pool and running totals over their ancestors and descendants; accepting *)
(* a transaction with its limits, replacement and trimming; what connecting*)
(* and disconnecting blocks does to the pool; saving it over a restart.    *)
(*                                                                         *)
(* While ActivateBestChainStep or InvalidateBlock disconnects blocks, the  *)
(* transactions of a block return to a pool that already holds their       *)
(* children, the coins are those of the block before while chainActive     *)
(* still ends in the block itself, and only at the end removeForReorg      *)
(* evicts what cannot be mined any more.                                   *)
(*                                                                         *)
(* Abstractions.  Heights stand for height and time locks, and one relative*)
(* lock for all inputs of a transaction.  Entry times are left out: any    *)
(* entries may be the expired ones, and any may be first among equal       *)
(* scores.  The signature cost follows the size in every total.  The       *)
(* rolling minimum fee rate is left out, because CFeeRate::GetFee takes the*)
(* fee from the size alone and no rate has an effect on what is accepted.  *)
(***************************************************************************)
EXTENDS Integers, Sequences, FiniteSets, FiniteSetsExt, SequencesExt, TLC

CONSTANTS
    Txids,             \* transaction ids
    Vin,               \* the outpoints <<txid, n>> a transaction spends
    Vout,              \* the positions of its outputs
    Fee,               \* what it pays
    Size,              \* its virtual size
    LockTime,          \* nLockTime as a height, 0 for none
    RelLock,           \* relative lock of its inputs in blocks, -1 when disabled
    Nonstandard,       \* transactions that are valid in blocks only
    Replaceable,       \* transactions that signal replacement
    Bodies,            \* block.vtx of the blocks, coinbase first
    InitChain,         \* the blocks above the genesis block at the start
    Maturity,          \* COINBASE_MATURITY
    KiloByte,          \* the size a unit of fee is asked for
    LimitAncestors,    \* -limitancestorcount
    LimitAncestorSize,
    LimitDescendants,  \* -limitdescendantcount
    LimitDescendantSize,
    MaxReplaced,       \* maxDescendantsToVisit
    SizeLimit,         \* -maxmempool
    Prioritised,       \* the transactions and
    Deltas,            \* the fee deltas given to PrioritiseTransaction
    MaxExpired,        \* bound: entries that expire together
    MaxPrioritised,    \* bound: calls of PrioritiseTransaction
    MaxHeight,         \* bound: height of the chain
    MaxDisconnects     \* bound: blocks disconnected in a behaviour

IsCoinBase(t) == Vin[t] = {}

\* CheckTransaction and CheckBlock have seen to these.
ASSUME TransactionsAssumption ==
    /\ \A t \in Txids : \A o \in Vin[t] : o[1] \in Txids /\ o[2] \in Vout[o[1]]
    /\ \A b \in Bodies : b # <<>> /\ \A i \in DOMAIN b : IsCoinBase(b[i]) <=> i = 1

VARIABLES
    pool,          \* mempool: entries, mapNextTx and mapDeltas
    chain,         \* the blocks of chainActive above the genesis block
    step,          \* the function that is changing the chain under cs_main, or "idle"
    nDisconnects,  \* blocks disconnected so far (for the bound)
    nPrioritised   \* fee deltas given so far (for the bound)

vars == <<pool, chain, step, nDisconnects, nPrioritised>>

-----------------------------------------------------------------------------
(* The chain.  cs is the chain the coins (pcoinsTip) stand for, active the  *)
(* one chainActive holds.                                                   *)

InChain(cs, t) == \E i \in DOMAIN cs : Contains(cs[i], t)

CoinHeight(cs, t) == CHOOSE i \in DOMAIN cs : Contains(cs[i], t)

SpentIn(cs, o) == \E t \in Txids : InChain(cs, t) /\ o \in Vin[t]

Unspent(cs, o) == InChain(cs, o[1]) /\ ~SpentIn(cs, o)

HaveCoins(cs, t) == \E n \in Vout[t] : Unspent(cs, <<t, n>>)

IsFinalTx(t, h) == LockTime[t] = 0 \/ LockTime[t] < h

IsMature(cs, o) == IsCoinBase(o[1]) => Len(cs) + 1 - CoinHeight(cs, o[1]) >= Maturity

-----------------------------------------------------------------------------
(* Entries, links and totals                                                *)

Nothing == [count |-> 0, size |-> 0, fees |-> 0]

Add(total, k, x) ==
    [f \in DOMAIN total |-> total[f] + k * x[f]]

Entries(p) == DOMAIN p.tx

ModifiedFee(p, t) == Fee[t] + p.tx[t].feeDelta

Own(p, t) == [count |-> 1, size |-> Size[t], fees |-> ModifiedFee(p, t)]

SumOf(p, S) == FoldSet(LAMBDA t, total : Add(total, 1, Own(p, t)), Nothing, S)

\* What is reached from a set of entries over one kind of link, the set included.
Reach(p, S, Links(_)) ==
    FoldSet(LAMBDA i, found : found \cup UNION {Links(t) : t \in found}, S, 1..Cardinality(Entries(p)))

CalculateDescendants(p, S) == Reach(p, S, LAMBDA t : p.tx[t].children)

AncestorsOf(p, parents) == Reach(p, parents, LAMBDA t : p.tx[t].parents)

ParentsByInputs(p, t) == {o[1] : o \in Vin[t]} \cap Entries(p)

\* UpdateForRemoveFromMempool: the totals above an entry lose what is removed.
AncestorTotalAfter(p, stage, x) ==
    Add(p.tx[x].anc, -1,
        SumOf(p, {r \in stage : x \in CalculateDescendants(p, {r}) \ {r}}))

DescendantTotalAfter(p, stage, x) ==
    Add(p.tx[x].desc, -1,
        SumOf(p, {r \in stage : x \in AncestorsOf(p, p.tx[r].parents)}))

WithoutEntries(p, stage, kept) ==
    [p EXCEPT !.tx = kept,
              !.next = [o \in {q \in DOMAIN p.next : p.next[q] \notin stage} |-> p.next[o]]]

RemoveStaged(p, stage, updateDescendants) ==
    WithoutEntries(p, stage,
        [x \in Entries(p) \ stage |->
            [p.tx[x] EXCEPT !.anc = IF updateDescendants THEN AncestorTotalAfter(p, stage, x) ELSE @,
                            !.desc = DescendantTotalAfter(p, stage, x),
                            !.children = @ \ {r \in stage : x \in p.tx[r].parents},
                            !.parents = @ \ {r \in stage : x \in p.tx[r].children}]])

SpendersOf(p, t) == {p.next[o] : o \in {q \in DOMAIN p.next : q[1] = t}}

OnlyTheEntry(p, t) == RemoveStaged(p, CalculateDescendants(p, {t} \cap Entries(p)), FALSE)

removeRecursive(p, t) ==
    LET txToRemove == IF t \in Entries(p) THEN {t} ELSE SpendersOf(p, t)
    IN RemoveStaged(p, CalculateDescendants(p, txToRemove), FALSE)

ClearPrioritisation(p, t) ==
    [p EXCEPT !.deltas = [x \in DOMAIN p.deltas \ {t} |-> p.deltas[x]]]

removeConflicts(p, t) ==
    FoldSet(LAMBDA o, q : IF o \in DOMAIN q.next /\ q.next[o] # t
                          THEN removeRecursive(ClearPrioritisation(q, q.next[o]), q.next[o])
                          ELSE q,
            p, Vin[t])

removeForBlock(p, b) ==
    FoldLeft(LAMBDA q, t :
                 ClearPrioritisation(removeConflicts(RemoveStaged(q, {t} \cap Entries(q), TRUE), t), t),
             p, b)

-----------------------------------------------------------------------------
(* Lock points                                                              *)

PrevHeights(p, t, cs, active) ==
    {IF RelLock[t] < 0 THEN 0
     ELSE IF o[1] \in Entries(p) THEN Len(active) + 1 ELSE CoinHeight(cs, o[1]) : o \in Vin[t]}

\* A block is named by the chain that ends in it.
CalculateLockPoints(p, t, cs, active) ==
    LET heights == PrevHeights(p, t, cs, active) IN
    [height |-> IF RelLock[t] < 0 THEN -1 ELSE Max(heights) + RelLock[t] - 1,
     maxInputBlock |-> SubSeq(active, 1, Max({0} \cup (heights \ {Len(active) + 1})))]

EvaluateSequenceLocks(lp, active) == lp.height < Len(active) + 1

AlwaysValid(lp, active) == TRUE

TestLockPointValidity(lp, active) == IsPrefix(lp.maxInputBlock, active)

-----------------------------------------------------------------------------
(* AcceptToMemoryPool                                                       *)

FeeRate(fee, size) == (fee * 1000) \div size

GetFee(size) == 1 + size \div KiloByte

\* nModifiedFees, ApplyDeltas: the fee with the delta waiting for the transaction.
DeltaOf(p, t) == IF t \in DOMAIN p.deltas THEN p.deltas[t] ELSE 0

InputAvailable(p, cs, o) == o[1] \in Entries(p) \/ Unspent(cs, o)

WithinLimits(p, t, anc) ==
    /\ Cardinality(anc) + 1 <= LimitAncestors
    /\ anc = {} \/ SumOf(p, anc).size + Size[t] <= LimitAncestorSize
    /\ \A a \in anc : /\ p.tx[a].desc.count + 1 <= LimitDescendants
                     /\ p.tx[a].desc.size + Size[t] <= LimitDescendantSize

SetConflicts(p, t) == {p.next[o] : o \in Vin[t] \cap DOMAIN p.next}

NoConflictAmongAncestors(anc, conflicts) == anc \cap conflicts = {}

PaysForReplacement(p, t, conflicts) ==
    LET fees == Fee[t] + DeltaOf(p, t)
        allConflicting == CalculateDescendants(p, conflicts)
        conflictsParents == UNION {{o[1] : o \in Vin[c]} : c \in conflicts}
    IN \/ conflicts = {}
       \/ /\ \A c \in conflicts : FeeRate(fees, Size[t]) > FeeRate(ModifiedFee(p, c), Size[c])
          /\ FoldSet(LAMBDA c, n : n + p.tx[c].desc.count, 0, conflicts) <= MaxReplaced
          /\ ParentsByInputs(p, t) \subseteq conflictsParents
          /\ fees - SumOf(p, allConflicting).fees >= GetFee(Size[t])

Acceptable(p, t, cs, active) ==
    LET anc == AncestorsOf(p, ParentsByInputs(p, t))
        conflicts == SetConflicts(p, t)
    IN /\ ~IsCoinBase(t)
       /\ t \notin Nonstandard
       /\ IsFinalTx(t, Len(active) + 1)
       /\ t \notin Entries(p)
       /\ conflicts \subseteq Replaceable
       /\ ~HaveCoins(cs, t)
       /\ \A o \in Vin[t] : InputAvailable(p, cs, o)
       /\ EvaluateSequenceLocks(CalculateLockPoints(p, t, cs, active), active)
       /\ Fee[t] + DeltaOf(p, t) >= GetFee(Size[t])
       /\ WithinLimits(p, t, anc)
       /\ NoConflictAmongAncestors(anc, conflicts)
       /\ PaysForReplacement(p, t, conflicts)
       /\ \A o \in Vin[t] : o[1] \notin Entries(p) => IsMature(cs, o)

\* setAncestors is computed before the conflicts are removed.
addUnchecked(p, t, anc, entry) ==
    LET parents == ParentsByInputs(p, t)
        delta == DeltaOf(p, t)
        own == [count |-> 1, size |-> Size[t], fees |-> Fee[t] + delta]
        new == [parents |-> parents, children |-> {}, feeDelta |-> delta,
                anc |-> Add(SumOf(p, anc), 1, own), desc |-> own,
                spendsCoinbase |-> entry.spendsCoinbase, lp |-> entry.lp]
    IN [p EXCEPT
          !.tx = [x \in Entries(p) \cup {t} |->
                    IF x = t THEN new
                    ELSE [p.tx[x] EXCEPT !.children = IF x \in parents THEN @ \cup {t} ELSE @,
                                         !.desc = IF x \in anc THEN Add(@, 1, own) ELSE @]],
          !.next = @ @@ [o \in Vin[t] |-> t]]

Accepted(p, t, cs, active) ==
    addUnchecked(RemoveStaged(p, CalculateDescendants(p, SetConflicts(p, t)), FALSE), t,
                 AncestorsOf(p, ParentsByInputs(p, t)),
                 [spendsCoinbase |-> \E o \in Vin[t] : IsCoinBase(o[1]),
                  lp |-> CalculateLockPoints(p, t, cs, active)])

-----------------------------------------------------------------------------
(* Expiry and trimming; the outcomes are sets because entry times are not   *)
(* modelled                                                                 *)

\* Bytes of the entries, and the fee deltas that are kept without an entry too.
DynamicMemoryUsage(p) == SumOf(p, Entries(p)).size + Cardinality(DOMAIN p.deltas)

Expire(p) ==
    {RemoveStaged(p, CalculateDescendants(p, old), FALSE) :
        old \in UNION {kSubset(k, Entries(p)) : k \in 0..Min({MaxExpired, Cardinality(Entries(p))})}}

\* The better of an entry's own rate and its rate with all descendants.
Score(p, t) ==
    LET own == Own(p, t)
        all == p.tx[t].desc
    IN IF all.fees * own.size > own.fees * all.size THEN all ELSE own

LowerScore(x, y) == x.fees * y.size < x.size * y.fees

LowestScore(p) == {t \in Entries(p) : \A u \in Entries(p) : ~LowerScore(Score(p, u), Score(p, t))}

TrimOnce(p) ==
    IF Entries(p) = {} \/ DynamicMemoryUsage(p) <= SizeLimit THEN {p}
    ELSE {RemoveStaged(p, CalculateDescendants(p, {t}), FALSE) : t \in LowestScore(p)}

TrimToSize(p) ==
    FoldSet(LAMBDA i, outcomes : UNION {TrimOnce(q) : q \in outcomes}, {p}, 1..Cardinality(Entries(p)))

LimitMempoolSize(p) == UNION {TrimToSize(q) : q \in Expire(p)}

-----------------------------------------------------------------------------
(* Reorganisation                                                           *)

\* The descendants of t outside the block, with those below an entry handled
\* before taken from the cache.
DescendantsToUpdate(p, cache, t, setExclude) ==
    LET walked == Reach(p, p.tx[t].children, LAMBDA x : p.tx[x].children \ DOMAIN cache)
        cached == UNION {p.tx[x].children \cap DOMAIN cache : x \in walked}
    IN (walked \cup UNION {cache[x] : x \in cached}) \ setExclude

UpdateForDescendants(st, t, setExclude) ==
    LET below == DescendantsToUpdate(st.p, st.cache, t, setExclude) IN
    [p |-> [st.p EXCEPT !.tx = [x \in Entries(st.p) |->
                IF x = t THEN [st.p.tx[x] EXCEPT !.desc = Add(@, 1, SumOf(st.p, below))]
                ELSE IF x \in below THEN [st.p.tx[x] EXCEPT !.anc = Add(@, 1, Own(st.p, t))]
                ELSE st.p.tx[x]]],
     cache |-> IF below = {} THEN st.cache ELSE (t :> below) @@ st.cache]

LinkChildren(p, t, setAlreadyIncluded) ==
    LET new == SpendersOf(p, t) \ setAlreadyIncluded IN
    [p EXCEPT !.tx = [x \in Entries(p) |->
        [p.tx[x] EXCEPT !.children = IF x = t THEN @ \cup new ELSE @,
                        !.parents = IF x \in new THEN @ \cup {t} ELSE @]]]

InBlockOrder(p, hashes) ==
    FoldLeft(LAMBDA st, t : UpdateForDescendants([st EXCEPT !.p = LinkChildren(st.p, t, ToSet(hashes))],
                                                 t, ToSet(hashes)),
             [p |-> p, cache |-> <<>>], hashes).p

UpdateTransactionsFromBlock(p, hashes) ==
    FoldLeft(LAMBDA st, t : UpdateForDescendants([st EXCEPT !.p = LinkChildren(st.p, t, ToSet(hashes))],
                                                 t, ToSet(hashes)),
             [p |-> p, cache |-> <<>>], Reverse(hashes)).p

\* The loop of DisconnectTip over the block: cs is the chain without the block.
Resurrect(p, b, cs, active) ==
    LET Readd(st, t) ==
            IF Acceptable(st.p, t, cs, active)
            THEN [p |-> Accepted(st.p, t, cs, active), vHashUpdate |-> Append(st.vHashUpdate, t)]
            ELSE [st EXCEPT !.p = removeRecursive(@, t)]
        readded == FoldLeft(Readd, [p |-> p, vHashUpdate |-> <<>>], b)
    IN UpdateTransactionsFromBlock(readded.p, readded.vHashUpdate)

\* Inputs of a transaction that spends a coinbase are looked at again.
CoinbaseStillMature(p, t, cs) ==
    p.tx[t].spendsCoinbase =>
        \A o \in Vin[t] : o[1] \notin Entries(p) => InChain(cs, o[1]) /\ IsMature(cs, o)

removeForReorg(p, cs) ==
    LET lp == [t \in Entries(p) |-> IF TestLockPointValidity(p.tx[t].lp, cs) THEN p.tx[t].lp
                                    ELSE CalculateLockPoints(p, t, cs, cs)]
        txToRemove == {t \in Entries(p) : \/ ~IsFinalTx(t, Len(cs) + 1)
                                          \/ ~EvaluateSequenceLocks(lp[t], cs)
                                          \/ ~CoinbaseStillMature(p, t, cs)}
        updated == [p EXCEPT !.tx = [t \in Entries(p) |-> [p.tx[t] EXCEPT !.lp = lp[t]]]]
    IN RemoveStaged(updated, CalculateDescendants(p, txToRemove), FALSE)

-----------------------------------------------------------------------------
(* Fee deltas and the file over a restart                                   *)

PrioritiseTransaction(p, t, d) ==
    LET delta == DeltaOf(p, t) + d
        prioritised == [p EXCEPT !.deltas = (t :> delta) @@ @]
        change == [Nothing EXCEPT !.fees = d]
        above == AncestorsOf(p, p.tx[t].parents)
        below == CalculateDescendants(p, {t}) \ {t}
    IN IF t \notin Entries(p) THEN prioritised
       ELSE [prioritised EXCEPT !.tx = [x \in Entries(p) |->
               [p.tx[x] EXCEPT !.feeDelta = IF x = t THEN delta ELSE @,
                               !.desc = IF x \in above \cup {t} THEN Add(@, 1, change) ELSE @,
                               !.anc = IF x \in below \cup {t} THEN Add(@, 1, change) ELSE @]]]

EmptyPool == [tx |-> <<>>, next |-> <<>>, deltas |-> <<>>]

ByScoreOnly(p) == SetToSortSeq(Entries(p), LAMBDA t, u : LowerScore(Own(p, u), Own(p, t)))

\* GetSortedDepthAndScore: by number of ancestors, then by fee rate.
infoAll(p) ==
    SetToSortSeq(Entries(p), LAMBDA t, u :
        \/ p.tx[t].anc.count < p.tx[u].anc.count
        \/ p.tx[t].anc.count = p.tx[u].anc.count /\ LowerScore(Own(p, u), Own(p, t)))

\* One transaction of the file: its delta, then AcceptToMemoryPoolWithTime.
LoadEntry(q, t, delta) ==
    LET prioritised == IF delta # 0 THEN PrioritiseTransaction(q, t, delta) ELSE q
    IN IF Acceptable(prioritised, t, chain, chain)
       THEN LimitMempoolSize(Accepted(prioritised, t, chain, chain)) ELSE {prioritised}

\* DumpMempool and LoadMempool: the entries, then the deltas without an entry.
DumpAndLoad(p) ==
    LET loaded == FoldLeft(LAMBDA outcomes, t : UNION {LoadEntry(q, t, p.tx[t].feeDelta) : q \in outcomes},
                           {EmptyPool}, infoAll(p))
    IN {FoldSet(LAMBDA t, q : PrioritiseTransaction(q, t, p.deltas[t]), l, DOMAIN p.deltas \ Entries(p)) :
            l \in loaded}

-----------------------------------------------------------------------------
(* Actions.  All of them hold cs_main; a reorganisation is one critical     *)
(* section of several steps.                                                *)

Init ==
    /\ pool = EmptyPool
    /\ chain = InitChain
    /\ step = "idle"
    /\ nDisconnects = 0
    /\ nPrioritised = 0

AcceptToMemoryPool(t) ==
    /\ step = "idle"
    /\ Acceptable(pool, t, chain, chain)
    /\ pool' \in LimitMempoolSize(Accepted(pool, t, chain, chain))
    /\ UNCHANGED <<chain, step, nDisconnects, nPrioritised>>

Prioritise(t, d) ==
    /\ step = "idle"
    /\ nPrioritised < MaxPrioritised
    /\ pool' = PrioritiseTransaction(pool, t, d)
    /\ nPrioritised' = nPrioritised + 1
    /\ UNCHANGED <<chain, step, nDisconnects>>

\* What ConnectBlock asks of transaction i of block b.
ValidInBlock(b, i) ==
    LET t == b[i]
        earlier == {b[j] : j \in 1..(i - 1)}
    IN /\ ~InChain(chain, t)
       /\ IsFinalTx(t, Len(chain) + 1)
       /\ \A o \in Vin[t] :
            /\ \A u \in earlier : o \notin Vin[u]
            /\ o[1] \in earlier \/ (Unspent(chain, o) /\ IsMature(chain, o))
            /\ RelLock[t] >= 0 =>
                 (IF o[1] \in earlier THEN Len(chain) + 1 ELSE CoinHeight(chain, o[1]))
                     + RelLock[t] - 1 < Len(chain) + 1

\* A block on the tip, on its own or after blocks have been disconnected.
ConnectTip(b) ==
    /\ step \in {"idle", "activate"}
    /\ Len(chain) < MaxHeight
    /\ \A i \in DOMAIN b : ValidInBlock(b, i)
    /\ pool' = removeForBlock(pool, b)
    /\ chain' = Append(chain, b)
    /\ UNCHANGED <<step, nDisconnects, nPrioritised>>

\* caller: ActivateBestChainStep or InvalidateBlock
DisconnectTip(caller) ==
    /\ step \in {"idle", caller}
    /\ chain # <<>>
    /\ nDisconnects < MaxDisconnects
    /\ pool' = Resurrect(pool, Last(chain), Front(chain), chain)
    /\ chain' = Front(chain)
    /\ step' = caller
    /\ nDisconnects' = nDisconnects + 1
    /\ UNCHANGED nPrioritised

AfterActivation(p, cs) == LimitMempoolSize(removeForReorg(p, cs))

\* The end of ActivateBestChainStep when blocks were disconnected.
ActivateBestChainStep ==
    /\ step = "activate"
    /\ pool' \in AfterActivation(pool, chain)
    /\ step' = "idle"
    /\ UNCHANGED <<chain, nDisconnects, nPrioritised>>

\* The end of InvalidateBlock, which does the two in the other order.
InvalidateBlock ==
    /\ step = "invalidate"
    /\ pool' \in {removeForReorg(q, chain) : q \in LimitMempoolSize(pool)}
    /\ step' = "idle"
    /\ UNCHANGED <<chain, nDisconnects, nPrioritised>>

Restart ==
    /\ step = "idle"
    /\ pool' \in DumpAndLoad(pool)
    /\ UNCHANGED <<chain, step, nDisconnects, nPrioritised>>

Next ==
    \/ \E t \in Txids : AcceptToMemoryPool(t)
    \/ \E t \in Prioritised, d \in Deltas : Prioritise(t, d)
    \/ \E b \in Bodies : ConnectTip(b)
    \/ \E caller \in {"activate", "invalidate"} : DisconnectTip(caller)
    \/ ActivateBestChainStep
    \/ InvalidateBlock
    \/ Restart

Spec == Init /\ [][Next]_vars

-----------------------------------------------------------------------------
(* Properties                                                               *)

Totals == [count : Nat, size : Nat, fees : Int]

\* The shape of the pool: one entry per transaction with its links inside the
\* pool, and no coinbase among the entries (addUnchecked, mapTx, mapNextTx).
TypeOK ==
    /\ Entries(pool) \subseteq Txids
    /\ \A t \in Entries(pool) :
         LET e == pool.tx[t] IN
         /\ e.parents \subseteq Entries(pool) /\ e.children \subseteq Entries(pool)
         /\ e.anc \in Totals /\ e.desc \in Totals
         /\ e.feeDelta \in Int /\ e.spendsCoinbase \in BOOLEAN
         /\ e.lp.height \in Int
    /\ \A o \in DOMAIN pool.next : pool.next[o] \in Entries(pool)
    /\ DOMAIN pool.deltas \subseteq Txids
    /\ chain \in Seq(Bodies)
    /\ step \in {"idle", "activate", "invalidate"}
    /\ nDisconnects \in 0..MaxDisconnects /\ nPrioritised \in 0..MaxPrioritised

\* Parents and children are exactly the pool transactions connected by
\* inputs, and mapNextTx has exactly the inputs of the entries.
LinksMatchInputs ==
    /\ \A t \in Entries(pool) :
         /\ pool.tx[t].parents = ParentsByInputs(pool, t)
         /\ pool.tx[t].children = {u \in Entries(pool) : t \in ParentsByInputs(pool, u)}
         /\ \A o \in Vin[t] : o \in DOMAIN pool.next /\ pool.next[o] = t
    /\ DOMAIN pool.next = UNION {Vin[t] : t \in Entries(pool)}

\* Count, size and modified fees with all ancestors and with all
\* descendants, as far as inputs connect them, are the running totals.
TotalsAreExact ==
    \A t \in Entries(pool) :
        LET above == Reach(pool, {t}, LAMBDA x : ParentsByInputs(pool, x))
            below == Reach(pool, {t}, LAMBDA x : {u \in Entries(pool) : x \in ParentsByInputs(pool, u)})
        IN /\ pool.tx[t].anc = SumOf(pool, above)
           /\ pool.tx[t].desc = SumOf(pool, below)
           /\ pool.tx[t].feeDelta = DeltaOf(pool, t)

\* What CTxMemPool::check asks, with the descendants' totals that it only
\* bounds: links and running totals are those that the inputs give, also
\* between the blocks of a reorganisation.
CheckHolds == TypeOK /\ LinksMatchInputs /\ TotalsAreExact

\* Every input of an entry is an unspent coin of the active chain or an output
\* of another entry, also between the blocks of a reorganisation
\* (removeConflicts, removeRecursive in DisconnectTip).
InputsAreAvailable ==
    \A t \in Entries(pool) : \A o \in Vin[t] : InputAvailable(pool, chain, o)

\* Outside a reorganisation every entry could be mined in the next block with
\* its ancestors: final, past its relative locks and spending no young
\* coinbase, whatever was cached when it was accepted (removeForReorg).
PoolFitsNextBlock ==
    step = "idle" =>
        \A t \in Entries(pool) :
            /\ IsFinalTx(t, Len(chain) + 1)
            /\ EvaluateSequenceLocks(CalculateLockPoints(pool, t, chain, chain), chain)
            /\ \A o \in Vin[t] : o[1] \notin Entries(pool) => IsMature(chain, o)

SameContents(p, q) ==
    /\ p.deltas = q.deltas
    /\ Entries(p) = Entries(q)
    /\ \A t \in Entries(p) : p.tx[t].anc = q.tx[t].anc /\ p.tx[t].desc = q.tx[t].desc

\* Saving the pool and loading it again can bring back all of it with its fee
\* deltas, in the order the file has: unless entries expire, or the pool has
\* outgrown its limits in a reorganisation or by fee deltas (LoadMempool).
RestartKeepsPool ==
    step = "idle" /\ nDisconnects = 0 /\ DynamicMemoryUsage(pool) <= SizeLimit =>
        \E q \in DumpAndLoad(pool) : SameContents(pool, q)
====

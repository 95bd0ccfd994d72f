----------------------------- MODULE CoinsCache -----------------------------
(***************************************************************************)
(* The coin database and the two CCoinsViewCache layers above it.          *)
(*                                                                         *)
(*   view  the cache ConnectTip and DisconnectTip put on top of pcoinsTip  *)
(*         while they apply one block; flushed when the block is good,     *)
(*         dropped when it is not;                                         *)
(*   tip   pcoinsTip, kept across blocks and written out by                *)
(*         FlushStateToDisk;                                               *)
(*   db    CCoinsViewDB, the chainstate on disk.                           *)
(*                                                                         *)
(* A cache entry is DIRTY when it may differ from the parent layer and     *)
(* FRESH when the parent has no unspent coins for it.  FRESH lets an entry *)
(* that is spent before it is ever written be dropped without telling the  *)
(* parent; set once too often it loses a deletion or resurrects a coin.    *)
(* The value of a CCoins is abstract: Pruned is the value with no unspent  *)
(* output, and a modifier may leave any value behind.                      *)
(*                                                                         *)
(* All of it runs under cs_main.                                           *)
(***************************************************************************)
EXTENDS FiniteSets

CONSTANTS Txids, Coins, Pruned, Hashes, NullHash

ASSUME CoinsAssumption ==
    /\ IsFiniteSet(Txids)
    /\ Pruned \in Coins
    /\ NullHash \notin Hashes

VARIABLES
    db,     \* coins and best block on disk
    tip,    \* pcoinsTip
    view,   \* the cache above it
    open    \* a view is in use

vars == <<db, tip, view, open>>

Hash == Hashes \cup {NullHash}

Disk == [coins: [Txids -> Coins], best: Hash]

\* cacheCoins as the set of its keys, the coins of each key (Pruned where there
\* is no entry), and the keys whose entry carries each flag; hashBlock.
Cache == [has: SUBSET Txids, coins: [Txids -> Coins],
          dirty: SUBSET Txids, fresh: SUBSET Txids, best: Hash]

NoCoins == [t \in Txids |-> Pruned]

EmptyCache ==
    [has |-> {}, coins |-> NoCoins, dirty |-> {}, fresh |-> {}, best |-> NullHash]

Init ==
    /\ db = [coins |-> NoCoins, best |-> NullHash]
    /\ tip = EmptyCache
    /\ view = EmptyCache
    /\ open = FALSE

-----------------------------------------------------------------------------
(* Cache entries. *)

\* What GetCoins answers through a cache over a layer that answers below.
Over(cache, below) ==
    [t \in Txids |-> IF t \in cache.has THEN cache.coins[t] ELSE below[t]]

MainCoins == Over(tip, db.coins)

WorkCoins == Over(view, MainCoins)

Erase(cache, t) ==
    [cache EXCEPT !.has = @ \ {t}, !.coins[t] = Pruned,
                  !.dirty = @ \ {t}, !.fresh = @ \ {t}]

FetchCoins(cache, t, parentHas, parentCoins) ==
    IF t \in cache.has \/ ~parentHas
        THEN cache
        ELSE [cache EXCEPT !.has = @ \cup {t}, !.coins[t] = parentCoins,
                           !.fresh = IF parentCoins = Pruned THEN @ \cup {t} ELSE @]

\* A read of pcoinsTip.  The database never holds pruned coins.
FetchTip(t) == FetchCoins(tip, t, db.coins[t] # Pruned, db.coins[t])

\* The destructor of CCoinsModifier, run on the value c the modifier leaves.
Release(cache, t, c) ==
    IF t \in cache.fresh /\ c = Pruned
        THEN Erase(cache, t)
        ELSE [cache EXCEPT !.coins[t] = c]

Dirty(cache, t, fresh) ==
    [cache EXCEPT !.has = @ \cup {t}, !.dirty = @ \cup {t},
                  !.fresh = IF fresh THEN @ \cup {t} ELSE @]

-----------------------------------------------------------------------------
(* What ConnectBlock and DisconnectBlock do to the view. *)

GetBestBlock(cache, parentBest) ==
    IF cache.best = NullHash THEN parentBest ELSE cache.best

\* Both functions begin by comparing the view's best block with the block they
\* build on or undo, which makes both caches remember it.
OpenView ==
    /\ ~open
    /\ open' = TRUE
    /\ tip' = [tip EXCEPT !.best = GetBestBlock(tip, db.best)]
    /\ view' = [EmptyCache EXCEPT !.best = tip'.best]
    /\ UNCHANGED db

\* AccessCoins, GetCoins and HaveCoins on the view fill both caches.
AccessCoins(t) ==
    /\ open
    /\ tip' = FetchTip(t)
    /\ view' = FetchCoins(view, t, t \in tip'.has, tip'.coins[t])
    /\ UNCHANGED <<db, open>>

\* Spending, restoring and clearing outputs: a CCoinsModifier that leaves c.
ModifyCoins(t, c) ==
    /\ open
    /\ IF t \in view.has
         THEN /\ view' = Release(Dirty(view, t, FALSE), t, c)
              /\ UNCHANGED tip
         ELSE /\ tip' = FetchTip(t)
              /\ view' = Release(Dirty(view, t, t \notin tip'.has \/ tip'.coins[t] = Pruned), t, c)
    /\ UNCHANGED <<db, open>>

BecomesFresh(t, coinbase) == ~coinbase /\ t \notin view.dirty

\* ConnectBlock refuses a block with a transaction that still has coins.
PassesBIP30(t) == WorkCoins[t] = Pruned

\* The outputs of a transaction of the block: the parent is not consulted.
ModifyNewCoins(t, c, coinbase) ==
    /\ open
    /\ PassesBIP30(t)
    /\ view' = Release(Dirty(view, t, BecomesFresh(t, coinbase)), t, c)
    /\ UNCHANGED <<db, tip, open>>

-----------------------------------------------------------------------------
(* Flushing. *)

\* Entries of the child that BatchWrite leaves without an entry here: those
\* that were never known below.
Vanishing(child, cache) ==
    {t \in child.dirty : /\ child.coins[t] = Pruned
                         /\ IF t \in cache.has THEN t \in cache.fresh ELSE t \in child.fresh}

\* FRESH is inherited only by entries this cache did not have.
FreshInherited(child, cache) == (child.dirty \cap child.fresh) \ cache.has

BatchWrite(child, cache) ==
    LET gone == Vanishing(child, cache)
    IN  [has   |-> (cache.has \cup child.dirty) \ gone,
         coins |-> [t \in Txids |-> IF t \in child.dirty THEN child.coins[t]
                                    ELSE cache.coins[t]],
         dirty |-> (cache.dirty \cup child.dirty) \ gone,
         fresh |-> (cache.fresh \cup FreshInherited(child, cache)) \ gone,
         best  |-> child.best]

\* CCoinsViewDB: one leveldb batch, so all of it or none.
BatchWriteDB(cache, disk) ==
    [coins |-> [t \in Txids |-> IF t \in cache.dirty THEN cache.coins[t] ELSE disk.coins[t]],
     best  |-> IF cache.best = NullHash THEN disk.best ELSE cache.best]

\* The block was connected or disconnected: the last thing done to the view is
\* SetBestBlock.
FlushView(h) ==
    /\ open
    /\ tip' = BatchWrite([view EXCEPT !.best = h], tip)
    /\ view' = EmptyCache
    /\ open' = FALSE
    /\ UNCHANGED db

\* The block was not: the view goes out of scope.
DropView ==
    /\ open
    /\ view' = EmptyCache
    /\ open' = FALSE
    /\ UNCHANGED <<db, tip>>

\* FlushStateToDisk; the hash stays with the emptied cache.
FlushTip ==
    /\ ~open
    /\ db' = BatchWriteDB(tip, db)
    /\ tip' = [EmptyCache EXCEPT !.best = tip.best]
    /\ UNCHANGED <<view, open>>

-----------------------------------------------------------------------------
(* The memory pool reads pcoinsTip through its own view, and gives back what
   it brought in for a transaction it then refused. *)

AccessTip(t) ==
    /\ ~open
    /\ tip' = FetchTip(t)
    /\ UNCHANGED <<db, view, open>>

\* The slip of uncaching an entry with unwritten changes.
UncacheAnything(t) == TRUE

HasNoFlags(t) == t \notin tip.dirty \cup tip.fresh

Uncache(t) ==
    /\ ~open
    /\ t \in tip.has
    /\ HasNoFlags(t)
    /\ tip' = Erase(tip, t)
    /\ UNCHANGED <<db, view, open>>

\* The process dies and is started again on what is on disk.
Crash ==
    /\ tip' = EmptyCache
    /\ view' = EmptyCache
    /\ open' = FALSE
    /\ UNCHANGED db

Next ==
    \/ OpenView
    \/ \E t \in Txids : AccessCoins(t)
    \/ \E t \in Txids, c \in Coins : ModifyCoins(t, c)
    \/ \E t \in Txids, c \in Coins, coinbase \in BOOLEAN : ModifyNewCoins(t, c, coinbase)
    \/ \E h \in Hashes : FlushView(h)
    \/ DropView
    \/ FlushTip
    \/ \E t \in Txids : AccessTip(t)
    \/ \E t \in Txids : Uncache(t)
    \/ Crash

Spec == Init /\ [][Next]_vars

-----------------------------------------------------------------------------
(* Properties. *)

\* Only an entry has flags, and where there is none no coins are kept.
FlagsOnEntriesOnly(cache) ==
    /\ cache.dirty \subseteq cache.has
    /\ cache.fresh \subseteq cache.has
    /\ \A t \in Txids \ cache.has : cache.coins[t] = Pruned

\* The layers are well formed: a flag belongs to an entry that is there, and no
\* view is left over when none is in use.
TypeOK ==
    /\ db \in Disk
    /\ tip \in Cache
    /\ view \in Cache
    /\ open \in BOOLEAN
    /\ FlagsOnEntriesOnly(tip)
    /\ FlagsOnEntriesOnly(view)
    /\ ~open => view = EmptyCache

\* FRESH: "The parent view does not have this entry (or it is pruned)".  An
\* entry marked FRESH in pcoinsTip has no coins on disk and one in the view has
\* none in pcoinsTip or below, whatever was written, flushed or uncached since
\* the mark was set; so BatchWrite never finds it misapplied.
FreshMeansNothingBelow ==
    /\ \A t \in tip.fresh : db.coins[t] = Pruned
    /\ \A t \in view.fresh : MainCoins[t] = Pruned

\* An entry that is not DIRTY says what the layer below says, so dropping it
\* (Uncache) or not writing it (BatchWrite) loses nothing.
CleanMeansUnchanged ==
    /\ \A t \in tip.has \ tip.dirty : tip.coins[t] = db.coins[t]
    /\ \A t \in view.has \ view.dirty : view.coins[t] = MainCoins[t]

Map == INSTANCE CoinsMap WITH
    durable <- db,
    main <- [coins |-> MainCoins, best |-> GetBestBlock(tip, db.best)],
    work <- [coins |-> WorkCoins,
             best |-> IF open THEN view.best ELSE GetBestBlock(tip, db.best)],
    open <- open

\* Through the caches a block sees one map of coins.  A flushed view replaces the
\* tip's state as a whole, a dropped one leaves no trace, and a crash goes back
\* exactly to the last state written out.  No fetch, uncache or flush to disk
\* changes what is seen.
ImplementsMap == Map!Spec
=============================================================================

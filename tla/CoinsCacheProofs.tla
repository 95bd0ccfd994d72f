-------------------------- MODULE CoinsCacheProofs --------------------------
(***************************************************************************)
(* Proofs about CoinsCache, for any transactions, coins and blocks.         *)
(*                                                                         *)
(* The argument is about one cache over one layer.  Good says that the      *)
(* cache's flags are true of that layer; each lemma says that an operation  *)
(* keeps a cache Good and what it does to the map seen through it.  The     *)
(* two layers are then two uses of the same lemmas.                         *)
(***************************************************************************)
EXTENDS CoinsCache, TLAPS

CoinMap == [Txids -> Coins]

\* A well-formed cache whose FRESH and DIRTY flags are true of the layer below.
Good(cache, below) ==
    /\ cache \in Cache
    /\ FlagsOnEntriesOnly(cache)
    /\ \A t \in cache.fresh : below[t] = Pruned
    /\ \A t \in cache.has \ cache.dirty : cache.coins[t] = below[t]

\* A cache with nothing in it shows the layer below.
LEMMA EmptyCacheIsGood ==
    ASSUME NEW b \in CoinMap, NEW h \in Hash
    PROVE  LET e == [EmptyCache EXCEPT !.best = h]
           IN  Good(EmptyCache, b) /\ Over(EmptyCache, b) = b /\ EmptyCache.best = NullHash
               /\ Good(e, b) /\ Over(e, b) = b /\ e.best = h
  BY CoinsAssumption DEF Good, EmptyCache, NoCoins, Cache, Hash, FlagsOnEntriesOnly, Over, CoinMap

\* What is seen through a cache is a map of coins.
LEMMA OverType ==
    ASSUME NEW b \in CoinMap, NEW c \in Cache
    PROVE  Over(c, b) \in CoinMap
  BY DEF Over, CoinMap, Cache

\* Fetching an entry from below changes nothing that is seen.
LEMMA FetchKeepsMap ==
    ASSUME NEW b \in CoinMap, NEW c, Good(c, b), NEW t \in Txids,
           NEW p \in BOOLEAN, ~p => b[t] = Pruned
    PROVE  LET d == FetchCoins(c, t, p, b[t])
           IN  Good(d, b) /\ Over(d, b) = Over(c, b) /\ d.best = c.best
               /\ (p => t \in d.has) /\ (t \in c.has => d = c)
  <1> DEFINE d == FetchCoins(c, t, p, b[t])
  <1>1. CASE t \in c.has \/ ~p
    BY <1>1 DEF FetchCoins
  <1>2. CASE t \notin c.has /\ p
    <2>1. d = [c EXCEPT !.has = @ \cup {t}, !.coins[t] = b[t],
                        !.fresh = IF b[t] = Pruned THEN @ \cup {t} ELSE @]
      BY <1>2 DEF FetchCoins
    <2>0. c \in Cache /\ b[t] \in Coins
      BY DEF Good, CoinMap
    <2>2. /\ d.has = c.has \cup {t}
          /\ d.coins = [c.coins EXCEPT ![t] = b[t]]
          /\ d.dirty = c.dirty
          /\ d.fresh = IF b[t] = Pruned THEN c.fresh \cup {t} ELSE c.fresh
          /\ d.best = c.best
      BY <2>0, <2>1 DEF Cache
    <2>5. d \in Cache
      <3>1. d = [has |-> d.has, coins |-> d.coins, dirty |-> d.dirty,
                 fresh |-> d.fresh, best |-> d.best]
        BY Zenon, <2>0, <2>1 DEF Cache
      <3>2. d.has \in SUBSET Txids /\ d.dirty \in SUBSET Txids /\ d.fresh \in SUBSET Txids
        BY <2>0, <2>2 DEF Cache
      <3>3. d.coins \in [Txids -> Coins] /\ d.best \in Hash
        BY <2>0, <2>2 DEF Cache
      <3> HIDE DEF d
      <3> QED
        BY <3>1, <3>2, <3>3 DEF Cache
    <2>3. Good(d, b)
      <3>1. FlagsOnEntriesOnly(d)
        BY <2>0, <2>2 DEF Good, Cache, FlagsOnEntriesOnly
      <3>2. \A u \in d.fresh : b[u] = Pruned
        BY <2>0, <2>2 DEF Good
      <3>3. \A u \in d.has \ d.dirty : d.coins[u] = b[u]
        BY <2>0, <2>2, <1>2 DEF Good, Cache
      <3> QED
        BY <2>5, <3>1, <3>2, <3>3 DEF Good
    <2>4. Over(d, b) = Over(c, b)
      BY Zenon, <1>2, <2>2 DEF Good, Cache, Over
    <2> QED
      BY Zenon, <1>2, <2>2, <2>3, <2>4
  <1> QED
    BY <1>1, <1>2

\* Erasing an entry that carries no flag, or a FRESH one that has become pruned.
LEMMA EraseIsGood ==
    ASSUME NEW b \in CoinMap, NEW c \in Cache, FlagsOnEntriesOnly(c), NEW t \in Txids,
           \A u \in c.fresh : b[u] = Pruned,
           \A u \in (c.has \ c.dirty) \ {t} : c.coins[u] = b[u]
    PROVE  LET d == Erase(c, t)
           IN  /\ Good(d, b)
               /\ d.best = c.best
               /\ Over(d, b) = [Over(c, b) EXCEPT ![t] = b[t]]
  <1> DEFINE d == Erase(c, t)
  <1>1. /\ d.has = c.has \ {t}
        /\ d.coins = [c.coins EXCEPT ![t] = Pruned]
        /\ d.dirty = c.dirty \ {t}
        /\ d.fresh = c.fresh \ {t}
        /\ d.best = c.best
    BY DEF Erase, Cache
  <1>r. d = [has |-> d.has, coins |-> d.coins, dirty |-> d.dirty,
              fresh |-> d.fresh, best |-> d.best]
    <2>1. d = [c EXCEPT !.has = @ \ {t}, !.coins[t] = Pruned,
                      !.dirty = @ \ {t}, !.fresh = @ \ {t}]
      BY DEF Erase
    <2> HIDE DEF d
    <2> QED
      BY Zenon, <2>1 DEF Cache
  <1> HIDE DEF d
  <1>2. d.coins \in [Txids -> Coins] /\ d.best \in Hash
    BY <1>1, CoinsAssumption DEF Cache
  <1>3. d.has \in SUBSET Txids /\ d.dirty \in SUBSET Txids /\ d.fresh \in SUBSET Txids
    BY <1>1 DEF Cache
  <1>4. d \in Cache
    BY <1>r, <1>2, <1>3 DEF Cache
  <1>5. FlagsOnEntriesOnly(d)
    BY <1>1 DEF FlagsOnEntriesOnly, Cache
  <1>6. Good(d, b)
    BY <1>1, <1>4, <1>5 DEF Good, Cache
  <1>7. Over(d, b) = [Over(c, b) EXCEPT ![t] = b[t]]
    BY Zenon, <1>1 DEF Over, Cache, CoinMap
  <1> QED
    BY <1>1, <1>6, <1>7 DEF d

\* A modifier that leaves v writes v and nothing else to the map, if it marks
\* the entry FRESH only when there are no coins below.
LEMMA ModifierWrites ==
    ASSUME NEW b \in CoinMap, NEW c, Good(c, b), NEW t \in Txids, NEW v \in Coins,
           NEW f \in BOOLEAN, f => b[t] = Pruned
    PROVE  LET d == Release(Dirty(c, t, f), t, v)
           IN  /\ Good(d, b)
               /\ d.best = c.best
               /\ Over(d, b) = [Over(c, b) EXCEPT ![t] = v]
  <1> DEFINE e == Dirty(c, t, f)
             d == Release(e, t, v)
  <1>0. c \in Cache
    BY DEF Good
  <1>1. /\ e.has = c.has \cup {t}
        /\ e.coins = c.coins
        /\ e.dirty = c.dirty \cup {t}
        /\ e.fresh = IF f THEN c.fresh \cup {t} ELSE c.fresh
        /\ e.best = c.best
    BY <1>0 DEF Dirty, Cache
  <1>r. e = [has |-> e.has, coins |-> e.coins, dirty |-> e.dirty,
              fresh |-> e.fresh, best |-> e.best]
    <2>1. e = [c EXCEPT !.has = @ \cup {t}, !.dirty = @ \cup {t},
                      !.fresh = IF f THEN @ \cup {t} ELSE @]
      BY DEF Dirty
    <2> HIDE DEF e
    <2> QED
      BY Zenon, <1>0, <2>1 DEF Cache
  <1> HIDE DEF e
  <1>2. e \in Cache
    <2>1. e.has \in SUBSET Txids /\ e.dirty \in SUBSET Txids /\ e.fresh \in SUBSET Txids
      BY <1>0, <1>1 DEF Cache
    <2>2. e.coins \in [Txids -> Coins] /\ e.best \in Hash
      BY <1>0, <1>1 DEF Cache
    <2> QED
      BY <1>r, <2>1, <2>2 DEF Cache
  <1>3. /\ FlagsOnEntriesOnly(e)
        /\ \A u \in e.fresh : b[u] = Pruned
        /\ \A u \in e.has \ e.dirty : e.coins[u] = b[u]
    BY <1>0, <1>1 DEF Good, FlagsOnEntriesOnly, Cache
  <1>4. \A u \in Txids \ {t} : Over(e, b)[u] = Over(c, b)[u]
    BY <1>1 DEF Over
  <1>5. CASE t \in e.fresh /\ v = Pruned
    <2>1. d = Erase(e, t)
      BY <1>5 DEF Release
    <2>2. b[t] = v
      BY <1>3, <1>5
    <2>3. Good(d, b) /\ d.best = e.best /\ Over(d, b) = [Over(e, b) EXCEPT ![t] = b[t]]
      BY <1>2, <1>3, <2>1, EraseIsGood
    <2>4. Over(d, b) = [Over(c, b) EXCEPT ![t] = v]
      BY Zenon, <1>4, <2>2, <2>3 DEF Over
    <2> QED
      BY Zenon, <1>1, <2>3, <2>4 DEF e
  <1>6. CASE ~(t \in e.fresh /\ v = Pruned)
    <2>1. /\ d = [e EXCEPT !.coins[t] = v]
          /\ d.has = e.has /\ d.dirty = e.dirty /\ d.fresh = e.fresh /\ d.best = e.best
          /\ d.coins = [e.coins EXCEPT ![t] = v]
          /\ d = [has |-> d.has, coins |-> d.coins, dirty |-> d.dirty,
                  fresh |-> d.fresh, best |-> d.best]
      BY <1>2, <1>6 DEF Release, Cache
    <2> HIDE DEF d
    <2>2. d \in Cache
      <3>1. d.coins \in [Txids -> Coins]
        BY <1>2, <2>1 DEF Cache
      <3> QED
        BY <1>2, <2>1, <3>1 DEF Cache
    <2>3. FlagsOnEntriesOnly(d)
      BY <1>1, <1>2, <1>3, <2>1 DEF FlagsOnEntriesOnly, Cache
    <2>4. Good(d, b)
      BY <1>1, <1>2, <1>3, <2>1, <2>2, <2>3 DEF Good, Cache
    <2>5. Over(d, b) = [Over(c, b) EXCEPT ![t] = v]
      BY Zenon, <1>1, <1>2, <1>4, <2>1 DEF Over, Cache
    <2> QED
      BY <1>1, <2>1, <2>4, <2>5 DEF d, e
  <1> QED
    BY <1>5, <1>6 DEF e

\* Writing a cache into the one below it: what was seen through both is seen
\* through the lower one alone, and its flags are true of the layer below it.
LEMMA BatchWriteMerges ==
    ASSUME NEW b \in CoinMap, NEW c, Good(c, b), NEW v, Good(v, Over(c, b))
    PROVE  LET d == BatchWrite(v, c)
           IN  Good(d, b) /\ d.best = v.best /\ Over(d, b) = Over(v, Over(c, b))
  <1> DEFINE d == BatchWrite(v, c)
             gone == Vanishing(v, c)
  <1>0. c \in Cache /\ v \in Cache
    BY DEF Good
  <1>1. /\ d.has = (c.has \cup v.dirty) \ gone
        /\ d.coins = [t \in Txids |-> IF t \in v.dirty THEN v.coins[t] ELSE c.coins[t]]
        /\ d.dirty = (c.dirty \cup v.dirty) \ gone
        /\ d.fresh = (c.fresh \cup ((v.dirty \cap v.fresh) \ c.has)) \ gone
        /\ d.best = v.best
        /\ d = [has |-> d.has, coins |-> d.coins, dirty |-> d.dirty,
                fresh |-> d.fresh, best |-> d.best]
    BY DEF BatchWrite, FreshInherited
  <1>2. gone = {t \in v.dirty : /\ v.coins[t] = Pruned
                                /\ IF t \in c.has THEN t \in c.fresh ELSE t \in v.fresh}
    BY DEF Vanishing
  <1> HIDE DEF d, gone
  <1>3. d \in Cache
    <2>1. d.has \in SUBSET Txids /\ d.dirty \in SUBSET Txids /\ d.fresh \in SUBSET Txids
      BY <1>0, <1>1 DEF Cache
    <2>2. d.coins \in [Txids -> Coins] /\ d.best \in Hash
      BY <1>0, <1>1 DEF Cache
    <2> QED
      BY <1>1, <2>1, <2>2 DEF Cache
  <1>4. \A t \in gone : b[t] = Pruned /\ v.coins[t] = Pruned
    BY Zenon, <1>0, <1>2 DEF Good, Over, Cache
  <1>5. FlagsOnEntriesOnly(d)
    BY <1>0, <1>1, <1>2 DEF Good, FlagsOnEntriesOnly, Cache
  <1>6. \A t \in d.fresh : b[t] = Pruned
    BY Zenon, <1>0, <1>1 DEF Good, Over, Cache
  <1>7. \A t \in d.has \ d.dirty : d.coins[t] = b[t]
    BY <1>0, <1>1 DEF Good, Cache
  <1>8. \A t \in Txids : Over(d, b)[t] = Over(v, Over(c, b))[t]
    <2> SUFFICES ASSUME NEW t \in Txids
                 PROVE  Over(d, b)[t] = Over(v, Over(c, b))[t]
      OBVIOUS
    <2>1. CASE t \in gone
      BY <1>0, <1>1, <1>2, <1>4, <2>1 DEF Good, Over, FlagsOnEntriesOnly
    <2>2. CASE t \in v.dirty \ gone
      BY <1>0, <1>1, <2>2 DEF Good, Over, FlagsOnEntriesOnly
    <2>3. CASE t \notin v.dirty
      BY Zenon, <1>0, <1>1, <1>2, <2>3 DEF Good, Over, FlagsOnEntriesOnly
    <2> QED
      BY <2>1, <2>2, <2>3
  <1>9. Over(d, b) = Over(v, Over(c, b))
    BY <1>8 DEF Over
  <1> QED
    BY <1>1, <1>3, <1>5, <1>6, <1>7, <1>9 DEF Good, d

-----------------------------------------------------------------------------
BestBlock == GetBestBlock(tip, db.best)

\* The inductive invariant: both caches are Good over what is below them, and
\* the view remembers the best block that pcoinsTip shows.
Inv ==
    /\ db \in Disk
    /\ open \in BOOLEAN
    /\ Good(tip, db.coins)
    /\ Good(view, MainCoins)
    /\ ~open => view = EmptyCache
    /\ open => view.best = BestBlock

\* The states the abstract map is in.
Main == [coins |-> MainCoins, best |-> BestBlock]
Work == [coins |-> WorkCoins, best |-> IF open THEN view.best ELSE BestBlock]

\* Types that the invariant gives, in the form the lemmas ask for.
LEMMA InvTypes ==
    ASSUME Inv
    PROVE  /\ db.coins \in CoinMap /\ db.best \in Hash
           /\ tip \in Cache /\ view \in Cache
           /\ tip.best \in Hash /\ BestBlock \in Hash
           /\ MainCoins \in CoinMap /\ WorkCoins \in CoinMap
           /\ (~open => WorkCoins = MainCoins)
           /\ Work.best = BestBlock
  <1>1. db.coins \in CoinMap /\ db.best \in Hash
    BY DEF Inv, Disk, CoinMap
  <1>2. tip \in Cache /\ view \in Cache
    BY DEF Inv, Good
  <1>3. tip.best \in Hash /\ BestBlock \in Hash
    BY <1>1, <1>2 DEF Cache, BestBlock, GetBestBlock
  <1>4. MainCoins \in CoinMap
    BY <1>1, <1>2, OverType DEF MainCoins
  <1>5. WorkCoins \in CoinMap
    BY <1>2, <1>4, OverType DEF WorkCoins
  <1>6. ~open => WorkCoins = MainCoins
    BY Zenon, <1>1, <1>4, EmptyCacheIsGood DEF WorkCoins, Inv
  <1> QED
    BY <1>1, <1>2, <1>3, <1>4, <1>5, <1>6 DEF Work, Inv

\* The caches start Good, on an empty map.
LEMMA InitInv == Init => Inv /\ Map!Init
  <1> SUFFICES ASSUME Init PROVE Inv /\ Map!Init
    OBVIOUS
  <1>1. db.coins = NoCoins /\ db.best = NullHash /\ NoCoins \in CoinMap /\ NullHash \in Hash
    BY CoinsAssumption DEF Init, NoCoins, CoinMap, Hash
  <1>2. db \in Disk
    BY <1>1 DEF Init, Disk, CoinMap
  <1>3. Good(tip, db.coins) /\ MainCoins = NoCoins
    BY Zenon, <1>1, EmptyCacheIsGood DEF Init, MainCoins
  <1>4. Good(view, MainCoins) /\ WorkCoins = NoCoins
    BY Zenon, <1>1, <1>3, EmptyCacheIsGood DEF Init, WorkCoins
  <1>5. BestBlock = NullHash
    BY <1>1 DEF Init, EmptyCache, BestBlock, GetBestBlock
  <1>6. Inv
    BY Zenon, <1>2, <1>3, <1>4 DEF Inv, Init
  <1>7. Map!Init
    BY <1>1, <1>3, <1>4, <1>5 DEF Map!Init, Map!Empty, Init, NoCoins, BestBlock
  <1> QED
    BY <1>6, <1>7

\* Reading pcoinsTip keeps it Good and changes nothing that it shows.
LEMMA FetchTipFacts ==
    ASSUME Inv, NEW t \in Txids
    PROVE  /\ Good(FetchTip(t), db.coins)
           /\ Over(FetchTip(t), db.coins) = MainCoins
           /\ FetchTip(t).best = tip.best
           /\ (t \notin FetchTip(t).has => MainCoins[t] = Pruned)
           /\ (t \in FetchTip(t).has => FetchTip(t).coins[t] = MainCoins[t])
  <1> DEFINE d == FetchTip(t)
  <1>1. /\ Good(d, db.coins) /\ Over(d, db.coins) = Over(tip, db.coins) /\ d.best = tip.best
        /\ (db.coins[t] # Pruned => t \in d.has)
    <2> DEFINE p == db.coins[t] # Pruned
    <2>1. p \in BOOLEAN /\ (~p => db.coins[t] = Pruned)
      OBVIOUS
    <2>2. db.coins \in CoinMap /\ Good(tip, db.coins)
      BY InvTypes DEF Inv
    <2>3. d = FetchCoins(tip, t, p, db.coins[t])
      BY DEF FetchTip
    <2> HIDE DEF d
    <2>4. /\ Good(d, db.coins) /\ Over(d, db.coins) = Over(tip, db.coins) /\ d.best = tip.best
          /\ (p => t \in d.has)
      <3> HIDE DEF p
      <3> QED
        BY <2>1, <2>2, <2>3, FetchKeepsMap
    <2> QED
      BY <2>4
  <1> HIDE DEF d
  <1>2. MainCoins[t] = IF t \in d.has THEN d.coins[t] ELSE db.coins[t]
    BY <1>1 DEF MainCoins, Over
  <1> QED
    BY <1>1, <1>2 DEF MainCoins, d

\* One step of the caches keeps the invariant and is a step of the map, or none.
LEMMA StepInv == Inv /\ [Next]_vars => Inv' /\ [Map!Next]_(Map!vars)
  <1> SUFFICES ASSUME Inv, [Next]_vars
               PROVE  Inv' /\ [Map!Next]_(Map!vars)
    OBVIOUS
  <1> USE InvTypes
  <1>s. (UNCHANGED <<db, Main, Work, open>>) => [Map!Next]_(Map!vars)
    BY DEF Map!vars, Main, Work, BestBlock
  <1>1. CASE OpenView
    <2>1. tip'.best = BestBlock /\ Good(tip', db.coins) /\ MainCoins' = MainCoins
      <3>1. /\ tip' = [tip EXCEPT !.best = BestBlock] /\ db' = db
            /\ tip'.has = tip.has /\ tip'.coins = tip.coins /\ tip'.dirty = tip.dirty
            /\ tip'.fresh = tip.fresh /\ tip'.best = BestBlock
        BY <1>1 DEF OpenView, BestBlock, Cache
      <3>2. tip' \in Cache
        BY <3>1 DEF Cache
      <3>3. Good(tip', db.coins)
        BY <3>1, <3>2 DEF Inv, Good, FlagsOnEntriesOnly
      <3> QED
        BY <3>1, <3>3 DEF MainCoins, Over
    <2>2. db' = db /\ open = FALSE /\ open' = TRUE /\ view' = [EmptyCache EXCEPT !.best = BestBlock]
      BY <1>1, <2>1 DEF OpenView, Inv
    <2>3. BestBlock' = BestBlock
      BY <2>1, <2>2 DEF BestBlock, GetBestBlock
    <2>4. Good(view', MainCoins) /\ Over(view', MainCoins) = MainCoins /\ view'.best = BestBlock
      BY <2>2, EmptyCacheIsGood
    <2>5. WorkCoins' = WorkCoins
      BY <2>1, <2>2, <2>4 DEF WorkCoins
    <2>6. Inv'
      BY <2>1, <2>2, <2>3, <2>4 DEF Inv
    <2>7. Map!Begin
      BY <2>1, <2>2, <2>3, <2>4, <2>5 DEF Map!Begin, BestBlock
    <2> QED
      BY <2>6, <2>7 DEF Map!Next
  <1>2. ASSUME NEW t \in Txids, AccessCoins(t)
        PROVE  Inv' /\ [Map!Next]_(Map!vars)
    <2> DEFINE d == FetchTip(t)
    <2>1. db' = db /\ open' = open /\ open = TRUE /\ tip' = d
      BY <1>2 DEF AccessCoins, Inv
    <2>2. Good(tip', db.coins) /\ MainCoins' = MainCoins /\ tip'.best = tip.best
      BY <2>1, FetchTipFacts DEF MainCoins
    <2>3. BestBlock' = BestBlock
      BY <2>1, <2>2 DEF BestBlock, GetBestBlock
    <2>4. Good(view', MainCoins) /\ Over(view', MainCoins) = WorkCoins /\ view'.best = view.best
      <3>1. view' = FetchCoins(view, t, t \in d.has, d.coins[t])
        BY <1>2 DEF AccessCoins
      <3> DEFINE p == t \in d.has
      <3>2. p \in BOOLEAN /\ (~p => MainCoins[t] = Pruned)
        BY FetchTipFacts
      <3>3. view' = FetchCoins(view, t, p, MainCoins[t])
        BY Zenon, <3>1, FetchTipFacts DEF FetchCoins
      <3> HIDE DEF p
      <3> QED
        BY <3>2, <3>3, FetchKeepsMap DEF Inv, WorkCoins
    <2>5. WorkCoins' = WorkCoins
      BY <2>2, <2>4 DEF WorkCoins
    <2>6. Inv'
      BY <2>1, <2>2, <2>3, <2>4 DEF Inv
    <2> QED
      BY <1>s, <2>1, <2>2, <2>3, <2>4, <2>5, <2>6 DEF Main, Work
  <1>w. ASSUME NEW t \in Txids, NEW c \in Coins, open = TRUE, open' = open, db' = db,
               MainCoins' = MainCoins, Good(tip', db.coins), tip'.best = tip.best,
               NEW f \in BOOLEAN, f => MainCoins[t] = Pruned,
               view' = Release(Dirty(view, t, f), t, c)
        PROVE  Inv' /\ Map!Write(t, c)
    <2>1. /\ Good(view', MainCoins) /\ view'.best = view.best
          /\ Over(view', MainCoins) = [WorkCoins EXCEPT ![t] = c]
      BY <1>w, ModifierWrites DEF Inv, WorkCoins
    <2>2. BestBlock' = BestBlock
      BY <1>w DEF BestBlock, GetBestBlock
    <2>3. WorkCoins' = [WorkCoins EXCEPT ![t] = c]
      BY <1>w, <2>1 DEF WorkCoins
    <2>4. Inv'
      BY <1>w, <2>1, <2>2 DEF Inv
    <2>5. Map!Write(t, c)
      BY <1>w, <2>1, <2>2, <2>3 DEF Map!Write, BestBlock
    <2> QED
      BY <2>4, <2>5
  <1>3. ASSUME NEW t \in Txids, NEW c \in Coins, ModifyCoins(t, c)
        PROVE  Inv' /\ [Map!Next]_(Map!vars)
    <2>0. open = TRUE /\ open' = open /\ db' = db
      BY <1>3 DEF ModifyCoins, Inv
    <2>1. CASE t \in view.has
      <3>1. view' = Release(Dirty(view, t, FALSE), t, c) /\ tip' = tip
        BY <1>3, <2>1 DEF ModifyCoins
      <3>2. MainCoins' = MainCoins /\ Good(tip', db.coins)
        BY <2>0, <3>1 DEF MainCoins, Inv
      <3>3. Inv' /\ Map!Write(t, c)
        BY Zenon, <1>w, <2>0, <3>1, <3>2
      <3> QED
        BY <3>3 DEF Map!Next
    <2>2. CASE t \notin view.has
      <3> DEFINE f == t \notin tip'.has \/ tip'.coins[t] = Pruned
      <3>1. view' = Release(Dirty(view, t, f), t, c) /\ tip' = FetchTip(t)
        BY <1>3, <2>2 DEF ModifyCoins
      <3>2. MainCoins' = MainCoins /\ Good(tip', db.coins) /\ tip'.best = tip.best
        BY <2>0, <3>1, FetchTipFacts DEF MainCoins
      <3>3. f \in BOOLEAN /\ (f => MainCoins[t] = Pruned)
        BY <3>1, FetchTipFacts
      <3> HIDE DEF f
      <3>4. Inv' /\ Map!Write(t, c)
        BY <1>w, <2>0, <3>1, <3>2, <3>3
      <3> QED
        BY <3>4 DEF Map!Next
    <2> QED
      BY <2>1, <2>2
  <1>4. ASSUME NEW t \in Txids, NEW c \in Coins, NEW coinbase \in BOOLEAN,
               ModifyNewCoins(t, c, coinbase)
        PROVE  Inv' /\ [Map!Next]_(Map!vars)
    <2> DEFINE f == BecomesFresh(t, coinbase)
    <2>0. open = TRUE /\ open' = open /\ db' = db /\ tip' = tip /\ WorkCoins[t] = Pruned
          /\ view' = Release(Dirty(view, t, f), t, c)
      BY <1>4 DEF ModifyNewCoins, PassesBIP30, Inv
    <2>1. f \in BOOLEAN /\ (f => MainCoins[t] = Pruned)
      BY <2>0 DEF BecomesFresh, WorkCoins, Over, Inv, Good
    <2>2. MainCoins' = MainCoins /\ Good(tip', db.coins)
      BY <2>0 DEF MainCoins, Inv
    <2> HIDE DEF f
    <2>3. Inv' /\ Map!Write(t, c)
      BY <1>w, <2>0, <2>1, <2>2
    <2> QED
      BY <2>3 DEF Map!Next
  <1>5. ASSUME NEW h \in Hashes, FlushView(h)
        PROVE  Inv' /\ [Map!Next]_(Map!vars)
    <2> DEFINE v == [view EXCEPT !.best = h]
    <2>0. open = TRUE /\ open' = FALSE /\ db' = db /\ view' = EmptyCache /\ tip' = BatchWrite(v, tip)
      BY <1>5 DEF FlushView, Inv
    <2>1. /\ v.has = view.has /\ v.coins = view.coins /\ v.dirty = view.dirty
          /\ v.fresh = view.fresh /\ v.best = h
      BY DEF Cache
    <2>2. v \in Cache /\ h \in Hash /\ h # NullHash
      BY CoinsAssumption DEF Cache, Hash
    <2> HIDE DEF v
    <2>3. Good(v, MainCoins) /\ Over(v, MainCoins) = WorkCoins
      BY <2>1, <2>2 DEF Inv, Good, FlagsOnEntriesOnly, WorkCoins, Over
    <2>4. Good(tip', db.coins) /\ tip'.best = h /\ Over(tip', db.coins) = WorkCoins
      BY <2>0, <2>1, <2>3, BatchWriteMerges DEF Inv, MainCoins
    <2>5. MainCoins' = WorkCoins /\ BestBlock' = h
      BY <2>0, <2>2, <2>4 DEF MainCoins, BestBlock, GetBestBlock
    <2>6. Good(view', MainCoins') /\ WorkCoins' = WorkCoins
      BY Zenon, <2>0, <2>2, <2>5, EmptyCacheIsGood DEF WorkCoins
    <2>7. Inv'
      BY Zenon, <2>0, <2>4, <2>6 DEF Inv
    <2>8. Map!Commit(h)
      BY <2>0, <2>5, <2>6 DEF Map!Commit, BestBlock
    <2> QED
      BY <2>7, <2>8 DEF Map!Next
  <1>6. CASE DropView
    <2>0. open = TRUE /\ open' = FALSE /\ db' = db /\ view' = EmptyCache /\ tip' = tip
      BY <1>6 DEF DropView, Inv
    <2>1. MainCoins' = MainCoins /\ BestBlock' = BestBlock
      BY <2>0 DEF MainCoins, BestBlock
    <2>2. Good(view', MainCoins) /\ WorkCoins' = MainCoins
      BY Zenon, <2>0, <2>1, EmptyCacheIsGood DEF WorkCoins
    <2>3. Inv'
      BY Zenon, <2>0, <2>1, <2>2 DEF Inv
    <2>4. Map!Abandon
      BY <2>0, <2>1, <2>2 DEF Map!Abandon, BestBlock
    <2> QED
      BY <2>3, <2>4 DEF Map!Next
  <1>7. CASE FlushTip
    <2>0. /\ open = FALSE /\ open' = FALSE /\ view' = view /\ view = EmptyCache
          /\ db' = BatchWriteDB(tip, db)
          /\ tip' = [EmptyCache EXCEPT !.best = tip.best]
      BY <1>7 DEF FlushTip, Inv
    <2>1. db'.best = BestBlock /\ db'.coins = MainCoins /\ db' = Main
      <3>1. \A t \in Txids : MainCoins[t] = IF t \in tip.dirty THEN tip.coins[t] ELSE db.coins[t]
        BY DEF MainCoins, Over, Inv, Good, FlagsOnEntriesOnly
      <3>2. MainCoins = [t \in Txids |-> IF t \in tip.dirty THEN tip.coins[t] ELSE db.coins[t]]
        BY <3>1 DEF MainCoins, Over
      <3> QED
        BY <2>0, <3>2 DEF BatchWriteDB, BestBlock, GetBestBlock, Main
    <2>2. db' \in Disk
      BY <2>1 DEF Main, Disk, CoinMap
    <2>3. Good(tip', MainCoins) /\ Over(tip', MainCoins) = MainCoins /\ tip'.best = tip.best
      BY <2>0, EmptyCacheIsGood
    <2>4. MainCoins' = MainCoins /\ BestBlock' = BestBlock
      BY <2>1, <2>3 DEF MainCoins, BestBlock, GetBestBlock
    <2>5. Good(view', MainCoins) /\ WorkCoins' = WorkCoins
      BY <2>0, <2>4 DEF WorkCoins, Inv
    <2>6. Inv'
      BY Zenon, <2>0, <2>1, <2>2, <2>3, <2>4, <2>5 DEF Inv
    <2>7. Map!Sync
      BY Zenon, <2>0, <2>1, <2>4, <2>5 DEF Map!Sync, Main, BestBlock
    <2> QED
      BY <2>6, <2>7 DEF Map!Next
  <1>t. ASSUME open = FALSE, open' = open, db' = db, view' = view, tip'.best = tip.best,
               Good(tip', db.coins), Over(tip', db.coins) = MainCoins
        PROVE  Inv' /\ [Map!Next]_(Map!vars)
    <2>1. MainCoins' = MainCoins /\ BestBlock' = BestBlock
      BY <1>t DEF MainCoins, BestBlock, GetBestBlock
    <2>2. WorkCoins' = WorkCoins
      BY <1>t, <2>1 DEF WorkCoins
    <2>3. Inv'
      BY <1>t, <2>1 DEF Inv
    <2> QED
      BY <1>s, <1>t, <2>1, <2>2, <2>3 DEF Main, Work
  <1>8. ASSUME NEW t \in Txids, AccessTip(t)
        PROVE  Inv' /\ [Map!Next]_(Map!vars)
    <2>1. open = FALSE /\ open' = open /\ db' = db /\ view' = view /\ tip' = FetchTip(t)
      BY <1>8 DEF AccessTip, Inv
    <2> QED
      BY Zenon, <1>t, <2>1, FetchTipFacts
  <1>9. ASSUME NEW t \in Txids, Uncache(t)
        PROVE  Inv' /\ [Map!Next]_(Map!vars)
    <2>1. /\ open = FALSE /\ open' = open /\ db' = db /\ view' = view /\ tip' = Erase(tip, t)
          /\ t \in tip.has /\ t \notin tip.dirty
      BY <1>9 DEF Uncache, HasNoFlags, Inv
    <2>2. /\ Good(tip', db.coins) /\ tip'.best = tip.best
          /\ Over(tip', db.coins) = [Over(tip, db.coins) EXCEPT ![t] = db.coins[t]]
      BY <2>1, EraseIsGood DEF Inv, Good
    <2>3. Over(tip, db.coins)[t] = db.coins[t]
      BY <2>1 DEF Over, Inv, Good
    <2>4. Over(tip', db.coins) = MainCoins
      BY <2>2, <2>3 DEF MainCoins, Over
    <2> QED
      BY Zenon, <1>t, <2>1, <2>2, <2>4
  <1>10. CASE Crash
    <2>0. open' = FALSE /\ db' = db /\ view' = EmptyCache /\ tip' = EmptyCache
      BY <1>10 DEF Crash
    <2>1. Good(tip', db.coins) /\ MainCoins' = db.coins /\ tip'.best = NullHash
      BY Zenon, <2>0, EmptyCacheIsGood DEF MainCoins
    <2>2. Good(view', db.coins) /\ WorkCoins' = db.coins
      BY Zenon, <2>0, <2>1, EmptyCacheIsGood DEF WorkCoins
    <2>3. BestBlock' = db.best
      BY <2>0, <2>1 DEF BestBlock, GetBestBlock
    <2>4. Inv'
      BY Zenon, <2>0, <2>1, <2>2 DEF Inv
    <2>5. db = [coins |-> db.coins, best |-> db.best]
      BY DEF Inv, Disk
    <2>6. Map!Restart
      BY <2>0, <2>1, <2>2, <2>3, <2>5 DEF Map!Restart, BestBlock
    <2> QED
      BY <2>4, <2>6 DEF Map!Next
  <1>11. CASE UNCHANGED vars
    <2>1. UNCHANGED <<db, tip, view, open, MainCoins, WorkCoins, BestBlock>>
      BY <1>11 DEF vars, MainCoins, WorkCoins, BestBlock
    <2>2. Inv'
      BY <2>1 DEF Inv
    <2> QED
      BY <1>s, <2>1, <2>2 DEF Main, Work
  <1> QED
    BY <1>1, <1>2, <1>3, <1>4, <1>5, <1>6, <1>7, <1>8, <1>9, <1>10, <1>11 DEF Next

\* The caches are Good at all times.
THEOREM InvHolds == Spec => []Inv
  <1>1. Init => Inv
    BY InitInv
  <1>2. Inv /\ [Next]_vars => Inv'
    BY StepInv
  <1> QED
    BY <1>1, <1>2, PTL DEF Spec

\* The layers of the coin database are well formed in every reachable state.
THEOREM TypeCorrect == Spec => []TypeOK
  <1>1. Inv => TypeOK
    BY DEF Inv, TypeOK, Good
  <1> QED
    BY <1>1, InvHolds, PTL

\* FRESH is never misapplied: coins.cpp's "FRESH flag misapplied" exception in
\* BatchWrite cannot be thrown, and no deletion is withheld from the disk.
THEOREM FreshCorrect == Spec => []FreshMeansNothingBelow
  <1>1. Inv => FreshMeansNothingBelow
    BY DEF Inv, FreshMeansNothingBelow, Good
  <1> QED
    BY <1>1, InvHolds, PTL

\* Entries that are not DIRTY can be dropped at any time.
THEOREM CleanCorrect == Spec => []CleanMeansUnchanged
  <1>1. Inv => CleanMeansUnchanged
    BY DEF Inv, CleanMeansUnchanged, Good
  <1> QED
    BY <1>1, InvHolds, PTL

\* The stack of caches implements the single map: connecting a block through a
\* view is all or nothing, and a crash goes back to the last flushed state.
THEOREM CacheImplementsMap == Spec => ImplementsMap
  <1>1. Init => Map!Init
    BY InitInv
  <1>2. Inv /\ [Next]_vars => [Map!Next]_(Map!vars)
    BY StepInv
  <1> QED
    BY <1>1, <1>2, InvHolds, PTL DEF Spec, ImplementsMap, Map!Spec
=============================================================================

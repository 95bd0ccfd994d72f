-------------------------- MODULE CheckQueueProofs --------------------------
(***************************************************************************)
(* Proofs about CheckQueue, for any number of workers, any batch size and   *)
(* any number of checks.                                                    *)
(*                                                                          *)
(* The inductive invariant Inv relates the four counters to the sets they   *)
(* are meant to count, and fAllOk and the threads' fOk to the checks that   *)
(* have been run.  Mid is the same relation in the middle of Loop's         *)
(* critical section, after the previous batch (if any) has been accounted   *)
(* for and before the thread t decides to take a batch, to return or to     *)
(* wait: the three ways to reach that point establish it (MidOfEnter,       *)
(* MidOfResume, MidOfFinish) and the three ways to leave it restore Inv     *)
(* (LoopBodyRestores).                                                      *)
(***************************************************************************)
EXTENDS CheckQueue, FiniteSetTheorems, TLAPS

PoolPcs  == {"waiting", "woken", "run", "dead"}
SleepPcs == {"waiting", "woken", "dead"}

\* The threads a program-counter function p puts in the pool, or to sleep.
Pool(p)     == {t \in Threads : p[t] \in PoolPcs}
Sleepers(p) == {t \in Threads : p[t] \in SleepPcs}

\* What holds of a thread's batch.
BatchOK(t, p) ==
    /\ left[t] \subseteq vChecks[t]
    /\ p[t] = "run" => vChecks[t] # {}
    /\ p[t] # "run" => vChecks[t] = {}
    /\ p[t] = "run" /\ ~fOk[t] => bad # {}
    /\ p[t] = "run" /\ fOk[t] =>
            \A c \in vChecks[t] \ left[t] : c \in ran /\ c \notin bad

Inv ==
    /\ TypeOK
    /\ nTodo = Cardinality(Outstanding)
    /\ \A t \in Threads : vChecks[t] \cap queue = {}
    /\ \A s, t \in Threads : s # t => vChecks[s] \cap vChecks[t] = {}
    /\ \A t \in Threads : BatchOK(t, pc)
    /\ nTotal = Cardinality(Pool(pc)) + leaked
    /\ nIdle = Cardinality(Sleepers(pc)) + leaked
    /\ pc[Master] = "out" => Outstanding = {} /\ fAllOk
    /\ pc[Master] = "waiting" => queue = {} /\ Outstanding # {}
    /\ ~fAllOk => bad # {}
    /\ fAllOk /\ pc[Master] # "out" =>
            \A c \in Checks \ Outstanding : c \in ran /\ c \notin bad
    /\ pc[Master] # "out" => fRet = "none"
    /\ WaitResultIsConjunction

\* The checks that are queued or in the batch of a thread other than t.
OthersOutstanding(t) ==
    {c \in Checks : c \in queue \/ \E s \in Threads \ {t} : c \in vChecks[s]}

Mid(t, total, idle, todo, ok, pcs) ==
    /\ TypeOK
    /\ t \in Threads
    /\ total \in Nat /\ idle \in Nat /\ todo \in Nat /\ ok \in BOOLEAN
    /\ pcs \in [Threads -> WorkerPcs \cup MasterPcs]
    /\ \A w \in Workers : pcs[w] \in WorkerPcs
    /\ pcs[Master] \in MasterPcs
    /\ todo = Cardinality(OthersOutstanding(t))
    /\ \A s \in Threads : vChecks[s] \cap queue = {}
    /\ \A s, u \in Threads : s # u => vChecks[s] \cap vChecks[u] = {}
    /\ left[t] = {}
    /\ \A s \in Threads \ {t} : BatchOK(s, pcs)
    /\ total = Cardinality(Pool(pcs) \ {t}) + 1 + leaked
    /\ idle = Cardinality(Sleepers(pcs) \ {t}) + leaked
    /\ t # Master /\ pcs[Master] = "out" => OthersOutstanding(t) = {} /\ ok
    /\ t # Master /\ pcs[Master] = "waiting" =>
            queue = {} /\ OthersOutstanding(t) # {}
    /\ ~ok => bad # {}
    /\ ok /\ pcs[Master] # "out" =>
            \A c \in Checks \ OthersOutstanding(t) : c \in ran /\ c \notin bad
    /\ t = Master => pcs[Master] # "out"
    /\ pcs[Master] # "out" => fRet = "none"
    /\ WaitResultIsConjunction

-----------------------------------------------------------------------------
\* Finite sets whose sizes the counters hold stay finite.
LEMMA Finiteness ==
    ASSUME TypeOK
    PROVE  /\ IsFiniteSet(Threads)
           /\ IsFiniteSet(Checks)
           /\ \A S \in SUBSET Threads : IsFiniteSet(S) /\ Cardinality(S) \in Nat
           /\ \A S \in SUBSET Checks : IsFiniteSet(S) /\ Cardinality(S) \in Nat
<1>1. IsFiniteSet(Threads)
  BY FS_AddElement, CheckQueueAssumption DEF Threads
<1>2. nAdded \in Nat
  BY CheckQueueAssumption DEF TypeOK
<1>3. IsFiniteSet(Checks)
  BY <1>2, FS_Interval DEF Checks
<1>4. \A S \in SUBSET Threads : IsFiniteSet(S) /\ Cardinality(S) \in Nat
  BY <1>1, FS_Subset, FS_CardinalityType
<1>5. \A S \in SUBSET Checks : IsFiniteSet(S) /\ Cardinality(S) \in Nat
  BY <1>3, FS_Subset, FS_CardinalityType
<1>. QED BY <1>1, <1>3, <1>4, <1>5

\* The initial state satisfies the invariant.
LEMMA InitInv == Init => Inv
<1>. SUFFICES ASSUME Init PROVE Inv
  OBVIOUS
<1>1. TypeOK
  <2>1. nAdded \in 0 .. MaxChecks
    BY CheckQueueAssumption DEF Init
  <2>2. /\ pc \in [Threads -> WorkerPcs \cup MasterPcs]
        /\ \A w \in Workers : pc[w] \in WorkerPcs
        /\ pc[Master] \in MasterPcs
    BY CheckQueueAssumption DEF Init, Threads, WorkerPcs, MasterPcs
  <2>3. /\ vChecks \in [Threads -> SUBSET Checks]
        /\ left \in [Threads -> SUBSET Checks]
        /\ fOk \in [Threads -> BOOLEAN]
    BY DEF Init
  <2>. QED BY Zenon, <2>1, <2>2, <2>3 DEF Init, TypeOK, Results
<1>2. Checks = {} /\ Outstanding = {}
  BY DEF Init, Checks, Outstanding
<1>3. Pool(pc) = {} /\ Sleepers(pc) = {}
  BY DEF Init, Pool, Sleepers, PoolPcs, SleepPcs
<1>4. Cardinality({}) = 0
  BY FS_EmptySet
<1>5. \A t \in Threads : BatchOK(t, pc)
  BY DEF Init, BatchOK, Threads
<1>6. WaitResultIsConjunction /\ pc[Master] = "out"
  BY DEF Init, WaitResultIsConjunction, Threads
<1>7. /\ nTodo = Cardinality(Outstanding)
      /\ nTotal = Cardinality(Pool(pc)) + leaked
      /\ nIdle = Cardinality(Sleepers(pc)) + leaked
  <2>1. /\ Cardinality(Outstanding) = 0
        /\ Cardinality(Pool(pc)) = 0
        /\ Cardinality(Sleepers(pc)) = 0
    BY <1>2, <1>3, <1>4
  <2>. QED BY <2>1 DEF Init
<1>. QED
  BY <1>1, <1>2, <1>5, <1>6, <1>7 DEF Init, Inv

-----------------------------------------------------------------------------
\* A finite set loses as many elements as the subset taken from it has.
LEMMA CardinalityOfDifference ==
    ASSUME NEW S, NEW T \in SUBSET S, IsFiniteSet(S)
    PROVE  Cardinality(S \ T) = Cardinality(S) - Cardinality(T)
<1>1. IsFiniteSet(T) /\ IsFiniteSet(S \ T)
  BY FS_Subset
<1>2. (S \ T) \cup T = S /\ (S \ T) \cap T = {}
  OBVIOUS
<1>3. Cardinality(S) = Cardinality(S \ T) + Cardinality(T) - Cardinality({})
  BY <1>1, <1>2, FS_Union
<1>. QED BY <1>1, <1>3, FS_EmptySet, FS_CardinalityType

\* Joining the pool in the first iteration of Loop (nTotal++).
LEMMA MidOfEnter ==
    ASSUME Inv, NEW t \in Threads,
           pc[t] = (IF t = Master THEN "enter" ELSE "start")
    PROVE  Mid(t, nTotal + 1, nIdle, nTodo, fAllOk, pc)
<1>1. TypeOK /\ vChecks[t] = {} /\ left[t] = {}
  BY DEF Inv, BatchOK
<1>2. OthersOutstanding(t) = Outstanding
  BY <1>1 DEF Outstanding, OthersOutstanding
<1>3. Pool(pc) \ {t} = Pool(pc) /\ Sleepers(pc) \ {t} = Sleepers(pc)
  BY DEF Pool, Sleepers, PoolPcs, SleepPcs
<1>4. /\ nTotal + 1 \in Nat /\ nIdle \in Nat /\ nTodo \in Nat /\ fAllOk \in BOOLEAN
      /\ pc \in [Threads -> WorkerPcs \cup MasterPcs]
      /\ \A w \in Workers : pc[w] \in WorkerPcs
      /\ pc[Master] \in MasterPcs
      /\ leaked \in Nat
  BY <1>1 DEF TypeOK
<1>5. Cardinality(Pool(pc)) \in Nat
  BY <1>1, Finiteness DEF Pool
<1>6. nTotal + 1 = Cardinality(Pool(pc) \ {t}) + 1 + leaked
  <2>1. Cardinality(Pool(pc) \ {t}) = Cardinality(Pool(pc))
    BY <1>3
  <2>2. nTotal = Cardinality(Pool(pc)) + leaked
    BY DEF Inv
  <2>. QED BY <2>1, <2>2, <1>4, <1>5
<1>. QED BY Zenon, <1>1, <1>2, <1>3, <1>4, <1>6 DEF Inv, Mid

\* Coming back from cond.wait (nIdle--).
LEMMA MidOfResume ==
    ASSUME Inv, NEW t \in Threads, pc[t] = "woken"
    PROVE  Mid(t, nTotal, nIdle - 1, nTodo, fAllOk, pc)
<1>1. TypeOK /\ vChecks[t] = {} /\ left[t] = {}
  BY DEF Inv, BatchOK
<1>2. OthersOutstanding(t) = Outstanding
  BY <1>1 DEF Outstanding, OthersOutstanding
<1>3. t \in Pool(pc) /\ t \in Sleepers(pc)
  BY DEF Pool, Sleepers, PoolPcs, SleepPcs
<1>4. /\ nTotal \in Nat /\ nIdle \in Nat /\ nTodo \in Nat /\ fAllOk \in BOOLEAN
      /\ pc \in [Threads -> WorkerPcs \cup MasterPcs]
      /\ \A w \in Workers : pc[w] \in WorkerPcs
      /\ pc[Master] \in MasterPcs
      /\ leaked \in Nat
  BY <1>1 DEF TypeOK
<1>5. /\ Pool(pc) \in SUBSET Threads /\ Sleepers(pc) \in SUBSET Threads
      /\ IsFiniteSet(Pool(pc)) /\ IsFiniteSet(Sleepers(pc))
      /\ Cardinality(Pool(pc) \ {t}) \in Nat /\ Cardinality(Sleepers(pc) \ {t}) \in Nat
      /\ Cardinality(Pool(pc)) \in Nat /\ Cardinality(Sleepers(pc)) \in Nat
  BY <1>1, Finiteness DEF Pool, Sleepers
<1>6. /\ Cardinality(Pool(pc) \ {t}) = Cardinality(Pool(pc)) - 1
      /\ Cardinality(Sleepers(pc) \ {t}) = Cardinality(Sleepers(pc)) - 1
  BY Zenon, <1>3, <1>5, FS_RemoveElement
<1>7. nTotal = Cardinality(Pool(pc)) + leaked /\ nIdle = Cardinality(Sleepers(pc)) + leaked
  BY DEF Inv
<1>8. /\ nTotal = Cardinality(Pool(pc) \ {t}) + 1 + leaked
      /\ nIdle - 1 = Cardinality(Sleepers(pc) \ {t}) + leaked
      /\ nIdle - 1 \in Nat
  BY <1>4, <1>5, <1>6, <1>7
<1>9. t = Master => pc[Master] # "out"
  OBVIOUS
<1>. QED BY <1>1, <1>2, <1>4, <1>8, <1>9 DEF Inv, Mid

\* Accounting for a finished batch, and telling a sleeping master about it.
LEMMA MidOfFinish ==
    ASSUME Inv, NEW t \in Threads, pc[t] = "run", left[t] = {},
           NEW todo, todo = nTodo - Cardinality(vChecks[t]),
           NEW ok, ok = (fAllOk /\ fOk[t]),
           NEW pcs, pcs = (IF todo = 0 /\ t # Master THEN NotifyMaster ELSE pc)
    PROVE  Mid(t, nTotal, nIdle, todo, ok, pcs)
<1>1. TypeOK /\ vChecks[t] # {} /\ vChecks[t] \subseteq Checks
  BY DEF Inv, BatchOK, TypeOK
<1>2. /\ nTotal \in Nat /\ nIdle \in Nat /\ nTodo \in Nat /\ ok \in BOOLEAN
      /\ pc \in [Threads -> WorkerPcs \cup MasterPcs]
      /\ \A w \in Workers : pc[w] \in WorkerPcs
      /\ pc[Master] \in MasterPcs
      /\ leaked \in Nat
  BY <1>1 DEF TypeOK
<1>3. OthersOutstanding(t) = Outstanding \ vChecks[t] /\ vChecks[t] \in SUBSET Outstanding
  BY <1>1 DEF Outstanding, OthersOutstanding, Inv
<1>4. IsFiniteSet(Outstanding) /\ Cardinality(OthersOutstanding(t)) \in Nat
  BY <1>1, Finiteness DEF Outstanding, OthersOutstanding
<1>5. todo = Cardinality(OthersOutstanding(t)) /\ todo \in Nat
  BY <1>3, <1>4, CardinalityOfDifference DEF Inv
<1>6. Master \in Threads /\ Workers \subseteq Threads
  BY DEF Threads
<1>7. /\ pcs \in [Threads -> WorkerPcs \cup MasterPcs]
      /\ \A w \in Workers : pcs[w] \in WorkerPcs
      /\ pcs[Master] \in MasterPcs
      /\ \A s \in Threads : pcs[s] # pc[s] => pc[s] = "waiting" /\ pcs[s] = "woken"
      /\ pcs[t] = "run"
  BY <1>2, <1>6, CheckQueueAssumption DEF NotifyMaster, WorkerPcs, MasterPcs
<1>8. Pool(pcs) = Pool(pc) /\ Sleepers(pcs) = Sleepers(pc)
  BY <1>7 DEF Pool, Sleepers, PoolPcs, SleepPcs
<1>9. t \in Pool(pc) /\ t \notin Sleepers(pc)
  BY DEF Pool, Sleepers, PoolPcs, SleepPcs
<1>10. /\ IsFiniteSet(Pool(pc)) /\ Cardinality(Pool(pc)) \in Nat
       /\ Cardinality(Pool(pc) \ {t}) \in Nat
  BY <1>1, Finiteness DEF Pool
<1>11. Cardinality(Pool(pc) \ {t}) = Cardinality(Pool(pc)) - 1
  BY Zenon, <1>9, <1>10, FS_RemoveElement
<1>12. nTotal = Cardinality(Pool(pc)) + leaked
  BY DEF Inv
<1>13. nTotal = Cardinality(Pool(pcs) \ {t}) + 1 + leaked
  <2>1. Cardinality(Pool(pcs) \ {t}) = Cardinality(Pool(pc) \ {t})
    BY <1>8
  <2>. QED BY <2>1, <1>2, <1>10, <1>11, <1>12
<1>14. Sleepers(pc) \ {t} = Sleepers(pc)
  BY <1>9
<1>15. nIdle = Cardinality(Sleepers(pcs) \ {t}) + leaked
  BY <1>8, <1>14 DEF Inv
<1>16. \A s \in Threads \ {t} : BatchOK(s, pcs)
  BY <1>7 DEF Inv, BatchOK
<1>17. pc[Master] # "out" /\ pcs[Master] # "out"
  BY <1>1, <1>3, <1>6, <1>7 DEF Inv
<1>18. t # Master /\ pcs[Master] = "waiting" => queue = {} /\ OthersOutstanding(t) # {}
  <2>. SUFFICES ASSUME t # Master, pcs[Master] = "waiting"
               PROVE  queue = {} /\ OthersOutstanding(t) # {}
    OBVIOUS
  <2>1. pc[Master] = "waiting"
    BY <1>6, <1>7
  <2>2. todo # 0
    BY <2>1, <1>2, <1>6 DEF NotifyMaster
  <2>. QED BY Zenon, <2>1, <2>2, <1>5, FS_EmptySet DEF Inv
<1>19. ~ok => bad # {}
  BY Zenon DEF Inv, BatchOK
<1>20. ok => \A c \in Checks \ OthersOutstanding(t) : c \in ran /\ c \notin bad
  BY Zenon, <1>3, <1>17 DEF Inv, BatchOK
<1>. QED
  BY <1>1, <1>2, <1>5, <1>7, <1>13, <1>15, <1>16, <1>17, <1>18, <1>19, <1>20
  DEF Inv, Mid

-----------------------------------------------------------------------------
\* A batch is never empty: nNow is at least one.
LEMMA NNowPositive ==
    ASSUME NEW size \in Nat, NEW total \in Nat, NEW idle \in Nat
    PROVE  NNow(size, total, idle) \in Nat \ {0}
<1>1. size \div (total + idle + 1) \in Nat
  OBVIOUS
<1>. QED BY <1>1, CheckQueueAssumption DEF NNow

\* Moving a thread into the pool: the pool and the sleepers afterwards.
LEMMA PoolAfter ==
    ASSUME NEW pcs \in [Threads -> WorkerPcs \cup MasterPcs], NEW t \in Threads,
           NEW x, NEW p, p = [pcs EXCEPT ![t] = x]
    PROVE  /\ Pool(p) = IF x \in PoolPcs THEN (Pool(pcs) \ {t}) \cup {t}
                                         ELSE Pool(pcs) \ {t}
           /\ Sleepers(p) = IF x \in SleepPcs THEN (Sleepers(pcs) \ {t}) \cup {t}
                                              ELSE Sleepers(pcs) \ {t}
BY DEF Pool, Sleepers

\* Cardinality of a set after a new element was added.
LEMMA CardinalityOfAdded ==
    ASSUME NEW S, NEW t, IsFiniteSet(S)
    PROVE  Cardinality((S \ {t}) \cup {t}) = Cardinality(S \ {t}) + 1
BY FS_AddElement, FS_RemoveElement

\* Taking a batch restores the invariant.
LEMMA TakeBatchRestores ==
    ASSUME NEW t, NEW total, NEW idle, NEW todo, NEW ok, NEW pcs,
           Mid(t, total, idle, todo, ok, pcs),
           TakeBatch(t, total, idle, ok, pcs),
           nTodo' = todo, UNCHANGED <<nAdded, bad, ran, leaked>>
    PROVE  Inv'
<1>0. /\ TypeOK /\ t \in Threads /\ total \in Nat /\ idle \in Nat /\ todo \in Nat
      /\ ok \in BOOLEAN /\ pcs \in [Threads -> WorkerPcs \cup MasterPcs]
      /\ leaked \in Nat /\ Checks' = Checks /\ queue \in SUBSET Checks
      /\ vChecks \in [Threads -> SUBSET Checks] /\ left \in [Threads -> SUBSET Checks]
      /\ fOk \in [Threads -> BOOLEAN]
      /\ Master \in Threads
  BY DEF Mid, TypeOK, Checks, Threads
<1>1. PICK b \in SUBSET queue :
          /\ Cardinality(b) = NNow(Cardinality(queue), total, idle)
          /\ queue' = queue \ b
          /\ vChecks' = [vChecks EXCEPT ![t] = b]
          /\ left' = [left EXCEPT ![t] = b]
  BY Zenon DEF TakeBatch, Backs
<1>2. b # {} /\ b \in SUBSET Checks
  <2>1. Cardinality(queue) \in Nat
    BY <1>0, Finiteness
  <2>2. Cardinality(b) # 0
    BY <2>1, <1>0, <1>1, NNowPositive
  <2>. QED BY Zenon, <2>2, <1>0, FS_EmptySet
<1>3. /\ fOk' = [fOk EXCEPT ![t] = ok]
      /\ pc' = [pcs EXCEPT ![t] = "run"]
      /\ nTotal' = total /\ nIdle' = idle /\ fAllOk' = ok
      /\ fRet' = fRet /\ inDtor' = inDtor /\ txdata' = txdata
      /\ nAdded' = nAdded /\ bad' = bad /\ ran' = ran /\ leaked' = leaked
  BY DEF TakeBatch
<1>4. TypeOK'
  <2>1. /\ pc' \in [Threads -> WorkerPcs \cup MasterPcs]
        /\ \A w \in Workers : pc'[w] \in WorkerPcs
        /\ pc'[Master] \in MasterPcs
    BY <1>0, <1>3 DEF Mid, WorkerPcs, MasterPcs, Threads
  <2>2. /\ vChecks' \in [Threads -> SUBSET Checks]
        /\ left' \in [Threads -> SUBSET Checks]
        /\ fOk' \in [Threads -> BOOLEAN]
        /\ queue' \in SUBSET Checks
    BY <1>0, <1>1, <1>2, <1>3
  <2>. QED BY <2>1, <2>2, <1>0, <1>3 DEF TypeOK
<1>5. Outstanding' = OthersOutstanding(t)
  <2>1. \A s \in Threads : vChecks'[s] = IF s = t THEN b ELSE vChecks[s]
    BY <1>0, <1>1
  <2>. QED BY <2>1, <1>0, <1>1, <1>2 DEF Outstanding, OthersOutstanding
<1>6. nTodo' = Cardinality(Outstanding')
  BY <1>5 DEF Mid
<1>7. /\ \A s \in Threads : vChecks'[s] \cap queue' = {}
      /\ \A s, u \in Threads : s # u => vChecks'[s] \cap vChecks'[u] = {}
  BY <1>0, <1>1 DEF Mid
<1>8. \A s \in Threads : BatchOK(s, pc)'
  <2>. SUFFICES ASSUME NEW s \in Threads PROVE BatchOK(s, pc)'
    OBVIOUS
  <2>1. CASE s = t
    <3>1. vChecks'[s] = b /\ left'[s] = b /\ pc'[s] = "run" /\ fOk'[s] = ok
      BY <2>1, <1>0, <1>1, <1>3
    <3>. QED BY <3>1, <1>2, <1>3 DEF BatchOK, Mid
  <2>2. CASE s # t
    <3>1. /\ vChecks'[s] = vChecks[s] /\ left'[s] = left[s]
          /\ pc'[s] = pcs[s] /\ fOk'[s] = fOk[s]
      BY <2>2, <1>0, <1>1, <1>3
    <3>2. BatchOK(s, pcs)
      BY <2>2 DEF Mid
    <3>. QED BY <3>1, <3>2, <1>3 DEF BatchOK
  <2>. QED BY <2>1, <2>2
<1>9. nTotal' = Cardinality(Pool(pc')) + leaked' /\ nIdle' = Cardinality(Sleepers(pc')) + leaked'
  <2>0. "run" \in PoolPcs /\ "run" \notin SleepPcs
    BY DEF PoolPcs, SleepPcs
  <2>1. Pool(pc') = (Pool(pcs) \ {t}) \cup {t} /\ Sleepers(pc') = Sleepers(pcs) \ {t}
    BY Zenon, <2>0, <1>0, <1>3, PoolAfter
  <2>2. IsFiniteSet(Pool(pcs)) /\ Cardinality(Pool(pcs) \ {t}) \in Nat
    BY <1>0, Finiteness DEF Pool
  <2>3. Cardinality(Pool(pc')) = Cardinality(Pool(pcs) \ {t}) + 1
    BY Zenon, <2>1, <2>2, CardinalityOfAdded
  <2>4. total = Cardinality(Pool(pcs) \ {t}) + 1 + leaked
    BY DEF Mid
  <2>5. nTotal' = Cardinality(Pool(pc')) + leaked'
    BY <2>2, <2>3, <2>4, <1>0, <1>3
  <2>6. nIdle' = Cardinality(Sleepers(pc')) + leaked'
    BY <2>1, <1>3 DEF Mid
  <2>. QED BY <2>5, <2>6
<1>10. pc'[Master] # "out" /\ pc'[Master] # "waiting"
  BY <1>0, <1>1, <1>2, <1>3 DEF Mid, OthersOutstanding
<1>11. pcs[Master] # "out"
  BY <1>0, <1>1, <1>2 DEF Mid, OthersOutstanding
<1>12. fAllOk' => \A c \in Checks \ Outstanding' : c \in ran' /\ c \notin bad'
  BY <1>3, <1>5, <1>11 DEF Mid
<1>13. fRet' = "none"
  BY <1>3, <1>11 DEF Mid
<1>14. WaitResultIsConjunction'
  BY <1>13 DEF WaitResultIsConjunction
<1>15. ~fAllOk' => bad' # {}
  BY <1>3 DEF Mid
<1>. QED
  BY <1>0, <1>4, <1>6, <1>7, <1>8, <1>9, <1>10, <1>12, <1>13, <1>14, <1>15
  DEF Inv, Pool, Sleepers

\* The master's return from Loop restores the invariant.
LEMMA ReturnRestores ==
    ASSUME NEW t, NEW total, NEW idle, NEW todo, NEW ok, NEW pcs,
           Mid(t, total, idle, todo, ok, pcs),
           ReturnFromLoop(t, total, idle, todo, ok, pcs),
           nTodo' = todo, UNCHANGED <<nAdded, bad, ran, leaked>>
    PROVE  Inv'
<1>0. /\ TypeOK /\ t \in Threads /\ total \in Nat /\ idle \in Nat /\ todo \in Nat
      /\ ok \in BOOLEAN /\ pcs \in [Threads -> WorkerPcs \cup MasterPcs]
      /\ leaked \in Nat /\ Checks' = Checks /\ queue \in SUBSET Checks
      /\ vChecks \in [Threads -> SUBSET Checks] /\ left \in [Threads -> SUBSET Checks]
      /\ fOk \in [Threads -> BOOLEAN]
      /\ Master \in Threads /\ t = Master /\ todo = 0
  BY DEF Mid, TypeOK, Checks, Threads, ReturnFromLoop
<1>1. /\ queue' = queue /\ left' = left /\ queue = {}
      /\ vChecks' = [vChecks EXCEPT ![t] = {}]
      /\ fOk' = [fOk EXCEPT ![t] = TRUE]
      /\ pc' = [pcs EXCEPT ![t] = "out"]
      /\ nTotal' = total - 1 /\ nIdle' = idle /\ fAllOk' = TRUE
      /\ fRet' = IF inDtor THEN "none" ELSE Result(ok)
      /\ inDtor' = FALSE /\ txdata' = FALSE
      /\ nAdded' = nAdded /\ bad' = bad /\ ran' = ran /\ leaked' = leaked
  BY DEF ReturnFromLoop, ResetStatus
<1>2. \A s \in Threads : vChecks'[s] = IF s = t THEN {} ELSE vChecks[s]
  BY <1>0, <1>1
<1>3. OthersOutstanding(t) = {}
  <2>1. IsFiniteSet(OthersOutstanding(t))
    BY <1>0, Finiteness DEF OthersOutstanding
  <2>. QED BY Zenon, <2>1, <1>0, FS_EmptySet DEF Mid
<1>4. Outstanding' = {}
  BY <1>0, <1>1, <1>2, <1>3 DEF Outstanding, OthersOutstanding
<1>5. total - 1 = Cardinality(Pool(pcs) \ {t}) + leaked
  <2>1. Cardinality(Pool(pcs) \ {t}) \in Nat
    BY <1>0, Finiteness DEF Pool
  <2>2. total = Cardinality(Pool(pcs) \ {t}) + 1 + leaked
    BY DEF Mid
  <2>. QED BY <2>1, <2>2, <1>0
<1>6. total - 1 \in Nat
  <2>1. Cardinality(Pool(pcs) \ {t}) \in Nat
    BY <1>0, Finiteness DEF Pool
  <2>. QED BY <2>1, <1>0, <1>5
<1>7. TypeOK'
  <2>1. /\ pc' \in [Threads -> WorkerPcs \cup MasterPcs]
        /\ \A w \in Workers : pc'[w] \in WorkerPcs
        /\ pc'[Master] \in MasterPcs
    BY <1>0, <1>1, CheckQueueAssumption DEF Mid, WorkerPcs, MasterPcs, Threads
  <2>2. /\ vChecks' \in [Threads -> SUBSET Checks]
        /\ left' \in [Threads -> SUBSET Checks]
        /\ fOk' \in [Threads -> BOOLEAN]
        /\ queue' \in SUBSET Checks
    BY <1>0, <1>1
  <2>3. fRet' \in Results
    BY <1>1 DEF Result, Results
  <2>. QED BY Zenon, <2>1, <2>2, <2>3, <1>0, <1>1, <1>6 DEF TypeOK
<1>8. nTodo' = Cardinality(Outstanding')
  BY <1>0, <1>4, FS_EmptySet
<1>9. /\ \A s \in Threads : vChecks'[s] \cap queue' = {}
      /\ \A s, u \in Threads : s # u => vChecks'[s] \cap vChecks'[u] = {}
  BY <1>0, <1>1, <1>2 DEF Mid
<1>10. \A s \in Threads : BatchOK(s, pc)'
  <2>. SUFFICES ASSUME NEW s \in Threads PROVE BatchOK(s, pc)'
    OBVIOUS
  <2>1. CASE s = t
    <3>1. vChecks'[s] = {} /\ left'[s] = {} /\ pc'[s] = "out"
      BY <2>1, <1>0, <1>1, <1>2 DEF Mid
    <3>. QED BY <3>1 DEF BatchOK
  <2>2. CASE s # t
    <3>1. /\ vChecks'[s] = vChecks[s] /\ left'[s] = left[s]
          /\ pc'[s] = pcs[s] /\ fOk'[s] = fOk[s]
      BY <2>2, <1>0, <1>1
    <3>2. BatchOK(s, pcs)
      BY <2>2 DEF Mid
    <3>. QED BY <3>1, <3>2, <1>1 DEF BatchOK
  <2>. QED BY <2>1, <2>2
<1>11. nTotal' = Cardinality(Pool(pc')) + leaked' /\ nIdle' = Cardinality(Sleepers(pc')) + leaked'
  <2>0. "out" \notin PoolPcs /\ "out" \notin SleepPcs
    BY DEF PoolPcs, SleepPcs
  <2>1. Pool(pc') = Pool(pcs) \ {t} /\ Sleepers(pc') = Sleepers(pcs) \ {t}
    BY Zenon, <2>0, <1>0, <1>1, PoolAfter
  <2>. QED BY <2>1, <1>1, <1>5 DEF Mid
<1>12. pc'[Master] = "out"
  BY <1>0, <1>1
<1>13. WaitResultIsConjunction'
  <2>1. pcs[Master] # "out"
    BY <1>0 DEF Mid
  <2>2. ok => bad = {} /\ ran = Checks
    BY <2>1, <1>0, <1>3 DEF Mid, TypeOK
  <2>3. ~ok => bad # {}
    BY DEF Mid
  <2>. QED BY <2>2, <2>3, <1>0, <1>1 DEF WaitResultIsConjunction, Result
<1>. QED
  BY Zenon, <1>0, <1>1, <1>4, <1>7, <1>8, <1>9, <1>10, <1>11, <1>12, <1>13
  DEF Inv, Pool, Sleepers

\* Going to sleep restores the invariant.
LEMMA WaitRestores ==
    ASSUME NEW t, NEW total, NEW idle, NEW todo, NEW ok, NEW pcs,
           Mid(t, total, idle, todo, ok, pcs),
           WaitOnCond(t, total, idle, todo, ok, pcs),
           nTodo' = todo, UNCHANGED <<nAdded, bad, ran, leaked>>
    PROVE  Inv'
<1>0. /\ TypeOK /\ t \in Threads /\ total \in Nat /\ idle \in Nat /\ todo \in Nat
      /\ ok \in BOOLEAN /\ pcs \in [Threads -> WorkerPcs \cup MasterPcs]
      /\ leaked \in Nat /\ Checks' = Checks /\ queue \in SUBSET Checks
      /\ vChecks \in [Threads -> SUBSET Checks] /\ left \in [Threads -> SUBSET Checks]
      /\ fOk \in [Threads -> BOOLEAN]
      /\ Master \in Threads
  BY DEF Mid, TypeOK, Checks, Threads
<1>1. /\ queue' = queue /\ left' = left /\ queue = {}
      /\ vChecks' = [vChecks EXCEPT ![t] = {}]
      /\ fOk' = fOk /\ fRet' = fRet /\ inDtor' = inDtor /\ txdata' = txdata
      /\ pc' = [pcs EXCEPT ![t] = "waiting"]
      /\ nTotal' = total /\ nIdle' = idle + 1 /\ fAllOk' = ok
      /\ nAdded' = nAdded /\ bad' = bad /\ ran' = ran /\ leaked' = leaked
      /\ ~(t = Master /\ todo = 0)
  BY DEF WaitOnCond
<1>2. \A s \in Threads : vChecks'[s] = IF s = t THEN {} ELSE vChecks[s]
  BY <1>0, <1>1
<1>3. Outstanding' = OthersOutstanding(t)
  BY <1>0, <1>1, <1>2 DEF Outstanding, OthersOutstanding
<1>4. TypeOK'
  <2>1. /\ pc' \in [Threads -> WorkerPcs \cup MasterPcs]
        /\ \A w \in Workers : pc'[w] \in WorkerPcs
        /\ pc'[Master] \in MasterPcs
    BY <1>0, <1>1 DEF Mid, WorkerPcs, MasterPcs, Threads
  <2>2. /\ vChecks' \in [Threads -> SUBSET Checks]
        /\ left' \in [Threads -> SUBSET Checks]
        /\ fOk' \in [Threads -> BOOLEAN]
        /\ queue' \in SUBSET Checks
    BY <1>0, <1>1
  <2>. QED BY <2>1, <2>2, <1>0, <1>1 DEF TypeOK
<1>5. nTodo' = Cardinality(Outstanding')
  BY Zenon, <1>3 DEF Mid
<1>6. /\ \A s \in Threads : vChecks'[s] \cap queue' = {}
      /\ \A s, u \in Threads : s # u => vChecks'[s] \cap vChecks'[u] = {}
  BY Zenon, <1>0, <1>1, <1>2 DEF Mid
<1>7. \A s \in Threads : BatchOK(s, pc)'
  <2>. SUFFICES ASSUME NEW s \in Threads PROVE BatchOK(s, pc)'
    OBVIOUS
  <2>1. CASE s = t
    <3>1. vChecks'[s] = {} /\ left'[s] = {} /\ pc'[s] = "waiting"
      BY <2>1, <1>0, <1>1, <1>2 DEF Mid
    <3>. QED BY <3>1 DEF BatchOK
  <2>2. CASE s # t
    <3>1. /\ vChecks'[s] = vChecks[s] /\ left'[s] = left[s]
          /\ pc'[s] = pcs[s] /\ fOk'[s] = fOk[s]
      BY <2>2, <1>0, <1>1
    <3>2. BatchOK(s, pcs)
      BY <2>2 DEF Mid
    <3>. QED BY Zenon, <3>1, <3>2, <1>1 DEF BatchOK
  <2>. QED BY <2>1, <2>2
<1>8. nTotal' = Cardinality(Pool(pc')) + leaked' /\ nIdle' = Cardinality(Sleepers(pc')) + leaked'
  <2>0. "waiting" \in PoolPcs /\ "waiting" \in SleepPcs
    BY DEF PoolPcs, SleepPcs
  <2>1. /\ Pool(pc') = (Pool(pcs) \ {t}) \cup {t}
        /\ Sleepers(pc') = (Sleepers(pcs) \ {t}) \cup {t}
    BY Zenon, <2>0, <1>0, <1>1, PoolAfter
  <2>2. /\ IsFiniteSet(Pool(pcs)) /\ Cardinality(Pool(pcs) \ {t}) \in Nat
        /\ IsFiniteSet(Sleepers(pcs)) /\ Cardinality(Sleepers(pcs) \ {t}) \in Nat
    BY <1>0, Finiteness DEF Pool, Sleepers
  <2>3. /\ Cardinality(Pool(pc')) = Cardinality(Pool(pcs) \ {t}) + 1
        /\ Cardinality(Sleepers(pc')) = Cardinality(Sleepers(pcs) \ {t}) + 1
    BY Zenon, <2>1, <2>2, CardinalityOfAdded
  <2>4. /\ total = Cardinality(Pool(pcs) \ {t}) + 1 + leaked
        /\ idle = Cardinality(Sleepers(pcs) \ {t}) + leaked
    BY DEF Mid
  <2>. QED BY <2>2, <2>3, <2>4, <1>0, <1>1
<1>9. pc'[Master] = "out" => Outstanding' = {} /\ fAllOk'
  BY <1>0, <1>1, <1>3 DEF Mid
<1>10. pc'[Master] = "waiting" => queue' = {} /\ Outstanding' # {}
  <2>1. CASE t = Master
    BY Zenon, <2>1, <1>1, <1>3, FS_EmptySet DEF Mid
  <2>2. CASE t # Master
    BY <2>2, <1>0, <1>1, <1>3 DEF Mid
  <2>. QED BY <2>1, <2>2
<1>11. pc'[Master] # "out" => fRet' = "none" /\ pcs[Master] # "out"
  BY <1>0, <1>1 DEF Mid
<1>12. fAllOk' /\ pc'[Master] # "out" =>
          \A c \in Checks \ Outstanding' : c \in ran' /\ c \notin bad'
  BY <1>1, <1>3, <1>11 DEF Mid
<1>13. WaitResultIsConjunction'
  BY <1>0, <1>1 DEF WaitResultIsConjunction, Mid
<1>14. ~fAllOk' => bad' # {}
  BY <1>1 DEF Mid
<1>. QED
  BY Zenon, <1>0, <1>4, <1>5, <1>6, <1>7, <1>8, <1>9, <1>10, <1>11, <1>12, <1>13, <1>14
  DEF Inv, Pool, Sleepers

-----------------------------------------------------------------------------
\* Whatever a thread decides at the end of the critical section, Inv holds.
LEMMA LoopBodyRestores ==
    ASSUME NEW t, NEW total, NEW idle, NEW todo, NEW ok, NEW pcs,
           Mid(t, total, idle, todo, ok, pcs),
           LoopBody(t, total, idle, todo, ok, pcs),
           nTodo' = todo, UNCHANGED <<nAdded, bad, ran, leaked>>
    PROVE  Inv'
BY TakeBatchRestores, ReturnRestores, WaitRestores DEF LoopBody

\* Running one check outside the mutex.
LEMMA RunCheckKeepsInv ==
    ASSUME Inv, NEW t \in Threads, RunCheck(t)
    PROVE  Inv'
<1>1. PICK c \in left[t] :
          /\ left' = [left EXCEPT ![t] = @ \ {c}]
          /\ ran' = IF fOk[t] THEN ran \cup {c} ELSE ran
          /\ fOk' = [fOk EXCEPT ![t] = @ /\ c \notin bad]
  BY Zenon DEF RunCheck
<1>2. /\ UNCHANGED <<queue, nIdle, nTotal, nTodo, fAllOk, pc, vChecks, nAdded>>
      /\ UNCHANGED <<bad, fRet, inDtor, leaked, txdata>>
      /\ pc[t] = "run"
  BY DEF RunCheck, poolVars, sessionVars
<1>3. c \in vChecks[t] /\ c \in Checks /\ vChecks[t] # {} /\ TypeOK
  BY DEF Inv, BatchOK, TypeOK
<1>4. TypeOK'
  <2>1. /\ left' \in [Threads -> SUBSET Checks] /\ ran' \in SUBSET Checks
        /\ fOk' \in [Threads -> BOOLEAN]
    BY <1>1, <1>3 DEF TypeOK
  <2>. QED BY <2>1, <1>2, <1>3 DEF TypeOK, Checks
<1>5. Outstanding' = Outstanding /\ Checks' = Checks
  BY <1>2 DEF Outstanding, Checks
<1>6. \A s \in Threads : BatchOK(s, pc)'
  <2>. SUFFICES ASSUME NEW s \in Threads PROVE BatchOK(s, pc)'
    OBVIOUS
  <2>0. BatchOK(s, pc) /\ left \in [Threads -> SUBSET Checks] /\ fOk \in [Threads -> BOOLEAN]
    BY <1>3 DEF Inv, TypeOK
  <2>1. CASE s = t
    <3>1. left'[s] = left[s] \ {c} /\ fOk'[s] = (fOk[s] /\ c \notin bad)
      BY <2>0, <2>1, <1>1
    <3>. QED BY Zenon, <3>1, <2>0, <2>1, <1>1, <1>2, <1>3 DEF BatchOK
  <2>2. CASE s # t
    <3>1. left'[s] = left[s] /\ fOk'[s] = fOk[s]
      BY <2>0, <2>2, <1>1
    <3>. QED BY <3>1, <2>0, <1>1, <1>2 DEF BatchOK
  <2>. QED BY <2>1, <2>2
<1>7. pc[Master] # "out"
  BY <1>3 DEF Inv, Outstanding
<1>8. fRet' = "none" /\ WaitResultIsConjunction'
  BY <1>2, <1>7 DEF Inv, WaitResultIsConjunction
<1>9. fAllOk' => \A d \in Checks \ Outstanding' : d \in ran' /\ d \notin bad'
  BY <1>1, <1>2, <1>5, <1>7 DEF Inv
<1>. QED
  BY <1>2, <1>4, <1>5, <1>6, <1>7, <1>8, <1>9 DEF Inv, Pool, Sleepers

\* A new control object: the queue was idle and stays so.
LEMMA NewControlKeepsInv ==
    ASSUME Inv, NewControl
    PROVE  Inv'
<1>1. /\ UNCHANGED <<queue, nIdle, nTotal, nTodo, fAllOk, vChecks, left, fOk, inDtor, leaked>>
      /\ pc[Master] = "out" /\ pc' = [pc EXCEPT ![Master] = "adding"]
      /\ nAdded' = 0 /\ bad' = {} /\ ran' = {} /\ fRet' = "none" /\ txdata' = TRUE
  BY DEF NewControl, poolVars
<1>2. Master \in Threads /\ TypeOK /\ Outstanding = {} /\ fAllOk
  BY <1>1 DEF Threads, Inv
<1>3. Checks' = {} /\ Outstanding' = {}
  BY <1>1 DEF Checks, Outstanding
<1>4. queue = {} /\ \A t \in Threads : vChecks[t] = {} /\ left[t] = {}
  BY <1>2 DEF Outstanding, TypeOK, Inv, BatchOK
<1>5. \A t \in Threads : pc[t] # "run"
  BY <1>4 DEF Inv, BatchOK
<1>6. TypeOK'
  <2>1. /\ pc' \in [Threads -> WorkerPcs \cup MasterPcs]
        /\ \A w \in Workers : pc'[w] \in WorkerPcs
        /\ pc'[Master] \in MasterPcs
    BY <1>1, <1>2, CheckQueueAssumption DEF TypeOK, WorkerPcs, MasterPcs, Threads
  <2>2. vChecks' \in [Threads -> SUBSET Checks'] /\ left' \in [Threads -> SUBSET Checks']
    <3>1. vChecks = [t \in Threads |-> vChecks[t]] /\ left = [t \in Threads |-> left[t]]
      BY <1>2 DEF TypeOK
    <3>. QED BY <3>1, <1>1, <1>4
  <2>3. nAdded' \in 0 .. MaxChecks
    BY <1>1, CheckQueueAssumption
  <2>. QED BY <2>1, <2>2, <2>3, <1>1, <1>2, <1>4 DEF TypeOK, Results
<1>7. Pool(pc') = Pool(pc) /\ Sleepers(pc') = Sleepers(pc)
  BY <1>1, <1>2 DEF Pool, Sleepers, PoolPcs, SleepPcs, TypeOK
<1>8. \A t \in Threads : BatchOK(t, pc)'
  BY <1>1, <1>2, <1>4, <1>5 DEF BatchOK, TypeOK
<1>9. nTodo' = Cardinality(Outstanding')
  BY <1>1, <1>2, <1>3 DEF Inv
<1>10. pc'[Master] = "adding"
  BY <1>1, <1>2 DEF TypeOK
<1>11. WaitResultIsConjunction'
  BY <1>1 DEF WaitResultIsConjunction
<1>12. /\ \A t \in Threads : vChecks'[t] \cap queue' = {}
       /\ \A s, t \in Threads : s # t => vChecks'[s] \cap vChecks'[t] = {}
  BY <1>1 DEF Inv
<1>13. nTotal' = Cardinality(Pool(pc')) + leaked' /\ nIdle' = Cardinality(Sleepers(pc')) + leaked'
  BY <1>1, <1>7 DEF Inv
<1>. QED
  BY Zenon, <1>1, <1>2, <1>3, <1>6, <1>8, <1>9, <1>10, <1>11, <1>12, <1>13
  DEF Inv, Pool, Sleepers

\* Pushing n checks: they are new, so nTodo grows by exactly n.
LEMMA AddKeepsInv ==
    ASSUME Inv, NEW n \in 0 .. MaxChecks, Add(n)
    PROVE  Inv'
<1>. DEFINE new == (nAdded + 1) .. (nAdded + n)
<1>1. /\ UNCHANGED <<nIdle, nTotal, fAllOk, vChecks, left, fOk, ran, fRet, inDtor, leaked, txdata>>
      /\ pc[Master] = "adding" /\ nAdded + n <= MaxChecks
      /\ nAdded' = nAdded + n /\ queue' = queue \cup new /\ nTodo' = nTodo + n
  BY DEF Add, batchVars
<1>2. PICK fresh \in SUBSET new : bad' = bad \cup fresh
  BY DEF Add
<1>3. PICK woken \in Wakes(n) :
          pc' = [t \in Threads |-> IF t \in woken THEN "woken" ELSE pc[t]]
  BY DEF Add
<1>4. \A t \in woken : t \in Workers /\ pc[t] = "waiting"
  BY DEF Wakes, WaitingWorkers
<1>5. TypeOK /\ nAdded \in Nat /\ n \in Nat /\ Master \in Threads /\ Workers \subseteq Threads
  BY CheckQueueAssumption DEF Inv, TypeOK, Threads
<1>6. Checks' = Checks \cup new /\ Checks \cap new = {}
  BY <1>1, <1>5 DEF Checks
<1>7. \A t \in Threads : pc'[t] # pc[t] => pc[t] = "waiting" /\ pc'[t] = "woken" /\ t # Master
  BY <1>3, <1>4, CheckQueueAssumption
<1>8. TypeOK'
  <2>1. /\ pc' \in [Threads -> WorkerPcs \cup MasterPcs]
        /\ \A w \in Workers : pc'[w] \in WorkerPcs
        /\ pc'[Master] \in MasterPcs
    BY <1>3, <1>5, <1>7 DEF TypeOK, WorkerPcs, MasterPcs
  <2>2. nAdded' \in 0 .. MaxChecks /\ nTodo' \in Nat
    BY <1>1, <1>5, CheckQueueAssumption DEF TypeOK
  <2>3. /\ queue' \in SUBSET Checks' /\ bad' \in SUBSET Checks' /\ ran' \in SUBSET Checks'
        /\ vChecks' \in [Threads -> SUBSET Checks']
        /\ left' \in [Threads -> SUBSET Checks']
    BY Zenon, <1>1, <1>2, <1>5, <1>6 DEF TypeOK
  <2>. QED BY <2>1, <2>2, <2>3, <1>1, <1>5 DEF TypeOK
<1>9. Outstanding' = Outstanding \cup new /\ Outstanding \cap new = {}
  BY <1>1, <1>5, <1>6 DEF Outstanding, TypeOK
<1>10. nTodo' = Cardinality(Outstanding')
  <2>1. IsFiniteSet(new) /\ Cardinality(new) = n
    BY <1>5, FS_Interval
  <2>2. IsFiniteSet(Outstanding) /\ Cardinality(Outstanding) \in Nat
    BY <1>5, Finiteness DEF Outstanding
  <2>3. Cardinality(Outstanding \cup new) = Cardinality(Outstanding) + n - Cardinality({})
    BY Zenon, <2>1, <2>2, <1>9, FS_Union
  <2>4. Cardinality(Outstanding') = Cardinality(Outstanding) + n
    BY <2>2, <2>3, <1>5, <1>9, FS_EmptySet
  <2>. QED BY <2>4, <1>1 DEF Inv
<1>11. /\ \A t \in Threads : vChecks'[t] \cap queue' = {}
       /\ \A s, t \in Threads : s # t => vChecks'[s] \cap vChecks'[t] = {}
  <2>1. \A t \in Threads : vChecks[t] \cap new = {}
    BY <1>5, <1>6 DEF TypeOK
  <2>. QED BY <2>1, <1>1 DEF Inv
<1>12. \A t \in Threads : BatchOK(t, pc)'
  <2>. SUFFICES ASSUME NEW t \in Threads PROVE BatchOK(t, pc)'
    OBVIOUS
  <2>1. BatchOK(t, pc)
    BY Zenon DEF Inv
  <2>2. \A c \in vChecks[t] : c \notin fresh
    BY Zenon, <1>2, <1>5, <1>6 DEF TypeOK
  <2>. QED BY Zenon, <2>1, <2>2, <1>1, <1>2, <1>7 DEF BatchOK
<1>13. Pool(pc') = Pool(pc) /\ Sleepers(pc') = Sleepers(pc)
  BY <1>7 DEF Pool, Sleepers, PoolPcs, SleepPcs
<1>14. nTotal' = Cardinality(Pool(pc')) + leaked' /\ nIdle' = Cardinality(Sleepers(pc')) + leaked'
  BY <1>1, <1>13 DEF Inv
<1>15. pc'[Master] = "adding"
  BY <1>1, <1>5, <1>7
<1>16. fRet' = "none" /\ WaitResultIsConjunction'
  BY Zenon, <1>1 DEF Inv, WaitResultIsConjunction
<1>17. ~fAllOk' => bad' # {}
  BY Zenon, <1>1, <1>2 DEF Inv
<1>18. fAllOk' => \A c \in Checks' \ Outstanding' : c \in ran' /\ c \notin bad'
  <2>. SUFFICES ASSUME fAllOk, NEW c \in Checks' \ Outstanding'
               PROVE  c \in ran' /\ c \notin bad'
    BY <1>1
  <2>1. c \in Checks \ Outstanding /\ c \notin new
    BY <1>6, <1>9
  <2>. QED BY Zenon, <2>1, <1>1, <1>2 DEF Inv
<1>. QED
  BY Zenon, <1>8, <1>10, <1>11, <1>12, <1>14, <1>15, <1>16, <1>17, <1>18
  DEF Inv, Pool, Sleepers

\* Steps that move one sleeping or outside thread and nothing else.
LEMMA PcStepKeepsInv ==
    ASSUME Inv, NEW t \in Threads, NEW x, pc' = [pc EXCEPT ![t] = x],
           UNCHANGED <<poolVars, batchVars, nAdded, bad, fRet>>,
           t \in Workers => x \in WorkerPcs, t = Master => x \in MasterPcs,
           x \notin {"run", "out", "waiting"}, pc[t] \notin {"run", "out"},
           inDtor' \in BOOLEAN, txdata' \in BOOLEAN, leaked' \in {0, 1},
           Cardinality(Pool(pc')) + leaked' = Cardinality(Pool(pc)) + leaked,
           Cardinality(Sleepers(pc')) + leaked' = Cardinality(Sleepers(pc)) + leaked
    PROVE  Inv'
<1>1. UNCHANGED <<queue, nIdle, nTotal, nTodo, fAllOk, vChecks, left, fOk, ran, nAdded, bad, fRet>>
  BY DEF poolVars, batchVars
<1>2. TypeOK /\ Master \in Threads /\ Workers \subseteq Threads /\ Checks' = Checks
  BY <1>1 DEF Inv, Threads, Checks
<1>3. /\ \A s \in Threads : pc'[s] = IF s = t THEN x ELSE pc[s]
      /\ pc' \in [Threads -> WorkerPcs \cup MasterPcs]
  BY <1>2 DEF TypeOK, Threads
<1>4. TypeOK'
  <2>1. \A w \in Workers : pc'[w] \in WorkerPcs
    BY <1>2, <1>3 DEF TypeOK
  <2>2. pc'[Master] \in MasterPcs
    BY <1>2, <1>3 DEF TypeOK
  <2>. QED BY <2>1, <2>2, <1>1, <1>2, <1>3 DEF TypeOK
<1>5. Outstanding' = Outstanding
  BY <1>1, <1>2 DEF Outstanding
<1>6. \A s \in Threads : BatchOK(s, pc)'
  BY <1>1, <1>3 DEF Inv, BatchOK
<1>7. WaitResultIsConjunction'
  BY <1>1, <1>2 DEF Inv, WaitResultIsConjunction
<1>8. /\ pc'[Master] = "out" => pc[Master] = "out"
      /\ pc'[Master] = "waiting" => pc[Master] = "waiting"
      /\ pc'[Master] # "out" => pc[Master] # "out"
  BY <1>2, <1>3
<1>. QED
  BY Zenon, <1>1, <1>2, <1>4, <1>5, <1>6, <1>7, <1>8 DEF Inv, Pool, Sleepers

\* Every step of the specification preserves the invariant.
LEMMA NextKeepsInv == Inv /\ [Next]_vars => Inv'
<1>. SUFFICES ASSUME Inv, [Next]_vars PROVE Inv'
  OBVIOUS
<1>0. TypeOK /\ Master \in Threads /\ Workers \subseteq Threads
  BY DEF Inv, Threads
<1>1. ASSUME NEW t \in Threads, EnterLoop(t) PROVE Inv'
  <2>1. Mid(t, nTotal + 1, nIdle, nTodo, fAllOk, pc)
    BY <1>1, MidOfEnter DEF EnterLoop
  <2>. QED BY <2>1, <1>1, LoopBodyRestores DEF EnterLoop
<1>2. ASSUME NEW t \in Threads, ResumeLoop(t) PROVE Inv'
  <2>1. Mid(t, nTotal, nIdle - 1, nTodo, fAllOk, pc)
    BY <1>2, MidOfResume DEF ResumeLoop
  <2>. QED BY <2>1, <1>2, LoopBodyRestores DEF ResumeLoop
<1>3. ASSUME NEW t \in Threads, FinishBatch(t) PROVE Inv'
  <2>. DEFINE todo == nTodo - Cardinality(vChecks[t])
              ok == fAllOk /\ fOk[t]
              pcs == IF todo = 0 /\ t # Master THEN NotifyMaster ELSE pc
  <2>1. /\ pc[t] = "run" /\ left[t] = {} /\ nTodo' = todo
        /\ LoopBody(t, nTotal, nIdle, todo, ok, pcs)
        /\ UNCHANGED <<nAdded, bad, ran, leaked>>
    BY <1>3 DEF FinishBatch, TodoAfter, AllOkAfter
  <2>2. Mid(t, nTotal, nIdle, todo, ok, pcs)
    <3>. HIDE DEF todo, ok, pcs
    <3>. QED BY Zenon, <2>1, MidOfFinish DEF todo, ok, pcs
  <2>. HIDE DEF todo, ok, pcs
  <2>. QED BY <2>1, <2>2, LoopBodyRestores
<1>4. ASSUME NEW t \in Threads, RunCheck(t) PROVE Inv'
  BY <1>4, RunCheckKeepsInv
<1>5. CASE NewControl
  BY <1>5, NewControlKeepsInv
<1>6. ASSUME NEW n \in 0 .. MaxChecks, Add(n) PROVE Inv'
  BY <1>6, AddKeepsInv
<1>7. ASSUME CallWait \/ EarlyReturn PROVE Inv'
  <2>1. /\ pc[Master] = "adding" /\ pc' = [pc EXCEPT ![Master] = "enter"]
        /\ UNCHANGED <<poolVars, batchVars, nAdded, bad, fRet, leaked>>
        /\ inDtor' \in BOOLEAN /\ txdata' \in BOOLEAN /\ leaked' \in {0, 1}
    BY Zenon, <1>0, <1>7 DEF CallWait, EarlyReturn, sessionVars, TypeOK
  <2>2. Pool(pc') = Pool(pc) /\ Sleepers(pc') = Sleepers(pc)
    BY <2>1, <1>0 DEF Pool, Sleepers, PoolPcs, SleepPcs, TypeOK
  <2>3. /\ Cardinality(Pool(pc')) + leaked' = Cardinality(Pool(pc)) + leaked
        /\ Cardinality(Sleepers(pc')) + leaked' = Cardinality(Sleepers(pc)) + leaked
    BY <2>1, <2>2
  <2>4. "enter" \in MasterPcs /\ Master \notin Workers
    BY CheckQueueAssumption DEF MasterPcs
  <2>. QED BY Zenon, <2>1, <2>3, <2>4, <1>0, PcStepKeepsInv
<1>8. ASSUME NEW t \in Threads, SpuriousWakeup(t) PROVE Inv'
  <2>1. /\ pc[t] = "waiting" /\ pc' = [pc EXCEPT ![t] = "woken"]
        /\ UNCHANGED <<poolVars, batchVars, nAdded, bad, fRet, leaked, inDtor, txdata>>
    BY <1>8 DEF SpuriousWakeup, sessionVars
  <2>2. Pool(pc') = Pool(pc) /\ Sleepers(pc') = Sleepers(pc)
    BY <2>1, <1>0 DEF Pool, Sleepers, PoolPcs, SleepPcs, TypeOK
  <2>3. "woken" \in WorkerPcs /\ "woken" \in MasterPcs
    BY DEF WorkerPcs, MasterPcs
  <2>4. inDtor' \in BOOLEAN /\ txdata' \in BOOLEAN /\ leaked' \in {0, 1}
    BY <2>1, <1>0 DEF TypeOK
  <2>. QED BY Zenon, <2>1, <2>2, <2>3, <2>4, PcStepKeepsInv
<1>9. ASSUME NEW w \in Workers, InterruptWorker(w) PROVE Inv'
  <2>1. /\ pc[w] \in {"waiting", "woken"} /\ pc' = [pc EXCEPT ![w] = "dead"]
        /\ UNCHANGED <<poolVars, batchVars, nAdded, bad, fRet, leaked, inDtor, txdata>>
    BY <1>9 DEF InterruptWorker, sessionVars
  <2>2. Pool(pc') = Pool(pc) /\ Sleepers(pc') = Sleepers(pc)
    BY <2>1, <1>0 DEF Pool, Sleepers, PoolPcs, SleepPcs, TypeOK
  <2>3. "dead" \in WorkerPcs /\ w # Master /\ w \in Threads
    BY <1>0, CheckQueueAssumption DEF WorkerPcs
  <2>4. inDtor' \in BOOLEAN /\ txdata' \in BOOLEAN /\ leaked' \in {0, 1}
    BY <2>1, <1>0 DEF TypeOK
  <2>. QED BY Zenon, <2>1, <2>2, <2>3, <2>4, PcStepKeepsInv
<1>10. CASE InterruptMaster
  <2>1. /\ pc[Master] \in {"waiting", "woken"} /\ pc' = [pc EXCEPT ![Master] = "enter"]
        /\ UNCHANGED <<poolVars, batchVars, nAdded, bad, fRet>>
        /\ leaked = 0 /\ leaked' = 1 /\ inDtor' = TRUE /\ txdata' = FALSE
    BY <1>10 DEF InterruptMaster
  <2>2. pc \in [Threads -> WorkerPcs \cup MasterPcs]
    BY <1>0 DEF TypeOK
  <2>3. "enter" \notin PoolPcs /\ "enter" \notin SleepPcs
    BY DEF PoolPcs, SleepPcs
  <2>4. Pool(pc') = Pool(pc) \ {Master} /\ Sleepers(pc') = Sleepers(pc) \ {Master}
    BY Zenon, <2>1, <2>2, <2>3, <1>0, PoolAfter
  <2>5. Master \in Pool(pc) /\ Master \in Sleepers(pc)
    BY <2>1, <1>0 DEF Pool, Sleepers, PoolPcs, SleepPcs
  <2>6. /\ IsFiniteSet(Pool(pc)) /\ Cardinality(Pool(pc)) \in Nat
        /\ IsFiniteSet(Sleepers(pc)) /\ Cardinality(Sleepers(pc)) \in Nat
    BY <1>0, Finiteness DEF Pool, Sleepers
  <2>7. /\ Cardinality(Pool(pc')) = Cardinality(Pool(pc)) - 1
        /\ Cardinality(Sleepers(pc')) = Cardinality(Sleepers(pc)) - 1
    BY Zenon, <2>4, <2>5, <2>6, FS_RemoveElement
  <2>8. /\ Cardinality(Pool(pc')) + leaked' = Cardinality(Pool(pc)) + leaked
        /\ Cardinality(Sleepers(pc')) + leaked' = Cardinality(Sleepers(pc)) + leaked
    BY <2>1, <2>6, <2>7
  <2>9. "enter" \in MasterPcs /\ Master \notin Workers
    BY CheckQueueAssumption DEF MasterPcs
  <2>. QED BY Zenon, <2>1, <2>8, <2>9, <1>0, PcStepKeepsInv
<1>11. CASE UNCHANGED vars
  <2>1. UNCHANGED <<queue, nIdle, nTotal, nTodo, fAllOk, pc, vChecks, left, fOk, ran,
                    nAdded, bad, fRet, inDtor, leaked, txdata>>
    BY <1>11 DEF vars, poolVars, batchVars, sessionVars
  <2>2. TypeOK'
    BY <2>1 DEF Inv, TypeOK, Checks
  <2>3. /\ Checks' = Checks /\ Outstanding' = Outstanding
        /\ Pool(pc)' = Pool(pc) /\ Sleepers(pc)' = Sleepers(pc)
    BY <2>1 DEF Checks, Outstanding, Pool, Sleepers
  <2>4. \A t \in Threads : BatchOK(t, pc)'
    BY <2>1 DEF Inv, BatchOK
  <2>5. WaitResultIsConjunction'
    BY <2>1, <2>3 DEF Inv, WaitResultIsConjunction
  <2>. QED
    BY Zenon, <2>1, <2>2, <2>3, <2>4, <2>5 DEF Inv
<1>. QED
  BY <1>1, <1>2, <1>3, <1>4, <1>5, <1>6, <1>7, <1>8, <1>9, <1>10, <1>11 DEF Next, LoopStep

-----------------------------------------------------------------------------
\* Inv holds in every reachable state of the queue.
THEOREM InvHolds == Spec => []Inv
BY InitInv, NextKeepsInv, PTL DEF Spec

\* Every variable keeps its type; in particular nTodo, nIdle and nTotal (an
\* unsigned and two ints in checkqueue.h) never go below zero.
THEOREM TypeCorrect == Spec => []TypeOK
<1>1. Inv => TypeOK
  BY DEF Inv
<1>. QED BY <1>1, InvHolds, PTL

\* The assertion in CCheckQueueControl's constructor never fails, for any
\* number of workers and however interruptions and wake-ups fall.
THEOREM ControlAlwaysFindsQueueIdle == Spec => []ControlFindsQueueIdle
<1>1. Inv => ControlFindsQueueIdle
  <2>. SUFFICES ASSUME Inv, pc[Master] = "out" PROVE IsIdle
    BY DEF ControlFindsQueueIdle
  <2>1. Outstanding = {} /\ fAllOk /\ TypeOK
    BY DEF Inv
  <2>2. nTodo = 0
    BY <2>1, FS_EmptySet DEF Inv
  <2>3. \A t \in Threads : vChecks[t] = {}
    BY <2>1 DEF Outstanding, TypeOK
  <2>4. \A t \in Threads : pc[t] # "run"
    BY <2>3 DEF Inv, BatchOK
  <2>5. Pool(pc) = Sleepers(pc)
    BY <2>4 DEF Pool, Sleepers, PoolPcs, SleepPcs
  <2>6. nTotal = nIdle
    BY <2>5 DEF Inv
  <2>. QED BY <2>1, <2>2, <2>6 DEF IsIdle
<1>. QED BY <1>1, InvHolds, PTL

\* Wait's result is the conjunction of all the checks of the block, each run.
THEOREM WaitResultCorrect == Spec => []WaitResultIsConjunction
<1>1. Inv => WaitResultIsConjunction
  BY DEF Inv
<1>. QED BY <1>1, InvHolds, PTL

\* nTodo is exact and no check is in two places.
THEOREM TodoCorrect == Spec => []TodoCountsOutstanding
<1>1. Inv => TodoCountsOutstanding
  BY DEF Inv, TodoCountsOutstanding
<1>. QED BY <1>1, InvHolds, PTL

\* A sleeping master has a busy worker that will wake it.
THEOREM MasterNeverSleepsAlone == Spec => []MasterSleepsOnlyOnBusyWorker
<1>1. Inv => MasterSleepsOnlyOnBusyWorker
  <2>. SUFFICES ASSUME Inv, pc[Master] = "waiting" PROVE \E w \in Workers : pc[w] = "run"
    BY DEF MasterSleepsOnlyOnBusyWorker
  <2>1. PICK c \in Checks : c \in queue \/ \E t \in Threads : c \in vChecks[t]
    BY DEF Inv, Outstanding
  <2>2. PICK t \in Threads : c \in vChecks[t]
    BY <2>1 DEF Inv
  <2>3. pc[t] = "run"
    BY <2>2 DEF Inv, BatchOK
  <2>. QED BY <2>3 DEF Threads
<1>. QED BY <1>1, InvHolds, PTL

\* While ConnectBlock runs and has not left early, its txdata exists.
DataInv == pc[Master] # "out" /\ ~inDtor => txdata

\* A queued or running check never points into a txdata that is gone, as long as
\* ConnectBlock does not leave early: Wait returns only when nothing is outstanding.
THEOREM DataOutlivesChecks == Spec => []CheckedDataIsAlive
<1>1. Init => DataInv
  BY DEF Init, DataInv, Threads
<1>2. DataInv /\ Inv /\ [Next]_vars => DataInv'
  <2>. SUFFICES ASSUME DataInv, Inv, [Next]_vars PROVE DataInv'
    OBVIOUS
  <2>0. /\ Master \in Threads /\ Workers \subseteq Threads /\ Master \notin Workers
        /\ pc \in [Threads -> WorkerPcs \cup MasterPcs]
    BY CheckQueueAssumption DEF Inv, TypeOK, Threads
  <2>1. ASSUME NEW t \in Threads, NEW total, NEW idle, NEW todo, NEW ok, NEW pcs,
               pcs \in [Threads -> WorkerPcs \cup MasterPcs],
               pcs[Master] # "out" => pc[Master] # "out",
               t = Master => pc[Master] # "out",
               LoopBody(t, total, idle, todo, ok, pcs)
        PROVE  DataInv'
    <3>1. CASE ReturnFromLoop(t, total, idle, todo, ok, pcs)
      BY <2>0, <2>1, <3>1 DEF ReturnFromLoop, DataInv
    <3>2. CASE TakeBatch(t, total, idle, ok, pcs) \/ WaitOnCond(t, total, idle, todo, ok, pcs)
      <4>1. /\ inDtor' = inDtor /\ txdata' = txdata
            /\ \E p \in {"run", "waiting"} : pc' = [pcs EXCEPT ![t] = p]
        BY <3>2 DEF TakeBatch, WaitOnCond
      <4>2. pc'[Master] # "out" => pc[Master] # "out"
        BY <2>0, <2>1, <4>1
      <4>. QED BY <4>1, <4>2 DEF DataInv
    <3>. QED BY <2>1, <3>1, <3>2 DEF LoopBody
  <2>2. ASSUME NEW t \in Threads, LoopStep(t) PROVE DataInv'
    <3>1. CASE EnterLoop(t)
      BY <2>0, <2>1, <3>1 DEF EnterLoop
    <3>2. CASE ResumeLoop(t)
      BY <2>0, <2>1, <3>2 DEF ResumeLoop
    <3>3. CASE FinishBatch(t)
      <4>. DEFINE pcs == IF TodoAfter(t) = 0 /\ t # Master THEN NotifyMaster ELSE pc
      <4>1. pc[t] = "run" /\ LoopBody(t, nTotal, nIdle, TodoAfter(t), AllOkAfter(t), pcs)
        BY <3>3 DEF FinishBatch
      <4>2. /\ pcs \in [Threads -> WorkerPcs \cup MasterPcs]
            /\ pcs[Master] # "out" => pc[Master] # "out"
        BY <2>0 DEF NotifyMaster, WorkerPcs
      <4>. HIDE DEF pcs
      <4>. QED BY <2>1, <4>1, <4>2
    <3>4. CASE RunCheck(t)
      BY <3>4 DEF RunCheck, DataInv, sessionVars
    <3>. QED BY <2>2, <3>1, <3>2, <3>3, <3>4 DEF LoopStep
  <2>3. CASE NewControl \/ CallWait \/ EarlyReturn \/ InterruptMaster
    BY <2>0, <2>3 DEF NewControl, CallWait, EarlyReturn, InterruptMaster, DataInv, sessionVars
  <2>4. ASSUME NEW n \in 0 .. MaxChecks, Add(n) PROVE DataInv'
    <3>1. /\ pc[Master] = "adding" /\ inDtor' = inDtor /\ txdata' = txdata
      BY <2>4 DEF Add
    <3>. QED BY <3>1 DEF DataInv
  <2>5. ASSUME NEW t \in Threads, SpuriousWakeup(t) PROVE DataInv'
    BY <2>0, <2>5 DEF SpuriousWakeup, DataInv, sessionVars
  <2>6. ASSUME NEW w \in Workers, InterruptWorker(w) PROVE DataInv'
    BY <2>0, <2>6 DEF InterruptWorker, DataInv, sessionVars
  <2>7. CASE UNCHANGED vars
    BY <2>7 DEF vars, sessionVars, DataInv
  <2>. QED BY <2>2, <2>3, <2>4, <2>5, <2>6, <2>7 DEF Next
<1>3. DataInv /\ Inv => CheckedDataIsAlive
  BY DEF DataInv, Inv, CheckedDataIsAlive
<1>. QED BY <1>1, <1>2, <1>3, InvHolds, PTL DEF Spec
=============================================================================

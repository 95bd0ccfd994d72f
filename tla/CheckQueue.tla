------------------------------ MODULE CheckQueue ------------------------------
(***************************************************************************)
(* The script-check queue of checkqueue.h (CCheckQueue, CCheckQueueControl) *)
(* and the way ConnectBlock of validation.cpp drives it.                    *)
(*                                                                          *)
(* One master thread (whoever runs ConnectBlock, under cs_main) pushes the  *)
(* script checks of a block; worker threads (ThreadScriptCheck) pop batches *)
(* from the back of the queue and run them outside the mutex.  The master   *)
(* then joins the pool in Wait() until nothing is left to do.               *)
(*                                                                          *)
(* An action is the code between two points where the thread does not hold  *)
(* CCheckQueue::mutex, or one check run outside it.  A check is its number  *)
(* in the order of its push: the numbers in the queue are always ascending, *)
(* so "pop from the back" is "take the largest".  fQuit is never set by the *)
(* program, so it is left out.                                              *)
(***************************************************************************)
EXTENDS Integers, FiniteSets

CONSTANTS
    Workers,     \* the threads running ThreadScriptCheck
    Master,      \* the thread running ConnectBlock
    BatchSize,   \* nBatchSize, 128 in validation.cpp
    MaxChecks,   \* bound: the checks of one block
    MaxBad       \* bound: those among them that fail

ASSUME CheckQueueAssumption ==
    /\ IsFiniteSet(Workers)
    /\ Master \notin Workers
    /\ BatchSize \in Nat \ {0}
    /\ MaxChecks \in Nat /\ MaxBad \in Nat

VARIABLES
    queue,      \* CCheckQueue::queue, the checks nobody has taken yet
    nIdle,      \* CCheckQueue::nIdle
    nTotal,     \* CCheckQueue::nTotal
    nTodo,      \* CCheckQueue::nTodo
    fAllOk,     \* CCheckQueue::fAllOk
    pc,         \* where each thread is
    vChecks,    \* Loop's local vChecks: the batch a thread took
    left,       \* the part of that batch the thread has not run through yet
    fOk,        \* Loop's local fOk
    nAdded,     \* checks pushed by this ConnectBlock: they are 1 .. nAdded
    bad,        \* those among them whose operator() returns false
    ran,        \* history: those whose operator() has been called
    fRet,       \* what control.Wait() returned to ConnectBlock
    inDtor,     \* Wait is being run by ~CCheckQueueControl
    leaked,     \* thread_interrupted escaped the master's Wait this many times
    txdata      \* ConnectBlock's local vector txdata still exists

poolVars    == <<queue, nIdle, nTotal, nTodo, fAllOk>>
batchVars   == <<vChecks, left, fOk, ran>>
sessionVars == <<nAdded, bad, fRet, inDtor, leaked, txdata>>
vars == <<poolVars, pc, batchVars, sessionVars>>

Threads == Workers \cup {Master}
Checks  == 1 .. nAdded

\* What ConnectBlock knows of the last block: nothing, or Wait's result.
Results == {"none", "ok", "failed"}
Result(b) == IF b THEN "ok" ELSE "failed"

WorkerPcs == {"start", "waiting", "woken", "run", "dead"}
MasterPcs == {"out", "adding", "enter", "waiting", "woken", "run"}

TypeOK ==
    /\ nAdded \in 0 .. MaxChecks
    /\ queue \in SUBSET Checks
    /\ nIdle \in Nat
    /\ nTotal \in Nat
    /\ nTodo \in Nat
    /\ fAllOk \in BOOLEAN
    /\ pc \in [Threads -> WorkerPcs \cup MasterPcs]
    /\ \A w \in Workers : pc[w] \in WorkerPcs
    /\ pc[Master] \in MasterPcs
    /\ vChecks \in [Threads -> SUBSET Checks]
    /\ left \in [Threads -> SUBSET Checks]
    /\ fOk \in [Threads -> BOOLEAN]
    /\ bad \in SUBSET Checks
    /\ ran \in SUBSET Checks
    /\ fRet \in Results
    /\ inDtor \in BOOLEAN
    /\ leaked \in {0, 1}
    /\ txdata \in BOOLEAN

Init ==
    /\ queue = {}
    /\ nIdle = 0
    /\ nTotal = 0
    /\ nTodo = 0
    /\ fAllOk = TRUE
    /\ pc = [t \in Threads |-> IF t = Master THEN "out" ELSE "start"]
    /\ vChecks = [t \in Threads |-> {}]
    /\ left = [t \in Threads |-> {}]
    /\ fOk = [t \in Threads |-> TRUE]
    /\ nAdded = 0
    /\ bad = {}
    /\ ran = {}
    /\ fRet = "none"
    /\ inDtor = FALSE
    /\ leaked = 0
    /\ txdata = FALSE

-----------------------------------------------------------------------------
(* Loop, the critical section.                                              *)

\* How many checks to take: max(1, min(nBatchSize, size / (total+idle+1))).
NNow(size, total, idle) ==
    LET share == size \div (total + idle + 1)
        capped == IF share < BatchSize THEN share ELSE BatchSize
    IN  IF capped < 1 THEN 1 ELSE capped

\* The batches that popping n checks from the back of the queue can yield.
Backs(n) ==
    {b \in SUBSET queue :
        /\ Cardinality(b) = n
        /\ \A x \in b, y \in queue \ b : y < x}

\* The queue is not empty: take a batch and leave the critical section.
TakeBatch(t, total, idle, ok, pcs) ==
    /\ queue # {}
    /\ \E b \in Backs(NNow(Cardinality(queue), total, idle)) :
        /\ queue' = queue \ b
        /\ vChecks' = [vChecks EXCEPT ![t] = b]
        /\ left' = [left EXCEPT ![t] = b]
    /\ fOk' = [fOk EXCEPT ![t] = ok]
    /\ pc' = [pcs EXCEPT ![t] = "run"]
    /\ nTotal' = total
    /\ nIdle' = idle
    /\ fAllOk' = ok
    /\ UNCHANGED <<fRet, inDtor, txdata>>

\* What the master leaves in fAllOk when it returns; the slip keeps it.
KeepStatus(ok) == ok
ResetStatus(ok) == TRUE

\* Nothing to take and nothing outstanding: the master returns.
ReturnFromLoop(t, total, idle, todo, ok, pcs) ==
    /\ queue = {}
    /\ t = Master
    /\ todo = 0
    /\ nTotal' = total - 1
    /\ nIdle' = idle
    /\ fAllOk' = ResetStatus(ok)
    /\ fRet' = IF inDtor THEN "none" ELSE Result(ok)
    /\ pc' = [pcs EXCEPT ![t] = "out"]
    /\ vChecks' = [vChecks EXCEPT ![t] = {}]
    /\ fOk' = [fOk EXCEPT ![t] = TRUE]
    /\ inDtor' = FALSE
    /\ txdata' = FALSE
    /\ UNCHANGED <<queue, left>>

\* Nothing to take: wait on the thread's condition variable.
WaitOnCond(t, total, idle, todo, ok, pcs) ==
    /\ queue = {}
    /\ ~(t = Master /\ todo = 0)
    /\ nTotal' = total
    /\ nIdle' = idle + 1
    /\ fAllOk' = ok
    /\ pc' = [pcs EXCEPT ![t] = "waiting"]
    /\ vChecks' = [vChecks EXCEPT ![t] = {}]
    /\ UNCHANGED <<queue, left, fOk, fRet, inDtor, txdata>>

LoopBody(t, total, idle, todo, ok, pcs) ==
    \/ TakeBatch(t, total, idle, ok, pcs)
    \/ ReturnFromLoop(t, total, idle, todo, ok, pcs)
    \/ WaitOnCond(t, total, idle, todo, ok, pcs)

\* First iteration: the thread joins the pool.
EnterLoop(t) ==
    /\ pc[t] = (IF t = Master THEN "enter" ELSE "start")
    /\ LoopBody(t, nTotal + 1, nIdle, nTodo, fAllOk, pc)
    /\ UNCHANGED <<nTodo, nAdded, bad, ran, leaked>>

\* Back from cond.wait, with the mutex again.
ResumeLoop(t) ==
    /\ pc[t] = "woken"
    /\ LoopBody(t, nTotal, nIdle - 1, nTodo, fAllOk, pc)
    /\ UNCHANGED <<nTodo, nAdded, bad, ran, leaked>>

\* Slip: the last worker does not notify.
NotifyNobody == pc

\* condMaster.notify_one()
NotifyMaster ==
    IF pc[Master] = "waiting" THEN [pc EXCEPT ![Master] = "woken"] ELSE pc

\* Slips: "fAllOk = fOk", and nTodo counting the queue only.
OverwriteAllOk(t) == fOk[t]
TodoInQueue(t) == Cardinality(queue)

\* fAllOk &= fOk, and nTodo -= nNow.
AllOkAfter(t) == fAllOk /\ fOk[t]
TodoAfter(t) == nTodo - Cardinality(vChecks[t])

\* Later iterations: account for the finished batch, then look for the next.
FinishBatch(t) ==
    LET todo == TodoAfter(t)
        ok == AllOkAfter(t)
        pcs == IF todo = 0 /\ t # Master THEN NotifyMaster ELSE pc
    IN  /\ pc[t] = "run"
        /\ left[t] = {}
        /\ nTodo' = todo
        /\ LoopBody(t, nTotal, nIdle, todo, ok, pcs)
        /\ UNCHANGED <<nAdded, bad, ran, leaked>>

\* Outside the mutex: the next check of the batch, skipped once fOk is false.
RunCheck(t) ==
    /\ pc[t] = "run"
    /\ \E c \in left[t] :
        /\ \A d \in left[t] : d <= c
        /\ left' = [left EXCEPT ![t] = @ \ {c}]
        /\ ran' = IF fOk[t] THEN ran \cup {c} ELSE ran
        /\ fOk' = [fOk EXCEPT ![t] = @ /\ c \notin bad]
    /\ UNCHANGED <<poolVars, pc, vChecks, sessionVars>>

-----------------------------------------------------------------------------
(* The master's side: ConnectBlock and CCheckQueueControl.                  *)

IsIdle == nTotal = nIdle /\ nTodo = 0 /\ fAllOk

\* ConnectBlock constructs its control object (which asserts IsIdle; the
\* assertion is the invariant ControlFindsQueueIdle) and its locals.
NewControl ==
    /\ pc[Master] = "out"
    /\ pc' = [pc EXCEPT ![Master] = "adding"]
    /\ nAdded' = 0
    /\ bad' = {}
    /\ ran' = {}
    /\ fRet' = "none"
    /\ txdata' = TRUE
    /\ UNCHANGED <<poolVars, vChecks, left, fOk, inDtor, leaked>>

\* Which workers Add wakes: none, one, or all that wait on condWorker.
WaitingWorkers == {w \in Workers : pc[w] = "waiting"}

Wakes(n) ==
    IF n = 0 \/ WaitingWorkers = {} THEN {{}}
    ELSE IF n = 1 THEN {{w} : w \in WaitingWorkers}
    ELSE {WaitingWorkers}

\* control.Add(vChecks) with the n checks of one transaction.
Add(n) ==
    /\ pc[Master] = "adding"
    /\ nAdded + n <= MaxChecks
    /\ \E fresh \in SUBSET ((nAdded + 1) .. (nAdded + n)) : bad' = bad \cup fresh
    /\ Cardinality(bad') <= MaxBad
    /\ nAdded' = nAdded + n
    /\ queue' = queue \cup ((nAdded + 1) .. (nAdded + n))
    /\ nTodo' = nTodo + n
    /\ \E woken \in Wakes(n) :
        pc' = [t \in Threads |-> IF t \in woken THEN "woken" ELSE pc[t]]
    /\ UNCHANGED <<nIdle, nTotal, fAllOk, batchVars, fRet, inDtor, leaked, txdata>>

\* Every transaction was added: control.Wait().
CallWait ==
    /\ pc[Master] = "adding"
    /\ pc' = [pc EXCEPT ![Master] = "enter"]
    /\ UNCHANGED <<poolVars, batchVars, sessionVars>>

\* ConnectBlock returns early: its locals are destroyed in the reverse order
\* of their declaration, txdata first, then control, whose destructor waits.
EarlyReturn ==
    /\ pc[Master] = "adding"
    /\ pc' = [pc EXCEPT ![Master] = "enter"]
    /\ txdata' = FALSE
    /\ inDtor' = TRUE
    /\ UNCHANGED <<poolVars, batchVars, nAdded, bad, fRet, leaked>>

-----------------------------------------------------------------------------
(* boost::condition_variable and thread interruption (external).            *)

\* A wait may return although nobody notified.
SpuriousWakeup(t) ==
    /\ pc[t] = "waiting"
    /\ pc' = [pc EXCEPT ![t] = "woken"]
    /\ UNCHANGED <<poolVars, batchVars, sessionVars>>

\* threadGroup.interrupt_all() at shutdown: thread_interrupted is thrown out
\* of cond.wait, between nIdle++ and nIdle--, and ends the worker.
InterruptWorker(w) ==
    /\ pc[w] \in {"waiting", "woken"}
    /\ pc' = [pc EXCEPT ![w] = "dead"]
    /\ UNCHANGED <<poolVars, batchVars, sessionVars>>

\* The same for a master that is one of the group's threads (ThreadImport):
\* the exception leaves control.Wait() with fDone unset, txdata is destroyed
\* by the unwinding, and ~CCheckQueueControl enters Loop once more.
InterruptMaster ==
    /\ pc[Master] \in {"waiting", "woken"}
    /\ ~inDtor
    /\ leaked = 0
    /\ leaked' = 1
    /\ inDtor' = TRUE
    /\ txdata' = FALSE
    /\ pc' = [pc EXCEPT ![Master] = "enter"]
    /\ UNCHANGED <<poolVars, batchVars, nAdded, bad, fRet>>

-----------------------------------------------------------------------------
LoopStep(t) == EnterLoop(t) \/ ResumeLoop(t) \/ FinishBatch(t) \/ RunCheck(t)

Next ==
    \/ \E t \in Threads : LoopStep(t)
    \/ NewControl
    \/ \E n \in 0 .. MaxChecks : Add(n)
    \/ CallWait
    \/ EarlyReturn
    \/ \E t \in Threads : SpuriousWakeup(t)
    \/ \E w \in Workers : InterruptWorker(w)
    \/ InterruptMaster

\* The scheduler runs every thread that is not blocked, and the mutex is not
\* withheld from one thread for ever.  Nothing is assumed of wake-ups nobody
\* asked for, of interruptions, or of when a new block arrives.
Fairness == \A t \in Threads : WF_vars(LoopStep(t))

Spec == Init /\ [][Next]_vars
FairSpec == Spec /\ Fairness

-----------------------------------------------------------------------------
(* Properties.                                                              *)

\* The checks that are queued or in some thread's batch.
Outstanding == {c \in Checks : c \in queue \/ \E t \in Threads : c \in vChecks[t]}

\* CCheckQueueControl's constructor asserts IsIdle(): whenever ConnectBlock may
\* start, the previous block has left no check, no failure and no busy worker
\* behind, even if threads were interrupted while they waited.
ControlFindsQueueIdle == pc[Master] = "out" => IsIdle

\* control.Wait() reports success exactly when every check of the block would
\* succeed, and never before each of them has really been run: a block with a
\* bad script cannot be connected because of how the work was split.
WaitResultIsConjunction ==
    /\ fRet = "ok" => bad = {} /\ ran = Checks
    /\ fRet = "failed" => bad # {}

\* nTodo counts the checks that are queued or held in a batch, each once: no
\* check is lost or handed to two threads.
TodoCountsOutstanding ==
    /\ nTodo = Cardinality(Outstanding)
    /\ \A t \in Threads : vChecks[t] \cap queue = {}
    /\ \A s, t \in Threads : s # t => vChecks[s] \cap vChecks[t] = {}

\* A master that sleeps on condMaster always has a worker that still holds a
\* batch and will notify it: the wake-up cannot have happened before the wait.
MasterSleepsOnlyOnBusyWorker ==
    pc[Master] = "waiting" => \E w \in Workers : pc[w] = "run"

\* Once ConnectBlock waits, the wait ends, whatever becomes of the workers.
WaitReturns == pc[Master] = "enter" ~> pc[Master] = "out"

\* The pointers to PrecomputedTransactionData inside queued and running checks
\* point into ConnectBlock's txdata: the vector outlives every check of a block
\* that ConnectBlock does not leave early. (When it does, txdata goes before
\* the control object has waited: validation.cpp declares control first.)
CheckedDataIsAlive == Outstanding # {} /\ ~inDtor => txdata
=============================================================================

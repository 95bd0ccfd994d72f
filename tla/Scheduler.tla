------------------------------- MODULE Scheduler -------------------------------
(* CScheduler (scheduler.cpp): threads that run tasks at their times from a *)
(* queue ordered by time. Every action is one region under newTaskMutex, or *)
(* a return from a wait on newTaskScheduled.                                *)
EXTENDS Integers, Sequences, FiniteSets

CONSTANTS
    Threads,        \* the threads that call serviceQueue
    Tasks,          \* the functions scheduled
    MaxTime         \* bound of the clock

ASSUME SchedulerAssumption == IsFiniteSet(Threads) /\ MaxTime \in Nat

VARIABLES
    taskQueue,      \* sequence of [due, task], in the order of the multimap
    servicer,       \* per thread: where it is, until when it waits, its task
    nThreadsServicingQueue,
    stopRequested, stopWhenEmpty,
    interrupted,    \* the threads that boost was told to interrupt
    now,            \* the clock
    repeatsLeft     \* bound: how often tasks may still put themselves back

schedulerVars == <<taskQueue, servicer, nThreadsServicingQueue, stopRequested,
                   stopWhenEmpty, interrupted, now, repeatsLeft>>
stopVars == <<stopRequested, stopWhenEmpty, interrupted>>

NoTask == "none"

(* out: not started; ready: about to take the mutex at the top of the loop; *)
(* idle: in wait; timed: in wait_until; woken, expired: back from a wait,   *)
(* notified or timed out; running: in f(); gone: left serviceQueue.         *)
Places == {"out", "ready", "idle", "timed", "woken", "expired", "running", "gone"}

SchedulerTypeOK ==
    /\ taskQueue \in Seq([due : 0..MaxTime, task : Tasks])
    /\ servicer \in [Threads -> [at : Places, due : 0..MaxTime,
                                 task : Tasks \cup {NoTask}]]
    /\ nThreadsServicingQueue \in 0..Cardinality(Threads)
    /\ stopRequested \in BOOLEAN /\ stopWhenEmpty \in BOOLEAN
    /\ interrupted \subseteq Threads
    /\ now \in 0..MaxTime /\ repeatsLeft \in Nat

(* T are the threads that are created for serviceQueue, start the time.     *)
SchedulerInit(T, start, repeats) ==
    /\ taskQueue = <<>>
    /\ servicer = [t \in Threads |-> [at |-> IF t \in T THEN "out" ELSE "gone",
                                      due |-> 0, task |-> NoTask]]
    /\ nThreadsServicingQueue = 0
    /\ stopRequested = FALSE /\ stopWhenEmpty = FALSE
    /\ interrupted = {}
    /\ now = start /\ repeatsLeft = repeats

--------------------------------------------------------------------------------
(* newTaskScheduled: what notify_one and notify_all make of the threads.    *)

Asleep(s) == {t \in Threads : s[t].at \in {"idle", "timed"}}

NotifyOne(s) ==
    IF Asleep(s) = {} THEN {s}
    ELSE {[s EXCEPT ![t].at = "woken"] : t \in Asleep(s)}

NotifyAll(s) ==
    [t \in Threads |-> IF t \in Asleep(s) THEN [s[t] EXCEPT !.at = "woken"] ELSE s[t]]

(* taskQueue.insert: after the tasks of the same time.                      *)
Insert(q, due, task) ==
    LET before == {i \in 1..Len(q) : q[i].due <= due}
        k == Cardinality(before)
    IN  SubSeq(q, 1, k) \o <<[due |-> due, task |-> task]>>
            \o SubSeq(q, k + 1, Len(q))

(* The slip forgets that draining waits for the queue to be empty.          *)
StopAtOnce == stopRequested \/ stopWhenEmpty
ShouldStop == stopRequested \/ (stopWhenEmpty /\ taskQueue = <<>>)

--------------------------------------------------------------------------------
(* serviceQueue.                                                            *)

EnterServiceQueue(t) ==
    /\ servicer[t].at = "out"
    /\ servicer' = [servicer EXCEPT ![t].at = "ready"]
    /\ nThreadsServicingQueue' = nThreadsServicingQueue + 1
    /\ UNCHANGED <<taskQueue, stopVars, now, repeatsLeft>>

(* The loop has ended: one other thread is woken.                           *)
LeaveServiceQueue(t) ==
    /\ ShouldStop
    /\ servicer' \in NotifyOne([servicer EXCEPT ![t].at = "gone"])
    /\ nThreadsServicingQueue' = nThreadsServicingQueue - 1
    /\ UNCHANGED <<taskQueue, stopVars, now, repeatsLeft>>

(* thread_interrupted passes through the handler: nobody is woken.          *)
Throw(t) ==
    /\ servicer' = [servicer EXCEPT ![t].at = "gone", ![t].task = NoTask]
    /\ nThreadsServicingQueue' = nThreadsServicingQueue - 1
    /\ UNCHANGED <<taskQueue, stopVars, now, repeatsLeft>>

(* Wait for a task, or for the time of the first one.                       *)
WaitForTask(t) ==
    /\ ~ShouldStop
    /\ t \notin interrupted
    /\ servicer' = [servicer EXCEPT
            ![t] = IF taskQueue = <<>> THEN [@ EXCEPT !.at = "idle"]
                   ELSE [@ EXCEPT !.at = "timed", !.due = taskQueue[1].due]]
    /\ UNCHANGED <<taskQueue, nThreadsServicingQueue, stopVars, now, repeatsLeft>>

(* At the top of the loop, or back from a wait without a time-out, which    *)
(* comes to the same; the waits are interruption points.                    *)
Loop(t) ==
    /\ servicer[t].at \in {"ready", "woken"}
    /\ \/ /\ servicer[t].at = "ready" \/ t \notin interrupted
          /\ LeaveServiceQueue(t)
       \/ WaitForTask(t)
       \/ /\ t \in interrupted
          /\ servicer[t].at = "woken" \/ ~ShouldStop
          /\ Throw(t)

(* The wait ends by itself: at its time, interrupted, or for no reason,     *)
(* which wait_until only reports as such before the time.                   *)
TimeOut(t) ==
    /\ servicer[t].at = "timed" /\ servicer[t].due <= now
    /\ servicer' = [servicer EXCEPT ![t].at = "expired"]
    /\ UNCHANGED <<taskQueue, nThreadsServicingQueue, stopVars, now, repeatsLeft>>

WakeInterrupted(t) ==
    /\ t \in interrupted /\ t \in Asleep(servicer)
    /\ servicer' = [servicer EXCEPT ![t].at = "woken"]
    /\ UNCHANGED <<taskQueue, nThreadsServicingQueue, stopVars, now, repeatsLeft>>

SpuriousWakeUp(t) ==
    /\ servicer[t].at = "idle" \/ (servicer[t].at = "timed" /\ now < servicer[t].due)
    /\ servicer' = [servicer EXCEPT ![t].at = "woken"]
    /\ UNCHANGED <<taskQueue, nThreadsServicingQueue, stopVars, now, repeatsLeft>>

(* After a time-out the first task is taken, whichever it is by now.        *)
Expired(t) ==
    /\ servicer[t].at = "expired"
    /\ \/ t \in interrupted /\ Throw(t)
       \/ t \notin interrupted /\ LeaveServiceQueue(t)
       \/ taskQueue = <<>> /\ WaitForTask(t)
       \/ /\ t \notin interrupted
          /\ ~ShouldStop
          /\ taskQueue # <<>>
          /\ servicer' = [servicer EXCEPT ![t].at = "running",
                                          ![t].task = taskQueue[1].task]
          /\ taskQueue' = Tail(taskQueue)
          /\ UNCHANGED <<nThreadsServicingQueue, stopVars, now, repeatsLeft>>

(* schedule: from a task, or from another part of the program.              *)
Schedule(s, due, task) ==
    /\ taskQueue' = Insert(taskQueue, due, task)
    /\ servicer' \in NotifyOne(s)

(* scheduleFromNow, for the next second (the last one of the clock, at its  *)
(* bound).                                                                  *)
ScheduleFromNow(s, task) ==
    Schedule(s, IF now < MaxTime THEN now + 1 ELSE MaxTime, task)

(* f() returns, or has put itself back (Repeat) for a later time, or was    *)
(* interrupted in a wait of its own.                                        *)
FinishTask(t) ==
    /\ servicer[t].at = "running"
    /\ LET done == [servicer EXCEPT ![t].at = "ready", ![t].task = NoTask]
       IN  \/ /\ servicer' = done
              /\ UNCHANGED <<taskQueue, repeatsLeft>>
           \/ /\ repeatsLeft > 0
              /\ repeatsLeft' = repeatsLeft - 1
              /\ ScheduleFromNow(done, servicer[t].task)
    /\ UNCHANGED <<nThreadsServicingQueue, stopVars, now>>

InterruptTask(t) == servicer[t].at = "running" /\ t \in interrupted /\ Throw(t)

(* stop(drain).                                                             *)
Stop(drain) ==
    /\ stopWhenEmpty' = (stopWhenEmpty \/ drain)
    /\ stopRequested' = (stopRequested \/ ~drain)
    /\ servicer' = NotifyAll(servicer)
    /\ UNCHANGED <<taskQueue, nThreadsServicingQueue, interrupted, now, repeatsLeft>>

(* The clock.                                                               *)
Advance ==
    /\ now < MaxTime
    /\ now' = now + 1
    /\ UNCHANGED <<taskQueue, servicer, nThreadsServicingQueue, stopVars, repeatsLeft>>

SchedulerStep(t) ==
    \/ EnterServiceQueue(t) \/ Loop(t) \/ TimeOut(t) \/ WakeInterrupted(t)
    \/ Expired(t) \/ FinishTask(t) \/ InterruptTask(t)

================================================================================

----------------------------- MODULE ShutdownProofs -----------------------------
(* Proofs about the end of the program, for any number of scheduler threads, *)
(* workers, requests and tasks, any depth of the work queue and every        *)
(* program that uses the scheduler and the server.                           *)
(*                                                                           *)
(* The inductive invariant has three parts: the scheduler and how it is      *)
(* stopped (SchedulerInv), the workers and the stages of the main thread     *)
(* (ServerInv), and where every request is (ItemInv).                        *)
EXTENDS Shutdown, FiniteSetTheorems, TLAPS

(* The stages of the main thread from one call on.                           *)
FromReset == {"reset", "done"}
FromDeleted == {"waitEvent", "joinEvent"} \cup FromReset
FromExit == {"deleteQueue"} \cup FromDeleted
FromJoined == {"stopRPC", "waitExit"} \cup FromExit
FromStopped == {"joinThreads"} \cup FromJoined
FromInterrupted == {"interruptRPC", "interruptThreads"} \cup FromStopped
AllStages == {"start", "run", "interruptServer", "interruptQueue"} \cup FromInterrupted

(* The threads that are in serviceQueue, given where they are.               *)
InService(s) == {t \in Threads : s[t].at \notin {"out", "gone"}}
AllGone == \A t \in Threads : servicer[t].at = "gone"

SchedulerInv ==
    /\ SchedulerTypeOK
    /\ nThreadsServicingQueue = Cardinality(InService(servicer))
    /\ \A t \in Threads : servicer[t].at = "running" => servicer[t].task \in Tasks
    /\ program \in Programs /\ toSchedule \subseteq Tasks /\ stage \in AllStages
    /\ stage \notin FromStopped => ~stopRequested /\ ~stopWhenEmpty /\ interrupted = {}
    /\ stopWhenEmpty => ~stopRequested /\ interrupted = {}
    /\ ~stopRequested /\ ~stopWhenEmpty /\ interrupted = {} =>
         \A t \in program.threads : servicer[t].at # "gone"
    /\ DrainLeavesNothing
    /\ stage \in FromJoined => AllGone

(* The workers that ThreadCounter counts, and those in a handler.            *)
CountedPlaces == {"loop", "asleep", "handling", "looked", "blocked", "leaving"}
HandlerPlaces == {"handling", "looked", "blocked"}
Counted(f) == {w \in Workers : f[w].at \in CountedPlaces}

ServerInv ==
    /\ HttpTypeOK
    /\ ~deleted => numThreads = Cardinality(Counted(worker))
    /\ stage \in FromInterrupted => ~running
    /\ stage \in FromExit => \A w \in Workers : worker[w].at \notin HandlerPlaces
    /\ deleted <=> stage \in FromDeleted

(* A request that has come in and is with somebody is with nobody else and   *)
(* has not been answered.                                                    *)
Queued(r) == \E i \in 1..Len(queue) : queue[i] = r
Handled(r) == \E w \in Workers : worker[w].item = r
Held(r) == Queued(r) \/ Handled(r) \/ event.item = r

ItemInv ==
    /\ \A w \in Workers : worker[w].item # NoRequest <=> worker[w].at \in HandlerPlaces
    /\ event.item # NoRequest <=> event.at = "callback"
    /\ \A v, w \in Workers : v # w /\ worker[v].item = worker[w].item => worker[v].item = NoRequest
    /\ \A i, j \in 1..Len(queue) : queue[i] = queue[j] => i = j
    /\ \A r \in Requests : /\ ~(Queued(r) /\ Handled(r))
                           /\ event.item = r => ~Queued(r) /\ ~Handled(r)
                           /\ Held(r) => r \in taken /\ replies[r] = 0 /\ r \notin sent
                           /\ replies[r] > 0 => r \in taken
    /\ deleted => queue = <<>>
    /\ misuse = {} => \A r \in taken : Held(r) \/ replies[r] = 1 \/ r \in sent

Inv == SchedulerInv /\ ServerInv /\ ItemInv


--------------------------------------------------------------------------------
(* Sizes of sets that gain or lose an element.                               *)

(* A finite set with one more element.                                       *)
LEMMA OneMore ==
  ASSUME NEW A, IsFiniteSet(A), NEW B, NEW x, x \notin A, B = A \cup {x}
  PROVE  Cardinality(A) \in Nat /\ Cardinality(B) = Cardinality(A) + 1
  BY FS_AddElement, FS_CardinalityType, Zenon

(* A finite set with one element less.                                       *)
LEMMA OneLess ==
  ASSUME NEW A, IsFiniteSet(A), NEW B, NEW x, x \in A, B = A \ {x}
  PROVE  Cardinality(A) \in Nat \ {0} /\ Cardinality(B) = Cardinality(A) - 1
  <1>1. Cardinality(A) \in Nat /\ Cardinality(B) = Cardinality(A) - 1 /\ IsFiniteSet(B)
    BY FS_RemoveElement, FS_CardinalityType, Zenon
  <1>2. Cardinality(B) \in Nat
    BY <1>1, FS_CardinalityType, Zenon
  <1> QED
    BY <1>1, <1>2

--------------------------------------------------------------------------------
(* The scheduler.                                                            *)

Service == [at : Places, due : 0..MaxTime, task : Tasks \cup {NoTask}]
Items == [due : 0..MaxTime, task : Tasks]
Waits == {"idle", "timed"}

(* notify_one and notify_all move threads that wait, and no other.           *)
LEMMA NotifyOneFacts ==
  ASSUME NEW s \in [Threads -> Service], NEW n \in NotifyOne(s)
  PROVE  /\ n \in [Threads -> Service]
         /\ \A u \in Threads : n[u] = s[u] \/ (s[u].at \in Waits /\ n[u].at = "woken")
  <1>1. CASE n = s
    BY Zenon, <1>1
  <1>2. ASSUME NEW t \in Asleep(s), n = [s EXCEPT ![t].at = "woken"]
        PROVE  /\ n \in [Threads -> Service]
               /\ \A u \in Threads : n[u] = s[u] \/ (s[u].at \in Waits /\ n[u].at = "woken")
    <2>1. t \in Threads /\ s[t].at \in Waits /\ "woken" \in Places
      BY Zenon DEF Asleep, Waits, Places
    <2>2. /\ n \in [Threads -> Service] /\ n[t].at = "woken"
          /\ \A u \in Threads : u # t => n[u] = s[u]
      BY Zenon, <1>2, <2>1 DEF Service
    <2> QED
      BY <2>1, <2>2, Zenon
  <1> QED
    BY Zenon, <1>1, <1>2 DEF NotifyOne

(* notify_all.                                                               *)
LEMMA NotifyAllFacts ==
  ASSUME NEW s \in [Threads -> Service]
  PROVE  /\ NotifyAll(s) \in [Threads -> Service]
         /\ \A u \in Threads : \/ NotifyAll(s)[u] = s[u]
                               \/ s[u].at \in Waits /\ NotifyAll(s)[u].at = "woken"
  <1>1. ASSUME NEW u \in Threads
        PROVE  /\ NotifyAll(s)[u] \in Service
               /\ NotifyAll(s)[u] = s[u] \/ (s[u].at \in Waits /\ NotifyAll(s)[u].at = "woken")
    <2>1. s[u] \in Service
      OBVIOUS
    <2> QED
      BY Zenon, <2>1 DEF NotifyAll, Asleep, Service, Waits, Places
  <1> QED
    BY Zenon, <1>1 DEF NotifyAll

(* The queue with a task inserted is a queue of tasks.                       *)
LEMMA InsertTyped ==
  ASSUME NEW q \in Seq(Items), NEW due \in 0..MaxTime, NEW task \in Tasks
  PROVE  Insert(q, due, task) \in Seq(Items)
  <1> DEFINE before == {i \in 1..Len(q) : q[i].due <= due}
             k == Cardinality(before)
             item == [due |-> due, task |-> task]
  <1>1. Len(q) \in Nat
    OBVIOUS
  <1>2. k \in Nat /\ k <= Len(q)
    <2>1. IsFiniteSet(1..Len(q)) /\ Cardinality(1..Len(q)) = Len(q)
      <3>1. 1 \in Int /\ Len(q) \in Int
        BY <1>1
      <3>2. IsFiniteSet(1..Len(q)) /\ Cardinality(1..Len(q)) = IF 1 > Len(q) THEN 0 ELSE Len(q) - 1 + 1
        BY <3>1, FS_Interval, Zenon
      <3> QED
        BY <1>1, <3>2
    <2>2. before \subseteq 1..Len(q)
      OBVIOUS
    <2> HIDE DEF before
    <2> QED
      BY <2>1, <2>2, FS_Subset, FS_CardinalityType, Zenon
  <1>3. item \in Items
    BY Zenon DEF Items
  <1> HIDE DEF k, item, Items
  <1>4. SubSeq(q, 1, k) \in Seq(Items) /\ SubSeq(q, k + 1, Len(q)) \in Seq(Items) /\ <<item>> \in Seq(Items)
    BY <1>1, <1>2, <1>3
  <1>5. SubSeq(q, 1, k) \o <<item>> \o SubSeq(q, k + 1, Len(q)) \in Seq(Items)
    BY <1>4
  <1> QED
    BY Zenon, <1>5 DEF Insert, k, item

(* schedule inserts a task and moves at most one thread, which waited.       *)
LEMMA ScheduleFacts ==
  ASSUME SchedulerTypeOK, NEW s \in [Threads -> Service], NEW task \in Tasks, ScheduleFromNow(s, task)
  PROVE  /\ taskQueue' \in Seq(Items)
         /\ servicer' \in [Threads -> Service]
         /\ \A u \in Threads : \/ servicer'[u] = s[u]
                               \/ s[u].at \in Waits /\ servicer'[u].at = "woken"
  <1>1. PICK due \in 0..MaxTime : taskQueue' = Insert(taskQueue, due, task) /\ servicer' \in NotifyOne(s)
    BY SchedulerAssumption DEF ScheduleFromNow, Schedule, SchedulerTypeOK
  <1>2. taskQueue \in Seq(Items)
    BY Zenon DEF SchedulerTypeOK, Items
  <1> QED
    BY <1>1, <1>2, InsertTyped, NotifyOneFacts, Zenon

(* What a step of a scheduler thread does: it enters serviceQueue, leaves it *)
(* when it should stop or was interrupted, or stays; other threads may wake. *)
Unstopped(t) == servicer[t].at \notin {"out", "gone"}
RunsTask(t) == servicer[t].at = "running" => servicer[t].task \in Tasks

StepShape(t) ==
    /\ servicer' \in [Threads -> Service] /\ taskQueue' \in Seq(Items)
    /\ UNCHANGED <<stopVars, now>> /\ repeatsLeft' \in Nat
    /\ RunsTask(t)'
    /\ \A u \in Threads \ {t} : \/ servicer'[u] = servicer[u]
                                \/ servicer[u].at \in Waits /\ servicer'[u].at = "woken"
    /\ \/ /\ servicer[t].at = "out" /\ servicer'[t].at = "ready"
          /\ nThreadsServicingQueue' = nThreadsServicingQueue + 1
       \/ /\ Unstopped(t) /\ servicer'[t].at = "gone"
          /\ nThreadsServicingQueue' = nThreadsServicingQueue - 1
          /\ taskQueue' = taskQueue
          /\ ShouldStop \/ t \in interrupted
       \/ /\ Unstopped(t) /\ Unstopped(t)'
          /\ nThreadsServicingQueue' = nThreadsServicingQueue

(* Every step of a thread in serviceQueue has that shape.                    *)
LEMMA StepHasShape ==
  ASSUME SchedulerTypeOK, NEW t \in Threads, RunsTask(t), SchedulerStep(t) \/ SpuriousWakeUp(t)
  PROVE  StepShape(t)
  <1>0. /\ servicer \in [Threads -> Service] /\ taskQueue \in Seq(Items) /\ repeatsLeft \in Nat
        /\ {"ready", "idle", "timed", "woken", "expired", "running", "gone"} \subseteq Places
    BY Zenon DEF SchedulerTypeOK, Service, Items, Places
  <1>1. CASE EnterServiceQueue(t)
    <2>1. /\ servicer[t].at = "out" /\ servicer' = [servicer EXCEPT ![t].at = "ready"]
          /\ nThreadsServicingQueue' = nThreadsServicingQueue + 1
          /\ UNCHANGED <<taskQueue, stopVars, now, repeatsLeft>>
      BY Zenon, <1>1 DEF EnterServiceQueue
    <2>2. "ready" \in Places
      BY Zenon, <1>0
    <2>3. /\ servicer' \in [Threads -> Service] /\ servicer'[t].at = "ready"
          /\ \A u \in Threads : u # t => servicer'[u] = servicer[u]
      BY Zenon, <1>0, <2>1, <2>2 DEF Service
    <2>4. RunsTask(t)'
      BY Zenon, <2>3 DEF RunsTask
    <2> QED
      BY Zenon, <1>0, <2>1, <2>3, <2>4 DEF StepShape
  <1>2. ASSUME LeaveServiceQueue(t), Unstopped(t) PROVE StepShape(t)
    <2> DEFINE s == [servicer EXCEPT ![t].at = "gone"]
    <2>0. "gone" \in Places
      BY Zenon, <1>0
    <2>1. s \in [Threads -> Service] /\ s[t].at = "gone" /\ \A u \in Threads : u # t => s[u] = servicer[u]
      BY Zenon, <1>0, <2>0 DEF Service
    <2>2. servicer' \in NotifyOne(s)
      BY Zenon, <1>2 DEF LeaveServiceQueue
    <2> HIDE DEF s
    <2>3. /\ servicer' \in [Threads -> Service]
          /\ \A u \in Threads : servicer'[u] = s[u] \/ (s[u].at \in Waits /\ servicer'[u].at = "woken")
      BY <2>1, <2>2, NotifyOneFacts, Zenon
    <2>4. servicer'[t].at = "gone"
      BY Zenon, <2>1, <2>3 DEF Waits
    <2>5. \A u \in Threads \ {t} : \/ servicer'[u] = servicer[u]
                                   \/ servicer[u].at \in Waits /\ servicer'[u].at = "woken"
      BY <2>1, <2>3, Zenon
    <2>6. RunsTask(t)'
      BY Zenon, <2>4 DEF RunsTask
    <2> QED
      BY <1>0, <1>2, <2>3, <2>4, <2>5, <2>6, Zenon DEF StepShape, LeaveServiceQueue
  <1>3. ASSUME Throw(t), Unstopped(t), t \in interrupted PROVE StepShape(t)
    <2>1. servicer' = [servicer EXCEPT ![t].at = "gone", ![t].task = NoTask]
      BY Zenon, <1>3 DEF Throw
    <2>2. /\ servicer' \in [Threads -> Service] /\ servicer'[t].at = "gone"
          /\ \A u \in Threads \ {t} : servicer'[u] = servicer[u]
      BY Zenon, <1>0, <2>1 DEF Service
    <2>3. RunsTask(t)'
      BY Zenon, <2>2 DEF RunsTask
    <2> QED
      BY <1>0, <1>3, <2>2, <2>3, Zenon DEF StepShape, Throw
  <1>4. ASSUME WaitForTask(t), Unstopped(t) PROVE StepShape(t)
    <2>1. taskQueue # <<>> => taskQueue[1].due \in 0..MaxTime
      <3>1. taskQueue # <<>> => taskQueue[1] \in Items
        BY <1>0
      <3> QED
        BY Zenon, <3>1 DEF Items
    <2>2. /\ servicer' \in [Threads -> Service] /\ servicer'[t].at \in Waits
          /\ \A u \in Threads \ {t} : servicer'[u] = servicer[u]
      BY Zenon, <1>0, <1>4, <2>1 DEF Service, Waits, WaitForTask
    <2>3. Unstopped(t)' /\ RunsTask(t)'
      BY Zenon, <2>2 DEF Unstopped, RunsTask, Waits
    <2> QED
      BY <1>0, <1>4, <2>2, <2>3, Zenon DEF StepShape, WaitForTask
  <1>5. CASE Loop(t)
    <2>1. Unstopped(t)
      BY Zenon, <1>5 DEF Loop, Unstopped
    <2> QED
      BY <1>2, <1>3, <1>4, <1>5, <2>1, Zenon DEF Loop
  <1>6. CASE TimeOut(t) \/ WakeInterrupted(t) \/ SpuriousWakeUp(t)
    <2>1. PICK p \in {"expired", "woken"} : servicer' = [servicer EXCEPT ![t].at = p]
      BY <1>6, Zenon DEF TimeOut, WakeInterrupted, SpuriousWakeUp
    <2>2. Unstopped(t)
      BY Zenon, <1>6 DEF TimeOut, WakeInterrupted, SpuriousWakeUp, Asleep, Unstopped
    <2>3. /\ servicer' \in [Threads -> Service] /\ servicer'[t].at = p
          /\ \A u \in Threads \ {t} : servicer'[u] = servicer[u]
      <3>1. p \in Places
        BY Zenon, <1>0, <2>1
      <3> QED
        BY Zenon, <1>0, <2>1, <3>1 DEF Service
    <2>4. Unstopped(t)' /\ RunsTask(t)'
      BY Zenon, <2>3 DEF Unstopped, RunsTask
    <2>5. UNCHANGED <<taskQueue, nThreadsServicingQueue, stopVars, now, repeatsLeft>>
      BY Zenon, <1>6 DEF TimeOut, WakeInterrupted, SpuriousWakeUp
    <2> QED
      BY <1>0, <2>2, <2>3, <2>4, <2>5, Zenon DEF StepShape
  <1>7. CASE Expired(t)
    <2>1. Unstopped(t)
      BY Zenon, <1>7 DEF Expired, Unstopped
    <2>2. CASE /\ taskQueue # <<>>
               /\ servicer' = [servicer EXCEPT ![t].at = "running", ![t].task = taskQueue[1].task]
               /\ taskQueue' = Tail(taskQueue)
               /\ UNCHANGED <<nThreadsServicingQueue, stopVars, now, repeatsLeft>>
      <3>1. taskQueue[1].task \in Tasks /\ taskQueue' \in Seq(Items)
        <4>1. taskQueue[1] \in Items /\ taskQueue' \in Seq(Items)
          BY <1>0, <2>2
        <4> QED
          BY Zenon, <4>1 DEF Items
      <3>2. /\ servicer' \in [Threads -> Service] /\ servicer'[t].at = "running"
            /\ servicer'[t].task \in Tasks
            /\ \A u \in Threads \ {t} : servicer'[u] = servicer[u]
        BY Zenon, <1>0, <2>2, <3>1 DEF Service
      <3>3. Unstopped(t)' /\ RunsTask(t)'
        BY Zenon, <3>2 DEF Unstopped, RunsTask
      <3> QED
        BY <1>0, <2>1, <2>2, <3>1, <3>2, <3>3, Zenon DEF StepShape
    <2> QED
      BY <1>2, <1>3, <1>4, <1>7, <2>1, <2>2, Zenon DEF Expired
  <1>8. CASE FinishTask(t)
    <2> DEFINE done == [servicer EXCEPT ![t].at = "ready", ![t].task = NoTask]
    <2>1. /\ done \in [Threads -> Service] /\ done[t].at = "ready"
          /\ \A u \in Threads \ {t} : done[u] = servicer[u]
      BY Zenon, <1>0 DEF Service
    <2>2. Unstopped(t) /\ UNCHANGED <<nThreadsServicingQueue, stopVars, now>>
      BY Zenon, <1>8 DEF FinishTask, Unstopped
    <2>3. \/ servicer' = done /\ UNCHANGED <<taskQueue, repeatsLeft>>
          \/ /\ repeatsLeft > 0 /\ repeatsLeft' = repeatsLeft - 1
             /\ ScheduleFromNow(done, servicer[t].task)
      BY <1>8, Zenon DEF FinishTask
    <2> HIDE DEF done
    <2>4. CASE servicer' = done /\ UNCHANGED <<taskQueue, repeatsLeft>>
      <3>1. Unstopped(t)' /\ RunsTask(t)'
        BY Zenon, <2>1, <2>4 DEF Unstopped, RunsTask
      <3> QED
        BY <1>0, <2>1, <2>2, <2>4, <3>1, Zenon DEF StepShape
    <2>5. CASE /\ repeatsLeft > 0 /\ repeatsLeft' = repeatsLeft - 1
               /\ ScheduleFromNow(done, servicer[t].task)
      <3>1. repeatsLeft' \in Nat
        BY <1>0, <2>5
      <3>2. servicer[t].task \in Tasks
        BY Zenon, <1>8 DEF FinishTask, RunsTask
      <3>3. /\ taskQueue' \in Seq(Items)
            /\ servicer' \in [Threads -> Service]
            /\ \A u \in Threads : \/ servicer'[u] = done[u]
                                  \/ done[u].at \in Waits /\ servicer'[u].at = "woken"
        BY <2>1, <2>5, <3>2, ScheduleFacts, Zenon
      <3>4. Unstopped(t)' /\ RunsTask(t)'
        BY Zenon, <2>1, <3>3 DEF Unstopped, RunsTask
      <3> QED
        BY <2>1, <2>2, <3>1, <3>3, <3>4, Zenon DEF StepShape
    <2> QED
      BY Zenon, <2>3, <2>4, <2>5
  <1>9. CASE InterruptTask(t)
    BY Zenon, <1>3, <1>9 DEF InterruptTask, Unstopped
  <1> QED
    BY Zenon, <1>1, <1>5, <1>6, <1>7, <1>8, <1>9 DEF SchedulerStep


(* Threads come from a finite set, so that they can be counted.              *)
LEMMA InServiceSize ==
  ASSUME NEW s
  PROVE  IsFiniteSet(InService(s)) /\ Cardinality(InService(s)) \in 0..Cardinality(Threads)
  <1>1. InService(s) \subseteq Threads
    BY Zenon DEF InService
  <1>2. /\ IsFiniteSet(InService(s)) /\ Cardinality(InService(s)) <= Cardinality(Threads)
        /\ Cardinality(InService(s)) \in Nat /\ Cardinality(Threads) \in Nat
    BY <1>1, SchedulerAssumption, FS_Subset, FS_CardinalityType, Zenon
  <1> QED
    BY <1>2

(* A thread in serviceQueue goes on, or wakes for no reason.                 *)
LEMMA ServicingKeepsScheduler ==
  ASSUME SchedulerInv, NEW t \in Threads, Servicing(t) \/ Spurious(t)
  PROVE  SchedulerInv'
  <1>0. StepShape(t) /\ UNCHANGED mainVars
    BY StepHasShape, Zenon DEF SchedulerInv, Servicing, Spurious, RunsTask
  <1>1. /\ servicer' \in [Threads -> Service] /\ taskQueue' \in Seq(Items) /\ repeatsLeft' \in Nat
        /\ stopRequested' = stopRequested /\ stopWhenEmpty' = stopWhenEmpty /\ interrupted' = interrupted
        /\ now' = now /\ program' = program /\ stage' = stage /\ toSchedule' = toSchedule
    BY Zenon, <1>0 DEF StepShape, stopVars, mainVars
  <1>2. \A u \in Threads \ {t} : \/ servicer'[u] = servicer[u]
                                 \/ servicer[u].at \in Waits /\ servicer'[u].at = "woken"
    BY <1>0, Zenon DEF StepShape
  <1>3. \A u \in Threads \ {t} : /\ servicer'[u].at = "gone" <=> servicer[u].at = "gone"
                                 /\ servicer'[u].at = "out" <=> servicer[u].at = "out"
    BY Zenon, <1>2 DEF Waits
  <1>4. \/ /\ servicer[t].at = "out" /\ servicer'[t].at = "ready"
           /\ nThreadsServicingQueue' = nThreadsServicingQueue + 1
        \/ /\ servicer[t].at \notin {"out", "gone"} /\ servicer'[t].at = "gone"
           /\ nThreadsServicingQueue' = nThreadsServicingQueue - 1
           /\ taskQueue' = taskQueue
           /\ ShouldStop \/ t \in interrupted
        \/ /\ servicer[t].at \notin {"out", "gone"} /\ servicer'[t].at \notin {"out", "gone"}
           /\ nThreadsServicingQueue' = nThreadsServicingQueue
    BY <1>0, Zenon DEF StepShape, Unstopped
  <1>5. nThreadsServicingQueue' = Cardinality(InService(servicer'))
    <2>0. /\ nThreadsServicingQueue = Cardinality(InService(servicer))
          /\ IsFiniteSet(InService(servicer))
      BY Zenon, InServiceSize DEF SchedulerInv
    <2>1. CASE /\ servicer[t].at = "out" /\ servicer'[t].at = "ready"
               /\ nThreadsServicingQueue' = nThreadsServicingQueue + 1
      <3>1. t \notin InService(servicer) /\ InService(servicer') = InService(servicer) \cup {t}
        BY Zenon, <1>3, <2>1 DEF InService
      <3> QED
        BY <2>0, <2>1, <3>1, OneMore, Zenon
    <2>2. CASE /\ servicer[t].at \notin {"out", "gone"} /\ servicer'[t].at = "gone"
               /\ nThreadsServicingQueue' = nThreadsServicingQueue - 1
      <3>1. t \in InService(servicer) /\ InService(servicer') = InService(servicer) \ {t}
        BY Zenon, <1>3, <2>2 DEF InService
      <3> QED
        BY <2>0, <2>2, <3>1, OneLess, Zenon
    <2>3. CASE /\ servicer[t].at \notin {"out", "gone"} /\ servicer'[t].at \notin {"out", "gone"}
               /\ nThreadsServicingQueue' = nThreadsServicingQueue
      <3>1. InService(servicer') = InService(servicer)
        BY Zenon, <1>3, <2>3 DEF InService
      <3> QED
        BY Zenon, <2>0, <2>3, <3>1
    <2> QED
      BY <1>4, <2>1, <2>2, <2>3, Zenon
  <1>6. SchedulerTypeOK'
    <2>1. nThreadsServicingQueue' \in 0..Cardinality(Threads)
      BY Zenon, <1>5, InServiceSize
    <2> QED
      BY Zenon, <1>1, <2>1 DEF SchedulerInv, SchedulerTypeOK, Service, Items
  <1>7. \A u \in Threads : servicer'[u].at = "running" => servicer'[u].task \in Tasks
    <2>1. servicer'[t].at = "running" => servicer'[t].task \in Tasks
      BY Zenon, <1>0 DEF StepShape, RunsTask
    <2>2. \A u \in Threads \ {t} : servicer'[u].at = "running" => servicer'[u] = servicer[u]
      BY Zenon, <1>2
    <2> QED
      BY <2>1, <2>2, Zenon DEF SchedulerInv
  <1>8. ~stopRequested /\ ~stopWhenEmpty /\ interrupted = {} =>
           \A u \in program.threads : servicer'[u].at # "gone"
    <2>1. SUFFICES ASSUME ~stopRequested, ~stopWhenEmpty, interrupted = {}, NEW u \in program.threads
                   PROVE  servicer'[u].at # "gone"
      OBVIOUS
    <2>2. u \in Threads /\ servicer[u].at # "gone"
      BY Zenon, <2>1, ProgramsAssumption DEF SchedulerInv
    <2>3. CASE u = t
      BY Zenon, <1>4, <2>1, <2>2, <2>3 DEF ShouldStop
    <2>4. CASE u # t
      BY Zenon, <1>3, <2>2, <2>4
    <2> QED
      BY Zenon, <2>3, <2>4
  <1>9. DrainLeavesNothing'
    <2>1. SUFFICES ASSUME stopWhenEmpty, \A u \in Threads : servicer'[u].at = "gone"
                   PROVE  taskQueue' = <<>>
      BY <1>1, Zenon DEF DrainLeavesNothing
    <2>2. ~stopRequested /\ interrupted = {} /\ servicer'[t].at = "gone"
      BY Zenon, <2>1 DEF SchedulerInv
    <2>3. taskQueue' = taskQueue /\ ShouldStop
      BY Zenon, <1>4, <2>2
    <2> QED
      BY Zenon, <2>2, <2>3 DEF ShouldStop
  <1>10. stage \notin FromJoined
    BY Zenon, <1>4 DEF SchedulerInv, AllGone
  <1> QED
    BY <1>1, <1>5, <1>6, <1>7, <1>8, <1>9, <1>10, Zenon DEF SchedulerInv

(* The main thread schedules a task before it stops anything.                *)
LEMMA ScheduleKeepsScheduler ==
  ASSUME SchedulerInv, ScheduleTask
  PROVE  SchedulerInv'
  <1>0. servicer \in [Threads -> Service] /\ SchedulerTypeOK
    BY Zenon DEF SchedulerInv, SchedulerTypeOK, Service
  <1>1. PICK task \in toSchedule : toSchedule' = toSchedule \ {task} /\ ScheduleFromNow(servicer, task)
    BY Zenon DEF ScheduleTask
  <1>2. /\ taskQueue' \in Seq(Items) /\ servicer' \in [Threads -> Service]
        /\ \A u \in Threads : \/ servicer'[u] = servicer[u]
                              \/ servicer[u].at \in Waits /\ servicer'[u].at = "woken"
    <2>1. task \in Tasks
      BY Zenon, <1>1 DEF SchedulerInv
    <2> QED
      BY <1>0, <1>1, <2>1, ScheduleFacts, Zenon
  <1>3. /\ stage = "start" /\ stage' = stage /\ program' = program
        /\ nThreadsServicingQueue' = nThreadsServicingQueue /\ now' = now /\ repeatsLeft' = repeatsLeft
        /\ stopRequested' = stopRequested /\ stopWhenEmpty' = stopWhenEmpty /\ interrupted' = interrupted
    BY Zenon DEF ScheduleTask, stopVars
  <1>4. \A u \in Threads : /\ servicer'[u].at = "gone" <=> servicer[u].at = "gone"
                           /\ servicer'[u].at = "out" <=> servicer[u].at = "out"
                           /\ servicer'[u].at = "running" => servicer'[u] = servicer[u]
    BY Zenon, <1>2 DEF Waits
  <1>5. InService(servicer') = InService(servicer)
    BY Zenon, <1>4 DEF InService
  <1>6. SchedulerTypeOK'
    BY Zenon, <1>0, <1>2, <1>3 DEF SchedulerTypeOK, Service, Items
  <1>7. stage \notin FromStopped /\ stage \notin FromJoined
    BY Zenon, <1>3 DEF FromStopped, FromJoined, FromExit, FromDeleted, FromReset
  <1>8. ~stopRequested /\ ~stopWhenEmpty /\ interrupted = {} /\ toSchedule' \subseteq Tasks
    BY Zenon, <1>1, <1>7 DEF SchedulerInv
  <1>9. \A u \in program.threads : servicer'[u].at # "gone"
    BY Zenon, <1>4, <1>8, ProgramsAssumption DEF SchedulerInv
  <1>10. /\ nThreadsServicingQueue' = Cardinality(InService(servicer'))
         /\ \A u \in Threads : servicer'[u].at = "running" => servicer'[u].task \in Tasks
    BY <1>3, <1>4, <1>5, Zenon DEF SchedulerInv
  <1> QED
    BY <1>3, <1>6, <1>7, <1>8, <1>9, <1>10, Zenon DEF SchedulerInv, DrainLeavesNothing

(* Stopping: a thread of the program is still there.                         *)
LEMMA StopKeepsScheduler ==
  ASSUME SchedulerInv, InterruptThreads
  PROVE  SchedulerInv'
  <1>0. /\ stage = "interruptThreads" /\ stage' = "joinThreads" /\ program' = program
        /\ toSchedule' = toSchedule
    BY Zenon DEF InterruptThreads, Go
  <1>1. /\ stage \notin FromStopped /\ stage' \in FromStopped /\ stage' \notin FromJoined
        /\ stage' \in AllStages
    BY Zenon, <1>0 DEF FromStopped, FromJoined, FromExit, FromDeleted, FromReset, AllStages, FromInterrupted
  <1>2. /\ ~stopRequested /\ ~stopWhenEmpty /\ interrupted = {}
        /\ \A t \in program.threads : servicer[t].at # "gone"
    BY Zenon, <1>1 DEF SchedulerInv
  <1>3. /\ program \in Programs /\ program.threads # {} /\ program.threads \subseteq Threads
        /\ SchedulerTypeOK /\ servicer \in [Threads -> Service]
    BY Zenon, ProgramsAssumption DEF SchedulerInv, SchedulerTypeOK, Service
  <1>4. CASE /\ interrupted' = program.threads
             /\ UNCHANGED <<taskQueue, servicer, nThreadsServicingQueue, stopRequested,
                            stopWhenEmpty, now, repeatsLeft>>
    <2>1. SchedulerTypeOK'
      BY Zenon, <1>3, <1>4 DEF SchedulerTypeOK
    <2> QED
      BY Zenon, <1>0, <1>1, <1>2, <1>3, <1>4, <2>1 DEF SchedulerInv, DrainLeavesNothing, InService
  <1>5. ASSUME NEW drain \in BOOLEAN, Stop(drain) PROVE SchedulerInv'
    <2>1. /\ stopWhenEmpty' = drain /\ stopRequested' = ~drain
          /\ servicer' = NotifyAll(servicer)
          /\ UNCHANGED <<taskQueue, nThreadsServicingQueue, interrupted, now, repeatsLeft>>
      BY Zenon, <1>2, <1>5 DEF Stop
    <2>2. /\ servicer' \in [Threads -> Service]
          /\ \A u \in Threads : servicer'[u] = servicer[u]
                                \/ (servicer[u].at \in Waits /\ servicer'[u].at = "woken")
      BY <1>3, <2>1, NotifyAllFacts, Zenon
    <2>3. \A u \in Threads : /\ servicer'[u].at = "gone" <=> servicer[u].at = "gone"
                             /\ servicer'[u].at = "out" <=> servicer[u].at = "out"
                             /\ servicer'[u].at = "running" => servicer'[u] = servicer[u]
      BY Zenon, <2>2 DEF Waits
    <2>4. InService(servicer') = InService(servicer)
      BY Zenon, <2>3 DEF InService
    <2>5. SchedulerTypeOK'
      BY Zenon, <1>3, <2>1, <2>2 DEF SchedulerTypeOK, Service
    <2>6. ~(\A t \in Threads : servicer'[t].at = "gone")
      BY Zenon, <1>2, <1>3, <2>3
    <2>7. /\ nThreadsServicingQueue' = Cardinality(InService(servicer'))
          /\ \A u \in Threads : servicer'[u].at = "running" => servicer'[u].task \in Tasks
      BY <2>1, <2>3, <2>4, Zenon DEF SchedulerInv
    <2> QED
      BY Zenon, <1>0, <1>1, <1>2, <2>1, <2>5, <2>6, <2>7 DEF SchedulerInv, DrainLeavesNothing
  <1> QED
    BY Zenon, <1>4, <1>5 DEF InterruptThreads

(* Every other step leaves the scheduler alone, or moves the clock.          *)
LEMMA OthersKeepScheduler ==
  ASSUME SchedulerInv, program' = program, toSchedule' = toSchedule,
         \/ UNCHANGED schedulerVars
         \/ Advance,
         stage' \in AllStages,
         stage' \notin FromStopped => stage \notin FromStopped,
         stage' \in FromJoined => stage \in FromJoined \/ AllGone
  PROVE  SchedulerInv'
  <1>1. /\ taskQueue' = taskQueue /\ servicer' = servicer
        /\ nThreadsServicingQueue' = nThreadsServicingQueue
        /\ stopRequested' = stopRequested /\ stopWhenEmpty' = stopWhenEmpty
        /\ interrupted' = interrupted /\ repeatsLeft' = repeatsLeft
        /\ now' \in 0..MaxTime
    BY SchedulerAssumption DEF schedulerVars, Advance, stopVars, SchedulerInv, SchedulerTypeOK
  <1>2. SchedulerTypeOK'
    BY Zenon, <1>1 DEF SchedulerInv, SchedulerTypeOK
  <1>3. DrainLeavesNothing' /\ (AllGone => AllGone') /\ InService(servicer)' = InService(servicer)
    BY Zenon, <1>1 DEF SchedulerInv, DrainLeavesNothing, AllGone, InService
  <1> QED
    BY <1>1, <1>2, <1>3, Zenon DEF SchedulerInv


--------------------------------------------------------------------------------
(* The server: the steps that move no request.                               *)

Work == [at : WorkerPlaces, item : Requests \cup {NoRequest}]
EventStates == [at : {"loop", "callback", "gone"}, item : Requests \cup {NoRequest}]

(* The counted workers are finitely many.                                    *)
LEMMA CountedSize ==
  ASSUME NEW f
  PROVE  IsFiniteSet(Counted(f)) /\ Cardinality(Counted(f)) \in 0..Cardinality(Workers)
  <1>1. Counted(f) \subseteq Workers
    BY Zenon DEF Counted
  <1>2. /\ IsFiniteSet(Counted(f)) /\ Cardinality(Counted(f)) <= Cardinality(Workers)
        /\ Cardinality(Counted(f)) \in Nat /\ Cardinality(Workers) \in Nat
    BY <1>1, WorkQueueAssumption, FS_Subset, FS_CardinalityType, Zenon
  <1> QED
    BY <1>2

(* Requests stay where they are.                                             *)
ItemsStay ==
    /\ queue' = queue /\ taken' = taken /\ sent' = sent /\ replies' = replies /\ deleted' = deleted
    /\ event'.item = event.item /\ (event'.at = "callback" <=> event.at = "callback")
    /\ \A w \in Workers : /\ worker'[w].item = worker[w].item
                          /\ worker'[w].at \in HandlerPlaces <=> worker[w].at \in HandlerPlaces
    /\ misuse' = misuse \/ misuse' # {}

(* A step that leaves every request where it is.                             *)
LEMMA ItemsStayKeepsItems ==
  ASSUME ItemInv, ItemsStay
  PROVE  ItemInv'
  <1>1. \A r : (Queued(r)' <=> Queued(r)) /\ (Handled(r)' <=> Handled(r)) /\ (Held(r)' <=> Held(r))
    BY Zenon DEF ItemsStay, Queued, Handled, Held
  <1>2. /\ queue' = queue /\ taken' = taken /\ sent' = sent /\ replies' = replies /\ deleted' = deleted
        /\ event'.item = event.item /\ (event'.at = "callback" <=> event.at = "callback")
        /\ \A w \in Workers : /\ worker'[w].item = worker[w].item
                              /\ worker'[w].at \in HandlerPlaces <=> worker[w].at \in HandlerPlaces
        /\ misuse' = misuse \/ misuse' # {}
    BY Zenon DEF ItemsStay
  <1>3. /\ \A w \in Workers : worker'[w].item # NoRequest <=> worker'[w].at \in HandlerPlaces
        /\ event'.item # NoRequest <=> event'.at = "callback"
        /\ \A v, w \in Workers : v # w /\ worker'[v].item = worker'[w].item => worker'[v].item = NoRequest
    BY <1>2, ZenonT(30) DEF ItemInv
  <1>4. /\ \A i, j \in 1..Len(queue') : queue'[i] = queue'[j] => i = j
        /\ deleted' => queue' = <<>>
    BY <1>2 DEF ItemInv
  <1>5. \A r \in Requests : /\ ~(Queued(r)' /\ Handled(r)')
                            /\ event'.item = r => ~Queued(r)' /\ ~Handled(r)'
                            /\ Held(r)' => r \in taken' /\ replies'[r] = 0 /\ r \notin sent'
                            /\ replies'[r] > 0 => r \in taken'
    BY <1>1, <1>2, Zenon DEF ItemInv
  <1>6. misuse' = {} => \A r \in taken' : Held(r)' \/ replies'[r] = 1 \/ r \in sent'
    BY <1>1, <1>2, Zenon DEF ItemInv
  <1> QED
    BY <1>3, <1>4, <1>5, <1>6, Zenon DEF ItemInv

(* Workers move, and the number of those that are counted changes with       *)
(* numThreads; nobody enters a handler once the main thread has waited.      *)
WorkersMove ==
    /\ worker' \in [Workers -> Work]
    /\ ~deleted => numThreads' = Cardinality(Counted(worker'))
    /\ deleted => numThreads' = numThreads
    /\ stage \in FromExit =>
         \A w \in Workers : worker'[w].at \in HandlerPlaces => worker[w].at \in HandlerPlaces

Quiet ==
    /\ ItemsStay /\ WorkersMove
    /\ gencb' \in {"request", "reject"} /\ event' \in EventStates /\ exiter' \in {"out", "asleep", "woken"}
    /\ loopbreak' \in BOOLEAN /\ running' \in BOOLEAN
    /\ fRPCRunning' \in BOOLEAN /\ fRequestShutdown' \in BOOLEAN
    /\ misuse' \subseteq {"worker", "callback"}
    /\ stage' \in FromInterrupted => ~running'
    /\ stage' \in FromExit => stage \in FromExit \/ \A w \in Workers : worker'[w].at \notin HandlerPlaces
    /\ deleted <=> stage' \in FromDeleted

(* A step that also leaves the count of the workers right.                   *)
LEMMA QuietKeepsServer ==
  ASSUME ServerInv, ItemInv, Quiet
  PROVE  ServerInv' /\ ItemInv'
  <1>1. numThreads' \in 0..Cardinality(Workers)
    <2>1. CASE deleted
      BY Zenon, <2>1 DEF Quiet, WorkersMove, ServerInv, HttpTypeOK
    <2>2. CASE ~deleted
      BY Zenon, <2>2, CountedSize DEF Quiet, WorkersMove
    <2> QED
      BY Zenon, <2>1, <2>2
  <1>2. /\ queue' = queue /\ taken' = taken /\ sent' = sent /\ replies' = replies /\ deleted' = deleted
    BY Zenon DEF Quiet, ItemsStay
  <1>3. HttpTypeOK'
    BY <1>1, <1>2, Zenon DEF Quiet, ServerInv, HttpTypeOK, WorkersMove, Work, EventStates
  <1>4. stage' \in FromExit => \A w \in Workers : worker'[w].at \notin HandlerPlaces
    BY Zenon DEF Quiet, ServerInv, WorkersMove
  <1>5. ~deleted' => numThreads' = Cardinality(Counted(worker)')
    BY <1>2, Zenon DEF Quiet, WorkersMove, Counted
  <1>6. (stage' \in FromInterrupted => ~running') /\ (deleted' <=> stage' \in FromDeleted)
    BY Zenon, <1>2 DEF Quiet
  <1>7. ServerInv'
    BY <1>3, <1>4, <1>5, <1>6, Zenon DEF ServerInv
  <1> QED
    BY <1>7, ItemsStayKeepsItems, Zenon DEF Quiet

(* Workers that sleep are woken, some or all of them; handlers look again.   *)
LEMMA WokenFacts ==
  ASSUME worker \in [Workers -> Work], NEW W \in SUBSET AsleepWorkers
  PROVE  /\ Woken(W) \in [Workers -> Work] /\ Counted(Woken(W)) = Counted(worker)
         /\ \A w \in Workers : /\ Woken(W)[w].item = worker[w].item
                               /\ Woken(W)[w].at \in HandlerPlaces <=> worker[w].at \in HandlerPlaces
                               /\ w \notin AsleepWorkers => Woken(W)[w] = worker[w]
  <1>1. ASSUME NEW w \in Workers
        PROVE  /\ Woken(W)[w] \in Work /\ Woken(W)[w].item = worker[w].item
               /\ Woken(W)[w].at \in HandlerPlaces <=> worker[w].at \in HandlerPlaces
               /\ w \notin AsleepWorkers => Woken(W)[w] = worker[w]
               /\ Woken(W)[w].at \in CountedPlaces <=> worker[w].at \in CountedPlaces
    <2>1. worker[w] \in Work /\ (w \in W => worker[w].at = "asleep")
      BY Zenon DEF AsleepWorkers
    <2> QED
      BY Zenon, <2>1 DEF Woken, Work, WorkerPlaces, HandlerPlaces, CountedPlaces, AsleepWorkers
  <1> QED
    BY <1>1, Zenon DEF Woken, Counted

(* Waking the handlers that wait leaves their requests with them.            *)
LEMMA WokenHandlersFacts ==
  ASSUME worker \in [Workers -> Work]
  PROVE  /\ WokenHandlers \in [Workers -> Work] /\ Counted(WokenHandlers) = Counted(worker)
         /\ \A w \in Workers : /\ WokenHandlers[w].item = worker[w].item
                               /\ WokenHandlers[w].at \in HandlerPlaces <=> worker[w].at \in HandlerPlaces
  <1>1. ASSUME NEW w \in Workers
        PROVE  /\ WokenHandlers[w] \in Work /\ WokenHandlers[w].item = worker[w].item
               /\ WokenHandlers[w].at \in HandlerPlaces <=> worker[w].at \in HandlerPlaces
               /\ WokenHandlers[w].at \in CountedPlaces <=> worker[w].at \in CountedPlaces
    <2>1. worker[w] \in Work
      OBVIOUS
    <2> QED
      BY Zenon, <2>1 DEF WokenHandlers, Work, WorkerPlaces, HandlerPlaces, CountedPlaces
  <1> QED
    BY <1>1, Zenon DEF WokenHandlers, Counted


(* What is true of the variables that most steps leave alone.                *)
LEMMA ServerTypes ==
  ASSUME ServerInv
  PROVE  /\ worker \in [Workers -> Work] /\ event \in EventStates
         /\ gencb \in {"request", "reject"} /\ exiter \in {"out", "asleep", "woken"}
         /\ loopbreak \in BOOLEAN /\ running \in BOOLEAN
         /\ fRPCRunning \in BOOLEAN /\ fRequestShutdown \in BOOLEAN
         /\ misuse \subseteq {"worker", "callback"}
         /\ (stage \in FromInterrupted => ~running) /\ (deleted <=> stage \in FromDeleted)
         /\ stage \in FromExit => \A w \in Workers : worker[w].at \notin HandlerPlaces
         /\ ~deleted => numThreads = Cardinality(Counted(worker))
  BY Zenon DEF ServerInv, HttpTypeOK, Work, EventStates

(* A worker goes on without taking or answering a request.                   *)
LEMMA WorkerMovesKeepsServer ==
  ASSUME ServerInv, ItemInv, NEW w \in Workers, UNCHANGED mainVars,
         \/ CountIn(w) \/ Block(w) \/ CountOut(w) \/ UseDeleted(w)
         \/ NextItem(w) /\ queue' = queue
         \/ Handle(w) /\ replies' = replies /\ worker' = [worker EXCEPT ![w].at = "looked"]
  PROVE  ServerInv' /\ ItemInv'
  <1>0. worker \in [Workers -> Work] /\ stage' = stage
    BY Zenon, ServerTypes DEF mainVars
  <1>1. CASE CountIn(w)
    <2>1. /\ worker[w].at = "created" /\ ~deleted /\ numThreads' = numThreads + 1
          /\ worker' = [worker EXCEPT ![w].at = "loop"]
          /\ UNCHANGED <<queue, running, deleted, exiter, eventVars, replies, rpcVars, misuse>>
      BY Zenon, <1>1 DEF CountIn
    <2>2. "loop" \in WorkerPlaces /\ "loop" \in CountedPlaces /\ "created" \notin CountedPlaces
          /\ "loop" \notin HandlerPlaces /\ "created" \notin HandlerPlaces
      BY Zenon DEF WorkerPlaces, CountedPlaces, HandlerPlaces
    <2>3. /\ worker' \in [Workers -> Work] /\ worker'[w].at = "loop" /\ worker'[w].item = worker[w].item
          /\ \A v \in Workers : v # w => worker'[v] = worker[v]
      BY Zenon, <1>0, <2>1, <2>2 DEF Work
    <2>31. w \notin Counted(worker) /\ Counted(worker') = Counted(worker) \cup {w}
      BY <2>1, <2>2, <2>3 DEF Counted
    <2>4. numThreads' = Cardinality(Counted(worker'))
      <3>1. numThreads = Cardinality(Counted(worker)) /\ IsFiniteSet(Counted(worker))
        BY <2>1, ServerTypes, CountedSize, Zenon
      <3> QED
        BY <2>1, <2>31, <3>1, OneMore, Zenon
    <2>5. Quiet
      BY <1>0, <2>1, <2>2, <2>3, <2>4, ServerTypes DEF Quiet, ItemsStay, WorkersMove, eventVars, rpcVars
    <2> QED
      BY Zenon, <2>5, QuietKeepsServer
  <1>2. ASSUME NEW p \in WorkerPlaces, p \in CountedPlaces, worker[w].at \in CountedPlaces,
               p \in HandlerPlaces <=> worker[w].at \in HandlerPlaces,
               worker' = [worker EXCEPT ![w].at = p],
               UNCHANGED <<queueVars, exiter, eventVars, replies, rpcVars, misuse>>
        PROVE  ServerInv' /\ ItemInv'
    <2>1. /\ worker' \in [Workers -> Work] /\ worker'[w].at = p /\ worker'[w].item = worker[w].item
          /\ \A v \in Workers : v # w => worker'[v] = worker[v]
      BY Zenon, <1>0, <1>2 DEF Work
    <2>11. Counted(worker') = Counted(worker)
      BY Zenon, <1>2, <2>1 DEF Counted
    <2>2. \A v \in Workers : /\ worker'[v].item = worker[v].item
                             /\ worker'[v].at \in HandlerPlaces <=> worker[v].at \in HandlerPlaces
      BY <1>2, <2>1, Zenon
    <2>3. /\ queue' = queue /\ running' = running /\ numThreads' = numThreads /\ deleted' = deleted
          /\ exiter' = exiter /\ gencb' = gencb /\ event' = event /\ loopbreak' = loopbreak
          /\ taken' = taken /\ sent' = sent /\ replies' = replies /\ misuse' = misuse
          /\ fRPCRunning' = fRPCRunning /\ fRequestShutdown' = fRequestShutdown
      BY Zenon, <1>2 DEF queueVars, eventVars, rpcVars
    <2>4. Quiet
      BY Zenon, <1>0, <2>1, <2>11, <2>2, <2>3, ServerTypes DEF Quiet, ItemsStay, WorkersMove
    <2> QED
      BY Zenon, <2>4, QuietKeepsServer
  <1>3. CASE Block(w) \/ (Handle(w) /\ replies' = replies /\ worker' = [worker EXCEPT ![w].at = "looked"])
    <2>1. /\ {"looked", "blocked"} \subseteq WorkerPlaces \cap HandlerPlaces \cap CountedPlaces
          /\ {"handling", "looked"} \subseteq HandlerPlaces \cap CountedPlaces
      BY Zenon DEF WorkerPlaces, CountedPlaces, HandlerPlaces
    <2>2. CASE Block(w)
      BY Zenon, <1>2, <2>1, <2>2 DEF Block
    <2>3. CASE Handle(w) /\ replies' = replies /\ worker' = [worker EXCEPT ![w].at = "looked"]
      <3>1. /\ worker[w].at = "handling" /\ fRPCRunning' = fRPCRunning
            /\ UNCHANGED <<queueVars, exiter, eventVars, misuse>>
            /\ fRequestShutdown' = fRequestShutdown \/ Reply(w)
        BY <2>3, Zenon DEF Handle
      <3>2. ~Reply(w)
        <4>1. SUFFICES ASSUME Reply(w) PROVE FALSE
          OBVIOUS
        <4>2. worker'[w].at = "loop"
          BY Zenon, <1>0, <4>1 DEF Reply
        <4>3. worker'[w].at = "looked"
          BY Zenon, <1>0, <2>3 DEF Work
        <4> QED
          BY Zenon, <4>2, <4>3
      <3> QED
        BY Zenon, <1>2, <2>1, <2>3, <3>1, <3>2 DEF rpcVars
    <2> QED
      BY Zenon, <1>3, <2>2, <2>3
  <1>4. CASE NextItem(w) /\ queue' = queue
    <2>1. /\ {"asleep", "leaving"} \subseteq (WorkerPlaces \cap CountedPlaces) \ HandlerPlaces
          /\ "loop" \in CountedPlaces \ HandlerPlaces
      BY Zenon DEF WorkerPlaces, CountedPlaces, HandlerPlaces
    <2>2. ~(running /\ queue # <<>> /\ queue' = Tail(queue))
      <3>1. queue \in Seq(Requests)
        BY Zenon DEF ServerInv, HttpTypeOK
      <3> QED
        BY <1>4, <3>1
    <2>3. /\ worker[w].at = "loop"
          /\ \E p \in {"asleep", "leaving"} : worker' = [worker EXCEPT ![w].at = p]
          /\ UNCHANGED <<queueVars, exiter, eventVars, replies, rpcVars, misuse>>
      BY <1>4, <2>2, Zenon DEF NextItem, queueVars
    <2> QED
      BY Zenon, <1>2, <2>1, <2>3
  <1>5. CASE CountOut(w)
    <2> DEFINE f == Woken(AsleepWorkers)
    <2>1. /\ worker[w].at = "leaving" /\ ~deleted /\ numThreads' = numThreads - 1
          /\ worker' = [f EXCEPT ![w].at = "gone"] /\ WakeExiter
          /\ UNCHANGED <<queue, running, deleted, eventVars, replies, rpcVars, misuse>>
      BY Zenon, <1>5 DEF CountOut
    <2>2. /\ f \in [Workers -> Work] /\ Counted(f) = Counted(worker)
          /\ \A v \in Workers : /\ f[v].item = worker[v].item
                                /\ f[v].at \in HandlerPlaces <=> worker[v].at \in HandlerPlaces
                                /\ v \notin AsleepWorkers => f[v] = worker[v]
      BY Zenon, <1>0, WokenFacts
    <2> HIDE DEF f
    <2>3. "gone" \in WorkerPlaces /\ "leaving" \in CountedPlaces /\ "gone" \notin CountedPlaces
          /\ "gone" \notin HandlerPlaces /\ "leaving" \notin HandlerPlaces
      BY Zenon DEF WorkerPlaces, CountedPlaces, HandlerPlaces
    <2>4. f[w] = worker[w]
      BY Zenon, <2>1, <2>2 DEF AsleepWorkers
    <2>5. /\ worker' \in [Workers -> Work] /\ worker'[w].at = "gone" /\ worker'[w].item = f[w].item
          /\ \A v \in Workers : v # w => worker'[v] = f[v]
      BY <2>1, <2>2, <2>3 DEF Work
    <2>51. w \in Counted(f) /\ Counted(worker') = Counted(f) \ {w}
      BY <2>1, <2>3, <2>4, <2>5 DEF Counted
    <2>6. numThreads' = Cardinality(Counted(worker'))
      <3>1. numThreads = Cardinality(Counted(f)) /\ IsFiniteSet(Counted(f))
        BY <2>1, <2>2, ServerTypes, CountedSize, Zenon
      <3> QED
        BY <2>1, <2>51, <3>1, OneLess, Zenon
    <2>7. \A v \in Workers : /\ worker'[v].item = worker[v].item
                             /\ worker'[v].at \in HandlerPlaces <=> worker[v].at \in HandlerPlaces
      BY <2>1, <2>2, <2>3, <2>4, <2>5, Zenon
    <2>8. exiter' \in {"out", "asleep", "woken"}
      BY Zenon, <2>1, ServerTypes DEF WakeExiter
    <2>9. Quiet
      BY Zenon, <1>0, <2>1, <2>5, <2>6, <2>7, <2>8, ServerTypes DEF Quiet, ItemsStay, WorkersMove, eventVars, rpcVars
    <2> QED
      BY Zenon, <2>9, QuietKeepsServer
  <1>6. CASE UseDeleted(w)
    <2>1. /\ deleted /\ worker[w].at \in {"created", "loop", "leaving"}
          /\ misuse' = misuse \cup {"worker"} /\ worker' = [worker EXCEPT ![w].at = "gone"]
          /\ UNCHANGED <<queueVars, exiter, eventVars, replies, rpcVars>>
      BY Zenon, <1>6 DEF UseDeleted
    <2>2. "gone" \in WorkerPlaces /\ "gone" \notin HandlerPlaces /\ worker[w].at \notin HandlerPlaces
      BY Zenon, <2>1 DEF WorkerPlaces, HandlerPlaces
    <2>3. /\ worker' \in [Workers -> Work] /\ worker'[w].at = "gone" /\ worker'[w].item = worker[w].item
          /\ \A v \in Workers : v # w => worker'[v] = worker[v]
      BY Zenon, <1>0, <2>1, <2>2 DEF Work
    <2>4. \A v \in Workers : /\ worker'[v].item = worker[v].item
                             /\ worker'[v].at \in HandlerPlaces <=> worker[v].at \in HandlerPlaces
      BY <2>2, <2>3, Zenon
    <2>5. Quiet
      BY Zenon, <1>0, <2>1, <2>3, <2>4, ServerTypes DEF Quiet, ItemsStay, WorkersMove, queueVars, eventVars, rpcVars
    <2> QED
      BY Zenon, <2>5, QuietKeepsServer
  <1> QED
    BY Zenon, <1>1, <1>3, <1>4, <1>5, <1>6


(* The stages that matter to the server are entered from one to the next.    *)
SameFor(x, y) ==
    /\ y \in FromInterrupted => x \in FromInterrupted
    /\ y \in FromExit => x \in FromExit
    /\ y \in FromDeleted <=> x \in FromDeleted

(* Steps that leave the workers and the requests alone.                      *)
LEMMA NobodyMovesKeepsServer ==
  ASSUME ServerInv, ItemInv,
         queue' = queue, numThreads' = numThreads, deleted' = deleted, worker' = worker,
         taken' = taken, sent' = sent, replies' = replies, misuse' = misuse, running' = running,
         event' = event \/ LoopEnds, SameFor(stage, stage') \/ WaitExit,
         gencb' \in {"request", "reject"}, exiter' \in {"out", "asleep", "woken"},
         loopbreak' \in BOOLEAN, fRPCRunning' \in BOOLEAN, fRequestShutdown' \in BOOLEAN
  PROVE  ServerInv' /\ ItemInv'
  <1>1. /\ event' \in EventStates /\ event'.item = event.item
        /\ event'.at = "callback" <=> event.at = "callback"
    <2>1. CASE event' = event
      BY Zenon, <2>1, ServerTypes
    <2>2. CASE LoopEnds
      BY Zenon, <2>2, ServerTypes DEF LoopEnds, EventStates
    <2> QED
      BY Zenon, <2>1, <2>2
  <1>2. ItemsStay /\ WorkersMove
    BY Zenon, <1>1, ServerTypes DEF ItemsStay, WorkersMove
  <1>3. CASE SameFor(stage, stage')
    <2>1. Quiet
      BY Zenon, <1>1, <1>2, <1>3, ServerTypes DEF Quiet, SameFor
    <2> QED
      BY Zenon, <2>1, QuietKeepsServer
  <1>4. CASE WaitExit
    <2>1. stage = "waitExit" /\ (stage' = stage \/ (stage' = "deleteQueue" /\ numThreads = 0))
      BY Zenon, <1>4 DEF WaitExit
    <2>2. stage \in FromInterrupted /\ stage \notin FromDeleted /\ stage' \notin FromDeleted
          /\ (stage' \in FromExit => numThreads = 0)
      BY Zenon, <2>1 DEF FromInterrupted, FromStopped, FromJoined, FromExit, FromDeleted, FromReset
    <2>3. ~running /\ ~deleted /\ numThreads = Cardinality(Counted(worker))
      BY Zenon, <2>2, ServerTypes
    <2>4. numThreads = 0 => \A w \in Workers : worker[w].at \notin HandlerPlaces
      <3>1. SUFFICES ASSUME numThreads = 0 PROVE \A w \in Workers : worker[w].at \notin HandlerPlaces
        OBVIOUS
      <3>2. Counted(worker) = {}
        BY <2>3, <3>1, CountedSize, FS_EmptySet, Zenon
      <3>3. HandlerPlaces \subseteq CountedPlaces
        BY Zenon DEF HandlerPlaces, CountedPlaces
      <3> QED
        BY <3>2, <3>3, Zenon DEF Counted
    <2>5. Quiet
      BY Zenon, <1>1, <1>2, <2>2, <2>3, <2>4, ServerTypes DEF Quiet
    <2> QED
      BY Zenon, <2>5, QuietKeepsServer
  <1> QED
    BY Zenon, <1>3, <1>4

(* The steps that move no worker and no request.                             *)
LEMMA SmallStepsKeepServer ==
  ASSUME ServerInv, ItemInv,
         \/ UNCHANGED <<httpVars, stage>>
         \/ AppInitDone \/ WaitForShutdown \/ InterruptHTTPServer \/ InterruptRPC \/ InterruptThreads
         \/ JoinThreads \/ WaitExit \/ WaitEvent \/ JoinEvent \/ Reset \/ StartShutdown
         \/ LoopEnds /\ UNCHANGED mainVars
  PROVE  ServerInv' /\ ItemInv'
  <1> USE DEF queueVars, eventVars, rpcVars, Go
  <1>1. /\ queue' = queue /\ numThreads' = numThreads /\ deleted' = deleted /\ worker' = worker
        /\ taken' = taken /\ sent' = sent /\ replies' = replies /\ misuse' = misuse
        /\ running' = running
    BY Zenon DEF httpVars, AppInitDone, WaitForShutdown, InterruptHTTPServer, InterruptRPC, InterruptThreads,
           JoinThreads, WaitExit, WaitEvent, JoinEvent, Reset, StartShutdown, LoopEnds
  <1>2. /\ event' = event \/ LoopEnds
        /\ gencb' \in {"request", "reject"} /\ exiter' \in {"out", "asleep", "woken"}
        /\ loopbreak' \in BOOLEAN /\ fRPCRunning' \in BOOLEAN /\ fRequestShutdown' \in BOOLEAN
    <2>1. CASE UNCHANGED httpVars
      BY Zenon, <2>1, ServerTypes DEF httpVars
    <2>2. CASE AppInitDone \/ WaitForShutdown \/ InterruptThreads \/ JoinThreads \/ JoinEvent \/ Reset
      BY Zenon, <2>2, ServerTypes DEF httpVars, AppInitDone, WaitForShutdown, InterruptThreads, JoinThreads,
                               JoinEvent, Reset
    <2>3. CASE InterruptHTTPServer \/ InterruptRPC \/ WaitExit \/ WaitEvent \/ StartShutdown
      BY Zenon, <2>3, ServerTypes DEF InterruptHTTPServer, InterruptRPC, WaitExit, WaitEvent, StartShutdown
    <2>4. CASE LoopEnds
      BY Zenon, <2>4, ServerTypes DEF LoopEnds
    <2> QED
      BY Zenon, <2>1, <2>2, <2>3, <2>4
  <1>3. SameFor(stage, stage') \/ WaitExit
    <2>1. CASE stage' = stage
      BY Zenon, <2>1 DEF SameFor
    <2>2. CASE stage' # stage /\ ~WaitExit
      <3>1. \/ stage = "start" /\ stage' = "run"
            \/ stage = "run" /\ stage' = "interruptServer"
            \/ stage = "interruptServer" /\ stage' = "interruptQueue"
            \/ stage = "interruptRPC" /\ stage' = "interruptThreads"
            \/ stage = "interruptThreads" /\ stage' = "joinThreads"
            \/ stage = "joinThreads" /\ stage' = "stopRPC"
            \/ stage = "waitEvent" /\ stage' = "joinEvent"
            \/ stage = "joinEvent" /\ stage' = "reset"
            \/ stage = "reset" /\ stage' = "done"
        BY <2>2, Zenon DEF AppInitDone, WaitForShutdown, InterruptHTTPServer, InterruptRPC, InterruptThreads,
               JoinThreads, WaitEvent, JoinEvent, Reset, StartShutdown, mainVars
      <3> QED
        BY Zenon, <3>1 DEF SameFor, FromInterrupted, FromStopped, FromJoined, FromExit, FromDeleted, FromReset
    <2> QED
      BY Zenon, <2>1, <2>2
  <1> QED
    BY <1>1, <1>2, <1>3, NobodyMovesKeepsServer, Zenon

(* Interrupt of the queue, the end of the RPC server, and new blocks wake    *)
(* workers.                                                                  *)
LEMMA WakingKeepsServer ==
  ASSUME ServerInv, ItemInv, InterruptQueue \/ StopRPC \/ (NewBlock /\ UNCHANGED mainVars)
  PROVE  ServerInv' /\ ItemInv'
  <1> USE DEF queueVars, eventVars, rpcVars, Go
  <1>1. /\ queue' = queue /\ numThreads' = numThreads /\ deleted' = deleted
        /\ taken' = taken /\ sent' = sent /\ replies' = replies /\ misuse' = misuse
        /\ event' = event /\ gencb' = gencb /\ exiter' = exiter /\ loopbreak' = loopbreak
        /\ fRPCRunning' = fRPCRunning /\ fRequestShutdown' = fRequestShutdown
    BY Zenon DEF InterruptQueue, StopRPC, NewBlock
  <1>2. worker \in [Workers -> Work]
    BY Zenon, ServerTypes
  <1>3. /\ worker' \in [Workers -> Work] /\ Counted(worker') = Counted(worker)
        /\ \A w \in Workers : /\ worker'[w].item = worker[w].item
                              /\ worker'[w].at \in HandlerPlaces <=> worker[w].at \in HandlerPlaces
    <2>1. worker' = Woken(AsleepWorkers) \/ worker' = WokenHandlers
      BY Zenon DEF InterruptQueue, StopRPC, NewBlock
    <2>2. CASE worker' = Woken(AsleepWorkers)
      <3>1. AsleepWorkers \in SUBSET AsleepWorkers
        OBVIOUS
      <3> QED
        BY <1>2, <2>2, <3>1, WokenFacts, Zenon
    <2>3. CASE worker' = WokenHandlers
      BY <1>2, <2>3, WokenHandlersFacts, Zenon
    <2> QED
      BY Zenon, <2>1, <2>2, <2>3
  <1>4. ItemsStay /\ WorkersMove
    BY Zenon, <1>1, <1>3, ServerTypes DEF ItemsStay, WorkersMove
  <1>5. /\ running' \in BOOLEAN /\ (stage' \in FromInterrupted => ~running')
        /\ (stage' \in FromExit => stage \in FromExit) /\ (stage' \in FromDeleted <=> stage \in FromDeleted)
    <2>1. CASE InterruptQueue
      BY Zenon, <2>1 DEF InterruptQueue, FromExit, FromDeleted, FromReset
    <2>2. CASE StopRPC
      <3>1. stage = "stopRPC" /\ stage' = "waitExit" /\ running' = running
        BY Zenon, <2>2 DEF StopRPC
      <3>2. stage \in FromInterrupted /\ stage' \notin FromExit /\ stage' \notin FromDeleted
            /\ stage \notin FromDeleted
        BY Zenon, <3>1 DEF FromInterrupted, FromStopped, FromJoined, FromExit, FromDeleted, FromReset
      <3> QED
        BY Zenon, <3>1, <3>2, ServerTypes
    <2>3. CASE NewBlock /\ UNCHANGED mainVars
      <3>1. stage' = stage /\ running' = running
        BY Zenon, <2>3 DEF NewBlock, mainVars
      <3> QED
        BY Zenon, <3>1, ServerTypes
    <2> QED
      BY Zenon, <2>1, <2>2, <2>3
  <1>6. Quiet
    BY Zenon, <1>1, <1>4, <1>5, ServerTypes DEF Quiet
  <1> QED
    BY Zenon, <1>6, QuietKeepsServer

--------------------------------------------------------------------------------
(* The steps that move a request. First what ItemInv says of one.            *)

(* A request that has not come in is nowhere, and one that has is in one     *)
(* place.                                                                    *)
LEMMA ItemFacts ==
  ASSUME ServerInv, ItemInv
  PROVE  /\ queue \in Seq(Requests) /\ Len(queue) \in Nat /\ Len(queue) <= MaxDepth
         /\ replies \in [Requests -> 0..1] /\ sent \subseteq taken /\ taken \subseteq Requests
         /\ NoRequest \notin Requests
         /\ \A r \in Requests : /\ r \notin taken => ~Held(r) /\ replies[r] = 0 /\ r \notin sent
                                /\ Queued(r) => ~Handled(r) /\ event.item # r
                                /\ Handled(r) => event.item # r
         /\ \A i \in 1..Len(queue) : queue[i] \in Requests
  <1>1. /\ queue \in Seq(Requests) /\ Len(queue) <= MaxDepth
        /\ replies \in [Requests -> 0..1] /\ sent \subseteq taken /\ taken \subseteq Requests
    BY Zenon DEF ServerInv, HttpTypeOK
  <1>2. NoRequest \notin Requests
    BY Zenon, WorkQueueAssumption DEF NoRequest
  <1>3. \A r \in Requests : replies[r] = 0 \/ replies[r] > 0
    BY <1>1
  <1>4. \A r \in Requests : /\ r \notin taken => ~Held(r) /\ replies[r] = 0 /\ r \notin sent
                            /\ Queued(r) => ~Handled(r) /\ event.item # r
                            /\ Handled(r) => event.item # r
    BY <1>1, <1>3, Zenon DEF ItemInv
  <1> QED
    BY <1>1, <1>2, <1>4

(* http_request_cb takes a request, or it is answered at once.               *)
LEMMA RequestKeepsItems ==
  ASSUME ServerInv, ItemInv, NEW r \in Requests, Request(r), UNCHANGED mainVars
  PROVE  ServerInv' /\ ItemInv'
  <1>0. /\ queue' = queue /\ numThreads' = numThreads /\ deleted' = deleted /\ running' = running
        /\ worker' = worker /\ exiter' = exiter /\ gencb' = gencb /\ loopbreak' = loopbreak
        /\ fRPCRunning' = fRPCRunning /\ fRequestShutdown' = fRequestShutdown /\ misuse' = misuse
        /\ stage' = stage /\ taken' = taken \cup {r} /\ event.at = "loop" /\ r \notin taken
    BY Zenon DEF Request, queueVars, rpcVars, mainVars
  <1>1. \/ event' = [at |-> "callback", item |-> r] /\ replies' = replies /\ sent' = sent
        \/ event' = event /\ replies' = [replies EXCEPT ![r] = @ + 1] /\ sent' = sent
        \/ event' = event /\ replies' = replies /\ sent' = sent \cup {r}
    BY Zenon DEF Request
  <1>2. ~Held(r) /\ replies[r] = 0 /\ r \notin sent /\ event.item = NoRequest /\ r # NoRequest
    <2>1. event.item = NoRequest
      BY Zenon, <1>0 DEF ItemInv
    <2> QED
      BY Zenon, <1>0, <2>1, ItemFacts
  <1>3. (\A x : Queued(x)' <=> Queued(x)) /\ (\A x : Handled(x)' <=> Handled(x))
    BY Zenon, <1>0 DEF Queued, Handled
  <1>4. /\ replies' \in [Requests -> 0..1] /\ event' \in EventStates
        /\ sent' \subseteq taken' /\ taken' \subseteq Requests
    <2>1. event \in EventStates
      BY Zenon, ServerTypes
    <2> QED
      BY <1>0, <1>1, <1>2, <2>1, ItemFacts DEF EventStates
  <1>5. ServerInv'
    <2>1. HttpTypeOK'
      BY <1>0, <1>4, Zenon DEF ServerInv, HttpTypeOK, EventStates
    <2> QED
      BY Zenon, <1>0, <2>1 DEF ServerInv, Counted
  <1>6. \A x \in Requests : x # r => /\ replies'[x] = replies[x] /\ (x \in sent' <=> x \in sent)
                                     /\ (x \in taken' <=> x \in taken)
                                     /\ event'.item = x <=> event.item = x
                                     /\ Held(x)' <=> Held(x)
    <2>1. \A x \in Requests : x # r => /\ replies'[x] = replies[x] /\ (x \in sent' <=> x \in sent)
                                       /\ (x \in taken' <=> x \in taken)
                                       /\ event'.item = x <=> event.item = x
      BY <1>0, <1>1, <1>2, ItemFacts
    <2> QED
      BY <1>3, <2>1, Zenon DEF Held
  <1>7. ~Queued(r) /\ ~Handled(r)
    BY <1>2, Zenon DEF Held
  <1>8. /\ Held(r)' => replies'[r] = 0 /\ r \notin sent'
        /\ Held(r)' \/ replies'[r] = 1 \/ r \in sent'
        /\ event'.item # NoRequest <=> event'.at = "callback"
    <2>1. CASE event' = [at |-> "callback", item |-> r] /\ replies' = replies /\ sent' = sent
      BY Zenon, <1>2, <2>1 DEF Held
    <2>2. CASE event' = event /\ replies' = [replies EXCEPT ![r] = @ + 1] /\ sent' = sent
      <3>1. replies'[r] = 1 /\ ~Held(r)'
        BY <1>2, <1>3, <1>7, <2>2, ItemFacts DEF Held
      <3> QED
        BY Zenon, <2>2, <3>1 DEF ItemInv
    <2>3. CASE event' = event /\ replies' = replies /\ sent' = sent \cup {r}
      <3>1. ~Held(r)'
        BY Zenon, <1>2, <1>3, <1>7, <2>3 DEF Held
      <3> QED
        BY Zenon, <2>3, <3>1 DEF ItemInv
    <2> QED
      BY Zenon, <1>1, <2>1, <2>2, <2>3
  <1>9. \A x \in Requests : /\ ~(Queued(x)' /\ Handled(x)')
                            /\ event'.item = x => ~Queued(x)' /\ ~Handled(x)'
                            /\ Held(x)' => x \in taken' /\ replies'[x] = 0 /\ x \notin sent'
                            /\ replies'[x] > 0 => x \in taken'
    <2>1. r \in taken'
      BY Zenon, <1>0
    <2>2. ASSUME NEW x \in Requests, x # r
          PROVE  /\ ~(Queued(x)' /\ Handled(x)')
                 /\ event'.item = x => ~Queued(x)' /\ ~Handled(x)'
                 /\ Held(x)' => x \in taken' /\ replies'[x] = 0 /\ x \notin sent'
                 /\ replies'[x] > 0 => x \in taken'
      <3>1. /\ replies'[x] = replies[x] /\ (x \in sent' <=> x \in sent) /\ (x \in taken' <=> x \in taken)
            /\ (event'.item = x <=> event.item = x) /\ (Held(x)' <=> Held(x))
        BY <1>6, <2>2, Zenon
      <3> QED
        BY <1>3, <3>1, Zenon DEF ItemInv
    <2>3. /\ ~(Queued(r)' /\ Handled(r)')
          /\ event'.item = r => ~Queued(r)' /\ ~Handled(r)'
          /\ Held(r)' => r \in taken' /\ replies'[r] = 0 /\ r \notin sent'
          /\ replies'[r] > 0 => r \in taken'
      BY <1>3, <1>7, <1>8, <2>1, Zenon
    <2> QED
      BY <2>2, <2>3, Zenon
  <1>10. misuse' = {} => \A x \in taken' : Held(x)' \/ replies'[x] = 1 \/ x \in sent'
    <2>1. \A x \in taken' : x \in Requests
      BY Zenon, <1>4
    <2> QED
      BY <1>0, <1>6, <1>8, <2>1, Zenon DEF ItemInv
  <1>11. /\ \A w \in Workers : worker'[w].item # NoRequest <=> worker'[w].at \in HandlerPlaces
         /\ \A v, w \in Workers : v # w /\ worker'[v].item = worker'[w].item => worker'[v].item = NoRequest
         /\ \A i, j \in 1..Len(queue') : queue'[i] = queue'[j] => i = j
         /\ deleted' => queue' = <<>>
    BY <1>0 DEF ItemInv
  <1> QED
    BY <1>5, <1>8, <1>9, <1>10, <1>11, Zenon DEF ItemInv

(* A reply goes out.                                                         *)
LEMMA SendKeepsItems ==
  ASSUME ServerInv, ItemInv, NEW r \in Requests, SendReply(r), UNCHANGED mainVars
  PROVE  ServerInv' /\ ItemInv'
  <1>0. /\ queue' = queue /\ numThreads' = numThreads /\ deleted' = deleted /\ running' = running
        /\ worker' = worker /\ exiter' = exiter /\ gencb' = gencb /\ loopbreak' = loopbreak
        /\ fRPCRunning' = fRPCRunning /\ fRequestShutdown' = fRequestShutdown /\ misuse' = misuse
        /\ stage' = stage /\ taken' = taken /\ event' = event /\ replies' = replies
        /\ sent' = sent \cup {r} /\ replies[r] > 0
    BY Zenon DEF SendReply, queueVars, rpcVars, mainVars
  <1>1. /\ \A x : Queued(x)' <=> Queued(x)
        /\ \A x : Handled(x)' <=> Handled(x)
        /\ \A x : Held(x)' <=> Held(x)
    BY Zenon, <1>0 DEF Queued, Handled, Held
  <1>2. r \in taken /\ ~Held(r)
    BY <1>0 DEF ItemInv
  <1>3. ServerInv'
    <2>1. sent' \subseteq taken'
      BY Zenon, <1>0, <1>2, ItemFacts
    <2>2. HttpTypeOK'
      BY <1>0, <2>1, ZenonT(30) DEF ServerInv, HttpTypeOK
    <2> QED
      BY Zenon, <1>0, <2>2 DEF ServerInv, Counted
  <1>4. \A x : x \in sent' <=> x \in sent \/ x = r
    BY Zenon, <1>0
  <1>5. \A x \in Requests : /\ ~(Queued(x)' /\ Handled(x)')
                            /\ event'.item = x => ~Queued(x)' /\ ~Handled(x)'
                            /\ Held(x)' => x \in taken' /\ replies'[x] = 0 /\ x \notin sent'
                            /\ replies'[x] > 0 => x \in taken'
    BY <1>0, <1>1, <1>2, <1>4, Zenon DEF ItemInv
  <1>6. misuse' = {} => \A x \in taken' : Held(x)' \/ replies'[x] = 1 \/ x \in sent'
    BY <1>0, <1>1, <1>4, Zenon DEF ItemInv
  <1>7. /\ \A w \in Workers : worker'[w].item # NoRequest <=> worker'[w].at \in HandlerPlaces
        /\ event'.item # NoRequest <=> event'.at = "callback"
        /\ \A v, w \in Workers : v # w /\ worker'[v].item = worker'[w].item => worker'[v].item = NoRequest
        /\ \A i, j \in 1..Len(queue') : queue'[i] = queue'[j] => i = j
        /\ deleted' => queue' = <<>>
    BY <1>0 DEF ItemInv
  <1> QED
    BY <1>3, <1>5, <1>6, <1>7, Zenon DEF ItemInv


(* A worker takes the first item of the queue.                               *)
LEMMA TakeKeepsItems ==
  ASSUME ServerInv, ItemInv, NEW w \in Workers, UNCHANGED mainVars,
         worker[w].at = "loop", ~deleted, running, queue # <<>>,
         worker' = [worker EXCEPT ![w] = [at |-> "handling", item |-> queue[1]]],
         queue' = Tail(queue),
         UNCHANGED <<running, numThreads, deleted, exiter, eventVars, replies, rpcVars, misuse>>
  PROVE  ServerInv' /\ ItemInv'
  <1> DEFINE r == queue[1]
  <1>0. /\ running' = running /\ numThreads' = numThreads /\ deleted' = deleted /\ exiter' = exiter
        /\ gencb' = gencb /\ event' = event /\ loopbreak' = loopbreak /\ taken' = taken /\ sent' = sent
        /\ replies' = replies /\ misuse' = misuse /\ stage' = stage
        /\ fRPCRunning' = fRPCRunning /\ fRequestShutdown' = fRequestShutdown
    BY Zenon DEF eventVars, rpcVars, mainVars
  <1>1. /\ queue \in Seq(Requests) /\ Len(queue) \in Nat /\ Len(queue) <= MaxDepth /\ MaxDepth \in Nat
        /\ worker \in [Workers -> Work]
    BY Zenon, ItemFacts, ServerTypes, WorkQueueAssumption
  <1>2. /\ Len(queue) >= 1 /\ r \in Requests /\ Len(queue') = Len(queue) - 1 /\ queue' \in Seq(Requests)
        /\ \A i \in 1..Len(queue') : queue'[i] = queue[i + 1]
    BY <1>1
  <1>3. r # NoRequest /\ Queued(r) /\ worker[w].item = NoRequest
    <2>1. "loop" \notin HandlerPlaces
      BY Zenon DEF HandlerPlaces
    <2> QED
      BY <1>1, <1>2, <2>1, ItemFacts DEF Queued, ItemInv
  <1>4. /\ worker' \in [Workers -> Work] /\ worker'[w].at = "handling" /\ worker'[w].item = r
        /\ \A v \in Workers : v # w => worker'[v] = worker[v]
    BY Zenon, <1>1, <1>2 DEF Work, WorkerPlaces
  <1>5. \A x : Queued(x)' <=> Queued(x) /\ x # r
    <2>1. \A i, j \in 1..Len(queue) : queue[i] = queue[j] => i = j
      BY Zenon DEF ItemInv
    <2>2. ASSUME NEW x, Queued(x)' PROVE Queued(x) /\ x # r
      <3>1. PICK i \in 1..Len(queue') : queue'[i] = x
        BY Zenon, <2>2 DEF Queued
      <3>2. i + 1 \in 1..Len(queue) /\ queue[i + 1] = x /\ 1 \in 1..Len(queue) /\ i + 1 # 1
        BY <1>1, <1>2, <3>1
      <3> QED
        BY Zenon, <2>1, <3>2 DEF Queued
    <2>3. ASSUME NEW x, Queued(x), x # r PROVE Queued(x)'
      <3>1. PICK i \in 1..Len(queue) : queue[i] = x
        BY Zenon, <2>3 DEF Queued
      <3>2. i # 1
        BY Zenon, <2>3, <3>1
      <3>3. i - 1 \in 1..Len(queue') /\ queue'[i - 1] = queue[i]
        BY <1>1, <1>2, <3>1, <3>2
      <3> QED
        BY Zenon, <3>1, <3>3 DEF Queued
    <2> QED
      BY Zenon, <2>2, <2>3
  <1>6. \A i, j \in 1..Len(queue') : queue'[i] = queue'[j] => i = j
    <2>1. SUFFICES ASSUME NEW i \in 1..Len(queue'), NEW j \in 1..Len(queue'), queue'[i] = queue'[j]
                   PROVE  i = j
      BY Zenon
    <2>2. i + 1 \in 1..Len(queue) /\ j + 1 \in 1..Len(queue) /\ queue[i + 1] = queue[j + 1]
      BY <1>1, <1>2, <2>1
    <2>3. i + 1 = j + 1
      BY Zenon, <2>2 DEF ItemInv
    <2> QED
      BY <2>3
  <1> HIDE DEF r
  <1>7. \A x \in Requests : Handled(x)' <=> Handled(x) \/ x = r
    <2>1. \A x \in Requests : worker[w].item # x
      BY Zenon, <1>3, ItemFacts
    <2> QED
      BY <1>4, <2>1, Zenon DEF Handled
  <1>8. ~Handled(r) /\ event.item # r
    BY Zenon, <1>2, <1>3, ItemFacts
  <1>9. \A x \in Requests : Held(x)' <=> Held(x)
    BY <1>0, <1>3, <1>5, <1>7, <1>8, Zenon DEF Held
  <1>10. ServerInv'
    <2>1. HttpTypeOK'
      <3>1. Len(queue') <= MaxDepth
        BY <1>1, <1>2
      <3> QED
        BY <1>0, <1>2, <1>4, <3>1, Zenon DEF ServerInv, HttpTypeOK, Work
    <2>2. Counted(worker') = Counted(worker)
      BY Zenon, <1>4 DEF Counted, CountedPlaces
    <2>3. stage \notin FromInterrupted /\ stage \notin FromExit
      <3>1. FromExit \subseteq FromInterrupted
        BY Zenon DEF FromInterrupted, FromStopped, FromJoined
      <3> QED
        BY Zenon, <3>1, ServerTypes
    <2> QED
      BY <1>0, <2>1, <2>2, <2>3 DEF ServerInv
  <1>11. \A v \in Workers : worker'[v].item # NoRequest <=> worker'[v].at \in HandlerPlaces
    BY Zenon, <1>3, <1>4 DEF ItemInv, HandlerPlaces
  <1>12. \A u, v \in Workers : u # v /\ worker'[u].item = worker'[v].item => worker'[u].item = NoRequest
    <2>1. \A u \in Workers : worker[u].item # r
      BY <1>8, Zenon DEF Handled
    <2> QED
      BY <1>4, <2>1, Zenon DEF ItemInv
  <1>13. \A x \in Requests : /\ ~(Queued(x)' /\ Handled(x)')
                             /\ event'.item = x => ~Queued(x)' /\ ~Handled(x)'
                             /\ Held(x)' => x \in taken' /\ replies'[x] = 0 /\ x \notin sent'
                             /\ replies'[x] > 0 => x \in taken'
    BY <1>0, <1>5, <1>7, <1>8, <1>9, Zenon DEF ItemInv
  <1>14. misuse' = {} => \A x \in taken' : Held(x)' \/ replies'[x] = 1 \/ x \in sent'
    <2>1. \A x \in taken : x \in Requests
      BY Zenon, ItemFacts
    <2> QED
      BY <1>0, <1>9, <2>1, Zenon DEF ItemInv
  <1>15. (event'.item # NoRequest <=> event'.at = "callback") /\ ~deleted'
    <2>1. event.item # NoRequest <=> event.at = "callback"
      BY Zenon DEF ItemInv
    <2> QED
      BY <1>0, <2>1
  <1> QED
    BY <1>6, <1>10, <1>11, <1>12, <1>13, <1>14, <1>15, Zenon DEF ItemInv

(* A handler answers.                                                        *)
LEMMA ReplyKeepsItems ==
  ASSUME ServerInv, ItemInv, NEW w \in Workers, UNCHANGED mainVars,
         worker[w].at = "handling", Reply(w), fRequestShutdown' \in BOOLEAN,
         UNCHANGED <<queueVars, exiter, eventVars, fRPCRunning, misuse>>
  PROVE  ServerInv' /\ ItemInv'
  <1> DEFINE r == worker[w].item
  <1>0. /\ queue' = queue /\ running' = running /\ numThreads' = numThreads /\ deleted' = deleted
        /\ exiter' = exiter /\ gencb' = gencb /\ event' = event /\ loopbreak' = loopbreak
        /\ taken' = taken /\ sent' = sent /\ misuse' = misuse /\ stage' = stage
        /\ fRPCRunning' = fRPCRunning
    BY Zenon DEF queueVars, eventVars, mainVars
  <1>1. worker \in [Workers -> Work] /\ "handling" \in HandlerPlaces /\ "handling" \in CountedPlaces
        /\ "loop" \in CountedPlaces /\ "loop" \notin HandlerPlaces /\ "loop" \in WorkerPlaces
    BY Zenon, ServerTypes DEF HandlerPlaces, CountedPlaces, WorkerPlaces
  <1>2. r # NoRequest /\ r \in Requests /\ Handled(r)
    BY <1>1, Zenon DEF ItemInv, Work, Handled
  <1>3. replies[r] = 0 /\ r \notin sent /\ r \in taken /\ ~Queued(r) /\ event.item # r
    BY <1>2, Zenon DEF ItemInv, Held
  <1>4. /\ replies' \in [Requests -> 0..1] /\ replies'[r] = 1
        /\ \A x \in Requests : x # r => replies'[x] = replies[x]
    <2>1. replies' = [replies EXCEPT ![r] = @ + 1]
      BY Zenon DEF Reply
    <2>2. replies \in [Requests -> 0..1]
      BY Zenon, ItemFacts
    <2> HIDE DEF r
    <2> QED
      BY <1>2, <1>3, <2>1, <2>2
  <1>5. /\ worker' \in [Workers -> Work] /\ worker'[w].at = "loop" /\ worker'[w].item = NoRequest
        /\ \A v \in Workers : v # w => worker'[v] = worker[v]
    BY Zenon, <1>1 DEF Work, Reply
  <1>6. \A x \in Requests : Handled(x)' <=> Handled(x) /\ x # r
    <2>1. \A v \in Workers : v # w => worker[v].item # r
      BY <1>2, Zenon DEF ItemInv
    <2>2. \A x \in Requests : x # NoRequest
      BY ItemFacts, Zenon
    <2> QED
      BY <1>5, <2>1, <2>2, Zenon DEF Handled
  <1>7. \A x : Queued(x)' <=> Queued(x)
    BY Zenon, <1>0 DEF Queued
  <1> HIDE DEF r
  <1>8. \A x \in Requests : Held(x)' <=> Held(x) /\ x # r
    BY <1>0, <1>3, <1>6, <1>7, Zenon DEF Held
  <1>9. ServerInv'
    <2>1. HttpTypeOK'
      BY <1>0, <1>4, <1>5, Zenon DEF ServerInv, HttpTypeOK, Work
    <2>2. Counted(worker') = Counted(worker)
      BY Zenon, <1>1, <1>5 DEF Counted
    <2>3. \A v \in Workers : worker'[v].at \in HandlerPlaces => worker[v].at \in HandlerPlaces
      BY Zenon, <1>1, <1>5
    <2> QED
      BY Zenon, <1>0, <2>1, <2>2, <2>3 DEF ServerInv
  <1>10. /\ \A v \in Workers : worker'[v].item # NoRequest <=> worker'[v].at \in HandlerPlaces
         /\ \A u, v \in Workers : u # v /\ worker'[u].item = worker'[v].item => worker'[u].item = NoRequest
    <2>1. /\ \A v \in Workers : worker[v].item # NoRequest <=> worker[v].at \in HandlerPlaces
          /\ \A u, v \in Workers : u # v /\ worker[u].item = worker[v].item => worker[u].item = NoRequest
      BY Zenon DEF ItemInv
    <2>2. \A v \in Workers : worker'[v] = worker[v] \/ (worker'[v].item = NoRequest /\ worker'[v].at \notin HandlerPlaces)
      BY Zenon, <1>1, <1>5
    <2> QED
      BY <2>1, <2>2, ZenonT(30)
  <1>11. \A x \in Requests : /\ ~(Queued(x)' /\ Handled(x)')
                             /\ event'.item = x => ~Queued(x)' /\ ~Handled(x)'
                             /\ Held(x)' => x \in taken' /\ replies'[x] = 0 /\ x \notin sent'
                             /\ replies'[x] > 0 => x \in taken'
    BY <1>0, <1>3, <1>4, <1>6, <1>7, <1>8, Zenon DEF ItemInv
  <1>12. misuse' = {} => \A x \in taken' : Held(x)' \/ replies'[x] = 1 \/ x \in sent'
    <2>1. \A x \in taken : x \in Requests
      BY Zenon, ItemFacts
    <2> QED
      BY <1>0, <1>4, <1>8, <2>1, Zenon DEF ItemInv
  <1>13. /\ event'.item # NoRequest <=> event'.at = "callback"
         /\ \A i, j \in 1..Len(queue') : queue'[i] = queue'[j] => i = j
         /\ deleted' => queue' = <<>>
    <2>1. /\ event.item # NoRequest <=> event.at = "callback"
          /\ \A i, j \in 1..Len(queue) : queue[i] = queue[j] => i = j
          /\ deleted => queue = <<>>
      BY Zenon DEF ItemInv
    <2> QED
      BY <1>0, <2>1
  <1> QED
    BY Zenon, <1>9, <1>10, <1>11, <1>12, <1>13 DEF ItemInv


(* The end of http_request_cb.                                               *)
LEMMA NotifyKeepsWorkers ==
  ASSUME ServerInv, CondNotifyOne
  PROVE  /\ worker' \in [Workers -> Work] /\ Counted(worker') = Counted(worker)
         /\ exiter' \in {"out", "asleep", "woken"}
         /\ \A w \in Workers : /\ worker'[w].item = worker[w].item
                               /\ worker'[w].at \in HandlerPlaces <=> worker[w].at \in HandlerPlaces
  <1>0. worker \in [Workers -> Work] /\ exiter \in {"out", "asleep", "woken"}
    BY Zenon, ServerTypes
  <1>1. CASE worker' = worker
    BY Zenon, <1>0, <1>1 DEF CondNotifyOne
  <1>2. ASSUME NEW v \in AsleepWorkers, worker' = Woken({v}), exiter' = exiter
        PROVE  /\ worker' \in [Workers -> Work] /\ Counted(worker') = Counted(worker)
               /\ exiter' \in {"out", "asleep", "woken"}
               /\ \A w \in Workers : /\ worker'[w].item = worker[w].item
                                     /\ worker'[w].at \in HandlerPlaces <=> worker[w].at \in HandlerPlaces
    <2>1. {v} \in SUBSET AsleepWorkers
      OBVIOUS
    <2> QED
      BY <1>0, <1>2, <2>1, WokenFacts, Zenon
  <1> QED
    BY <1>1, <1>2, Zenon DEF CondNotifyOne

(* The request is queued, or refused with an answer; if the queue is gone,   *)
(* that is recorded.                                                         *)
LEMMA DispatchKeepsItems ==
  ASSUME ServerInv, ItemInv, Dispatch, UNCHANGED mainVars
  PROVE  ServerInv' /\ ItemInv'
  <1> DEFINE r == event.item
  <1>0. /\ running' = running /\ numThreads' = numThreads /\ deleted' = deleted
        /\ gencb' = gencb /\ loopbreak' = loopbreak /\ taken' = taken /\ sent' = sent
        /\ fRPCRunning' = fRPCRunning /\ fRequestShutdown' = fRequestShutdown /\ stage' = stage
    BY Zenon DEF Dispatch, rpcVars, mainVars
  <1>1. /\ worker \in [Workers -> Work] /\ exiter \in {"out", "asleep", "woken"}
        /\ misuse \subseteq {"worker", "callback"} /\ event \in EventStates
        /\ queue \in Seq(Requests) /\ Len(queue) \in Nat /\ Len(queue) <= MaxDepth /\ MaxDepth \in Nat
    BY Zenon, ItemFacts, ServerTypes, WorkQueueAssumption
  <1>2. r # NoRequest /\ r \in Requests
    BY <1>1, Zenon DEF Dispatch, ItemInv, EventStates
  <1>3. replies[r] = 0 /\ r \notin sent /\ r \in taken /\ ~Queued(r) /\ ~Handled(r)
    BY <1>2, Zenon DEF ItemInv, Held
  <1>4. /\ event'.item = NoRequest /\ event'.at # "callback" /\ event' \in EventStates
    BY DEF Dispatch, EventStates
  <1>5. CASE /\ replies' = [replies EXCEPT ![r] = @ + 1] /\ misuse' = misuse
             /\ UNCHANGED <<queue, worker, exiter>>
    <2>1. /\ replies' \in [Requests -> 0..1] /\ replies'[r] = 1
          /\ \A x \in Requests : x # r => replies'[x] = replies[x]
      BY <1>2, <1>3, <1>5, ItemFacts
    <2>2. (\A x : Queued(x)' <=> Queued(x)) /\ (\A x : Handled(x)' <=> Handled(x))
      BY Zenon, <1>5 DEF Queued, Handled
    <2>3. \A x \in Requests : x # NoRequest
      BY Zenon, ItemFacts
    <2>4. \A x \in Requests : Held(x)' <=> Held(x) /\ x # r
      BY <1>3, <1>4, <2>2, <2>3, Zenon DEF Held
    <2> HIDE DEF r
    <2>5. ServerInv'
      <3>1. HttpTypeOK'
        BY <1>0, <1>4, <1>5, <2>1, Zenon DEF ServerInv, HttpTypeOK, EventStates
      <3> QED
        BY Zenon, <1>0, <1>5, <3>1 DEF ServerInv, Counted
    <2>6. \A x \in Requests : /\ ~(Queued(x)' /\ Handled(x)')
                              /\ event'.item = x => ~Queued(x)' /\ ~Handled(x)'
                              /\ Held(x)' => x \in taken' /\ replies'[x] = 0 /\ x \notin sent'
                              /\ replies'[x] > 0 => x \in taken'
      BY <1>0, <1>3, <1>4, <2>1, <2>2, <2>3, <2>4, Zenon DEF ItemInv
    <2>7. misuse' = {} => \A x \in taken' : Held(x)' \/ replies'[x] = 1 \/ x \in sent'
      <3>1. \A x \in taken : x \in Requests
        BY Zenon, ItemFacts
      <3> QED
        BY <1>0, <1>5, <2>1, <2>4, <3>1, Zenon DEF ItemInv
    <2>8. /\ \A w \in Workers : worker'[w].item # NoRequest <=> worker'[w].at \in HandlerPlaces
          /\ \A v, w \in Workers : v # w /\ worker'[v].item = worker'[w].item => worker'[v].item = NoRequest
          /\ \A i, j \in 1..Len(queue') : queue'[i] = queue'[j] => i = j
          /\ deleted' => queue' = <<>>
      BY <1>0, <1>5 DEF ItemInv
    <2> QED
      BY <1>4, <2>5, <2>6, <2>7, <2>8, Zenon DEF ItemInv
  <1>6. CASE /\ ~deleted /\ Len(queue) < MaxDepth /\ queue' = Append(queue, r) /\ CondNotifyOne
             /\ replies' = replies /\ misuse' = misuse
    <2>1. /\ worker' \in [Workers -> Work] /\ Counted(worker') = Counted(worker)
          /\ exiter' \in {"out", "asleep", "woken"}
          /\ \A w \in Workers : /\ worker'[w].item = worker[w].item
                                /\ worker'[w].at \in HandlerPlaces <=> worker[w].at \in HandlerPlaces
      BY <1>6, NotifyKeepsWorkers, Zenon
    <2>2. /\ queue' \in Seq(Requests) /\ Len(queue') = Len(queue) + 1 /\ Len(queue') <= MaxDepth
          /\ queue'[Len(queue) + 1] = r /\ \A i \in 1..Len(queue) : queue'[i] = queue[i]
      BY <1>1, <1>2, <1>6
    <2>3. \A x : Queued(x)' <=> Queued(x) \/ x = r
      <3>1. ASSUME NEW x, Queued(x)' PROVE Queued(x) \/ x = r
        <4>1. PICK i \in 1..Len(queue') : queue'[i] = x
          BY Zenon, <3>1 DEF Queued
        <4>2. i \in 1..Len(queue) \/ i = Len(queue) + 1
          BY <1>1, <2>2, <4>1
        <4> QED
          BY Zenon, <2>2, <4>1, <4>2 DEF Queued
      <3>2. ASSUME NEW x, Queued(x) \/ x = r PROVE Queued(x)'
        <4>1. Len(queue) + 1 \in 1..Len(queue') /\ \A i \in 1..Len(queue) : i \in 1..Len(queue')
          BY <1>1, <2>2
        <4> QED
          BY <2>2, <3>2, <4>1, Zenon DEF Queued
      <3> QED
        BY Zenon, <3>1, <3>2
    <2>4. \A i, j \in 1..Len(queue') : queue'[i] = queue'[j] => i = j
      <3>1. \A i \in 1..Len(queue) : queue[i] # r
        BY Zenon, <1>3 DEF Queued
      <3>2. \A i \in 1..Len(queue') : i \in 1..Len(queue) \/ i = Len(queue) + 1
        BY <1>1, <2>2
      <3> QED
        BY <2>2, <3>1, <3>2, Zenon DEF ItemInv
    <2>5. \A x : Handled(x)' <=> Handled(x)
      BY <2>1, Zenon DEF Handled
    <2>6. \A x \in Requests : x # NoRequest
      BY Zenon, ItemFacts
    <2>7. \A x \in Requests : Held(x)' <=> Held(x)
      BY <1>4, <2>3, <2>5, <2>6, Zenon DEF Held
    <2> HIDE DEF r
    <2>8. ServerInv'
      <3>1. HttpTypeOK'
        BY <1>0, <1>4, <1>6, <2>1, <2>2, Zenon DEF ServerInv, HttpTypeOK, EventStates, Work
      <3> QED
        BY Zenon, <1>0, <2>1, <3>1 DEF ServerInv
    <2>9. \A x \in Requests : /\ ~(Queued(x)' /\ Handled(x)')
                              /\ event'.item = x => ~Queued(x)' /\ ~Handled(x)'
                              /\ Held(x)' => x \in taken' /\ replies'[x] = 0 /\ x \notin sent'
                              /\ replies'[x] > 0 => x \in taken'
      BY <1>0, <1>3, <1>4, <1>6, <2>3, <2>5, <2>6, <2>7, Zenon DEF ItemInv
    <2>10. misuse' = {} => \A x \in taken' : Held(x)' \/ replies'[x] = 1 \/ x \in sent'
      <3>1. \A x \in taken : x \in Requests
        BY Zenon, ItemFacts
      <3> QED
        BY <1>0, <1>6, <2>7, <3>1, Zenon DEF ItemInv
    <2>11. /\ \A w \in Workers : worker'[w].item # NoRequest <=> worker'[w].at \in HandlerPlaces
           /\ \A v, w \in Workers : v # w /\ worker'[v].item = worker'[w].item => worker'[v].item = NoRequest
      BY <2>1, Zenon DEF ItemInv
    <2>12. ~deleted'
      BY Zenon, <1>0, <1>6
    <2> QED
      BY <1>4, <2>4, <2>8, <2>9, <2>10, <2>11, <2>12, Zenon DEF ItemInv
  <1>7. CASE deleted /\ misuse' = misuse \cup {"callback"} /\ UNCHANGED <<queue, worker, exiter, replies>>
    <2>1. (\A x : Queued(x)' <=> Queued(x)) /\ (\A x : Handled(x)' <=> Handled(x))
      BY Zenon, <1>7 DEF Queued, Handled
    <2>2. \A x \in Requests : x # NoRequest
      BY Zenon, ItemFacts
    <2>3. \A x \in Requests : Held(x)' => Held(x)
      BY <1>4, <2>1, <2>2, Zenon DEF Held
    <2>4. misuse' # {} /\ misuse' \subseteq {"worker", "callback"}
      BY Zenon, <1>1, <1>7
    <2>5. ServerInv'
      <3>1. HttpTypeOK'
        BY <1>0, <1>4, <1>7, <2>4, Zenon DEF ServerInv, HttpTypeOK, EventStates
      <3> QED
        BY Zenon, <1>0, <1>7, <3>1 DEF ServerInv, Counted
    <2>6. \A x \in Requests : /\ ~(Queued(x)' /\ Handled(x)')
                              /\ event'.item = x => ~Queued(x)' /\ ~Handled(x)'
                              /\ Held(x)' => x \in taken' /\ replies'[x] = 0 /\ x \notin sent'
                              /\ replies'[x] > 0 => x \in taken'
      BY <1>0, <1>4, <1>7, <2>1, <2>2, <2>3, Zenon DEF ItemInv
    <2>7. /\ \A w \in Workers : worker'[w].item # NoRequest <=> worker'[w].at \in HandlerPlaces
          /\ \A v, w \in Workers : v # w /\ worker'[v].item = worker'[w].item => worker'[v].item = NoRequest
          /\ \A i, j \in 1..Len(queue') : queue'[i] = queue'[j] => i = j
          /\ deleted' => queue' = <<>>
      BY <1>0, <1>7 DEF ItemInv
    <2> QED
      BY <1>4, <2>4, <2>5, <2>6, <2>7, Zenon DEF ItemInv
  <1>8. \/ /\ replies' = [replies EXCEPT ![r] = @ + 1] /\ misuse' = misuse
           /\ UNCHANGED <<queue, worker, exiter>>
        \/ /\ ~deleted /\ ~(Len(queue) >= MaxDepth) /\ queue' = Append(queue, r) /\ CondNotifyOne
           /\ replies' = replies /\ misuse' = misuse
        \/ deleted /\ misuse' = misuse \cup {"callback"} /\ UNCHANGED <<queue, worker, exiter, replies>>
    BY Zenon DEF Dispatch, Enqueue
  <1>9. ~(Len(queue) >= MaxDepth) => Len(queue) < MaxDepth
    BY <1>1
  <1> QED
    BY <1>5, <1>6, <1>7, <1>8, <1>9, Zenon

(* delete workQueue: what is left in it is answered.                         *)
LEMMA DeleteKeepsItems ==
  ASSUME ServerInv, ItemInv, DeleteQueue
  PROVE  ServerInv' /\ ItemInv'
  <1>0. /\ running' = running /\ numThreads' = numThreads /\ worker' = worker /\ exiter' = exiter
        /\ gencb' = gencb /\ event' = event /\ loopbreak' = loopbreak /\ taken' = taken /\ sent' = sent
        /\ fRPCRunning' = fRPCRunning /\ fRequestShutdown' = fRequestShutdown /\ misuse' = misuse
        /\ stage = "deleteQueue" /\ stage' = "waitEvent" /\ deleted' = TRUE /\ queue' = <<>>
        /\ replies' = [r \in Requests |-> IF Queued(r) THEN replies[r] + 1 ELSE replies[r]]
    BY Zenon DEF DeleteQueue, UnhandledRequest, Go, eventVars, rpcVars, Queued
  <1>1. /\ stage \in FromExit /\ stage \in FromInterrupted
        /\ stage' \in FromExit /\ stage' \in FromDeleted
    BY Zenon, <1>0 DEF FromExit, FromDeleted, FromInterrupted, FromStopped, FromJoined
  <1>2. \A r \in Requests : Queued(r) => replies[r] = 0 /\ r \in taken
    BY Zenon DEF ItemInv, Held
  <1>3. /\ replies' \in [Requests -> 0..1]
        /\ \A r \in Requests : /\ Queued(r) => replies'[r] = 1
                               /\ ~Queued(r) => replies'[r] = replies[r]
    BY <1>0, <1>2, ItemFacts
  <1>4. (\A x : ~Queued(x)') /\ (\A x : Handled(x)' <=> Handled(x)) /\ Len(queue') = 0
    BY <1>0 DEF Queued, Handled
  <1>5. \A x \in Requests : Held(x)' <=> Held(x) /\ ~Queued(x)
    <2>1. \A x \in Requests : Queued(x) => ~Handled(x) /\ event.item # x
      BY Zenon, ItemFacts
    <2> QED
      BY <1>0, <1>4, <2>1, Zenon DEF Held
  <1>6. ServerInv'
    <2>1. Len(queue') <= MaxDepth /\ queue' \in Seq(Requests)
      BY <1>0, <1>4, WorkQueueAssumption
    <2>2. HttpTypeOK'
      BY Zenon, <1>0, <1>3, <2>1 DEF ServerInv, HttpTypeOK
    <2>3. ~running /\ \A w \in Workers : worker[w].at \notin HandlerPlaces
      BY Zenon, <1>1, ServerTypes
    <2> QED
      BY Zenon, <1>0, <1>1, <2>2, <2>3 DEF ServerInv
  <1>7. \A x \in Requests : /\ ~(Queued(x)' /\ Handled(x)')
                            /\ event'.item = x => ~Queued(x)' /\ ~Handled(x)'
                            /\ Held(x)' => x \in taken' /\ replies'[x] = 0 /\ x \notin sent'
                            /\ replies'[x] > 0 => x \in taken'
    BY <1>0, <1>2, <1>3, <1>4, <1>5, Zenon DEF ItemInv
  <1>8. misuse' = {} => \A x \in taken' : Held(x)' \/ replies'[x] = 1 \/ x \in sent'
    <2>1. \A x \in taken : x \in Requests
      BY Zenon, ItemFacts
    <2> QED
      BY <1>0, <1>3, <1>5, <2>1, Zenon DEF ItemInv
  <1>9. /\ \A w \in Workers : worker'[w].item # NoRequest <=> worker'[w].at \in HandlerPlaces
        /\ event'.item # NoRequest <=> event'.at = "callback"
        /\ \A v, w \in Workers : v # w /\ worker'[v].item = worker'[w].item => worker'[v].item = NoRequest
        /\ \A i, j \in 1..Len(queue') : queue'[i] = queue'[j] => i = j
        /\ deleted' => queue' = <<>>
    <2>1. \A i \in 1..Len(queue') : FALSE
      BY <1>4
    <2> QED
      BY <1>0, <2>1, Zenon DEF ItemInv
  <1> QED
    BY <1>6, <1>7, <1>8, <1>9, Zenon DEF ItemInv

--------------------------------------------------------------------------------
(* The invariant.                                                            *)

(* Nothing has started and nothing has come in.                              *)
LEMMA InitKeeps ==
  ASSUME Init
  PROVE  Inv
  <1>1. /\ program.threads \subseteq Threads /\ program.threads # {} /\ program.workers \subseteq Workers
        /\ program.tasks \subseteq Tasks /\ program.start \in 0..MaxTime /\ program.repeats \in Nat
    BY Zenon, ProgramsAssumption DEF Init
  <1>2. /\ SchedulerInit(program.threads, program.start, program.repeats)
        /\ HttpInit(program.workers) /\ stage = "start" /\ toSchedule = program.tasks
        /\ program \in Programs
    BY Zenon DEF Init
  <1>3. /\ stage \in AllStages /\ stage \notin FromStopped /\ stage \notin FromJoined
        /\ stage \notin FromInterrupted /\ stage \notin FromExit /\ stage \notin FromDeleted
    BY Zenon, <1>2 DEF AllStages, FromInterrupted, FromStopped, FromJoined, FromExit, FromDeleted, FromReset
  <1>4. SchedulerInv
    <2>1. /\ taskQueue = <<>>
          /\ servicer = [t \in Threads |-> [at |-> IF t \in program.threads THEN "out" ELSE "gone",
                                            due |-> 0, task |-> NoTask]]
          /\ nThreadsServicingQueue = 0
          /\ stopRequested = FALSE /\ stopWhenEmpty = FALSE /\ interrupted = {}
          /\ now = program.start /\ repeatsLeft = program.repeats
      BY Zenon, <1>2 DEF SchedulerInit
    <2>2. InService(servicer) = {}
      BY Zenon, <2>1 DEF InService
    <2>3. Cardinality(InService(servicer)) = 0 /\ 0 \in 0..Cardinality(Threads)
      BY Zenon, <2>2, FS_EmptySet, InServiceSize
    <2>4. /\ servicer \in [Threads -> [at : Places, due : 0..MaxTime, task : Tasks \cup {NoTask}]]
          /\ \A t \in Threads : servicer[t].at \in {"out", "gone"}
          /\ \A t \in program.threads : servicer[t].at = "out"
      <3>1. 0 \in 0..MaxTime /\ "out" \in Places /\ "gone" \in Places
        BY SchedulerAssumption DEF Places
      <3>2. \A t \in Threads : /\ servicer[t].at = IF t \in program.threads THEN "out" ELSE "gone"
                               /\ servicer[t] \in [at : Places, due : 0..MaxTime, task : Tasks \cup {NoTask}]
        BY Zenon, <2>1, <3>1
      <3> QED
        BY Zenon, <1>1, <2>1, <3>2
    <2>5. SchedulerTypeOK
      <3>1. taskQueue \in Seq([due : 0..MaxTime, task : Tasks])
        <4>1. \A S : <<>> \in Seq(S)
          OBVIOUS
        <4> QED
          BY <2>1, <4>1, Zenon
      <3>2. interrupted \subseteq Threads /\ stopRequested \in BOOLEAN /\ stopWhenEmpty \in BOOLEAN
        BY Zenon, <2>1
      <3> QED
        BY <1>1, <2>1, <2>3, <2>4, <3>1, <3>2, Zenon DEF SchedulerTypeOK
    <2> QED
      BY Zenon, <1>1, <1>2, <1>3, <2>1, <2>3, <2>4, <2>5 DEF SchedulerInv, DrainLeavesNothing
  <1>5. /\ queue = <<>> /\ running = TRUE /\ numThreads = 0 /\ deleted = FALSE
        /\ worker = [w \in Workers |-> [at |-> IF w \in program.workers THEN "created" ELSE "gone",
                                        item |-> NoRequest]]
        /\ exiter = "out" /\ gencb = "request"
        /\ event = [at |-> "loop", item |-> NoRequest] /\ loopbreak = FALSE
        /\ replies = [r \in Requests |-> 0] /\ taken = {} /\ sent = {}
        /\ fRPCRunning = TRUE /\ fRequestShutdown = FALSE /\ misuse = {}
    BY Zenon, <1>2 DEF HttpInit
  <1>6. ServerInv
    <2>1. Counted(worker) = {}
      BY Zenon, <1>5 DEF Counted, CountedPlaces
    <2>2. Cardinality(Counted(worker)) = 0 /\ 0 \in 0..Cardinality(Workers)
      BY Zenon, <2>1, FS_EmptySet, CountedSize
    <2>3. worker \in [Workers -> [at : WorkerPlaces, item : Requests \cup {NoRequest}]]
      BY Zenon, <1>5 DEF WorkerPlaces
    <2>4. HttpTypeOK
      <3>1. queue \in Seq(Requests) /\ Len(queue) <= MaxDepth
        BY <1>5, WorkQueueAssumption
      <3>2. replies \in [Requests -> 0..1]
        BY <1>5
      <3>3. event \in [at : {"loop", "callback", "gone"}, item : Requests \cup {NoRequest}]
        BY Zenon, <1>5
      <3>4. sent \subseteq taken /\ taken \subseteq Requests /\ misuse \subseteq {"worker", "callback"}
        BY Zenon, <1>5
      <3>5. /\ running \in BOOLEAN /\ deleted \in BOOLEAN /\ loopbreak \in BOOLEAN
            /\ fRPCRunning \in BOOLEAN /\ fRequestShutdown \in BOOLEAN
        BY Zenon, <1>5
      <3> QED
        BY <1>5, <2>2, <2>3, <3>1, <3>2, <3>3, <3>4, <3>5, Zenon DEF HttpTypeOK
    <2> QED
      BY Zenon, <1>3, <1>5, <2>2, <2>4 DEF ServerInv
  <1>7. ItemInv
    <2>1. \A w \in Workers : worker[w].item = NoRequest /\ worker[w].at \notin HandlerPlaces
      BY Zenon, <1>5 DEF HandlerPlaces
    <2>2. event.item = NoRequest /\ event.at # "callback" /\ Len(queue) = 0 /\ 1..0 = {}
      BY <1>5
    <2>3. \A r \in Requests : ~Queued(r) /\ ~Handled(r) /\ event.item # r /\ ~(replies[r] > 0)
      <3>1. \A r \in Requests : ~(replies[r] > 0) /\ r # NoRequest
        BY <1>5, WorkQueueAssumption DEF NoRequest
      <3> QED
        BY <2>1, <2>2, <3>1, Zenon DEF Queued, Handled
    <2> QED
      BY <1>5, <2>1, <2>2, <2>3, Zenon DEF ItemInv, Held
  <1> QED
    BY Zenon, <1>4, <1>6, <1>7 DEF Inv

(* The step of a worker.                                                     *)
LEMMA WorkingKeepsServer ==
  ASSUME ServerInv, ItemInv, NEW w \in Workers, Working(w)
  PROVE  ServerInv' /\ ItemInv'
  <1>0. WorkerStep(w) /\ UNCHANGED mainVars
    BY Zenon DEF Working
  <1>1. CASE CountIn(w) \/ Block(w) \/ CountOut(w) \/ UseDeleted(w)
    BY <1>0, <1>1, WorkerMovesKeepsServer, Zenon
  <1>2. CASE NextItem(w)
    <2>1. CASE queue' = queue
      BY <1>0, <1>2, <2>1, WorkerMovesKeepsServer, Zenon
    <2>2. CASE queue' # queue
      <3>1. /\ worker[w].at = "loop" /\ ~deleted /\ running /\ queue # <<>>
            /\ worker' = [worker EXCEPT ![w] = [at |-> "handling", item |-> queue[1]]]
            /\ queue' = Tail(queue)
            /\ UNCHANGED <<running, numThreads, deleted, exiter, eventVars, replies, rpcVars, misuse>>
        BY <1>2, <2>2, Zenon DEF NextItem
      <3> QED
        BY <1>0, <3>1, TakeKeepsItems, Zenon
    <2> QED
      BY Zenon, <2>1, <2>2
  <1>3. CASE Handle(w)
    <2>1. CASE replies' = replies /\ worker' = [worker EXCEPT ![w].at = "looked"]
      BY <1>0, <1>3, <2>1, WorkerMovesKeepsServer, Zenon
    <2>2. CASE Reply(w) /\ fRequestShutdown' = (fRequestShutdown \/ worker[w].item \in StopRequests)
      <3>1. /\ worker[w].at = "handling"
            /\ UNCHANGED <<queueVars, exiter, eventVars, fRPCRunning, misuse>>
        BY <1>3, Zenon DEF Handle
      <3>2. fRequestShutdown' \in BOOLEAN
        BY Zenon, <2>2
      <3> QED
        BY <1>0, <2>2, <3>1, <3>2, ReplyKeepsItems, Zenon
    <2> QED
      BY <1>3, <2>1, <2>2, Zenon DEF Handle
  <1> QED
    BY <1>0, <1>1, <1>2, <1>3, Zenon DEF WorkerStep

(* Every step keeps the invariant.                                           *)
LEMMA StepKeepsInv ==
  ASSUME Inv, [Next]_vars
  PROVE  Inv'
  <1>0. SchedulerInv /\ ServerInv /\ ItemInv
    BY Zenon DEF Inv
  <1>a. program \in Programs /\ stage \in AllStages
    BY <1>0, Zenon DEF SchedulerInv
  <1>1. CASE UNCHANGED vars
    <2>1. UNCHANGED schedulerVars /\ UNCHANGED <<httpVars, stage>> /\ program' = program
          /\ toSchedule' = toSchedule /\ stage' = stage
      BY Zenon, <1>1 DEF vars, mainVars
    <2> QED
      BY <1>0, <1>a, <2>1, OthersKeepScheduler, SmallStepsKeepServer, Zenon DEF Inv
  <1>2. CASE ScheduleTask
    <2>1. UNCHANGED <<httpVars, stage>>
      BY Zenon, <1>2 DEF ScheduleTask
    <2> QED
      BY <1>0, <1>2, <2>1, ScheduleKeepsScheduler, SmallStepsKeepServer, Zenon DEF Inv
  <1>3. CASE InterruptThreads
    BY <1>0, <1>3, StopKeepsScheduler, SmallStepsKeepServer, Zenon DEF Inv
  <1>4. CASE AppInitDone \/ WaitForShutdown \/ InterruptHTTPServer \/ InterruptQueue \/ InterruptRPC
             \/ JoinThreads \/ StopRPC \/ WaitExit \/ DeleteQueue \/ WaitEvent \/ JoinEvent \/ Reset
    <2>1. UNCHANGED schedulerVars /\ program' = program /\ toSchedule' = toSchedule
      BY Zenon, <1>4 DEF AppInitDone, WaitForShutdown, InterruptHTTPServer, InterruptQueue, InterruptRPC,
                  JoinThreads, StopRPC, WaitExit, DeleteQueue, WaitEvent, JoinEvent, Reset, Go
    <2>2. /\ stage' \in AllStages
          /\ stage' \notin FromStopped => stage \notin FromStopped
          /\ stage' \in FromJoined => stage \in FromJoined \/ stage = "joinThreads"
      BY Zenon, <1>4, <1>a DEF AppInitDone, WaitForShutdown, InterruptHTTPServer, InterruptQueue, InterruptRPC,
                  JoinThreads, StopRPC, WaitExit, DeleteQueue, WaitEvent, JoinEvent, Reset, Go,
                  AllStages, FromInterrupted, FromStopped, FromJoined, FromExit, FromDeleted, FromReset
    <2>3. stage = "joinThreads" => AllGone
      BY Zenon, <1>4 DEF AppInitDone, WaitForShutdown, InterruptHTTPServer, InterruptQueue, InterruptRPC,
                  JoinThreads, StopRPC, WaitExit, DeleteQueue, WaitEvent, JoinEvent, Reset, Go, AllGone
    <2>4. SchedulerInv'
      BY <1>0, <2>1, <2>2, <2>3, OthersKeepScheduler, Zenon
    <2>5. ServerInv' /\ ItemInv'
      BY <1>0, <1>4, SmallStepsKeepServer, WakingKeepsServer, DeleteKeepsItems, Zenon
    <2> QED
      BY Zenon, <2>4, <2>5 DEF Inv
  <1>5. CASE StartShutdown \/ Clock \/ Event \/ BlockTip \/ (\E r \in program.requests : Client(r))
             \/ (\E w \in Workers : Working(w))
    <2>1. UNCHANGED schedulerVars \/ Advance
      BY <1>5, Zenon DEF StartShutdown, Clock, Event, BlockTip, Client, Working
    <2>2. UNCHANGED mainVars
      BY <1>5, Zenon DEF StartShutdown, Clock, Event, BlockTip, Client, Working
    <2>3. program' = program /\ toSchedule' = toSchedule /\ stage' = stage
      BY Zenon, <2>2 DEF mainVars
    <2>4. SchedulerInv'
      BY <1>0, <1>a, <2>1, <2>3, OthersKeepScheduler, Zenon
    <2>5. CASE Clock
      <3>1. UNCHANGED <<httpVars, stage>>
        BY Zenon, <2>5, <2>3 DEF Clock
      <3> QED
        BY <1>0, <2>4, <3>1, SmallStepsKeepServer, Zenon DEF Inv
    <2>6. CASE StartShutdown
      BY <1>0, <2>4, <2>6, SmallStepsKeepServer, Zenon DEF Inv
    <2>7. CASE Event
      BY <1>0, <2>2, <2>4, <2>7, SmallStepsKeepServer, DispatchKeepsItems, SendKeepsItems, Zenon
         DEF Inv, Event, EventStep
    <2>8. CASE BlockTip
      BY <1>0, <2>2, <2>4, <2>8, WakingKeepsServer, Zenon DEF Inv, BlockTip
    <2>9. ASSUME NEW r \in program.requests, Client(r) PROVE Inv'
      <3>1. r \in Requests
        BY Zenon, <1>a, <2>9, ProgramsAssumption
      <3> QED
        BY <1>0, <2>2, <2>4, <2>9, <3>1, RequestKeepsItems, Zenon DEF Inv, Client
    <2>10. ASSUME NEW w \in Workers, Working(w) PROVE Inv'
      BY <1>0, <2>4, <2>10, WorkingKeepsServer, Zenon DEF Inv
    <2> QED
      BY <1>5, <2>5, <2>6, <2>7, <2>8, <2>9, <2>10, Zenon
  <1>6. ASSUME NEW t \in Threads, Servicing(t) \/ Spurious(t) PROVE Inv'
    <2>1. UNCHANGED <<httpVars, mainVars>>
      BY <1>6, Zenon DEF Servicing, Spurious
    <2>2. UNCHANGED <<httpVars, stage>>
      BY Zenon, <2>1 DEF mainVars
    <2> QED
      BY <1>0, <1>6, <2>2, ServicingKeepsScheduler, SmallStepsKeepServer, Zenon DEF Inv
  <1> QED
    BY <1>1, <1>2, <1>3, <1>4, <1>5, <1>6, Zenon DEF Next, Main

(* The scheduler, the server, the main thread and every request are as Inv   *)
(* says in every state of the program.                                       *)
THEOREM InvHolds == Spec => []Inv
  <1>1. Init => Inv
    BY Zenon, InitKeeps
  <1>2. Inv /\ [Next]_vars => Inv'
    BY Zenon, StepKeepsInv
  <1> QED
    BY <1>1, <1>2, PTL DEF Spec

--------------------------------------------------------------------------------
(* What it says.                                                             *)

(* The stages are numbered in the order of the calls.                        *)
LEMMA ResetIsReached ==
  ASSUME stage \in AllStages
  PROVE  /\ \E i \in 1..Len(Stages) : stage = Stages[i]
         /\ Reached("reset") => stage \in FromReset
  <1>1. /\ Len(Stages) = 14
        /\ Stages[1] = "start" /\ Stages[2] = "run" /\ Stages[3] = "interruptServer"
        /\ Stages[4] = "interruptQueue" /\ Stages[5] = "interruptRPC" /\ Stages[6] = "interruptThreads"
        /\ Stages[7] = "joinThreads" /\ Stages[8] = "stopRPC" /\ Stages[9] = "waitExit"
        /\ Stages[10] = "deleteQueue" /\ Stages[11] = "waitEvent" /\ Stages[12] = "joinEvent"
        /\ Stages[13] = "reset" /\ Stages[14] = "done"
    BY Zenon DEF Stages
  <1>2. \E i \in 1..14 : stage = Stages[i]
    BY <1>1 DEF AllStages, FromInterrupted, FromStopped, FromJoined, FromExit, FromDeleted, FromReset
  <1>3. \A i \in 1..14 : \A j \in 1..14 : Stages[i] = Stages[j] => i = j
    BY <1>1
  <1>4. \A i \in 1..14 : StageNumber(Stages[i]) = i
    BY Zenon, <1>1, <1>3 DEF StageNumber
  <1>5. PICK i \in 1..14 : stage = Stages[i]
    BY Zenon, <1>2
  <1>6. StageNumber(stage) = i
    BY <1>4, <1>5, Zenon
  <1>7. StageNumber("reset") = 13
    <2>1. 13 \in 1..14
      OBVIOUS
    <2> QED
      BY <1>1, <1>4, <2>1, Zenon
  <1>8. i >= 13 => stage \in FromReset
    BY <1>1, <1>5 DEF FromReset
  <1> QED
    BY Zenon, <1>1, <1>2, <1>6, <1>7, <1>8 DEF Reached

(* When Shutdown goes on to free what the tasks and the RPC handlers use, no *)
(* task and no handler is running; every variable is in its range, so the    *)
(* queue keeps to -rpcworkqueue and no reply is written twice.               *)
THEOREM NothingRuns == Spec => []NothingRunsOnFreedState
  <1>1. Inv => NothingRunsOnFreedState
    <2> SUFFICES ASSUME Inv PROVE NothingRunsOnFreedState
      OBVIOUS
    <2>1. SchedulerInv /\ ServerInv
      BY Zenon DEF Inv
    <2>2. /\ SchedulerTypeOK /\ HttpTypeOK /\ stage \in AllStages
          /\ toSchedule \subseteq Tasks /\ program \in Programs
      BY <2>1, Zenon DEF SchedulerInv, ServerInv
    <2>3. TypeOK
      BY <2>2, ResetIsReached, Zenon DEF TypeOK
    <2>4. Reached("reset") => stage \in FromReset
      BY <2>2, ResetIsReached, Zenon
    <2>5. stage \in FromReset => stage \in FromJoined /\ stage \in FromExit
      BY Zenon DEF FromJoined, FromExit, FromDeleted
    <2>6. Reached("reset") => \A t \in Threads : servicer[t].at # "running"
      BY Zenon, <2>1, <2>4, <2>5 DEF SchedulerInv, AllGone
    <2>7. Reached("reset") => \A w \in Workers : worker[w].at \notin HandlerPlaces
      BY <2>1, <2>4, <2>5, Zenon DEF ServerInv
    <2> QED
      BY <2>3, <2>6, <2>7, Zenon DEF NothingRunsOnFreedState, HandlerPlaces
  <1> QED
    BY <1>1, InvHolds, PTL

(* stop(drain = true): serviceQueue is left for good only when no task is    *)
(* left.                                                                     *)
THEOREM DrainIsComplete == Spec => []DrainLeavesNothing
  <1>1. Inv => DrainLeavesNothing
    BY Zenon DEF Inv, SchedulerInv
  <1> QED
    BY <1>1, InvHolds, PTL

(* A request is in one place or has one answer.                              *)
THEOREM RequestsAreAnswered == Spec => []EveryRequestIsAnswered
  <1>1. Inv => EveryRequestIsAnswered
    <2> SUFFICES ASSUME Inv, misuse = {}, NEW r \in taken
                 PROVE  /\ Cardinality({w \in Workers : worker[w].item = r})
                             + Cardinality({i \in 1..Len(queue) : queue[i] = r})
                             + Cardinality({e \in {event} : e.item = r})
                             + Answers(r) = 1
                        /\ deleted => r \in sent \/ replies[r] = 1 \/ event.item = r
      BY Zenon DEF EveryRequestIsAnswered
    <2>0. SchedulerInv /\ ServerInv /\ ItemInv
      BY Zenon DEF Inv
    <2> DEFINE A == {w \in Workers : worker[w].item = r}
               B == {i \in 1..Len(queue) : queue[i] = r}
               C == {e \in {event} : e.item = r}
    <2>1. r \in Requests /\ r # NoRequest /\ replies[r] \in 0..1
      BY Zenon, <2>0, ItemFacts
    <2>2. Cardinality(A) = IF Handled(r) THEN 1 ELSE 0
      <3>1. CASE Handled(r)
        <4>1. PICK w \in Workers : worker[w].item = r
          BY Zenon, <3>1 DEF Handled
        <4>2. A = {w}
          BY Zenon, <2>0, <2>1, <4>1 DEF ItemInv
        <4> QED
          BY <3>1, <4>2, FS_Singleton, Zenon
      <3>2. CASE ~Handled(r)
        <4>1. A = {}
          BY Zenon, <3>2 DEF Handled
        <4> QED
          BY <3>2, <4>1, FS_EmptySet, Zenon
      <3> QED
        BY Zenon, <3>1, <3>2
    <2>3. Cardinality(B) = IF Queued(r) THEN 1 ELSE 0
      <3>1. CASE Queued(r)
        <4>1. PICK i \in 1..Len(queue) : queue[i] = r
          BY Zenon, <3>1 DEF Queued
        <4>2. B = {i}
          BY <2>0, <4>1, Zenon DEF ItemInv
        <4> QED
          BY <3>1, <4>2, FS_Singleton, Zenon
      <3>2. CASE ~Queued(r)
        <4>1. B = {}
          BY Zenon, <3>2 DEF Queued
        <4> QED
          BY <3>2, <4>1, FS_EmptySet, Zenon
      <3> QED
        BY Zenon, <3>1, <3>2
    <2>4. Cardinality(C) = IF event.item = r THEN 1 ELSE 0
      <3>1. CASE event.item = r
        <4>1. C = {event}
          BY Zenon, <3>1
        <4> QED
          BY <3>1, <4>1, FS_Singleton, Zenon
      <3>2. CASE event.item # r
        <4>1. C = {}
          BY Zenon, <3>2
        <4> QED
          BY <3>2, <4>1, FS_EmptySet, Zenon
      <3> QED
        BY Zenon, <3>1, <3>2
    <2>5. Answers(r) = IF replies[r] = 1 \/ r \in sent THEN 1 ELSE 0
      <3>1. CASE r \in sent
        <4>1. {r} \cap sent = {r}
          BY Zenon, <3>1
        <4>2. Cardinality({r} \cap sent) = 1
          BY <4>1, FS_Singleton, Zenon
        <4> QED
          BY <2>1, <3>1, <4>2 DEF Answers
      <3>2. CASE r \notin sent
        <4>1. {r} \cap sent = {}
          BY Zenon, <3>2
        <4>2. Cardinality({r} \cap sent) = 0
          BY <4>1, FS_EmptySet, Zenon
        <4> QED
          BY <2>1, <3>2, <4>2 DEF Answers
      <3> QED
        BY Zenon, <3>1, <3>2
    <2>6. /\ Held(r) \/ replies[r] = 1 \/ r \in sent
          /\ Held(r) => replies[r] = 0 /\ r \notin sent
          /\ Held(r) <=> Queued(r) \/ Handled(r) \/ event.item = r
          /\ ~(Queued(r) /\ Handled(r))
          /\ event.item = r => ~Queued(r) /\ ~Handled(r)
      BY <2>0, <2>1, Zenon DEF ItemInv, Held
    <2>7. deleted => ~Queued(r) /\ ~Handled(r)
      <3>1. deleted => queue = <<>> /\ \A w \in Workers : worker[w].item = NoRequest
        <4>1. stage \in FromDeleted => stage \in FromExit
          BY Zenon DEF FromExit
        <4> QED
          BY <2>0, <4>1, Zenon DEF ServerInv, ItemInv
      <3> QED
        BY <2>1, <3>1 DEF Queued, Handled
    <2>8. deleted => r \in sent \/ replies[r] = 1 \/ event.item = r
      BY <2>6, <2>7, Zenon
    <2> HIDE DEF A, B, C
    <2>9. Cardinality(A) + Cardinality(B) + Cardinality(C) + Answers(r) = 1
      <3>1. \/ Cardinality(A) = 1 /\ Cardinality(B) = 0 /\ Cardinality(C) = 0 /\ Answers(r) = 0
            \/ Cardinality(A) = 0 /\ Cardinality(B) = 1 /\ Cardinality(C) = 0 /\ Answers(r) = 0
            \/ Cardinality(A) = 0 /\ Cardinality(B) = 0 /\ Cardinality(C) = 1 /\ Answers(r) = 0
            \/ Cardinality(A) = 0 /\ Cardinality(B) = 0 /\ Cardinality(C) = 0 /\ Answers(r) = 1
        <4>1. replies[r] = 0 => replies[r] # 1
          OBVIOUS
        <4> QED
          BY Zenon, <2>2, <2>3, <2>4, <2>5, <2>6, <4>1
      <3> QED
        BY <3>1
    <2> QED
      BY Zenon, <2>8, <2>9 DEF A, B, C
  <1> QED
    BY <1>1, InvHolds, PTL

================================================================================

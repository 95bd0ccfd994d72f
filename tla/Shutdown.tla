-------------------------------- MODULE Shutdown --------------------------------
(* How the program stops: the main thread (bitcoind.cpp, Interrupt and      *)
(* Shutdown of init.cpp) against the scheduler threads and the HTTP server. *)
(* Each stage of the main thread is one call.                               *)
EXTENDS Scheduler, WorkQueue

CONSTANTS
    Programs    \* who uses the two: a set of records of the threads, workers,
                \* requests and tasks there are, of how the scheduler is
                \* stopped ("interrupt", "stop" or "drain"), of the clock at
                \* the start and of the repetitions (bounds)

ASSUME ProgramsAssumption ==
    \A p \in Programs :
        /\ p.threads \subseteq Threads /\ p.workers \subseteq Workers
        /\ p.requests \subseteq Requests /\ p.tasks \subseteq Tasks
        /\ p.start \in 0..MaxTime /\ p.repeats \in Nat
        /\ p.endings \subseteq {"interrupt", "stop", "drain"}
        /\ p.threads # {}

VARIABLES
    program,    \* one of Programs
    stage,      \* the call the main thread is about to make
    toSchedule  \* the tasks it has not scheduled yet

mainVars == <<program, stage, toSchedule>>
vars == <<schedulerVars, httpVars, mainVars>>

Stages == <<"start", "run", "interruptServer", "interruptQueue", "interruptRPC",
            "interruptThreads", "joinThreads", "stopRPC", "waitExit", "deleteQueue",
            "waitEvent", "joinEvent", "reset", "done">>

StageNumber(s) == CHOOSE i \in 1..Len(Stages) : Stages[i] = s
Reached(s) == StageNumber(stage) >= StageNumber(s)

(* Every variable is in its range; the work queue keeps to -rpcworkqueue    *)
(* and WriteReply is called once at most for a request (its assertion).     *)
TypeOK ==
    /\ SchedulerTypeOK /\ HttpTypeOK
    /\ \E i \in 1..Len(Stages) : stage = Stages[i]
    /\ toSchedule \subseteq Tasks /\ program \in Programs

Init ==
    /\ program \in Programs
    /\ SchedulerInit(program.threads, program.start, program.repeats)
    /\ HttpInit(program.workers)
    /\ stage = "start" /\ toSchedule = program.tasks

--------------------------------------------------------------------------------
(* The main thread.                                                         *)

Go(from, to) == stage = from /\ stage' = to /\ UNCHANGED <<program, toSchedule>>

(* AppInitMain and CConnman::Start: the threads have started; the tasks are *)
(* scheduled one after the other, for the next second.                      *)
ScheduleTask ==
    /\ stage = "start"
    /\ \E task \in toSchedule :
         /\ toSchedule' = toSchedule \ {task}
         /\ ScheduleFromNow(servicer, task)
    /\ UNCHANGED <<nThreadsServicingQueue, stopVars, now, repeatsLeft, httpVars,
                   program, stage>>

AppInitDone ==
    /\ toSchedule = {}
    /\ Go("start", "run")
    /\ UNCHANGED <<schedulerVars, httpVars>>

WaitForShutdown ==
    /\ fRequestShutdown
    /\ Go("run", "interruptServer")
    /\ UNCHANGED <<schedulerVars, httpVars>>

InterruptHTTPServer ==
    /\ Go("interruptServer", "interruptQueue")
    /\ gencb' = "reject"
    /\ UNCHANGED <<schedulerVars, queueVars, worker, exiter, event, loopbreak, taken,
                   sent, replies, rpcVars, misuse>>

(* WorkQueue::Interrupt. The slip wakes nobody.                             *)
InterruptQueueSilently ==
    /\ Go("interruptQueue", "interruptRPC")
    /\ running' = FALSE
    /\ UNCHANGED <<schedulerVars, queue, numThreads, deleted, worker, exiter,
                   eventVars, replies, rpcVars, misuse>>
InterruptQueue ==
    /\ Go("interruptQueue", "interruptRPC")
    /\ running' = FALSE
    /\ worker' = Woken(AsleepWorkers)
    /\ UNCHANGED <<schedulerVars, queue, numThreads, deleted, exiter, eventVars,
                   replies, rpcVars, misuse>>

InterruptRPC ==
    /\ Go("interruptRPC", "interruptThreads")
    /\ fRPCRunning' = FALSE
    /\ UNCHANGED <<schedulerVars, queueVars, worker, exiter, eventVars, replies,
                   fRequestShutdown, misuse>>

(* threadGroup.interrupt_all, or CScheduler::stop.                          *)
InterruptThreads ==
    /\ Go("interruptThreads", "joinThreads")
    /\ \/ /\ "interrupt" \in program.endings
          /\ interrupted' = program.threads
          /\ UNCHANGED <<taskQueue, servicer, nThreadsServicingQueue, stopRequested,
                         stopWhenEmpty, now, repeatsLeft>>
       \/ "stop" \in program.endings /\ Stop(FALSE)
       \/ "drain" \in program.endings /\ Stop(TRUE)
    /\ UNCHANGED httpVars

(* threadGroup.join_all. The slip leaves it out, as a failed start does.    *)
JoinNothing == Go("joinThreads", "stopRPC") /\ UNCHANGED <<schedulerVars, httpVars>>
JoinThreads ==
    /\ Go("joinThreads", "stopRPC")
    /\ \A t \in Threads : servicer[t].at = "gone"
    /\ UNCHANGED <<schedulerVars, httpVars>>

(* StopRPC and OnRPCStopped.                                                *)
StopRPC ==
    /\ Go("stopRPC", "waitExit")
    /\ worker' = WokenHandlers
    /\ UNCHANGED <<schedulerVars, queueVars, exiter, eventVars, replies, rpcVars, misuse>>

(* WorkQueue::WaitExit.                                                     *)
WaitExit ==
    /\ stage = "waitExit" /\ exiter # "asleep"
    /\ \/ /\ numThreads = 0
          /\ stage' = "deleteQueue" /\ exiter' = "out"
       \/ /\ numThreads > 0
          /\ exiter' = "asleep" /\ UNCHANGED stage
    /\ UNCHANGED <<schedulerVars, queueVars, worker, eventVars, replies, rpcVars, misuse,
                   program, toSchedule>>

(* ~HTTPRequest: a request that goes with the queue has had no reply, and   *)
(* gets one.                                                                *)
UnhandledRequest(r) ==
    IF \E i \in 1..Len(queue) : queue[i] = r THEN replies[r] + 1 ELSE replies[r]

(* delete workQueue, and with it the requests in it.                        *)
DeleteQueue ==
    /\ Go("deleteQueue", "waitEvent")
    /\ deleted' = TRUE
    /\ queue' = <<>>
    /\ replies' = [r \in Requests |-> UnhandledRequest(r)]
    /\ UNCHANGED <<schedulerVars, running, numThreads, worker, exiter, eventVars,
                   rpcVars, misuse>>

(* The event thread has two seconds to end by itself; then its loop is      *)
(* broken.                                                                  *)
WaitEvent ==
    /\ Go("waitEvent", "joinEvent")
    /\ loopbreak' = (event.at # "gone")
    /\ UNCHANGED <<schedulerVars, queueVars, worker, exiter, gencb, event, taken, sent,
                   replies, rpcVars, misuse>>

JoinEvent ==
    /\ event.at = "gone"
    /\ Go("joinEvent", "reset")
    /\ UNCHANGED <<schedulerVars, httpVars>>

(* The rest of Shutdown: connection manager, flush, caches, wallet.         *)
Reset == Go("reset", "done") /\ UNCHANGED <<schedulerVars, httpVars>>

Main ==
    \/ ScheduleTask \/ AppInitDone \/ WaitForShutdown \/ InterruptHTTPServer
    \/ InterruptQueue \/ InterruptRPC \/ InterruptThreads \/ JoinThreads \/ StopRPC
    \/ WaitExit \/ DeleteQueue \/ WaitEvent \/ JoinEvent \/ Reset

--------------------------------------------------------------------------------
(* The whole program.                                                       *)

(* A signal, handled at any time.                                           *)
StartShutdown ==
    /\ ~fRequestShutdown
    /\ fRequestShutdown' = TRUE
    /\ UNCHANGED <<schedulerVars, queueVars, worker, exiter, eventVars, replies,
                   fRPCRunning, misuse, mainVars>>

Servicing(t) == SchedulerStep(t) /\ UNCHANGED <<httpVars, mainVars>>
Spurious(t) == SpuriousWakeUp(t) /\ UNCHANGED <<httpVars, mainVars>>
Clock == Advance /\ UNCHANGED <<httpVars, mainVars>>
Event == EventStep /\ UNCHANGED <<schedulerVars, mainVars>>
Client(r) == Request(r) /\ UNCHANGED <<schedulerVars, mainVars>>
Working(w) == WorkerStep(w) /\ UNCHANGED <<schedulerVars, mainVars>>

(* NotifyBlockTip, to which the waiting commands listen up to StopRPC.      *)
BlockTip == ~Reached("waitExit") /\ NewBlock /\ UNCHANGED <<schedulerVars, mainVars>>

Next ==
    \/ Main \/ StartShutdown \/ Clock \/ Event \/ BlockTip
    \/ \E t \in Threads : Servicing(t) \/ Spurious(t)
    \/ \E r \in program.requests : Client(r)
    \/ \E w \in Workers : Working(w)

(* Every thread goes on when it can, and time passes. Signals, clients,     *)
(* blocks and wake-ups for no reason may come or not.                       *)
Fairness ==
    /\ WF_vars(Main) /\ WF_vars(Clock) /\ WF_vars(Event)
    /\ \A t \in Threads : WF_vars(Servicing(t))
    /\ \A w \in Workers : WF_vars(Working(w))

Spec == Init /\ [][Next]_vars /\ Fairness

--------------------------------------------------------------------------------
(* The properties.                                                          *)

(* When Shutdown frees the connection manager, the caches, the databases    *)
(* and the event base, no task and no RPC handler is running that would use *)
(* them: join_all and WaitExit wait for every one, also for the requests    *)
(* taken while the server was being interrupted.                            *)
NothingRunsOnFreedState ==
    /\ TypeOK
    /\ Reached("reset") =>
        /\ \A t \in Threads : servicer[t].at # "running"
        /\ \A w \in Workers : worker[w].at \notin {"handling", "looked", "blocked"}

(* stop(drain = true): no thread ends its service for good while tasks are  *)
(* left, those that running tasks put back included.                        *)
DrainLeavesNothing ==
    /\ stopWhenEmpty
    /\ \A t \in Threads : servicer[t].at = "gone"
    => taskQueue = <<>>

(* The replies of WriteReply, or the one of http_reject_request_cb.         *)
Answers(r) == IF replies[r] > 0 THEN replies[r] ELSE Cardinality({r} \cap sent)

(* No request is lost or handled twice: one that has come in is in the      *)
(* callback, in the queue, with one worker, or has been answered once (by a *)
(* call of WriteReply, which the event thread has yet to send, or by        *)
(* http_reject_request_cb); and when the queue is freed, WriteReply has     *)
(* been called for what was left in it too.                                 *)
EveryRequestIsAnswered ==
    misuse = {} => \A r \in taken :
        /\ Cardinality({w \in Workers : worker[w].item = r})
             + Cardinality({i \in 1..Len(queue) : queue[i] = r})
             + Cardinality({e \in {event} : e.item = r})
             + Answers(r) = 1
        /\ deleted => r \in sent \/ replies[r] = 1 \/ event.item = r

(* A handler that waits for a block looked at fRPCRunning before            *)
(* InterruptRPC and went to sleep after OnRPCStopped: nothing wakes it.     *)
MissedTheEnd == \E w \in Workers :
    worker[w].at \in {"looked", "blocked"} /\ Reached("waitExit")

(* Once the main thread has left its wait it gets through Interrupt, the    *)
(* joins and Shutdown: nobody waits for somebody for ever, unless a handler *)
(* missed the one notification.                                             *)
ShutdownCompletes ==
    (stage = "interruptServer") ~> (stage = "done" \/ MissedTheEnd)

================================================================================

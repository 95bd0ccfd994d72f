------------------------------- MODULE WorkQueue -------------------------------
(* The HTTP server (httpserver.cpp): the libevent thread, which takes the   *)
(* requests and sends the replies, the work queue, and the worker threads   *)
(* that run the RPC handlers. Every action is one region under              *)
(* WorkQueue::cs, one handler, or one callback of the event loop.           *)
EXTENDS Integers, Sequences, FiniteSets

CONSTANTS
    Requests,           \* the requests that clients make
    WaitingRequests,    \* those that wait for a block, with no time-out
    StopRequests,       \* those that are the stop command
    Workers,            \* the threads StartHTTPServer detaches
    MaxDepth            \* -rpcworkqueue

ASSUME WorkQueueAssumption ==
    /\ WaitingRequests \subseteq Requests
    /\ StopRequests \subseteq Requests \ WaitingRequests
    /\ "none" \notin Requests /\ IsFiniteSet(Workers)
    /\ MaxDepth \in Nat \ {0}

VARIABLES
    queue, running, numThreads, \* of the WorkQueue
    deleted,        \* the WorkQueue has been freed
    worker,         \* per worker: where it is and the request it handles
    exiter,         \* the thread in WaitExit: out, asleep, woken
    gencb,          \* the callback of the event loop: request or reject
    event,          \* the event thread: where it is and its request
    loopbreak,      \* event_base_loopbreak has been called
    taken,          \* the requests that have come in
    replies,        \* per request: how often WriteReply was called
    sent,           \* the requests whose reply has gone out
    fRPCRunning,
    fRequestShutdown,
    misuse          \* who used the WorkQueue after it was freed

queueVars == <<queue, running, numThreads, deleted>>
eventVars == <<gencb, event, loopbreak, taken, sent>>
rpcVars == <<fRPCRunning, fRequestShutdown>>
httpVars == <<queueVars, worker, exiter, eventVars, replies, rpcVars, misuse>>

NoRequest == "none"

(* created: before ThreadCounter; loop: about to take cs; asleep: in wait;  *)
(* handling: in the handler; looked: the handler saw no reason to return;   *)
(* blocked: it waits on cond_blockchange; leaving: before ~ThreadCounter.   *)
WorkerPlaces == {"created", "loop", "asleep", "handling", "looked", "blocked",
                 "leaving", "gone"}

HttpTypeOK ==
    /\ queue \in Seq(Requests) /\ Len(queue) <= MaxDepth
    /\ running \in BOOLEAN /\ deleted \in BOOLEAN
    /\ numThreads \in 0..Cardinality(Workers)
    /\ worker \in [Workers -> [at : WorkerPlaces, item : Requests \cup {NoRequest}]]
    /\ exiter \in {"out", "asleep", "woken"}
    /\ gencb \in {"request", "reject"}
    /\ event \in [at : {"loop", "callback", "gone"}, item : Requests \cup {NoRequest}]
    /\ loopbreak \in BOOLEAN
    /\ replies \in [Requests -> 0..1]
    /\ sent \subseteq taken /\ taken \subseteq Requests
    /\ fRPCRunning \in BOOLEAN /\ fRequestShutdown \in BOOLEAN
    /\ misuse \subseteq {"worker", "callback"}

(* W are the workers that StartHTTPServer starts.                           *)
HttpInit(W) ==
    /\ queue = <<>> /\ running = TRUE /\ numThreads = 0 /\ deleted = FALSE
    /\ worker = [w \in Workers |-> [at |-> IF w \in W THEN "created" ELSE "gone",
                                    item |-> NoRequest]]
    /\ exiter = "out"
    /\ gencb = "request"
    /\ event = [at |-> "loop", item |-> NoRequest] /\ loopbreak = FALSE
    /\ replies = [r \in Requests |-> 0] /\ taken = {} /\ sent = {}
    /\ fRPCRunning = TRUE /\ fRequestShutdown = FALSE
    /\ misuse = {}

--------------------------------------------------------------------------------
(* WorkQueue::cond, on which the workers and WaitExit wait.                 *)

AsleepWorkers == {w \in Workers : worker[w].at = "asleep"}

Woken(W) ==
    [w \in Workers |-> IF w \in W THEN [worker[w] EXCEPT !.at = "loop"] ELSE worker[w]]

(* cond.notify_one, with nobody, a worker or WaitExit woken.                *)
CondNotifyOne ==
    \/ /\ AsleepWorkers = {} /\ exiter # "asleep"
       /\ UNCHANGED <<worker, exiter>>
    \/ \E w \in AsleepWorkers : worker' = Woken({w}) /\ UNCHANGED exiter
    \/ exiter = "asleep" /\ exiter' = "woken" /\ UNCHANGED worker

(* The thread in WaitExit is woken.                                         *)
WakeExiter == exiter' = IF exiter = "asleep" THEN "woken" ELSE exiter

--------------------------------------------------------------------------------
(* The event thread.                                                        *)

(* A request comes in. http_request_cb runs up to Enqueue; a request that   *)
(* it answers itself, or that http_reject_request_cb refuses, is done.      *)
Request(r) ==
    /\ event.at = "loop" /\ ~loopbreak
    /\ r \notin taken
    /\ taken' = taken \cup {r}
    /\ \/ /\ gencb = "request"
          /\ event' = [at |-> "callback", item |-> r]
          /\ UNCHANGED <<replies, sent>>
       \/ /\ gencb = "request"
          /\ replies' = [replies EXCEPT ![r] = @ + 1]
          /\ UNCHANGED <<event, sent>>
       \/ /\ gencb = "reject"
          /\ sent' = sent \cup {r}
          /\ UNCHANGED <<event, replies>>
    /\ UNCHANGED <<queueVars, worker, exiter, gencb, loopbreak, rpcVars, misuse>>

(* Slips of Enqueue. The first has no answer for the client when the queue  *)
(* is full.                                                                 *)
DropWhenFull ==
    /\ IF Len(queue) >= MaxDepth
       THEN UNCHANGED <<queue, worker, exiter, replies>>
       ELSE /\ queue' = Append(queue, event.item)
            /\ CondNotifyOne
            /\ UNCHANGED replies
(* WorkQueue::Enqueue, and the reply when it refuses.                       *)
Enqueue ==
    /\ IF Len(queue) >= MaxDepth
       THEN /\ replies' = [replies EXCEPT ![event.item] = @ + 1]
            /\ UNCHANGED <<queue, worker, exiter>>
       ELSE /\ queue' = Append(queue, event.item)
            /\ CondNotifyOne
            /\ UNCHANGED replies

(* The end of http_request_cb. The pointer workQueue is not reset when the  *)
(* queue is freed.                                                          *)
Dispatch ==
    /\ event.at = "callback"
    /\ \/ /\ ~deleted
          /\ event' = [at |-> "loop", item |-> NoRequest]
          /\ Enqueue
          /\ UNCHANGED misuse
       \/ /\ deleted
          /\ event' = [at |-> "gone", item |-> NoRequest]
          /\ misuse' = misuse \cup {"callback"}
          /\ UNCHANGED <<queue, worker, exiter, replies>>
    /\ UNCHANGED <<running, numThreads, deleted, gencb, loopbreak, taken, sent, rpcVars>>

(* The event that WriteReply left.                                          *)
SendReply(r) ==
    /\ event.at = "loop" /\ ~loopbreak
    /\ replies[r] > 0 /\ r \notin sent
    /\ sent' = sent \cup {r}
    /\ UNCHANGED <<queueVars, worker, exiter, gencb, event, loopbreak, taken, replies, rpcVars,
                   misuse>>

(* The event loop runs out of events, as nothing listens and nothing is     *)
(* open, or it is broken.                                                   *)
LoopEnds ==
    /\ event.at = "loop"
    /\ \/ loopbreak
       \/ gencb = "reject" /\ taken = sent
    /\ event' = [event EXCEPT !.at = "gone"]
    /\ UNCHANGED <<queueVars, worker, exiter, gencb, loopbreak, taken, sent, replies, rpcVars,
                   misuse>>

--------------------------------------------------------------------------------
(* WorkQueue::Run, in a worker.                                             *)

(* ThreadCounter.                                                           *)
CountIn(w) ==
    /\ worker[w].at = "created" /\ ~deleted
    /\ numThreads' = numThreads + 1
    /\ worker' = [worker EXCEPT ![w].at = "loop"]
    /\ UNCHANGED <<queue, running, deleted, exiter, eventVars, replies, rpcVars, misuse>>

(* Sleep, leave, or take the first item.                                    *)
NextItem(w) ==
    /\ worker[w].at = "loop" /\ ~deleted
    /\ \/ /\ running /\ queue = <<>>
          /\ worker' = [worker EXCEPT ![w].at = "asleep"]
          /\ UNCHANGED queue
       \/ /\ ~running
          /\ worker' = [worker EXCEPT ![w].at = "leaving"]
          /\ UNCHANGED queue
       \/ /\ running /\ queue # <<>>
          /\ worker' = [worker EXCEPT ![w] = [at |-> "handling", item |-> queue[1]]]
          /\ queue' = Tail(queue)
    /\ UNCHANGED <<running, numThreads, deleted, exiter, eventVars, replies, rpcVars, misuse>>

(* The handler writes the reply, or the destructor of the request does.     *)
Reply(w) ==
    /\ replies' = [replies EXCEPT ![worker[w].item] = @ + 1]
    /\ worker' = [worker EXCEPT ![w] = [at |-> "loop", item |-> NoRequest]]

(* waitfornewblock and its kin look at fRPCRunning and at the block; then   *)
(* they wait. InterruptRPC and OnRPCStopped do not take their mutex.        *)
Handle(w) ==
    /\ worker[w].at = "handling"
    /\ LET r == worker[w].item
       IN  \/ /\ r \in WaitingRequests /\ fRPCRunning
              /\ worker' = [worker EXCEPT ![w].at = "looked"]
              /\ UNCHANGED <<replies, fRequestShutdown>>
           \/ /\ Reply(w)
              /\ fRequestShutdown' = (fRequestShutdown \/ r \in StopRequests)
    /\ UNCHANGED <<queueVars, exiter, eventVars, fRPCRunning, misuse>>

Block(w) ==
    /\ worker[w].at = "looked"
    /\ worker' = [worker EXCEPT ![w].at = "blocked"]
    /\ UNCHANGED <<queueVars, exiter, eventVars, replies, rpcVars, misuse>>

(* RPCNotifyBlockChange, for a new block and for the end of the RPC server: *)
(* the handlers that wait look again.                                       *)
WokenHandlers ==
    [w \in Workers |-> IF worker[w].at = "blocked" THEN [worker[w] EXCEPT !.at = "handling"]
                       ELSE worker[w]]

(* The mutex is held from the look to the wait, and taken for a new block.  *)
NewBlock ==
    /\ \A w \in Workers : worker[w].at # "looked"
    /\ \E w \in Workers : worker[w].at = "blocked"
    /\ worker' = WokenHandlers
    /\ UNCHANGED <<queueVars, exiter, eventVars, replies, rpcVars, misuse>>

(* ~ThreadCounter, with its notify_all.                                     *)
CountOut(w) ==
    /\ worker[w].at = "leaving" /\ ~deleted
    /\ numThreads' = numThreads - 1
    /\ worker' = [Woken(AsleepWorkers) EXCEPT ![w].at = "gone"]
    /\ WakeExiter
    /\ UNCHANGED <<queue, running, deleted, eventVars, replies, rpcVars, misuse>>

(* A worker that takes cs after the queue was freed: what happens is        *)
(* undefined, and it is recorded and followed no further.                   *)
UseDeleted(w) ==
    /\ deleted
    /\ worker[w].at \in {"created", "loop", "leaving"}
    /\ misuse' = misuse \cup {"worker"}
    /\ worker' = [worker EXCEPT ![w].at = "gone"]
    /\ UNCHANGED <<queueVars, exiter, eventVars, replies, rpcVars>>

WorkerStep(w) ==
    CountIn(w) \/ NextItem(w) \/ Handle(w) \/ Block(w) \/ CountOut(w) \/ UseDeleted(w)

EventStep == Dispatch \/ LoopEnds \/ \E r \in Requests : SendReply(r)

================================================================================

------------------------------- MODULE MCShutdown -------------------------------
(* Two small programs: the daemon, with one scheduler thread that is        *)
(* interrupted, two workers and two requests; and a user of               *)
(* CScheduler::stop with two threads and no server.                         *)
EXTENDS Shutdown

CONSTANTS s1, s2, dump, check, r1, r2, w1, w2

MCThreads == {s1, s2}
MCTasks == {dump, check}
MCRequests == {r1, r2}
MCWorkers == {w1, w2}

Daemon == [threads |-> {s1}, workers |-> {w1, w2}, requests |-> {r1, r2},
           tasks |-> {dump}, endings |-> {"interrupt"},
           start |-> 2, repeats |-> 0]
User == [threads |-> {s1, s2}, workers |-> {}, requests |-> {},
         tasks |-> {dump, check}, endings |-> {"interrupt", "stop", "drain"},
         start |-> 1, repeats |-> 1]
MCPrograms == {Daemon, User}

================================================================================

------------------------------ MODULE WorkerPool ------------------------------
(***************************************************************************)
(* The TCP side of the server: the accepting thread (tcpMainThread), the   *)
(* pool of workers it hands connections to, and the way both shut down.    *)
(*                                                                         *)
(* Two kinds of locks are taken in both orders.  A worker holds its own    *)
(* mutex from the moment it looks for work until it has waited for it, or  *)
(* has served it and marked itself free, which takes busy_workers_lock;    *)
(* giveConnection takes busy_workers_lock first and then the mutex of the  *)
(* worker it chose.  The mutex of worker w is held exactly at the labels   *)
(* Locked(w), and busy_workers_lock between two steps only while the       *)
(* accepting thread is at "handover".                                      *)
(*                                                                         *)
(* What is served, and how, is the business of the other modules.          *)
(***************************************************************************)
EXTENDS Naturals, FiniteSets

CONSTANTS
    POOL_SIZE,
    EXCEPTION_RETRY_MAX_TRIALS,
    Connections,    \* the connections clients make
    NoFd

Workers == 1..POOL_SIZE

ASSUME PoolAssumption ==
    /\ POOL_SIZE \in Nat \ {0} /\ EXCEPTION_RETRY_MAX_TRIALS \in Nat \ {0}
    /\ NoFd \notin Connections

VARIABLES
    worker,         \* where each worker is in execute()
    busy_workers, to_execute, tcpSocketFD,
    exiting,        \* Worker::is_exiting
    main,           \* where the accepting thread is
    connection_fd,  \* the connection it has accepted
    target,         \* the worker it is giving it to, or destroying
    ex_trial,       \* exceptions in a row
    is_exiting,     \* the global flag that ends the main loops of both sockets
    conn            \* history: what became of each connection

workerVars == <<worker, busy_workers, to_execute, tcpSocketFD>>
mainVars == <<main, connection_fd, target, ex_trial>>
vars == <<workerVars, exiting, mainVars, is_exiting, conn>>

Locked(w) == worker[w] \in {"check", "serve", "freeWorker", "unlock"}
BusyLocked == main = "handover"

Running == main # "exited"
WorkerAt(w, label) == Running /\ worker[w] = label
WorkerGoto(w, label) == worker' = [worker EXCEPT ![w] = label]
Became(c, state) == conn' = [conn EXCEPT ![c] = state]

(* A step of a worker that changes nothing but where the worker is. *)
OnlyMoves ==
    UNCHANGED <<busy_workers, to_execute, tcpSocketFD, exiting, mainVars, is_exiting, conn>>

-----------------------------------------------------------------------------
(* Worker::execute *)

Start(w) ==
    /\ WorkerAt(w, "start")
    /\ WorkerGoto(w, IF exiting[w] THEN "done" ELSE "lock")
    /\ OnlyMoves

(* Its own mutex, at the top of the loop or on the way back from cond.wait. *)
Lock(w) ==
    /\ WorkerAt(w, "lock")
    /\ WorkerGoto(w, "check")
    /\ OnlyMoves

(* The wait loop: cond.wait gives the mutex back, and so does returning. *)
Check(w) ==
    /\ WorkerAt(w, "check")
    /\ WorkerGoto(w, CASE exiting[w] -> "done"
                       [] ~exiting[w] /\ to_execute[w] -> "serve"
                       [] OTHER -> "wait")
    /\ OnlyMoves

SpuriousWakeup(w) ==
    /\ WorkerAt(w, "wait")
    /\ WorkerGoto(w, "lock")
    /\ OnlyMoves

(* The handler answers, or an exception ends it; the connection is closed. *)
Serve(w) ==
    /\ WorkerAt(w, "serve")
    /\ WorkerGoto(w, "freeWorker")
    /\ to_execute' = [to_execute EXCEPT ![w] = FALSE]
    /\ Became(tcpSocketFD[w], "served")
    /\ UNCHANGED <<busy_workers, tcpSocketFD, exiting, mainVars, is_exiting>>

(* Mutant: the worker stays busy. *)
FreeWorkerForgets(w) ==
    /\ WorkerAt(w, "freeWorker") /\ ~BusyLocked
    /\ WorkerGoto(w, "unlock")
    /\ busy_workers' = [busy_workers EXCEPT ![w] = TRUE]
    /\ UNCHANGED <<to_execute, tcpSocketFD, exiting, mainVars, is_exiting, conn>>

FreeWorker(w) ==
    /\ WorkerAt(w, "freeWorker") /\ ~BusyLocked
    /\ WorkerGoto(w, "unlock")
    /\ busy_workers' = [busy_workers EXCEPT ![w] = FALSE]
    /\ UNCHANGED <<to_execute, tcpSocketFD, exiting, mainVars, is_exiting, conn>>

Unlock(w) ==
    /\ WorkerAt(w, "unlock")
    /\ WorkerGoto(w, "start")
    /\ OnlyMoves

-----------------------------------------------------------------------------
(* tcpMainThread and wait_for_tcp_packet *)

MainGoto(label) == main' = label
Notify(w) == worker' = [worker EXCEPT ![w] = IF @ = "wait" THEN "lock" ELSE @]

(* The end of an iteration, after an exception or without one. *)
Iterated(trials) == ex_trial' = trials /\ MainGoto("loop")

ListenFails ==
    /\ main = "listen"
    /\ is_exiting' = TRUE
    /\ MainGoto("destroy") /\ target' = POOL_SIZE
    /\ UNCHANGED <<workerVars, exiting, connection_fd, ex_trial, conn>>

Listen ==
    /\ main = "listen"
    /\ MainGoto("loop")
    /\ UNCHANGED <<workerVars, exiting, connection_fd, target, ex_trial, is_exiting, conn>>

(* The kernel queues connections from the call of listen on. *)
Connect(c) ==
    /\ conn[c] = "none" /\ main # "listen"
    /\ Became(c, "pending")
    /\ UNCHANGED <<workerVars, exiting, mainVars, is_exiting>>

(* accept returns a connection; when the server is exiting meanwhile, it is
   neither served nor closed. *)
Accept(c) ==
    /\ main = "accept" /\ conn[c] = "pending"
    /\ IF is_exiting
       THEN Became(c, "lost") /\ Iterated(0) /\ UNCHANGED connection_fd
       ELSE /\ Became(c, "accepted") /\ MainGoto("giveConnection")
            /\ connection_fd' = c
            /\ UNCHANGED ex_trial
    /\ UNCHANGED <<workerVars, exiting, target, is_exiting>>

(* No connection arrived within the timeout of the listening socket, or a
   signal interrupted the call. *)
AcceptTimesOut ==
    /\ main = "accept"
    /\ is_exiting \/ \A c \in Connections : conn[c] # "pending"
    /\ Iterated(0)
    /\ UNCHANGED <<workerVars, exiting, connection_fd, target, is_exiting, conn>>

(* accept itself fails: no connection was taken. *)
AcceptFails ==
    /\ main = "accept" /\ ~is_exiting
    /\ Iterated(ex_trial + 1)
    /\ UNCHANGED <<workerVars, exiting, connection_fd, target, is_exiting, conn>>

(* The read timeout of an accepted connection cannot be set: the exception
   forgets the connection, which stays open with nobody to serve it. *)
SetTimeoutFails(c) ==
    /\ main = "accept" /\ ~is_exiting /\ conn[c] = "pending"
    /\ Became(c, "leaked")
    /\ Iterated(ex_trial + 1)
    /\ UNCHANGED <<workerVars, exiting, connection_fd, target, is_exiting>>

Idle == {w \in Workers : ~busy_workers[w]}

(* Mutant: the scan for an idle worker stops one short. *)
FindWorkerMissesLast ==
    /\ main = "giveConnection"
    /\ IF Idle \ {POOL_SIZE} # {}
       THEN /\ target' \in {w \in Idle : \A v \in Idle : w <= v}
            /\ MainGoto("handover")
            /\ UNCHANGED <<connection_fd, ex_trial, conn>>
       ELSE /\ Became(connection_fd, "refused")
            /\ connection_fd' = NoFd
            /\ Iterated(ex_trial + 1)
            /\ UNCHANGED target
    /\ UNCHANGED <<workerVars, exiting, is_exiting>>

(* giveConnection takes busy_workers_lock and looks for an idle worker; when
   there is none it throws, and the connection is closed. *)
FindWorker ==
    /\ main = "giveConnection"
    /\ IF Idle # {}
       THEN /\ target' \in {w \in Idle : \A v \in Idle : w <= v}
            /\ MainGoto("handover")
            /\ UNCHANGED <<connection_fd, ex_trial, conn>>
       ELSE /\ Became(connection_fd, "refused")
            /\ connection_fd' = NoFd
            /\ Iterated(ex_trial + 1)
            /\ UNCHANGED target
    /\ UNCHANGED <<workerVars, exiting, is_exiting>>

(* What giveConnection sets with the mutex of the worker, which must not be
   serving: the target is told what to serve. *)
Deliver ==
    /\ main = "handover" /\ ~Locked(target)
    /\ tcpSocketFD' = [tcpSocketFD EXCEPT ![target] = connection_fd]
    /\ to_execute' = [to_execute EXCEPT ![target] = TRUE]
    /\ Became(connection_fd, "given")
    /\ connection_fd' = NoFd
    /\ Iterated(0)
    /\ UNCHANGED <<exiting, target, is_exiting>>

MarkBusy == busy_workers' = [busy_workers EXCEPT ![target] = TRUE]

(* Mutant: the worker is not marked busy. *)
HandoverLeavesIdle == Deliver /\ Notify(target) /\ UNCHANGED busy_workers

(* Mutant: the worker is not notified. *)
HandoverWithoutNotify == Deliver /\ MarkBusy /\ UNCHANGED worker

Handover == Deliver /\ MarkBusy /\ Notify(target)

(* Mutant: one exception too many is tolerated. *)
LoopTriesOnceMore ==
    /\ main = "loop"
    /\ is_exiting' = (is_exiting \/ ex_trial > EXCEPTION_RETRY_MAX_TRIALS)
    /\ IF is_exiting'
       THEN MainGoto("destroy") /\ target' = POOL_SIZE
       ELSE MainGoto("accept") /\ UNCHANGED target
    /\ UNCHANGED <<workerVars, exiting, connection_fd, ex_trial, conn>>

(* Mutant: the accepting thread leaves its pool behind. *)
LoopLeavesPool ==
    /\ main = "loop"
    /\ is_exiting' = (is_exiting \/ ex_trial >= EXCEPTION_RETRY_MAX_TRIALS)
    /\ MainGoto(IF is_exiting' THEN "exited" ELSE "accept")
    /\ UNCHANGED <<workerVars, exiting, connection_fd, target, ex_trial, conn>>

(* Too many exceptions in a row end the server, as a signal or the thread of
   the UDP socket may at any time; the pool is then destroyed, last worker
   first. *)
Loop ==
    /\ main = "loop"
    /\ is_exiting' = (is_exiting \/ ex_trial >= EXCEPTION_RETRY_MAX_TRIALS)
    /\ IF is_exiting'
       THEN MainGoto("destroy") /\ target' = POOL_SIZE
       ELSE MainGoto("accept") /\ UNCHANGED target
    /\ UNCHANGED <<workerVars, exiting, connection_fd, ex_trial, conn>>

Exit ==
    /\ Running /\ ~is_exiting
    /\ is_exiting' = TRUE
    /\ UNCHANGED <<workerVars, exiting, mainVars, conn>>

(* Mutant: the destructor does not wake its worker. *)
DestroyWithoutNotify ==
    /\ main = "destroy" /\ ~Locked(target)
    /\ exiting' = [exiting EXCEPT ![target] = TRUE]
    /\ UNCHANGED worker
    /\ MainGoto("join")
    /\ UNCHANGED <<busy_workers, to_execute, tcpSocketFD, connection_fd, target, ex_trial,
                   is_exiting, conn>>

(* ~Worker takes the mutex, so a worker that is serving goes on to its end; one
   that was given a connection and has not woken up returns without it. *)
Destroy ==
    /\ main = "destroy" /\ ~Locked(target)
    /\ exiting' = [exiting EXCEPT ![target] = TRUE]
    /\ Notify(target)
    /\ MainGoto("join")
    /\ UNCHANGED <<busy_workers, to_execute, tcpSocketFD, connection_fd, target, ex_trial,
                   is_exiting, conn>>

Join ==
    /\ main = "join" /\ worker[target] = "done"
    /\ IF to_execute[target] THEN Became(tcpSocketFD[target], "lost") ELSE UNCHANGED conn
    /\ IF target = 1
       THEN MainGoto("exited") /\ UNCHANGED target
       ELSE MainGoto("destroy") /\ target' = target - 1
    /\ UNCHANGED <<workerVars, exiting, connection_fd, ex_trial, is_exiting>>

-----------------------------------------------------------------------------
Init ==
    /\ worker = [w \in Workers |-> "start"]
    /\ busy_workers = [w \in Workers |-> FALSE]
    /\ to_execute = [w \in Workers |-> FALSE]
    /\ tcpSocketFD = [w \in Workers |-> NoFd]
    /\ exiting = [w \in Workers |-> FALSE]
    /\ main = "listen"
    /\ connection_fd = NoFd
    /\ target = POOL_SIZE
    /\ ex_trial = 0
    /\ is_exiting = FALSE
    /\ conn = [c \in Connections |-> "none"]

Execute(w) ==
    Start(w) \/ Lock(w) \/ Check(w) \/ Serve(w) \/ FreeWorker(w) \/ Unlock(w)

Accepting == \E c \in Connections : Accept(c)

Main ==
    \/ Listen \/ Accepting \/ AcceptTimesOut
    \/ FindWorker \/ Handover \/ Loop \/ Destroy \/ Join

Terminated == main = "exited" /\ UNCHANGED vars

Step ==
    \/ \E w \in Workers : Execute(w) \/ SpuriousWakeup(w)
    \/ \E c \in Connections : Connect(c) \/ SetTimeoutFails(c)
    \/ Main \/ AcceptFails \/ ListenFails

Next == Step \/ Exit \/ Terminated

Spec == Init /\ [][Next]_vars

-----------------------------------------------------------------------------
(* Properties. *)

TypeOK ==
    /\ worker \in [Workers -> {"start", "lock", "check", "wait", "serve", "freeWorker",
                               "unlock", "done"}]
    /\ busy_workers \in [Workers -> BOOLEAN]
    /\ to_execute \in [Workers -> BOOLEAN]
    /\ tcpSocketFD \in [Workers -> Connections \union {NoFd}]
    /\ exiting \in [Workers -> BOOLEAN]
    /\ main \in {"listen", "loop", "accept", "giveConnection", "handover", "destroy", "join", "exited"}
    /\ connection_fd \in Connections \union {NoFd}
    /\ target \in Workers
    /\ ex_trial \in 0..EXCEPTION_RETRY_MAX_TRIALS
    /\ is_exiting \in BOOLEAN
    /\ conn \in [Connections -> {"none", "pending", "accepted", "given", "served", "refused", "lost",
                             "leaked"}]

(* The two lock orders never meet: while giveConnection waits for the mutex of
   the worker it chose, that worker is not serving (everybody else would wait
   to be accepted) and not waiting for busy_workers_lock (both would wait
   forever). *)
LockOrdersDoNotMeet ==
    main = "handover" => worker[target] \notin {"serve", "freeWorker"}

(* A connection that was handed over is the business of exactly one worker,
   which is marked busy: none is overwritten before it is served. *)
GivenToOneWorker ==
    \A c \in Connections : conn[c] = "given" =>
        \E w \in Workers :
            /\ to_execute[w] /\ busy_workers[w]
            /\ {v \in Workers : to_execute[v] /\ tcpSocketFD[v] = c} = {w}

(* A worker is marked busy exactly from the handover until it has called
   freeWorker: a mark that stays behind costs a slot for ever, one that goes
   early gives away a worker that is still serving. *)
BusyWhileNeeded ==
    \A w \in Workers : busy_workers[w] <=> to_execute[w] \/ worker[w] = "freeWorker"

(* The pool is a number of slots: it serves, refuses, leaks and loses
   connections as ConnectionSlots says. *)
SlotsOf == INSTANCE ConnectionSlots WITH
    Slots <- POOL_SIZE,
    free <- Cardinality(Idle),
    stopping <- is_exiting

ImplementsSlots == SlotsOf!Spec
=============================================================================

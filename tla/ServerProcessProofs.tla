-------------------------- MODULE ServerProcessProofs -------------------------
(***************************************************************************)
(* Proofs about WorkerPool, for any size of the pool, any number of        *)
(* connections and any number of tolerated exceptions; and about           *)
(* ServerProcess: it implements the pool beside which the main thread      *)
(* runs, so that the theorems about the pool hold of the whole process,    *)
(* and no thread outlives main.                                            *)
(***************************************************************************)
EXTENDS ServerProcess, FiniteSetTheorems, TLAPS

(* The tries are counted at the loop, and there is one left when it goes on. *)
TriesLeft ==
    main \in {"accept", "giveConnection", "handover"} => ex_trial < EXCEPTION_RETRY_MAX_TRIALS

TypeInv == TypeOK /\ TriesLeft

(* A worker serves what it was told to execute, and is done with it when it
   frees itself. *)
ServesItsTask ==
    \A w \in Workers : /\ worker[w] = "serve" => to_execute[w]
                       /\ worker[w] = "freeWorker" => ~to_execute[w]

(* giveConnection keeps busy_workers_lock from the look at the marks to the
   handover, so that its target is still free then. *)
TargetIsIdle == main = "handover" => ~busy_workers[target]

(* The connection in the hands of the accepting thread is nobody else's. *)
Accepted ==
    main \in {"giveConnection", "handover"} =>
        connection_fd \in Connections /\ conn[connection_fd] = "accepted"

(* A task is a connection that was handed over, and a connection is the task of
   one worker. *)
TasksAreGiven ==
    \A w \in Workers : to_execute[w] =>
        /\ tcpSocketFD[w] \in Connections
        /\ \/ conn[tcpSocketFD[w]] = "given"
           \/ conn[tcpSocketFD[w]] = "lost" /\ worker[w] = "done"

TasksDiffer ==
    \A v, w \in Workers : to_execute[v] /\ to_execute[w] /\ tcpSocketFD[v] = tcpSocketFD[w] => v = w

GivenAreTasks ==
    \A c \in Connections : conn[c] = "given" =>
        \E w \in Workers : to_execute[w] /\ tcpSocketFD[w] = c

Marks == BusyWhileNeeded /\ ServesItsTask /\ TargetIsIdle

Tasks == Accepted /\ TasksAreGiven /\ TasksDiffer /\ GivenAreTasks

PoolInv == TypeInv /\ Marks /\ Tasks

-----------------------------------------------------------------------------
(* Types. *)

LEMMA InitType == Init => TypeInv
<1> SUFFICES ASSUME Init PROVE TypeInv
    OBVIOUS
<1>1. target \in Workers /\ ex_trial \in 0..EXCEPTION_RETRY_MAX_TRIALS
    BY PoolAssumption DEF Init, Workers
<1>2. /\ worker \in [Workers -> {"start"}] /\ main = "listen"
      /\ busy_workers \in [Workers -> {FALSE}] /\ to_execute \in [Workers -> {FALSE}]
      /\ exiting \in [Workers -> {FALSE}] /\ is_exiting = FALSE
    BY DEF Init
<1>3. /\ tcpSocketFD \in [Workers -> {NoFd}] /\ connection_fd = NoFd
      /\ conn \in [Connections -> {"none"}]
    BY DEF Init
<1> QED BY <1>1, <1>2, <1>3 DEF TypeInv, TypeOK, TriesLeft

(* A step of a worker. *)
LEMMA ExecuteType ==
    ASSUME TypeInv, NEW w \in Workers, Execute(w) \/ SpuriousWakeup(w)
    PROVE  TypeInv'
<1> USE DEF TypeInv, TypeOK, TriesLeft, WorkerAt, WorkerGoto, OnlyMoves, mainVars
<1>1. CASE Start(w) BY <1>1 DEF Start
<1>2. CASE Lock(w) BY <1>2 DEF Lock
<1>3. CASE Check(w) BY <1>3 DEF Check
<1>4. CASE Serve(w) BY <1>4 DEF Serve, Became
<1>5. CASE FreeWorker(w) BY <1>5 DEF FreeWorker
<1>6. CASE Unlock(w) BY <1>6 DEF Unlock
<1>7. CASE SpuriousWakeup(w) BY <1>7 DEF SpuriousWakeup
<1> QED BY <1>1, <1>2, <1>3, <1>4, <1>5, <1>6, <1>7 DEF Execute

LEMMA StepType == TypeInv /\ [Next]_vars => TypeInv'
<1> SUFFICES ASSUME TypeInv, [Next]_vars PROVE TypeInv'
    OBVIOUS
<1> USE PoolAssumption DEF TypeInv, TypeOK, TriesLeft, MainGoto, Iterated, Became, workerVars, mainVars
<1>1. CASE \E w \in Workers : Execute(w) \/ SpuriousWakeup(w)
    BY <1>1, ExecuteType
<1>2. CASE \E c \in Connections : Connect(c)
    BY <1>2 DEF Connect
<1>3. CASE Accepting
    BY <1>3 DEF Accepting, Accept
<1>4. CASE AcceptTimesOut
    BY <1>4 DEF AcceptTimesOut
<1>5. CASE FindWorker
    BY <1>5 DEF FindWorker, Idle
<1>6. CASE Handover
    <2>1. /\ connection_fd' = NoFd /\ main' = "loop" /\ ex_trial' = 0
          /\ UNCHANGED <<exiting, target, is_exiting>>
        BY <1>6 DEF Handover, Deliver
    <2>2. ex_trial' \in 0..EXCEPTION_RETRY_MAX_TRIALS
        BY <2>1
    <2>3. /\ tcpSocketFD' \in [Workers -> Connections \union {NoFd}]
          /\ to_execute' \in [Workers -> BOOLEAN]
          /\ conn' \in [Connections -> {"none", "pending", "accepted", "given",
                                         "served", "refused", "lost", "leaked"}]
        BY <1>6 DEF Handover, Deliver
    <2>4. busy_workers' \in [Workers -> BOOLEAN]
        BY <1>6 DEF Handover, MarkBusy
    <2>5. worker' \in [Workers -> {"start", "lock", "check", "wait", "serve", "freeWorker",
                                   "unlock", "done"}]
        BY <1>6 DEF Handover, Notify
    <2> QED BY <2>1, <2>2, <2>3, <2>4, <2>5
<1>7. CASE Loop
    <2>1. is_exiting' \in BOOLEAN
        BY <1>7 DEF Loop
    <2>2. main' \in {"destroy", "accept"} /\ UNCHANGED ex_trial
        BY <1>7 DEF Loop
    <2>3. main' = "accept" => ex_trial < EXCEPTION_RETRY_MAX_TRIALS
        <3>1. main' = "accept" => ~is_exiting'
            BY <1>7 DEF Loop
        <3>2. ex_trial >= EXCEPTION_RETRY_MAX_TRIALS => is_exiting'
            BY <1>7, Zenon DEF Loop
        <3>3. ex_trial < EXCEPTION_RETRY_MAX_TRIALS \/ ex_trial >= EXCEPTION_RETRY_MAX_TRIALS
            OBVIOUS
        <3> QED BY <3>1, <3>2, <3>3, Zenon
    <2>4. target' \in Workers
        BY <1>7 DEF Loop, Workers
    <2> QED BY <1>7, <2>1, <2>2, <2>3, <2>4 DEF Loop
<1>8. CASE Destroy
    BY <1>8 DEF Destroy, Notify
<1>9. CASE Join
    BY <1>9, SMTT(20) DEF Join, Workers
<1>10. CASE AcceptFails \/ \E c \in Connections : SetTimeoutFails(c)
    BY <1>10 DEF AcceptFails, SetTimeoutFails
<1>11. CASE Exit
    BY <1>11 DEF Exit
<1>12. CASE Listen \/ ListenFails
    <2>1. CASE Listen
        BY <2>1 DEF Listen
    <2>2. CASE ListenFails
        <3>1. target' \in Workers
            BY <2>2 DEF ListenFails, Workers
        <3> QED BY <2>2, <3>1 DEF ListenFails
    <2> QED BY <1>12, <2>1, <2>2
<1>13. CASE UNCHANGED vars
    BY <1>13 DEF vars
<1> QED
    BY <1>1, <1>2, <1>3, <1>4, <1>5, <1>6, <1>7, <1>8, <1>9, <1>10, <1>11, <1>12, <1>13
    DEF Next, Step, Main, Terminated

(* The accepting thread and the workers keep their types and their places, and
   the exceptions in a row are never more than are tolerated. *)
THEOREM TypeCorrect == Spec => []TypeOK
<1>1. TypeInv => TypeOK
    BY DEF TypeInv
<1> QED BY InitType, StepType, <1>1, PTL DEF Spec
-----------------------------------------------------------------------------
(* The marks of the workers. *)

LEMMA InitMarks == Init => Marks
BY DEF Init, Marks, BusyWhileNeeded, ServesItsTask, TargetIsIdle

LEMMA ExecuteMarks ==
    ASSUME TypeInv, Marks, NEW w \in Workers, Execute(w) \/ SpuriousWakeup(w)
    PROVE  Marks'
<1> USE DEF TypeInv, TypeOK, Marks, BusyWhileNeeded, ServesItsTask, TargetIsIdle,
            WorkerAt, WorkerGoto, OnlyMoves, mainVars
<1>1. CASE Start(w) BY <1>1 DEF Start
<1>2. CASE Lock(w) BY <1>2 DEF Lock
<1>3. CASE Check(w) BY <1>3 DEF Check
<1>4. CASE Serve(w) BY <1>4 DEF Serve, Became
<1>5. CASE FreeWorker(w) BY <1>5 DEF FreeWorker, BusyLocked
<1>6. CASE Unlock(w) BY <1>6 DEF Unlock
<1>7. CASE SpuriousWakeup(w) BY <1>7 DEF SpuriousWakeup
<1> QED BY <1>1, <1>2, <1>3, <1>4, <1>5, <1>6, <1>7 DEF Execute

LEMMA StepMarks == PoolInv /\ [Next]_vars => Marks'
<1> SUFFICES ASSUME PoolInv, [Next]_vars PROVE Marks'
    OBVIOUS
<1> USE DEF PoolInv, TypeInv, TypeOK, Marks, BusyWhileNeeded, ServesItsTask, TargetIsIdle,
            MainGoto, Iterated, workerVars, mainVars
<1>1. CASE \E w \in Workers : Execute(w) \/ SpuriousWakeup(w)
    BY <1>1, ExecuteMarks
<1>2. CASE \E c \in Connections : Connect(c)
    BY <1>2 DEF Connect
<1>3. CASE Accepting
    BY <1>3 DEF Accepting, Accept
<1>4. CASE AcceptTimesOut
    BY <1>4 DEF AcceptTimesOut
<1>5. CASE FindWorker
    BY <1>5 DEF FindWorker, Idle
<1>6. CASE Handover
    BY <1>6 DEF Handover, Deliver, MarkBusy, Notify
<1>7. CASE Loop
    BY <1>7 DEF Loop
<1>8. CASE Destroy
    BY <1>8 DEF Destroy, Notify
<1>9. CASE Join
    BY <1>9 DEF Join
<1>10. CASE AcceptFails \/ \E c \in Connections : SetTimeoutFails(c)
    BY <1>10 DEF AcceptFails, SetTimeoutFails
<1>11. CASE Exit
    BY <1>11 DEF Exit
<1>12. CASE Listen \/ ListenFails
    BY <1>12 DEF Listen, ListenFails
<1>13. CASE UNCHANGED vars
    BY <1>13 DEF vars
<1> QED
    BY <1>1, <1>2, <1>3, <1>4, <1>5, <1>6, <1>7, <1>8, <1>9, <1>10, <1>11, <1>12, <1>13
    DEF Next, Step, Main, Terminated

-----------------------------------------------------------------------------
(* Connections and tasks. *)

LEMMA InitTasks == Init => Tasks
BY DEF Init, Tasks, Accepted, TasksAreGiven, TasksDiffer, GivenAreTasks

LEMMA ExecuteTasks ==
    ASSUME PoolInv, NEW w \in Workers, Execute(w) \/ SpuriousWakeup(w)
    PROVE  Tasks'
<1> USE DEF PoolInv, TypeInv, TypeOK, Marks, ServesItsTask, Tasks, Accepted, TasksAreGiven,
            TasksDiffer, GivenAreTasks, WorkerAt, WorkerGoto, OnlyMoves, mainVars
<1>1. CASE Start(w) BY <1>1 DEF Start
<1>2. CASE Lock(w) BY <1>2 DEF Lock
<1>3. CASE Check(w) BY <1>3 DEF Check
<1>4. CASE Serve(w) BY <1>4 DEF Serve, Became
<1>5. CASE FreeWorker(w) BY <1>5 DEF FreeWorker
<1>6. CASE Unlock(w) BY <1>6 DEF Unlock
<1>7. CASE SpuriousWakeup(w) BY <1>7 DEF SpuriousWakeup
<1> QED BY <1>1, <1>2, <1>3, <1>4, <1>5, <1>6, <1>7 DEF Execute

LEMMA StepTasks == PoolInv /\ [Next]_vars => Tasks'
<1> SUFFICES ASSUME PoolInv, [Next]_vars PROVE Tasks'
    OBVIOUS
<1> USE DEF PoolInv, TypeInv, TypeOK, Tasks, Accepted, TasksAreGiven, TasksDiffer,
            GivenAreTasks, Became, MainGoto, Iterated, workerVars, mainVars
<1>1. CASE \E w \in Workers : Execute(w) \/ SpuriousWakeup(w)
    BY <1>1, ExecuteTasks
<1>2. CASE \E c \in Connections : Connect(c)
    BY <1>2 DEF Connect
<1>3. CASE Accepting
    BY <1>3 DEF Accepting, Accept
<1>4. CASE AcceptTimesOut
    BY <1>4 DEF AcceptTimesOut
<1>5. CASE FindWorker
    BY <1>5 DEF FindWorker
<1>6. CASE Handover
    BY <1>6 DEF Handover, Deliver, MarkBusy, Notify, Marks, BusyWhileNeeded, TargetIsIdle
<1>7. CASE Loop
    BY <1>7 DEF Loop
<1>8. CASE Destroy
    BY <1>8 DEF Destroy, Notify
<1>9. CASE Join
    BY <1>9 DEF Join
<1>10. CASE AcceptFails \/ \E c \in Connections : SetTimeoutFails(c)
    BY <1>10 DEF AcceptFails, SetTimeoutFails
<1>11. CASE Exit
    BY <1>11 DEF Exit
<1>12. CASE Listen \/ ListenFails
    BY <1>12 DEF Listen, ListenFails
<1>13. CASE UNCHANGED vars
    BY <1>13 DEF vars
<1> QED
    BY <1>1, <1>2, <1>3, <1>4, <1>5, <1>6, <1>7, <1>8, <1>9, <1>10, <1>11, <1>12, <1>13
    DEF Next, Step, Main, Terminated

-----------------------------------------------------------------------------
LEMMA PoolInvariant == Spec => []PoolInv
<1>1. Init => PoolInv
    BY InitType, InitMarks, InitTasks DEF PoolInv
<1>2. PoolInv /\ [Next]_vars => PoolInv'
    BY StepType, StepMarks, StepTasks DEF PoolInv
<1> QED BY <1>1, <1>2, PTL DEF Spec

(* A worker is marked busy exactly from the handover of a connection until it
   has called freeWorker. *)
THEOREM MarksAreRight == Spec => []BusyWhileNeeded
<1>1. PoolInv => BusyWhileNeeded
    BY DEF PoolInv, Marks
<1> QED BY PoolInvariant, <1>1, PTL

(* Between the scan of the marks and the mutex of the chosen worker,
   giveConnection waits for no worker that is serving, or that waits for
   busy_workers_lock. *)
THEOREM LocksNeverCross == Spec => []LockOrdersDoNotMeet
<1>1. PoolInv => LockOrdersDoNotMeet
    BY DEF PoolInv, TypeInv, TypeOK, Marks, BusyWhileNeeded, ServesItsTask, TargetIsIdle,
           LockOrdersDoNotMeet
<1> QED BY PoolInvariant, <1>1, PTL

(* A connection that giveConnection has handed over is the task of one worker,
   and no other connection takes its place before it is served. *)
THEOREM TasksHaveOneWorker == Spec => []GivenToOneWorker
<1>1. PoolInv => GivenToOneWorker
    <2> SUFFICES ASSUME PoolInv, NEW c \in Connections, conn[c] = "given"
                 PROVE  \E w \in Workers :
                            /\ to_execute[w] /\ busy_workers[w]
                            /\ {v \in Workers : to_execute[v] /\ tcpSocketFD[v] = c} = {w}
        BY DEF GivenToOneWorker
    <2>1. PICK w \in Workers : to_execute[w] /\ tcpSocketFD[w] = c
        BY DEF PoolInv, Tasks, GivenAreTasks
    <2>2. busy_workers[w]
        BY <2>1 DEF PoolInv, Marks, BusyWhileNeeded
    <2>3. {v \in Workers : to_execute[v] /\ tcpSocketFD[v] = c} = {w}
        BY <2>1 DEF PoolInv, Tasks, TasksDiffer
    <2> QED BY <2>1, <2>2, <2>3
<1> QED BY PoolInvariant, <1>1, PTL

-----------------------------------------------------------------------------
(* The end of the pool. *)

(* The workers that the destructor has passed are done, and done for good. *)
Passed(w) == main = "exited" \/ (main \in {"destroy", "join"} /\ w > target)
JoinedAreDone == \A w \in Workers : Passed(w) => worker[w] = "done"

LEMMA StepJoined == PoolInv /\ JoinedAreDone /\ [Next]_vars => JoinedAreDone'
<1> SUFFICES ASSUME PoolInv, JoinedAreDone, [Next]_vars, NEW v \in Workers, Passed(v)'
             PROVE  worker'[v] = "done"
    BY DEF JoinedAreDone
<1> USE DEF PoolInv, TypeInv, TypeOK, JoinedAreDone, Passed, MainGoto, Iterated, workerVars, mainVars
<1>1. CASE \E w \in Workers : Execute(w) \/ SpuriousWakeup(w)
    <2>1. PICK w \in Workers : Execute(w) \/ SpuriousWakeup(w)
        BY <1>1
    <2>2. worker[w] # "done" /\ UNCHANGED <<main, target>>
        BY <2>1 DEF Execute, Start, Lock, Check, Serve, FreeWorker, Unlock, SpuriousWakeup,
                    WorkerAt, OnlyMoves
    <2>3. \E label : worker' = [worker EXCEPT ![w] = label]
        BY <2>1 DEF Execute, Start, Lock, Check, Serve, FreeWorker, Unlock, SpuriousWakeup,
                    WorkerGoto
    <2> QED BY <2>2, <2>3
<1>2. CASE \E c \in Connections : Connect(c)
    BY <1>2 DEF Connect
<1>3. CASE Accepting \/ AcceptTimesOut \/ AcceptFails \/ \E c \in Connections : SetTimeoutFails(c)
    BY <1>3 DEF Accepting, Accept, AcceptTimesOut, AcceptFails, SetTimeoutFails
<1>4. CASE FindWorker
    BY <1>4 DEF FindWorker
<1>5. CASE Handover
    BY <1>5 DEF Handover, Deliver
<1>6. CASE Loop
    <2>1. (main' = "destroy" /\ target' = POOL_SIZE) \/ main' = "accept"
        BY <1>6 DEF Loop
    <2>2. ~(v > POOL_SIZE)
        BY PoolAssumption DEF Workers
    <2> QED BY <2>1, <2>2
<1>7. CASE Destroy
    BY <1>7 DEF Destroy, Notify
<1>8. CASE Join
    <2>1. worker[target] = "done" /\ UNCHANGED worker
        BY <1>8 DEF Join
    <2>2. v = target \/ v > target
        BY <1>8 DEF Join, Workers
    <2> QED BY <1>8, <2>1, <2>2 DEF Join
<1>9. CASE Exit
    BY <1>9 DEF Exit
<1>10. CASE Listen \/ ListenFails
    <2>1. (main' = "destroy" /\ target' = POOL_SIZE) \/ main' = "loop"
        BY <1>10 DEF Listen, ListenFails
    <2>2. ~(v > POOL_SIZE)
        BY PoolAssumption DEF Workers
    <2> QED BY <2>1, <2>2
<1>11. CASE UNCHANGED vars
    BY <1>11 DEF vars
<1> QED
    BY <1>1, <1>2, <1>3, <1>4, <1>5, <1>6, <1>7, <1>8, <1>9, <1>10, <1>11
    DEF Next, Step, Main, Terminated

(* When the accepting thread is gone, so is every worker. *)
THEOREM NoWorkerIsLeft == Spec => [](main = "exited" => \A w \in Workers : worker[w] = "done")
<1>1. Init => JoinedAreDone
    BY DEF Init, JoinedAreDone, Passed
<1>2. JoinedAreDone => (main = "exited" => \A w \in Workers : worker[w] = "done")
    BY DEF JoinedAreDone, Passed
<1> QED BY PoolInvariant, StepJoined, <1>1, <1>2, PTL DEF Spec

(* The accepting thread only ends when the server does. *)
EndsWhenExiting == main \in {"destroy", "join", "exited"} => is_exiting

LEMMA StepEnds == TypeInv /\ EndsWhenExiting /\ [Next]_vars => EndsWhenExiting'
<1> SUFFICES ASSUME TypeInv, EndsWhenExiting, [Next]_vars PROVE EndsWhenExiting'
    OBVIOUS
<1> USE DEF TypeInv, TypeOK, EndsWhenExiting, MainGoto, Iterated, workerVars, mainVars
<1>1. CASE \E w \in Workers : Execute(w) \/ SpuriousWakeup(w)
    BY <1>1 DEF Execute, Start, Lock, Check, Serve, FreeWorker, Unlock, SpuriousWakeup, OnlyMoves
<1>2. CASE \E c \in Connections : Connect(c) \/ SetTimeoutFails(c)
    BY <1>2 DEF Connect, SetTimeoutFails
<1>3. CASE Accepting \/ AcceptTimesOut \/ AcceptFails \/ FindWorker
    BY <1>3 DEF Accepting, Accept, AcceptTimesOut, AcceptFails, FindWorker
<1>4. CASE Handover
    BY <1>4 DEF Handover, Deliver
<1>5. CASE Loop
    BY <1>5, Zenon DEF Loop
<1>6. CASE Destroy \/ Join
    BY <1>6 DEF Destroy, Join
<1>7. CASE Exit \/ Listen \/ ListenFails
    BY <1>7 DEF Exit, Listen, ListenFails
<1>8. CASE UNCHANGED vars
    BY <1>8 DEF vars
<1> QED BY <1>1, <1>2, <1>3, <1>4, <1>5, <1>6, <1>7, <1>8 DEF Next, Step, Main, Terminated

-----------------------------------------------------------------------------
(* The process: the pool beside the main thread. *)

(* What the invariant of the pool does not say: is_exiting is only set while
   the accepting thread is there, or again. *)
ProcessInv == PoolInv /\ EndsWhenExiting

LEMMA FlagSteps ==
    ASSUME ProcessInv, is_exiting' \in {is_exiting, TRUE},
           UNCHANGED <<workerVars, exiting, mainVars, conn>>
    PROVE  [Next]_vars
<1>1. CASE is_exiting' = is_exiting
    BY <1>1 DEF vars
<1>2. CASE is_exiting' # is_exiting
    <2>1. is_exiting' = TRUE /\ ~is_exiting
        BY <1>2 DEF ProcessInv, PoolInv, TypeInv, TypeOK
    <2>2. Running
        BY <2>1 DEF ProcessInv, EndsWhenExiting, Running
    <2> QED BY <2>1, <2>2 DEF Next, Exit
<1> QED BY <1>1, <1>2

LEMMA IteratedSteps ==
    ASSUME ProcessInv, NEW trials, UdpIterated(trials)
    PROVE  [Next]_vars
<1>1. is_exiting' \in BOOLEAN /\ (is_exiting => is_exiting')
    BY Zenon DEF UdpIterated
<1>2. is_exiting' \in {is_exiting, TRUE}
    BY <1>1 DEF ProcessInv, PoolInv, TypeInv, TypeOK
<1> QED BY <1>2, FlagSteps DEF UdpIterated

LEMMA ProcessSteps == ProcessInv /\ [ProcessNext]_processVars => [Next]_vars
<1> SUFFICES ASSUME ProcessInv, [ProcessNext]_processVars PROVE [Next]_vars
    OBVIOUS
<1>1. CASE RecvfromTimesOut \/ RecvfromFails
    BY <1>1, IteratedSteps DEF RecvfromTimesOut, RecvfromFails
<1>2. CASE \E d \in Datagrams : Recvfrom(d) \/ HandlePacket(d)
    BY <1>2, IteratedSteps DEF Recvfrom, HandlePacket
<1>3. CASE JoinTcpThread \/ HandlerFaults \/ \E d \in Datagrams : Send(d)
    BY <1>3 DEF JoinTcpThread, HandlerFaults, Send
<1>4. CASE Signal
    BY <1>4, FlagSteps DEF Signal
<1>5. CASE TcpStep(Step)
    BY <1>5 DEF TcpStep, Next
<1>6. CASE Over \/ UNCHANGED processVars
    BY <1>6 DEF Over, processVars
<1> QED BY <1>1, <1>2, <1>3, <1>4, <1>5, <1>6 DEF ProcessNext, MainThread

(* The main thread and the signals do to the TCP side what WorkerPool says its
   surroundings may do, and nothing else. *)
THEOREM ServerImplementsPool == ProcessSpec => ImplementsPool
<1>1. ProcessInit => Init /\ ProcessInv
    BY InitType, InitMarks, InitTasks DEF ProcessInit, ProcessInv, PoolInv, EndsWhenExiting, Init
<1>2. ProcessInv /\ [Next]_vars => ProcessInv'
    BY StepType, StepMarks, StepTasks, StepEnds DEF ProcessInv, PoolInv
<1> QED BY <1>1, <1>2, ProcessSteps, PTL DEF ProcessSpec, Spec, ImplementsPool

(* serverState is destroyed when main returns, and no thread is left then that
   could use it. *)
THEOREM StateIsUsedByNobody == ProcessSpec => []StateOutlivesThreads
<1> DEFINE Joined == udp = "returned" => main = "exited"
<1>1. ProcessInit => Joined
    BY DEF ProcessInit
<1>2. Joined /\ [ProcessNext]_processVars => Joined'
    <2> SUFFICES ASSUME Joined, [ProcessNext]_processVars PROVE Joined'
        OBVIOUS
    <2>1. CASE RecvfromTimesOut \/ RecvfromFails
        BY <2>1 DEF RecvfromTimesOut, RecvfromFails, UdpIterated, UdpGoto
    <2>2. CASE \E d \in Datagrams : Recvfrom(d) \/ HandlePacket(d)
        BY <2>2 DEF Recvfrom, HandlePacket, UdpIterated, UdpGoto
    <2>3. CASE JoinTcpThread
        BY <2>3 DEF JoinTcpThread, vars, mainVars
    <2>4. CASE Signal \/ HandlerFaults \/ TcpStep(Step) \/ \E d \in Datagrams : Send(d)
        BY <2>4 DEF Signal, HandlerFaults, TcpStep, Send, udpVars, UdpGoto
    <2>5. CASE Over \/ UNCHANGED processVars
        BY <2>5 DEF Over, processVars, vars, mainVars, udpVars
    <2> QED BY <2>1, <2>2, <2>3, <2>4, <2>5 DEF ProcessNext, MainThread
<1>3. Joined /\ (main = "exited" => \A w \in Workers : worker[w] = "done")
         => StateOutlivesThreads
    BY DEF StateOutlivesThreads
<1> QED BY <1>1, <1>2, <1>3, ServerImplementsPool, NoWorkerIsLeft, PTL
        DEF ProcessSpec, ImplementsPool

(* In the whole process, too, the two lock orders of the pool never meet. *)
THEOREM LocksNeverCrossInServer == ProcessSpec => []LockOrdersDoNotMeet
BY ServerImplementsPool, LocksNeverCross, PTL DEF ImplementsPool
-----------------------------------------------------------------------------
(* The pool as a number of slots. *)

Given == SlotsOf!Is("given")
Tasked == {w \in Workers : to_execute[w]}

LEMMA IdleCount ==
    /\ IsFiniteSet(Workers) /\ Cardinality(Workers) = POOL_SIZE
    /\ IsFiniteSet(Idle) /\ Cardinality(Idle) \in Nat
<1>1. IsFiniteSet(Workers) /\ Cardinality(Workers) = POOL_SIZE
    BY FS_Interval, PoolAssumption DEF Workers
<1>2. Idle \in SUBSET Workers
    BY DEF Idle
<1> QED BY <1>1, <1>2, FS_Subset, FS_CardinalityType

(* Connections that were handed over have workers of their own. *)
LEMMA GivenFit ==
    ASSUME PoolInv
    PROVE  /\ IsFiniteSet(Given) /\ IsFiniteSet(Tasked)
           /\ Cardinality(Given) <= Cardinality(Tasked)
<1> DEFINE WorkerOf == [c \in Given |-> CHOOSE w \in Tasked : tcpSocketFD[w] = c]
<1>1. \A c \in Given : WorkerOf[c] \in Tasked /\ tcpSocketFD[WorkerOf[c]] = c
    <2> SUFFICES ASSUME NEW c \in Given
                 PROVE  WorkerOf[c] \in Tasked /\ tcpSocketFD[WorkerOf[c]] = c
        OBVIOUS
    <2>1. c \in Connections /\ conn[c] = "given"
        BY DEF Given, SlotsOf!Is
    <2>2. \E w \in Tasked : tcpSocketFD[w] = c
        BY <2>1 DEF PoolInv, Tasks, GivenAreTasks, Tasked
    <2> QED BY <2>2
<1>2. WorkerOf \in Injection(Given, Tasked)
    <2>1. WorkerOf \in [Given -> Tasked]
        BY <1>1
    <2>2. \A b, c \in Given : WorkerOf[b] = WorkerOf[c] => b = c
        BY <1>1
    <2> HIDE DEF WorkerOf
    <2> QED BY <2>1, <2>2 DEF Injection, IsInjective
<1>3. Tasked \in SUBSET Workers
    BY DEF Tasked
<1>4. IsFiniteSet(Tasked)
    BY <1>3, IdleCount, FS_Subset
<1> HIDE DEF WorkerOf
<1> QED BY <1>2, <1>4, FS_Injection

(* While a worker is about to give its mark back, its slot is neither free nor
   taken by a connection. *)
LEMMA SlotIsOver ==
    ASSUME PoolInv, NEW w \in Workers, worker[w] = "freeWorker"
    PROVE  Cardinality(Idle) + Cardinality(Given) < POOL_SIZE
<1>1. Idle \intersect Tasked = {}
    BY DEF PoolInv, Marks, BusyWhileNeeded, Idle, Tasked
<1>2. Idle \union Tasked \in SUBSET (Workers \ {w})
    BY DEF PoolInv, Marks, BusyWhileNeeded, ServesItsTask, Idle, Tasked
<1>3. IsFiniteSet(Workers \ {w}) /\ Cardinality(Workers \ {w}) = POOL_SIZE - 1
    BY IdleCount, FS_RemoveElement
<1>4. Cardinality(Idle \union Tasked) <= POOL_SIZE - 1
    BY <1>2, <1>3, FS_Subset
<1>5. Cardinality(Idle \union Tasked) = Cardinality(Idle) + Cardinality(Tasked)
    <2>1. Cardinality(Idle \union Tasked)
              = Cardinality(Idle) + Cardinality(Tasked) - Cardinality(Idle \intersect Tasked)
        BY IdleCount, GivenFit, FS_Union
    <2>2. Cardinality(Idle \intersect Tasked) = 0
        BY <1>1, FS_EmptySet
    <2> QED BY <2>1, <2>2, IdleCount, GivenFit, FS_CardinalityType
<1>6. Cardinality(Given) \in Nat /\ Cardinality(Tasked) \in Nat
    BY GivenFit, FS_CardinalityType
<1> QED BY <1>4, <1>5, <1>6, GivenFit, IdleCount, PoolAssumption

(* A step that leaves the marks alone leaves the number of free slots alone. *)
LEMMA SameIdle ==
    ASSUME UNCHANGED busy_workers
    PROVE  UNCHANGED Cardinality(Idle)
<1>1. Idle' = Idle
    BY DEF Idle
<1> QED BY <1>1

LEMMA ServeIsServe ==
    ASSUME PoolInv, NEW w \in Workers, Serve(w)
    PROVE  SlotsOf!Next
<1>1. tcpSocketFD[w] \in Connections /\ conn[tcpSocketFD[w]] = "given"
    BY DEF Serve, WorkerAt, PoolInv, Marks, ServesItsTask, Tasks, TasksAreGiven
<1>2. SlotsOf!Serve(tcpSocketFD[w])
    BY <1>1, SameIdle DEF Serve, Became, mainVars, SlotsOf!Serve, SlotsOf!Become
<1> QED BY <1>1, <1>2 DEF SlotsOf!Next

LEMMA FreeWorkerIsRelease ==
    ASSUME PoolInv, NEW w \in Workers, FreeWorker(w)
    PROVE  SlotsOf!Next
<1>1. worker[w] = "freeWorker" /\ busy_workers' = [busy_workers EXCEPT ![w] = FALSE]
    BY DEF FreeWorker, WorkerAt
<1>2. w \notin Idle
    BY <1>1 DEF PoolInv, Marks, BusyWhileNeeded, Idle
<1>3. Idle' = Idle \union {w}
    BY <1>1 DEF Idle, PoolInv, TypeInv, TypeOK
<1>4. Cardinality(Idle') = Cardinality(Idle) + 1
    BY <1>2, <1>3, IdleCount, FS_AddElement
<1>5. Cardinality(Idle) + Cardinality(SlotsOf!Is("given")) < POOL_SIZE
    BY <1>1, SlotIsOver DEF Given
<1>6. UNCHANGED <<conn, is_exiting>>
    BY DEF FreeWorker
<1>7. SlotsOf!Release
    BY <1>4, <1>5, <1>6 DEF SlotsOf!Release, SlotsOf!Cardinality, Cardinality
<1> QED BY <1>7 DEF SlotsOf!Next

LEMMA HandoverIsTake ==
    ASSUME PoolInv, Handover
    PROVE  SlotsOf!Next
<1>1. main = "handover" /\ busy_workers' = [busy_workers EXCEPT ![target] = TRUE]
    BY DEF Handover, Deliver, MarkBusy
<1>2. target \in Idle
    BY <1>1 DEF PoolInv, TypeInv, TypeOK, Marks, TargetIsIdle, Idle
<1>3. Idle' = Idle \ {target}
    BY <1>1 DEF Idle, PoolInv, TypeInv, TypeOK
<1>4. Cardinality(Idle') = Cardinality(Idle) - 1
    BY <1>2, <1>3, IdleCount, FS_RemoveElement
<1>5. Cardinality(Idle) > 0
    BY <1>2, IdleCount, FS_EmptySet
<1>6. connection_fd \in Connections /\ conn[connection_fd] = "accepted"
    BY <1>1 DEF PoolInv, Tasks, Accepted
<1>7. SlotsOf!Take(connection_fd)
    BY <1>4, <1>5, <1>6 DEF SlotsOf!Take, SlotsOf!Become, Handover, Deliver, Became
<1> QED BY <1>6, <1>7 DEF SlotsOf!Next

LEMMA FindWorkerMayRefuse ==
    ASSUME PoolInv, FindWorker
    PROVE  [SlotsOf!Next]_(SlotsOf!vars)
<1>1. UNCHANGED <<Cardinality(Idle), is_exiting>>
    BY SameIdle DEF FindWorker, workerVars
<1>2. CASE Idle # {}
    BY <1>1, <1>2 DEF FindWorker, SlotsOf!vars
<1>3. CASE Idle = {}
    <2>1. connection_fd \in Connections /\ conn[connection_fd] = "accepted"
        BY DEF FindWorker, PoolInv, Tasks, Accepted
    <2>2. Cardinality(Idle) = 0
        BY <1>3, FS_EmptySet
    <2>3. SlotsOf!Refuse(connection_fd)
        BY <1>1, <1>3, <2>1, <2>2 DEF FindWorker, Became, SlotsOf!Refuse, SlotsOf!Become
    <2> QED BY <2>1, <2>3 DEF SlotsOf!Next
<1> QED BY <1>2, <1>3

LEMMA AcceptIsAccept ==
    ASSUME PoolInv, NEW c \in Connections, Accept(c)
    PROVE  SlotsOf!Next
<1>1. UNCHANGED <<Cardinality(Idle), is_exiting>>
    BY SameIdle DEF Accept, workerVars
<1>2. CASE is_exiting
    <2>1. SlotsOf!Lose(c)
        BY <1>1, <1>2 DEF Accept, Became, SlotsOf!Lose, SlotsOf!Become
    <2> QED BY <2>1 DEF SlotsOf!Next
<1>3. CASE ~is_exiting
    <2>1. SlotsOf!Accept(c)
        BY <1>1, <1>3 DEF Accept, Became, SlotsOf!Accept, SlotsOf!Become
    <2> QED BY <2>1 DEF SlotsOf!Next
<1> QED BY <1>2, <1>3

(* A worker that ends with a task it was never woken for loses it, but only
   when the server goes down. *)
LEMMA JoinMayLose ==
    ASSUME PoolInv, EndsWhenExiting, Join
    PROVE  [SlotsOf!Next]_(SlotsOf!vars)
<1>1. UNCHANGED <<Cardinality(Idle), is_exiting>>
    BY SameIdle DEF Join, workerVars
<1> DEFINE c == tcpSocketFD[target]
<1>2. CASE to_execute[target] /\ conn[c] = "given"
    <2>1. c \in Connections
        BY <1>2 DEF PoolInv, TypeInv, TypeOK, Tasks, TasksAreGiven
    <2>2. is_exiting
        BY DEF Join, EndsWhenExiting
    <2>3. SlotsOf!Lose(c)
        BY <1>1, <1>2, <2>2 DEF Join, Became, SlotsOf!Lose, SlotsOf!Become
    <2> QED BY <2>1, <2>3 DEF SlotsOf!Next
<1>3. CASE to_execute[target] /\ conn[c] = "lost"
    <2>1. c \in Connections
        BY <1>3 DEF PoolInv, TypeInv, TypeOK, Tasks, TasksAreGiven
    <2>2. conn' = [conn EXCEPT ![c] = conn[c]]
        BY <1>3 DEF Join, Became
    <2>3. conn' = conn
        BY <2>2 DEF PoolInv, TypeInv, TypeOK
    <2> QED BY <1>1, <2>3 DEF SlotsOf!vars
<1>4. CASE ~to_execute[target]
    BY <1>1, <1>4 DEF Join, SlotsOf!vars
<1> QED BY <1>2, <1>3, <1>4 DEF PoolInv, TypeInv, TypeOK, Tasks, TasksAreGiven

(* Steps that do nothing to slots but stop them. *)
LEMMA MayStop ==
    ASSUME UNCHANGED <<busy_workers, conn>>, is_exiting' = is_exiting \/ is_exiting' = TRUE
    PROVE  [SlotsOf!Next]_(SlotsOf!vars)
<1>1. CASE is_exiting' = is_exiting
    BY <1>1, SameIdle DEF SlotsOf!vars
<1>2. CASE is_exiting' = TRUE
    BY <1>2, SameIdle DEF SlotsOf!Next, SlotsOf!Stop
<1> QED BY <1>1, <1>2

LEMMA SlotsStep == PoolInv /\ EndsWhenExiting /\ [Next]_vars => [SlotsOf!Next]_(SlotsOf!vars)
<1> SUFFICES ASSUME PoolInv, EndsWhenExiting, [Next]_vars
             PROVE  [SlotsOf!Next]_(SlotsOf!vars)
    OBVIOUS
<1>1. CASE \E w \in Workers : Serve(w)
    BY <1>1, ServeIsServe
<1>2. CASE \E w \in Workers : FreeWorker(w)
    BY <1>2, FreeWorkerIsRelease
<1>3. CASE \E w \in Workers : Start(w) \/ Lock(w) \/ Check(w) \/ Unlock(w) \/ SpuriousWakeup(w)
    BY <1>3, MayStop DEF Start, Lock, Check, Unlock, SpuriousWakeup, OnlyMoves
<1>4. CASE \E c \in Connections : Connect(c) \/ SetTimeoutFails(c)
    <2>1. PICK c \in Connections : Connect(c) \/ SetTimeoutFails(c)
        BY <1>4
    <2>2. SlotsOf!Connect(c) \/ SlotsOf!Leak(c)
        BY <2>1, SameIdle DEF Connect, SetTimeoutFails, Became, workerVars,
                              SlotsOf!Connect, SlotsOf!Leak, SlotsOf!Become
    <2> QED BY <2>2 DEF SlotsOf!Next
<1>5. CASE Accepting
    BY <1>5, AcceptIsAccept DEF Accepting
<1>6. CASE FindWorker
    BY <1>6, FindWorkerMayRefuse
<1>7. CASE Handover
    BY <1>7, HandoverIsTake
<1>8. CASE Join
    BY <1>8, JoinMayLose
<1>9. CASE Loop
    <2>1. is_exiting' \in BOOLEAN /\ (is_exiting => is_exiting')
        BY <1>9, Zenon DEF Loop
    <2>2. is_exiting' = is_exiting \/ is_exiting' = TRUE
        BY <2>1 DEF PoolInv, TypeInv, TypeOK
    <2> QED BY <1>9, <2>2, MayStop DEF Loop, workerVars
<1>10. CASE Destroy \/ AcceptTimesOut \/ AcceptFails
    BY <1>10, MayStop DEF Destroy, AcceptTimesOut, AcceptFails, workerVars
<1>11. CASE Listen \/ ListenFails \/ Exit
    BY <1>11, MayStop DEF Listen, ListenFails, Exit, workerVars
<1>12. CASE UNCHANGED vars
    BY <1>12, MayStop DEF vars, workerVars
<1> QED
    BY <1>1, <1>2, <1>3, <1>4, <1>5, <1>6, <1>7, <1>8, <1>9, <1>10, <1>11, <1>12
    DEF Next, Step, Main, Execute, Terminated

(* The marks, the mutexes and the handover add up to a number of slots: a
   connection is refused only when all are taken, and a slot comes back after
   its connection was served.  A connection whose timeout cannot be set is
   leaked before it has a slot; one that was handed over is lost only by a server
   that goes down. *)
THEOREM SlotsImplemented == Spec => ImplementsSlots
<1>1. Init => SlotsOf!Init /\ EndsWhenExiting
    <2> SUFFICES ASSUME Init PROVE SlotsOf!Init /\ EndsWhenExiting
        OBVIOUS
    <2>1. Idle = Workers
        BY DEF Init, Idle
    <2> QED BY <2>1, IdleCount DEF Init, SlotsOf!Init, EndsWhenExiting
<1>2. PoolInv => TypeInv
    BY DEF PoolInv
<1> QED BY PoolInvariant, StepEnds, SlotsStep, <1>1, <1>2, PTL
        DEF Spec, ImplementsSlots, SlotsOf!Spec

(* The whole server, too, is to its connections a number of slots, whatever its
   main thread, a signal or a fault does meanwhile. *)
THEOREM ServerImplementsSlots == ProcessSpec => ImplementsSlots
BY ServerImplementsPool, SlotsImplemented, PTL DEF ImplementsPool
=============================================================================

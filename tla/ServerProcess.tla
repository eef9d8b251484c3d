---------------------------- MODULE ServerProcess -----------------------------
(***************************************************************************)
(* The whole server process: the main thread, which serves datagrams one   *)
(* after the other, beside the TCP side of WorkerPool, and how the two end *)
(* together.  Either side ends both by setting is_exiting, and so does a   *)
(* signal; a second signal ends the process on the spot.                   *)
(*                                                                         *)
(* The main thread owns serverState, the sockets and tables that all the   *)
(* threads use: it is gone when main returns.  What a datagram asks for,   *)
(* and what a handler throws, is the business of the other modules:        *)
(* handle_packet and the workers let no exception through.  A handler that *)
(* faults, in whichever thread, ends the whole process.                    *)
(***************************************************************************)
EXTENDS WorkerPool

CONSTANT Datagrams

VARIABLES
    udp,            \* where the main thread is
    udp_trial,      \* ex_trial of main: exceptions in a row
    datagram        \* history: what became of each datagram

udpVars == <<udp, udp_trial, datagram>>
processVars == <<vars, udpVars>>

Alive == udp # "killed"
UdpGoto(label) == udp' = label
Pending == {d \in Datagrams : datagram[d] = "pending"}

-----------------------------------------------------------------------------
(* main and wait_for_udp_packet *)

(* Mutant: the count of exceptions decides alone, and takes back a signal. *)
IteratedDecidesAlone(trials) ==
    /\ udp_trial' = trials
    /\ is_exiting' = (trials >= EXCEPTION_RETRY_MAX_TRIALS)
    /\ UdpGoto(IF is_exiting' THEN "join" ELSE "recvfrom")
    /\ UNCHANGED <<workerVars, exiting, mainVars, conn>>

(* Mutant: main does not wait for the accepting thread. *)
IteratedWithoutJoin(trials) ==
    /\ udp_trial' = trials
    /\ is_exiting' = (is_exiting \/ trials >= EXCEPTION_RETRY_MAX_TRIALS)
    /\ UdpGoto(IF is_exiting' THEN "returned" ELSE "recvfrom")
    /\ UNCHANGED <<workerVars, exiting, mainVars, conn>>

(* Mutant: too many exceptions end the loop of main and nothing else. *)
IteratedAlone(trials) ==
    /\ udp_trial' = trials
    /\ UdpGoto(IF is_exiting \/ trials >= EXCEPTION_RETRY_MAX_TRIALS THEN "join" ELSE "recvfrom")
    /\ UNCHANGED vars

(* The end of an iteration of main, and the beginning of the next. *)
UdpIterated(trials) ==
    /\ udp_trial' = trials
    /\ is_exiting' = (is_exiting \/ trials >= EXCEPTION_RETRY_MAX_TRIALS)
    /\ UdpGoto(IF is_exiting' THEN "join" ELSE "recvfrom")
    /\ UNCHANGED <<workerVars, exiting, mainVars, conn>>

(* recvfrom returns a datagram; one that arrives when the server is exiting is
   dropped. *)
Recvfrom(d) ==
    /\ udp = "recvfrom" /\ d \in Pending
    /\ IF is_exiting
       THEN UdpIterated(0) /\ datagram' = [datagram EXCEPT ![d] = "dropped"]
       ELSE /\ datagram' = [datagram EXCEPT ![d] = "received"]
            /\ UdpGoto("handle_packet")
            /\ UNCHANGED <<vars, udp_trial>>

(* Its timeout, or a signal when the server is exiting. *)
RecvfromTimesOut ==
    /\ udp = "recvfrom" /\ (Pending = {} \/ is_exiting)
    /\ UdpIterated(0)
    /\ UNCHANGED datagram

RecvfromFails ==
    /\ udp = "recvfrom" /\ ~is_exiting
    /\ UdpIterated(udp_trial + 1)
    /\ UNCHANGED datagram

(* The handler returns, or throws: the loop goes on. *)
HandlePacket(d) ==
    /\ udp = "handle_packet" /\ datagram[d] = "received"
    /\ datagram' = [datagram EXCEPT ![d] = "handled"]
    /\ UdpIterated(0)

(* tcp_thread.join; main returns, and serverState is destroyed. *)
JoinTcpThread ==
    /\ udp = "join" /\ main = "exited"
    /\ UdpGoto("returned")
    /\ UNCHANGED <<vars, udp_trial, datagram>>

-----------------------------------------------------------------------------
Handling == udp = "handle_packet" \/ \E w \in Workers : worker[w] = "serve"

(* A handler of either side uses what is not there, such as the auction of a bid
   that names none or the fields of an empty file: the process is ended. *)
HandlerFaults ==
    /\ udp \notin {"returned", "killed"} /\ Handling
    /\ UdpGoto("killed")
    /\ UNCHANGED <<vars, udp_trial, datagram>>

Send(d) ==
    /\ udp \notin {"returned", "killed"} /\ datagram[d] = "none"
    /\ datagram' = [datagram EXCEPT ![d] = "pending"]
    /\ UNCHANGED <<vars, udp, udp_trial>>

(* terminate_signal_handler, in whichever thread. *)
Signal ==
    /\ udp \notin {"returned", "killed"}
    /\ IF is_exiting THEN UdpGoto("killed") ELSE UNCHANGED udp
    /\ is_exiting' = TRUE
    /\ UNCHANGED <<workerVars, exiting, mainVars, conn, udp_trial, datagram>>

TcpStep(A) == udp \notin {"returned", "killed"} /\ A /\ UNCHANGED udpVars

ProcessInit ==
    /\ Init
    /\ udp = "recvfrom" /\ udp_trial = 0
    /\ datagram = [d \in Datagrams |-> "none"]

MainThread ==
    \/ RecvfromTimesOut \/ JoinTcpThread
    \/ \E d \in Datagrams : Recvfrom(d) \/ HandlePacket(d)

Over == udp \in {"returned", "killed"} /\ UNCHANGED processVars

ProcessNext ==
    \/ MainThread \/ RecvfromFails \/ HandlerFaults
    \/ \E d \in Datagrams : Send(d)
    \/ Signal
    \/ TcpStep(Step)
    \/ Over

ProcessSpec == ProcessInit /\ [][ProcessNext]_processVars

(* Every thread is scheduled; recvfrom and accept return with what is there, or
   after the timeout of their sockets; a handler comes to its end; and the
   accepting thread does not wait forever for the mutex of a worker that is
   free again and again. *)
FairSpec ==
    /\ ProcessSpec
    /\ WF_processVars(MainThread) /\ WF_processVars(TcpStep(Main))
    /\ \A w \in Workers : WF_processVars(TcpStep(Execute(w)))
    /\ SF_processVars(TcpStep(Handover \/ Destroy))

-----------------------------------------------------------------------------
(* Properties. *)

(* When main returns, and serverState is destroyed, no thread that uses it is
   left: the accepting thread is gone, and so is every worker. *)
StateOutlivesThreads ==
    udp = "returned" => main = "exited" /\ \A w \in Workers : worker[w] = "done"

(* A connection does not stay in the queue, or on its way through the pool: it
   is served, refused with the pool full, or leaked because its timeout could
   not be set, unless the server shuts down or is ended. *)
ConnectionsSettled ==
    \A c \in Connections :
        conn[c] = "pending" ~>
            conn[c] \in {"served", "refused", "leaked"} \/ is_exiting \/ ~Alive

(* What a worker is serving when the server shuts down is brought to its end all
   the same, unless a second signal or a fault ends the process. *)
ServingIsFinished ==
    \A c \in Connections :
        (\E w \in Workers : worker[w] = "serve" /\ tcpSocketFD[w] = c)
            ~> conn[c] = "served" \/ ~Alive

(* A datagram is handled unless the server shuts down, whatever happens on the
   TCP side short of a fault that ends the process. *)
DatagramsHandled ==
    \A d \in Datagrams :
        datagram[d] = "pending" ~> datagram[d] = "handled" \/ is_exiting \/ ~Alive

(* Whoever ends the server, a signal, the exceptions of one of the two sockets,
   or a socket that cannot listen: both sides end, and so does the process. *)
StopsAltogether == is_exiting ~> udp \in {"returned", "killed"}

(* Beside the main thread, the TCP side is still the one that WorkerPool
   describes, and what is proved of it holds here. *)
ImplementsPool == Spec
=============================================================================

------------------------------ MODULE UdpRetries ------------------------------
(***************************************************************************)
(* How every command of the user application that uses UDP talks to the    *)
(* server: it sends its request, waits, sends it again after a timeout,    *)
(* and takes the first datagram that comes for the reply.  The datagrams   *)
(* may be lost, copied or overtaken, and may arrive long after the client  *)
(* has stopped waiting.                                                    *)
(*                                                                         *)
(* A datagram carries nothing that tells which command it belongs to, only *)
(* what kind of command.  Its serial exists in the model alone, to tell    *)
(* commands apart and for the properties to speak of.  A datagram that is  *)
(* lost is one that is never received.  One that is sent again, or that    *)
(* the network copies, is still there when it has been received: as long   *)
(* as copies come, nobody can tell how many there are.                     *)
(*                                                                         *)
(* The commands and the server are those of the modules that extend this   *)
(* one.                                                                    *)
(***************************************************************************)
EXTENDS Protocol, Naturals

CONSTANTS
    Clients,
    UDP_RESEND_TRIES,
    MaxCommands,    \* bound: the UDP commands each client gives
    None

ASSUME RetriesAssumption == UDP_RESEND_TRIES \in Nat \ {0} /\ MaxCommands \in Nat

VARIABLES
    at,                 \* where each client is in sendUdpPacketAndWaitForReply
    running,            \* the request of the command it is running
    triesLeft,
    requests, replies,  \* the datagrams on their way or in a socket buffer
    serial,             \* history: how many commands each client has given
    mixed,              \* history: whether a client took the reply to another command
    leftover            \* history: whether a datagram may outlive a command it gave

udpVars == <<at, running, triesLeft, requests, replies, serial, mixed, leftover>>

Goto(c, label) == at' = [at EXCEPT ![c] = label]

LeavesOver(c) == leftover' = [leftover EXCEPT ![c] = TRUE]

(* The command ends, and its local variables with it. *)
End(c, label) ==
    /\ Goto(c, label)
    /\ running' = [running EXCEPT ![c] = None]
    /\ triesLeft' = [triesLeft EXCEPT ![c] = 0]
Prompt(c) == End(c, "idle")

Begin(c, r) ==
    /\ at[c] = "idle" /\ Goto(c, "send")
    /\ serial[c] < MaxCommands /\ serial' = [serial EXCEPT ![c] = @ + 1]
    /\ running' = [running EXCEPT ![c] = r]
    /\ triesLeft' = [triesLeft EXCEPT ![c] = UDP_RESEND_TRIES]
    /\ UNCHANGED <<mixed, leftover, requests, replies>>

(* The application ends, by the exit command, a signal, or the end of the
   standard input, and its socket is closed. *)
Leave(c) ==
    /\ End(c, "exited")
    /\ replies' = {d \in replies : d.to # c}
    /\ UNCHANGED <<serial, mixed, leftover, requests>>

Datagram(c) ==
    [from |-> c, serial |-> serial[c], request |-> running[c]]

(* Mutant: the tries are not counted. *)
SendUdpPacketUncounted(c) ==
    /\ at[c] = "send" /\ Goto(c, "wait")
    /\ requests' = requests \union {Datagram(c)}
    /\ UNCHANGED <<running, triesLeft, serial, mixed, leftover, replies>>

SendUdpPacket(c) ==
    /\ at[c] = "send" /\ Goto(c, "wait")
    /\ triesLeft' = [triesLeft EXCEPT ![c] = @ - 1]
    /\ requests' = requests \union {Datagram(c)}
    /\ UNCHANGED <<running, serial, mixed, leftover, replies>>

(* A packet that cannot be sent ends the command with an exception. *)
SendUdpPacketFails(c) ==
    /\ at[c] = "send" /\ Prompt(c)
    /\ UNCHANGED <<serial, mixed, leftover, requests, replies>>

(* After the last try the command ends with an exception. *)
Timeout(c) ==
    /\ at[c] = "wait"
    /\ IF triesLeft[c] = 0 THEN Prompt(c) ELSE Goto(c, "send") /\ UNCHANGED <<running, triesLeft>>
    /\ LeavesOver(c)
    /\ UNCHANGED <<serial, mixed, requests, replies>>

(* An error of select or recvfrom is not a timeout: the exception ends the
   command, and the reply may still come. *)
WaitForPacketFails(c) ==
    /\ at[c] = "wait" /\ Prompt(c)
    /\ LeavesOver(c)
    /\ UNCHANGED <<serial, mixed, requests, replies>>

(* Mutant: the datagram stays in the socket buffer. *)
WaitForPacketPeeks(c, d) ==
    /\ at[c] = "wait" /\ d.to = c /\ Prompt(c)
    /\ mixed' = [mixed EXCEPT ![c] = @ \/ d.serial # serial[c]]
    /\ UNCHANGED <<serial, leftover, requests, replies>>

(* The first datagram in the socket buffer is taken for the reply.  One with
   another packet ID ends the command with an exception, too. *)
WaitForPacket(c, d) ==
    /\ at[c] = "wait" /\ d.to = c /\ Prompt(c)
    /\ \/ replies' = replies \ {d} /\ UNCHANGED leftover
       \/ LeavesOver(c) /\ UNCHANGED replies
    /\ mixed' = [mixed EXCEPT ![c] = @ \/ d.serial # serial[c]]
    /\ UNCHANGED <<serial, requests>>

(* The server takes a datagram from its socket buffer. *)
Arrive(d) ==
    /\ \/ requests' = requests \ {d} /\ UNCHANGED leftover
       \/ LeavesOver(d.from) /\ UNCHANGED requests
    /\ UNCHANGED <<at, running, triesLeft, replies, serial, mixed>>

(* The reply to datagram d, with what it tells of the files, or None. *)
ReplyTo(d, status, told) ==
    [to |-> d.from, serial |-> d.serial, op |-> d.request.op,
     status |-> Sent(d.request.op, status), told |-> told]

UdpInit ==
    /\ at = [c \in Clients |-> "idle"]
    /\ running = [c \in Clients |-> None]
    /\ triesLeft = [c \in Clients |-> 0]
    /\ requests = {} /\ replies = {}
    /\ serial = [c \in Clients |-> 0]
    /\ mixed = [c \in Clients |-> FALSE]
    /\ leftover = [c \in Clients |-> FALSE]

-----------------------------------------------------------------------------
(* Replies and commands are mixed up only when a datagram may have outlived its
   command: the client stopped waiting for a reply, after a timeout or an error
   of its socket, or the network copied a datagram of its. *)
MixedOnlyWithLeftovers == \A c \in Clients : mixed[c] => leftover[c]

(* Whatever happens to the datagrams, the application comes back to its prompt. *)
CommandsEnd == \A c \in Clients : at[c] \in {"send", "wait"} ~> at[c] \in {"idle", "exited"}
=============================================================================

------------------------------ MODULE UdpReadings ------------------------------
(***************************************************************************)
(* The commands of the user application that read: list, myauctions,       *)
(* mybids and show_record.  They change nothing anywhere, so that to ask   *)
(* again is harmless; but their replies do not even say which auction they *)
(* are about, and may be old.                                              *)
(*                                                                         *)
(* A version of an auction is how often its files have changed: a bid was  *)
(* filed or overwritten, an end was filed.  A handler reads the files of   *)
(* one auction after the other, while workers change them, and a reply is  *)
(* made of what it read.  Which bids of a version are shown is the         *)
(* business of AuctionManager: a record shows the fifty largest, and a bid *)
(* that was overwritten is shown by nothing.                               *)
(***************************************************************************)
EXTENDS UdpRetries

CONSTANTS
    Auctions,
    Lists,          \* the commands that list auctions: those of the user, those the
                    \* user bid on, or all
    MaxVersion      \* bound: how often the files of each auction change

ASSUME ReadingsAssumption ==
    MaxVersion \in Nat /\ None \notin Auctions /\ Lists \subseteq {"LMA", "LMB", "LST"}

VARIABLES
    version,    \* [Auctions -> Nat]
    source,     \* the datagram the server is handling, or None
    read,       \* the version of each auction its handler has read
    since,      \* history: the versions there were when each client gave its command
    shown       \* what the last command showed its user, or None

serverVars == <<version, source, read>>
vars == <<udpVars, serverVars, since, shown>>

(* The auctions that the reply to a request tells about, be it by leaving them out. *)
Topics(r) == IF r.op = "SRC" THEN {r.aid} ELSE Auctions

Failures(op) == {Handler(op)[e] : e \in DOMAIN Handler(op)}

-----------------------------------------------------------------------------
(* Commands: the client does not ask for a session. *)

Ask(c, op, a) ==
    /\ Begin(c, [op |-> op, aid |-> a])
    /\ since' = [since EXCEPT ![c] = version]
    /\ shown' = [shown EXCEPT ![c] = None]
    /\ UNCHANGED serverVars

ListCommand(c) == \E op \in Lists : Ask(c, op, None)
ShowRecordCommand(c) == \E a \in Auctions : Ask(c, "SRC", a)

(* What is shown is the datagram taken for the reply, if it is of the right kind. *)
Take(c, d) ==
    /\ WaitForPacket(c, d)
    /\ shown' = [shown EXCEPT ![c] =
          IF d.op = running[c].op /\ d.status = "OK"
          THEN [asked |-> running[c], told |-> d.told, late |-> d.serial # serial[c]]
          ELSE None]
    /\ UNCHANGED <<serverVars, since>>

-----------------------------------------------------------------------------
(* The server. *)

(* Another thread, or the handler itself, files something for the auction. *)
FileChanges(a) ==
    /\ version[a] < MaxVersion
    /\ version' = [version EXCEPT ![a] = @ + 1]
    /\ UNCHANGED <<udpVars, source, read, since, shown>>

Nothing == [a \in {} |-> 0]

ReceivePacket(d) ==
    /\ source = None /\ source' = d
    /\ Arrive(d)
    /\ UNCHANGED <<version, read, since, shown>>

(* The handler begins to read the files of an auction, or finds that there are
   none.  What it reads of them later is no older. *)
ReadAuction(a) ==
    /\ source # None /\ a \in Topics(source.request) \ DOMAIN read
    /\ read' = [b \in DOMAIN read \union {a} |-> IF b = a THEN version[a] ELSE read[b]]
    /\ UNCHANGED <<udpVars, version, source, since, shown>>

(* Mutant: what was read for one request is kept for the next. *)
AnswerKeepsRead(s, told) ==
    /\ replies' = replies \union {ReplyTo(source, s, told)}
    /\ source' = None
    /\ UNCHANGED <<at, running, triesLeft, requests, serial, mixed, leftover, version, read,
                   since, shown>>

Answer(s, told) ==
    /\ replies' = replies \union {ReplyTo(source, s, told)}
    /\ source' = None /\ read' = Nothing
    /\ UNCHANGED <<at, running, triesLeft, requests, serial, mixed, leftover, version,
                   since, shown>>

(* The handler tells what it has read, when it has been through all of it, or
   refuses at any moment. *)
HandlePacket(s) ==
    /\ source # None
    /\ IF s = "OK"
       THEN /\ Topics(source.request) \subseteq DOMAIN read
            /\ Answer("OK", [a \in Topics(source.request) |-> read[a]])
       ELSE s \in Failures(source.request.op) /\ Answer(s, None)

-----------------------------------------------------------------------------
Init ==
    /\ UdpInit
    /\ version = [a \in Auctions |-> 0]
    /\ source = None /\ read = Nothing
    /\ since = [c \in Clients |-> version]
    /\ shown = [c \in Clients |-> None]

Command(c) == ListCommand(c) \/ ShowRecordCommand(c)

Exchange(c) ==
    \/ SendUdpPacket(c) /\ UNCHANGED <<serverVars, since, shown>>
    \/ SendUdpPacketFails(c) /\ UNCHANGED <<serverVars, since, shown>>
    \/ Timeout(c) /\ UNCHANGED <<serverVars, since, shown>>
    \/ WaitForPacketFails(c) /\ UNCHANGED <<serverVars, since, shown>>
    \/ \E d \in replies : Take(c, d)

Next ==
    \/ \E c \in Clients : Command(c) \/ Exchange(c)
    \/ \E a \in Auctions : FileChanges(a) \/ ReadAuction(a)
    \/ \E d \in requests : ReceivePacket(d)
    \/ \E s \in Statuses : HandlePacket(s)

Spec == Init /\ [][Next]_vars

-----------------------------------------------------------------------------
(* What a user is shown is about the auction that was asked for, and was read
   from its files after the command was given, the user's own bids of before
   among what there was to read; only a late reply to an earlier command may be
   otherwise. *)
ReadingsAreFresh ==
    \A c \in Clients : shown[c] # None /\ ~shown[c].late =>
        \A a \in Topics(shown[c].asked) :
            a \in DOMAIN shown[c].told /\ shown[c].told[a] >= since[c][a]
===============================================================================

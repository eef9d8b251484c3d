------------------------------ MODULE TcpExchange -----------------------------
(***************************************************************************)
(* The commands of the user application that use TCP: open, close,         *)
(* show_asset and bid.  Each makes a connection of its own, sends one      *)
(* request, reads one reply, and is never tried again.  A request and a    *)
(* reply are counted in parts: what fits one write, and the parts of the   *)
(* asset that open uploads and show_asset downloads.                       *)
(*                                                                         *)
(* Each end of a connection may find it broken, or its timeout over, in    *)
(* any call (reads, writes and connects all have timeouts), and then gives *)
(* up on its own: the other end learns of it later, or goes on.  The       *)
(* server gives each connection to a worker, or closes it at once when all *)
(* are busy, perhaps with other clients (WorkerPool); what a handler       *)
(* decides is any status it can set (Protocol), and the command takes      *)
(* effect as AuctionManager and AuctionOpening have it.                    *)
(***************************************************************************)
EXTENDS Protocol, Naturals

CONSTANTS
    Clients,
    MaxCommands,    \* bound: the commands each client gives
    AssetParts,     \* in how many parts an asset is sent
    None

ASSUME TcpAssumption ==
    /\ MaxCommands \in Nat
    /\ AssetParts \in Nat \ {0}
    /\ None \notin TcpOps \union Statuses

(* The connections: the n-th command of each client makes <<client, n>>. *)
Connections == Clients \X (1..MaxCommands)

VARIABLES
    at,             \* where each client is in sendTcpPacketAndWaitForReply
    serial,         \* how many commands it has given
    file,           \* its copy of the asset: "none", "part" or "whole"
    op,             \* what each connection asks for, or None
    sent, read,     \* parts of the request: written by the client, read by the worker
    worker,         \* where the worker of each connection is
    status,         \* the status it found, None before
    replied, taken, \* parts of the reply: written by the worker, read by the client
    told,           \* history: how each command ended for its client
    done            \* history: the commands that took effect

clientVars == <<at, serial, file, told>>
connVars == <<op, sent, read, replied, taken>>
serverVars == <<worker, status, done>>
vars == <<clientVars, connVars, serverVars>>

Conn(c) == <<c, serial[c]>>
RequestParts(k) == IF op[k] = "OPA" THEN 1 + AssetParts ELSE 1
ReplyParts(k) == IF op[k] = "SAS" /\ status[k] = "OK" THEN 1 + AssetParts ELSE 1
Success(o) == IF o = "BID" THEN "ACC" ELSE "OK"

-----------------------------------------------------------------------------
(* The client: the handleCommand of each command. *)

Goto(c, label) == at' = [at EXCEPT ![c] = label]

(* The socket is closed, and the command ends with an answer or an exception. *)
End(c, outcome) ==
    /\ Goto(c, "idle")
    /\ told' = [told EXCEPT ![Conn(c)] = outcome]

(* A command that passes the checks of the client makes a request; one that does
   not (its arguments, or no session, UdpExchange) does nothing. *)
Ask(c, o) ==
    /\ at[c] = "idle" /\ serial[c] < MaxCommands /\ Goto(c, "connect")
    /\ serial' = [serial EXCEPT ![c] = @ + 1]
    /\ op' = [op EXCEPT ![<<c, serial'[c]>>] = o]
    /\ UNCHANGED <<file, told, sent, read, replied, taken, serverVars>>

OpenAuctionCommand(c) == Ask(c, "OPA")
CloseAuctionCommand(c) == Ask(c, "CLS")
ShowAssetCommand(c) == Ask(c, "SAS")
BidCommand(c) == Ask(c, "BID")

Connect(c) ==
    /\ at[c] = "connect" /\ Goto(c, "send")
    /\ worker' = [worker EXCEPT ![Conn(c)] = "queued"]
    /\ UNCHANGED <<serial, file, told, connVars, status, done>>

(* Mutant: the reply is not waited for. *)
SendPartOnly(c) ==
    /\ at[c] = "send"
    /\ sent' = [sent EXCEPT ![Conn(c)] = @ + 1]
    /\ IF sent'[Conn(c)] = RequestParts(Conn(c)) THEN Goto(c, "idle") ELSE UNCHANGED at
    /\ UNCHANGED <<serial, file, told, op, read, replied, taken, serverVars>>

(* A write to a connection that the server has closed may still succeed. *)
SendPart(c) ==
    /\ at[c] = "send"
    /\ sent' = [sent EXCEPT ![Conn(c)] = @ + 1]
    /\ IF sent'[Conn(c)] = RequestParts(Conn(c)) THEN Goto(c, "receive") ELSE UNCHANGED at
    /\ UNCHANGED <<serial, file, told, op, read, replied, taken, serverVars>>

Readable(k) == status[k] \in Response(op[k]).reads

(* The first part of the reply.  One that does not parse, the error packet or a
   status the reader has no branch for, ends the command with an exception.
   The file of an asset is truncated before its first byte arrives. *)
Receive(c) ==
    LET k == Conn(c) IN
    /\ at[c] = "receive" /\ taken[k] = 0 /\ replied[k] > 0
    /\ taken' = [taken EXCEPT ![k] = 1]
    /\ IF op[k] = "SAS" /\ status[k] = "OK"
       THEN Goto(c, "save") /\ file' = [file EXCEPT ![c] = "part"] /\ UNCHANGED told
       ELSE End(c, IF Readable(k) THEN status[k] ELSE "exception") /\ UNCHANGED file
    /\ UNCHANGED <<serial, op, sent, read, replied, serverVars>>

(* Mutant: the first part that arrives is taken for the whole asset. *)
SavePartEndsEarly(c) ==
    LET k == Conn(c) IN
    /\ at[c] = "save" /\ taken[k] < replied[k]
    /\ taken' = [taken EXCEPT ![k] = @ + 1]
    /\ End(c, "OK") /\ file' = [file EXCEPT ![c] = IF taken'[k] = ReplyParts(k) THEN "whole" ELSE @]
    /\ UNCHANGED <<serial, op, sent, read, replied, serverVars>>

SavePart(c) ==
    LET k == Conn(c) IN
    /\ at[c] = "save" /\ taken[k] < replied[k]
    /\ taken' = [taken EXCEPT ![k] = @ + 1]
    /\ IF taken'[k] = ReplyParts(k)
       THEN End(c, "OK") /\ file' = [file EXCEPT ![c] = "whole"]
       ELSE UNCHANGED <<at, told, file>>
    /\ UNCHANGED <<serial, op, sent, read, replied, serverVars>>

(* Mutant: a download has no timeout. *)
GiveUpNeverOnSave(c) ==
    /\ at[c] \in {"connect", "send", "receive"}
    /\ End(c, "exception")
    /\ UNCHANGED <<serial, file, connVars, serverVars>>

(* A timeout, a broken connection, or the end of what the server sent. *)
GiveUp(c) ==
    /\ at[c] \in {"connect", "send", "receive", "save"}
    /\ End(c, "exception")
    /\ UNCHANGED <<serial, file, connVars, serverVars>>

-----------------------------------------------------------------------------
(* The server: a connection that is queued is given to a worker. *)

WorkerGoto(k, label) == worker' = [worker EXCEPT ![k] = label]

Found(k, s) == status' = [status EXCEPT ![k] = s] /\ WorkerGoto(k, "reply")

(* The second case: every worker is busy. *)
GiveConnection(k) ==
    /\ worker[k] = "queued"
    /\ WorkerGoto(k, "request") \/ WorkerGoto(k, "closed")
    /\ UNCHANGED <<clientVars, connVars, status, done>>

ReadPart(k) ==
    /\ worker[k] = "request" /\ read[k] < sent[k]
    /\ read' = [read EXCEPT ![k] = @ + 1]
    /\ IF read'[k] = RequestParts(k) THEN WorkerGoto(k, "execute") ELSE UNCHANGED worker
    /\ UNCHANGED <<clientVars, op, sent, replied, taken, status, done>>

(* OpenAuctionRequest::receive refuses a wrong password, and an asset that is too
   large, before it reads the asset. *)
RefuseUpload(k) ==
    /\ worker[k] = "request" /\ op[k] = "OPA" /\ read[k] = 0 /\ sent[k] > 0
    /\ read' = [read EXCEPT ![k] = 1]
    /\ Found(k, "ERR")
    /\ UNCHANGED <<clientVars, op, sent, replied, taken, done>>

(* Mutant: what has arrived is taken for the whole request. *)
RequestFailsSilently(k) ==
    /\ worker[k] = "request"
    /\ \/ Found(k, "ERR") \/ Found(k, ErrorPacket)
       \/ WorkerGoto(k, "execute") /\ UNCHANGED status
    /\ UNCHANGED <<clientVars, connVars, done>>

(* The request ends early, does not parse, or does not come in time: the answer
   is the error packet when not even the packet ID was read, ERR when a read
   failed; a timeout of an upload, or a server that is exiting, ends it
   without an answer. *)
RequestFails(k) ==
    /\ worker[k] = "request"
    /\ \/ Found(k, "ERR")
       \/ Found(k, ErrorPacket) /\ read[k] = 0
       \/ op[k] = "OPA" /\ read[k] > 0 /\ WorkerGoto(k, "closed") /\ UNCHANGED status
    /\ UNCHANGED <<clientVars, connVars, done>>

(* Mutant: the answer is decided before the effect. *)
ExecuteRepliesFirst(k) ==
    /\ worker[k] = "execute"
    /\ \E s \in {Success(op[k])} \union {Handler(op[k])[e] : e \in DOMAIN Handler(op[k])} :
          Found(k, Sent(op[k], s))
    /\ UNCHANGED <<clientVars, connVars, done>>

(* The handler: the status of its success, with the effect, or the status of an
   exception it catches. *)
Execute(k) ==
    /\ worker[k] = "execute"
    /\ \/ Found(k, Success(op[k])) /\ done' = done \union {k}
       \/ /\ \E e \in DOMAIN Handler(op[k]) : Found(k, Sent(op[k], Handler(op[k])[e]))
          /\ UNCHANGED done
    /\ UNCHANGED <<clientVars, connVars>>

(* The handler returns without a reply after an exception it has no status for,
   as one of the file operations in the middle of its work. *)
ExecuteFails(k) ==
    /\ worker[k] = "execute"
    /\ WorkerGoto(k, "closed")
    /\ done' \in {done, done \union {k}}
    /\ UNCHANGED <<clientVars, connVars, status>>

(* The worker closes the connection when it has written all of the reply. *)
Reply(k) ==
    /\ worker[k] = "reply"
    /\ replied' = [replied EXCEPT ![k] = @ + 1]
    /\ IF replied'[k] = ReplyParts(k) THEN WorkerGoto(k, "closed") ELSE UNCHANGED worker
    /\ UNCHANGED <<clientVars, op, sent, read, taken, status, done>>

(* A write fails, since the client has gone, the connection is broken, or the
   client reads too slowly. *)
ReplyFails(k) ==
    /\ worker[k] = "reply"
    /\ WorkerGoto(k, "closed")
    /\ UNCHANGED <<clientVars, connVars, status, done>>

(* The process is killed, and started again at once: what was being executed
   has had its effect or not. *)
Killed ==
    /\ \E k \in Connections : worker[k] \notin {"none", "closed"}
    /\ worker' = [k \in Connections |-> IF worker[k] = "none" THEN "none" ELSE "closed"]
    /\ \E some \in SUBSET {k \in Connections : worker[k] = "execute"} : done' = done \union some
    /\ UNCHANGED <<clientVars, connVars, status>>

-----------------------------------------------------------------------------
Init ==
    /\ at = [c \in Clients |-> "idle"]
    /\ serial = [c \in Clients |-> 0]
    /\ file = [c \in Clients |-> "none"]
    /\ op = [k \in Connections |-> None]
    /\ sent = [k \in Connections |-> 0] /\ read = [k \in Connections |-> 0]
    /\ worker = [k \in Connections |-> "none"]
    /\ status = [k \in Connections |-> None]
    /\ replied = [k \in Connections |-> 0] /\ taken = [k \in Connections |-> 0]
    /\ told = [k \in Connections |-> None]
    /\ done = {}

Command(c) ==
    OpenAuctionCommand(c) \/ CloseAuctionCommand(c) \/ ShowAssetCommand(c) \/ BidCommand(c)

Running(c) == Connect(c) \/ SendPart(c) \/ Receive(c) \/ SavePart(c) \/ GiveUp(c)

Serving(k) ==
    \/ GiveConnection(k) \/ ReadPart(k) \/ RefuseUpload(k) \/ RequestFails(k)
    \/ Execute(k) \/ ExecuteFails(k) \/ Reply(k) \/ ReplyFails(k)

Next ==
    \/ \E c \in Clients : Command(c) \/ Running(c)
    \/ \E k \in Connections : Serving(k)
    \/ Killed

Spec == Init /\ [][Next]_vars

(* Every call of a client and of a worker returns, after its timeout if nothing
   else. *)
FairSpec ==
    /\ Spec
    /\ \A c \in Clients : WF_vars(Running(c))
    /\ \A k \in Connections : WF_vars(Serving(k))

-----------------------------------------------------------------------------
(* Properties. *)

Answers == Statuses \ {ErrorPacket}

(* What a client is told is true and stays true: a command it was told to have
   succeeded took effect, and one it was told to be refused did not and will
   not, although its worker may be slower than the client is patient. *)
AnswersAreTrue ==
    \A k \in Connections : told[k] \in Answers /\ op[k] # "SAS" =>
        (k \in done <=> told[k] = Success(op[k]))

(* Nothing takes effect before the whole of its request was read: no auction is
   opened with a part of its asset. *)
OnlyCompleteRequests ==
    \A k \in done : read[k] = RequestParts(k) /\ sent[k] = RequestParts(k)

(* A client that is told that its download succeeded has the whole asset, until
   it asks for the asset again. *)
DownloadIsWhole ==
    \A c \in Clients :
        LET downloads == {n \in 1..serial[c] : op[<<c, n>>] = "SAS" /\ taken[<<c, n>>] > 0}
        IN  \A n \in downloads :
               told[<<c, n>>] = "OK" /\ (\A m \in downloads : m <= n) => file[c] = "whole"

(* The commands of a client take effect in the order it gave them, except for
   one it gave up on. *)
OvertakenOnlyIfGivenUp ==
    [][\A c \in Clients, i, j \in 1..MaxCommands :
          i < j /\ <<c, j>> \in done /\ <<c, i>> \in done' \ done =>
             told[<<c, i>>] = "exception"]_vars

(* Every command ends, and so does the work of every worker, even of one whose
   client has given up. *)
BothEndsEnd ==
    /\ \A c \in Clients : at[c] # "idle" ~> at[c] = "idle"
    /\ \A k \in Connections : worker[k] # "none" ~> worker[k] = "closed"
=============================================================================

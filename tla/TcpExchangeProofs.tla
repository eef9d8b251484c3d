--------------------------- MODULE TcpExchangeProofs ---------------------------
(***************************************************************************)
(* Proofs about TcpExchange, for any number of clients, commands and parts *)
(* of an asset: nothing takes effect on a part of its request, and what a  *)
(* client is told is true, and stays true.                                 *)
(***************************************************************************)
EXTENDS TcpExchange, ProtocolProofs

Early == {"none", "queued", "request", "execute"}

TypeInv ==
    /\ at \in [Clients -> {"idle", "connect", "send", "receive", "save"}]
    /\ serial \in [Clients -> 0..MaxCommands]
    /\ op \in [Connections -> TcpOps \union {None}]
    /\ sent \in [Connections -> Nat] /\ read \in [Connections -> Nat]
    /\ worker \in [Connections -> Early \union {"reply", "closed"}]
    /\ status \in [Connections -> Statuses \union {None}]
    /\ replied \in [Connections -> Nat] /\ taken \in [Connections -> Nat]
    /\ told \in [Connections -> Statuses \union {None, "exception"}]
    /\ done \subseteq Connections

(* Where a client is, and its connection with it. *)
ClientInv ==
    /\ \A c \in Clients : at[c] # "idle" => serial[c] > 0 /\ op[Conn(c)] \in TcpOps
    /\ \A c \in Clients : at[c] = "connect" => worker[Conn(c)] = "none"
    /\ \A c \in Clients : at[c] \in {"send", "receive", "save"} => worker[Conn(c)] # "none"
    /\ \A c \in Clients : at[c] = "save" => op[Conn(c)] = "SAS"
    /\ \A c \in Clients : at[c] = "send" => sent[Conn(c)] < RequestParts(Conn(c))
    /\ \A c \in Clients, n \in 1..MaxCommands : n > serial[c] => worker[<<c, n>>] = "none"
    /\ \A k \in Connections : worker[k] # "none" => op[k] \in TcpOps

(* How much of the request is on its way and read. *)
RequestInv ==
    \A k \in Connections :
        /\ worker[k] = "none" => sent[k] = 0
        /\ worker[k] # "none" => sent[k] <= RequestParts(k)
        /\ read[k] <= sent[k]
        /\ worker[k] = "execute" \/ k \in done => read[k] = RequestParts(k)

(* What the status, the effect and the outcome of a command have to do with each
   other: the status is decided with the effect, and changes no more. *)
AnswerInv ==
    \A k \in Connections :
        /\ worker[k] \in Early => replied[k] = 0 /\ k \notin done
        /\ worker[k] = "reply" \/ replied[k] > 0 =>
               (k \in done <=> status[k] = Success(op[k]))
        /\ told[k] \in Answers =>
               replied[k] > 0 /\ (op[k] # "SAS" => told[k] = status[k])

Inv == TypeInv /\ ClientInv /\ RequestInv /\ AnswerInv

-----------------------------------------------------------------------------
(* The connection of a client at work is one of the connections, and no other
   client's. *)
LEMMA OwnConnection ==
    ASSUME TypeInv, ClientInv, NEW c \in Clients, at[c] # "idle"
    PROVE  Conn(c) \in Connections
BY DEF TypeInv, ClientInv, Conn, Connections

LEMMA ConnectionsDiffer ==
    ASSUME NEW c \in Clients, NEW d \in Clients, Conn(c) = Conn(d)
    PROVE  c = d
BY DEF Conn

(* A handler that catches an exception never answers as if it had succeeded. *)
LEMMA ExceptionsAreNotSuccess ==
    ASSUME NEW o \in TcpOps, NEW e \in DOMAIN Handler(o)
    PROVE  Sent(o, Handler(o)[e]) # Success(o)
<1>1. CASE o = "OPA"
    BY <1>1 DEF Handler, handleOpenAuction, Sent, Response, OpenAuctionResponse, Success, ErrorPacket
<1>2. CASE o = "CLS"
    BY <1>2 DEF Handler, handleCloseAuction, Sent, Response, CloseAuctionResponse, Success, ErrorPacket
<1>3. CASE o = "SAS"
    BY <1>3 DEF Handler, handleShowAsset, Sent, Response, ShowAssetResponse, Success, ErrorPacket
<1>4. CASE o = "BID"
    BY <1>4 DEF Handler, handleBid, Sent, Response, BidResponse, Success, ErrorPacket
<1> QED BY <1>1, <1>2, <1>3, <1>4 DEF TcpOps

LEMMA SuccessIsStatus == \A o : Success(o) \in Statuses
BY DEF Success, Statuses

LEMMA Init0 == Init => Inv
<1> SUFFICES ASSUME Init PROVE Inv
    OBVIOUS
<1>1. TypeInv
    BY TcpAssumption DEF Init, TypeInv, Early
<1>2. ClientInv
    BY DEF Init, ClientInv, Connections
<1>3. RequestInv
    BY DEF Init, RequestInv, RequestParts
<1>4. AnswerInv
    BY TcpAssumption DEF Init, AnswerInv, Answers
<1> QED BY <1>1, <1>2, <1>3, <1>4 DEF Inv

-----------------------------------------------------------------------------
LEMMA StepType == Inv /\ [Next]_vars => TypeInv'
<1> SUFFICES ASSUME Inv, [Next]_vars PROVE TypeInv'
    OBVIOUS
<1> USE TcpAssumption DEF Inv
<1>1. CASE \E c \in Clients : Command(c)
    <2> PICK c \in Clients, o \in TcpOps : Ask(c, o)
        BY <1>1 DEF Command, OpenAuctionCommand, CloseAuctionCommand, ShowAssetCommand, BidCommand, TcpOps
    <2>1. at' \in [Clients -> {"idle", "connect", "send", "receive", "save"}]
        BY DEF Ask, Goto, TypeInv
    <2>2. serial' \in [Clients -> 0..MaxCommands]
        BY DEF Ask, TypeInv
    <2>3. op' \in [Connections -> TcpOps \union {None}]
        BY DEF Ask, TypeInv
    <2> QED BY <2>1, <2>2, <2>3 DEF Ask, TypeInv, serverVars
<1>2. CASE \E c \in Clients : Running(c)
    <2> PICK c \in Clients : Running(c)
        BY <1>2
    <2>0. Conn(c) \in Connections
        BY OwnConnection DEF Running, Connect, SendPart, Receive, SavePart, GiveUp
    <2>1. CASE Connect(c)
        BY <2>1 DEF Connect, Goto, connVars, TypeInv, Early
    <2>2. CASE SendPart(c)
        <3>1. at' \in [Clients -> {"idle", "connect", "send", "receive", "save"}]
            BY <2>2 DEF SendPart, Goto, TypeInv
        <3>2. sent' \in [Connections -> Nat]
            BY <2>2, <2>0 DEF SendPart, TypeInv
        <3> QED BY <2>2, <3>1, <3>2 DEF SendPart, serverVars, TypeInv
    <2>3. CASE Receive(c)
        <3>1. at' \in [Clients -> {"idle", "connect", "send", "receive", "save"}]
            BY <2>3 DEF Receive, Goto, End, TypeInv
        <3>2. taken' \in [Connections -> Nat]
            BY <2>3 DEF Receive, TypeInv
        <3>3. CASE UNCHANGED told
            BY <2>3, <3>1, <3>2, <3>3 DEF Receive, serverVars, TypeInv
        <3>4. CASE \E s \in Statuses \union {None, "exception"} : End(c, s)
            <4>1. told' \in [Connections -> Statuses \union {None, "exception"}]
                BY <3>4 DEF End, TypeInv
            <4> QED BY <2>3, <3>1, <3>2, <4>1 DEF Receive, serverVars, TypeInv
        <3> QED BY <2>0, <2>3, <3>3, <3>4 DEF Receive, TypeInv
    <2>4. CASE SavePart(c)
        <3>1. at' \in [Clients -> {"idle", "connect", "send", "receive", "save"}]
            BY <2>4 DEF SavePart, Goto, End, TypeInv
        <3>2. taken' \in [Connections -> Nat]
            BY <2>4, <2>0 DEF SavePart, TypeInv
        <3>3. told' \in [Connections -> Statuses \union {None, "exception"}]
            BY <2>4 DEF SavePart, End, TypeInv, Statuses
        <3> QED BY <2>4, <3>1, <3>2, <3>3 DEF SavePart, serverVars, TypeInv
    <2>5. CASE GiveUp(c)
        BY <2>5 DEF GiveUp, Goto, End, serverVars, connVars, TypeInv
    <2> QED BY <2>1, <2>2, <2>3, <2>4, <2>5 DEF Running
<1>3. CASE \E k \in Connections : Serving(k)
    <2> PICK k \in Connections : Serving(k)
        BY <1>3
    <2>1. CASE GiveConnection(k)
        BY <2>1 DEF GiveConnection, WorkerGoto, clientVars, connVars, TypeInv, Early
    <2>2. CASE ReadPart(k)
        BY <2>2 DEF ReadPart, WorkerGoto, clientVars, TypeInv, Early
    <2>3. CASE RefuseUpload(k)
        BY <2>3 DEF RefuseUpload, Found, WorkerGoto, clientVars, TypeInv, Statuses
    <2>4. CASE RequestFails(k)
        BY <2>4 DEF RequestFails, Found, WorkerGoto, clientVars, connVars, TypeInv, Statuses
    <2>5. CASE Execute(k)
        <3>1. PICK s \in Statuses : Found(k, s)
            BY <2>5, SentIsStatus, SuccessIsStatus DEF Execute
        <3>2. done' \subseteq Connections
            BY <2>5 DEF Execute, TypeInv
        <3> QED BY <2>5, <3>1, <3>2 DEF Execute, Found, WorkerGoto, clientVars, connVars, TypeInv
    <2>6. CASE ExecuteFails(k)
        BY <2>6 DEF ExecuteFails, WorkerGoto, clientVars, connVars, TypeInv
    <2>7. CASE Reply(k)
        BY <2>7 DEF Reply, WorkerGoto, clientVars, TypeInv
    <2>8. CASE ReplyFails(k)
        BY <2>8 DEF ReplyFails, WorkerGoto, clientVars, connVars, TypeInv
    <2> QED BY <2>1, <2>2, <2>3, <2>4, <2>5, <2>6, <2>7, <2>8 DEF Serving
<1>4. CASE Killed
    BY <1>4 DEF Killed, clientVars, connVars, TypeInv, Early
<1>5. CASE UNCHANGED vars
    BY <1>5 DEF vars, clientVars, connVars, serverVars, TypeInv
<1> QED BY <1>1, <1>2, <1>3, <1>4, <1>5 DEF Next

LEMMA StepAnswers == Inv /\ [Next]_vars => AnswerInv'
<1> SUFFICES ASSUME Inv, [Next]_vars PROVE AnswerInv'
    OBVIOUS
<1> USE TcpAssumption DEF Inv
<1>1. CASE \E c \in Clients : Command(c)
    <2> PICK c \in Clients, o \in TcpOps : Ask(c, o)
        BY <1>1 DEF Command, OpenAuctionCommand, CloseAuctionCommand, ShowAssetCommand, BidCommand, TcpOps
    <2> DEFINE new == <<c, serial[c] + 1>>
    <2>1. new \in Connections /\ worker[new] = "none" /\ op' = [op EXCEPT ![new] = o]
        BY DEF Ask, TypeInv, ClientInv, Connections
    <2>2. UNCHANGED <<worker, replied, done, status, told>>
        BY DEF Ask, serverVars
    <2> QED BY <2>1, <2>2 DEF AnswerInv, TypeInv, Early, Success
<1>2. CASE \E c \in Clients : Running(c)
    <2> PICK c \in Clients : Running(c)
        BY <1>2
    <2>0. Conn(c) \in Connections
        BY OwnConnection DEF Running, Connect, SendPart, Receive, SavePart, GiveUp
    <2>1. CASE Connect(c)
        BY <2>0, <2>1 DEF Connect, connVars, TypeInv, ClientInv, AnswerInv, Early
    <2>2. CASE SendPart(c)
        BY <2>2 DEF SendPart, serverVars, AnswerInv
    <2>3. CASE Receive(c)
        <3>1. UNCHANGED <<worker, replied, done, status, op>>
            BY <2>3 DEF Receive, serverVars
        <3>2. CASE UNCHANGED told
            BY <3>1, <3>2 DEF AnswerInv
        <3>3. CASE told' = [told EXCEPT ![Conn(c)] = status[Conn(c)]]
            BY <2>0, <2>3, <3>1, <3>3 DEF Receive, TypeInv, AnswerInv
        <3>4. CASE told' = [told EXCEPT ![Conn(c)] = "exception"]
            BY <2>0, <3>1, <3>4 DEF TypeInv, AnswerInv, Answers, Statuses, ErrorPacket
        <3> QED BY <2>3, <3>2, <3>3, <3>4 DEF Receive, End
    <2>4. CASE SavePart(c)
        <3>1. UNCHANGED <<worker, replied, done, status, op>>
            BY <2>4 DEF SavePart, serverVars
        <3>2. CASE UNCHANGED told
            BY <3>1, <3>2 DEF AnswerInv
        <3>3. CASE told' = [told EXCEPT ![Conn(c)] = "OK"]
            <4>1. op[Conn(c)] = "SAS" /\ replied[Conn(c)] > 0
                BY <2>0, <2>4 DEF SavePart, TypeInv, ClientInv
            <4> QED BY <2>0, <4>1, <3>1, <3>3 DEF TypeInv, AnswerInv
        <3> QED BY <2>4, <3>2, <3>3 DEF SavePart, End
    <2>5. CASE GiveUp(c)
        BY <2>0, <2>5 DEF GiveUp, End, connVars, serverVars, TypeInv, AnswerInv, Answers, Statuses, ErrorPacket
    <2> QED BY <2>1, <2>2, <2>3, <2>4, <2>5 DEF Running
<1>3. CASE \E k \in Connections : Serving(k)
    <2> PICK k \in Connections : Serving(k)
        BY <1>3
    <2>1. CASE GiveConnection(k)
        BY <2>1 DEF GiveConnection, WorkerGoto, clientVars, connVars, TypeInv, AnswerInv, Early
    <2>2. CASE ReadPart(k)
        BY <2>2 DEF ReadPart, WorkerGoto, clientVars, TypeInv, AnswerInv, Early
    <2>3. CASE RefuseUpload(k)
        BY <2>3 DEF RefuseUpload, Found, WorkerGoto, clientVars, TypeInv, AnswerInv, Early, Success
    <2>4. CASE RequestFails(k)
        <3>1. worker[k] = "request" /\ UNCHANGED <<op, replied, told, done>>
            BY <2>4 DEF RequestFails, clientVars, connVars
        <3>2. CASE \E s \in {"ERR", ErrorPacket} : Found(k, s)
            <4>1. PICK s \in {"ERR", ErrorPacket} : Found(k, s)
                BY <3>2
            <4>2. s # Success(op[k])
                BY DEF Success, ErrorPacket
            <4>3. status' = [status EXCEPT ![k] = s] /\ worker' = [worker EXCEPT ![k] = "reply"]
                BY <4>1 DEF Found, WorkerGoto
            <4> QED BY <3>1, <4>2, <4>3 DEF TypeInv, AnswerInv, Early
        <3>3. CASE WorkerGoto(k, "closed") /\ UNCHANGED status
            BY <3>1, <3>3 DEF WorkerGoto, TypeInv, AnswerInv, Early
        <3> QED BY <2>4, <3>2, <3>3 DEF RequestFails
    <2>5. CASE Execute(k)
        <3>1. op[k] \in TcpOps
            BY <2>5 DEF Execute, ClientInv
        <3>2. PICK s : Found(k, s) /\ (k \in done' <=> s = Success(op[k]))
            BY <2>5, <3>1, ExceptionsAreNotSuccess DEF Execute, AnswerInv, Early
        <3>3. \A l \in Connections : l # k => (l \in done' <=> l \in done)
            BY <2>5 DEF Execute
        <3> QED BY <2>5, <3>2, <3>3 DEF Execute, Found, WorkerGoto, clientVars, connVars, TypeInv, AnswerInv, Early
    <2>6. CASE ExecuteFails(k)
        BY <2>6 DEF ExecuteFails, WorkerGoto, clientVars, connVars, TypeInv, AnswerInv, Early
    <2>7. CASE Reply(k)
        BY <2>7 DEF Reply, WorkerGoto, clientVars, TypeInv, AnswerInv, Early
    <2>8. CASE ReplyFails(k)
        BY <2>8 DEF ReplyFails, WorkerGoto, clientVars, connVars, TypeInv, AnswerInv, Early
    <2> QED BY <2>1, <2>2, <2>3, <2>4, <2>5, <2>6, <2>7, <2>8 DEF Serving
<1>4. CASE Killed
    BY <1>4 DEF Killed, clientVars, connVars, TypeInv, AnswerInv, Early
<1>5. CASE UNCHANGED vars
    BY <1>5 DEF vars, clientVars, connVars, serverVars, AnswerInv
<1> QED BY <1>1, <1>2, <1>3, <1>4, <1>5 DEF Next

(* Only a client moves itself on, and a worker never goes back to "none". *)
LEMMA StepClients == Inv /\ [Next]_vars => ClientInv'
<1> SUFFICES ASSUME Inv, [Next]_vars PROVE ClientInv'
    OBVIOUS
<1> USE TcpAssumption DEF Inv
<1>1. CASE \E c \in Clients : Command(c)
    <2> PICK c \in Clients, o \in TcpOps : Ask(c, o)
        BY <1>1 DEF Command, OpenAuctionCommand, CloseAuctionCommand, ShowAssetCommand, BidCommand, TcpOps
    <2> DEFINE new == <<c, serial[c] + 1>>
    <2>1. new \in Connections /\ worker[new] = "none" /\ op' = [op EXCEPT ![new] = o]
        BY DEF Ask, TypeInv, ClientInv, Connections
    <2>2. at[c] = "idle" /\ at' = [at EXCEPT ![c] = "connect"]
          /\ serial' = [serial EXCEPT ![c] = @ + 1] /\ UNCHANGED <<sent, worker>>
        BY DEF Ask, Goto, serverVars
    <2>3. Conn(c)' = new /\ op'[new] = o
        BY <2>1, <2>2 DEF Conn, TypeInv
    <2>4. ASSUME NEW d \in Clients, d # c
          PROVE  /\ at'[d] = at[d] /\ serial'[d] = serial[d] /\ Conn(d)' = Conn(d)
                 /\ op'[Conn(d)] = op[Conn(d)] /\ RequestParts(Conn(d))' = RequestParts(Conn(d))
        BY <2>1, <2>2, <2>4 DEF Conn, TypeInv, RequestParts
    <2> QED BY <2>1, <2>2, <2>3, <2>4 DEF ClientInv, TypeInv, Connections
<1>2. CASE \E c \in Clients : Running(c)
    <2> PICK c \in Clients : Running(c)
        BY <1>2
    <2>0. Conn(c) \in Connections /\ at[c] # "idle" /\ UNCHANGED <<serial, op>>
        BY OwnConnection DEF Running, Connect, SendPart, Receive, SavePart, GiveUp, connVars
    <2>1. \A k : RequestParts(k)' = RequestParts(k)
        BY <2>0 DEF RequestParts
    <2>2. \A d \in Clients : Conn(d)' = Conn(d) /\ (Conn(d) = Conn(c) => d = c)
        BY <2>0 DEF Conn
    <2>3. CASE Connect(c)
        <3>1. at' = [at EXCEPT ![c] = "send"] /\ UNCHANGED sent
              /\ worker' = [worker EXCEPT ![Conn(c)] = "queued"] /\ worker[Conn(c)] = "none"
            BY <2>3 DEF Connect, Goto, connVars, ClientInv
        <3>2. \A k \in Connections : k # Conn(c) => worker'[k] = worker[k]
            BY <3>1 DEF TypeInv
        <3>3. worker'[Conn(c)] = "queued" /\ at'[c] = "send"
            BY <2>0, <3>1 DEF TypeInv
        <3>4. sent[Conn(c)] < RequestParts(Conn(c))
            BY <2>0, <3>1 DEF RequestInv, RequestParts
        <3>5. ASSUME NEW d \in Clients, d # c
              PROVE  at'[d] = at[d] /\ (at[d] # "idle" => worker'[Conn(d)] = worker[Conn(d)])
            BY <2>2, <3>1, <3>2, <3>5, OwnConnection DEF TypeInv
        <3>6. \A d \in Clients, n \in 1..MaxCommands : n > serial'[d] => worker'[<<d, n>>] = "none"
            <4> SUFFICES ASSUME NEW d \in Clients, NEW n \in 1..MaxCommands, n > serial[d]
                         PROVE  worker'[<<d, n>>] = "none"
                BY <2>0
            <4>1. <<d, n>> \in Connections /\ worker[<<d, n>>] = "none"
                BY DEF ClientInv, Connections
            <4>2. <<d, n>> # Conn(c)
                BY DEF Conn, TypeInv
            <4> QED BY <3>2, <4>1, <4>2
        <3>7. \A k \in Connections : worker'[k] # "none" => op'[k] \in TcpOps
            BY <2>0, <3>1, <3>2 DEF ClientInv
        <3> QED BY <2>0, <2>1, <2>2, <3>1, <3>3, <3>4, <3>5, <3>6, <3>7 DEF ClientInv
    <2>4. CASE SendPart(c)
        <3>1. at[c] = "send" /\ sent' = [sent EXCEPT ![Conn(c)] = @ + 1] /\ UNCHANGED worker
            BY <2>4 DEF SendPart, serverVars
        <3>2. \/ at' = [at EXCEPT ![c] = "receive"]
              \/ UNCHANGED at /\ sent[Conn(c)] + 1 # RequestParts(Conn(c))
            BY <2>0, <2>4, <3>1 DEF SendPart, Goto, TypeInv
        <3>3. at'[c] = "receive" \/ (at'[c] = "send" /\ sent'[Conn(c)] < RequestParts(Conn(c)))
            <4>1. sent[Conn(c)] \in Nat /\ RequestParts(Conn(c)) \in Nat
                BY <2>0 DEF TypeInv, RequestParts
            <4>2. sent[Conn(c)] < RequestParts(Conn(c)) /\ sent'[Conn(c)] = sent[Conn(c)] + 1
                BY <2>0, <3>1 DEF ClientInv, TypeInv
            <4>3. sent[Conn(c)] + 1 # RequestParts(Conn(c)) =>
                      sent'[Conn(c)] < RequestParts(Conn(c))
                BY <4>1, <4>2
            <4>4. CASE at' = [at EXCEPT ![c] = "receive"]
                BY <4>4 DEF TypeInv
            <4>5. CASE UNCHANGED at /\ sent[Conn(c)] + 1 # RequestParts(Conn(c))
                BY <3>1, <4>3, <4>5
            <4> QED BY <3>2, <4>4, <4>5
        <3>4. ASSUME NEW d \in Clients, d # c
              PROVE  at'[d] = at[d] /\ (at[d] # "idle" => sent'[Conn(d)] = sent[Conn(d)])
            BY <2>2, <3>1, <3>2, <3>4, OwnConnection DEF TypeInv
        <3> QED BY <2>0, <2>1, <2>2, <3>1, <3>3, <3>4 DEF ClientInv
    <2>5. CASE Receive(c) \/ SavePart(c) \/ GiveUp(c)
        BY <2>0, <2>1, <2>2, <2>5 DEF Receive, SavePart, GiveUp, End, Goto, serverVars, connVars, ClientInv, TypeInv
    <2> QED BY <2>3, <2>4, <2>5 DEF Running
<1>3. CASE \/ Killed \/ UNCHANGED vars \/ \E k \in Connections : Serving(k)
    <2>1. UNCHANGED <<at, serial, op, sent>>
        BY <1>3 DEF Killed, vars, Serving, GiveConnection, ReadPart, RefuseUpload, RequestFails, Execute,
                    ExecuteFails, Reply, ReplyFails, clientVars, connVars
    <2>2. \A k \in Connections : worker'[k] = "none" <=> worker[k] = "none"
        <3>1. CASE Killed
            BY <3>1 DEF Killed
        <3>2. CASE UNCHANGED vars
            BY <3>2 DEF vars, serverVars
        <3>3. CASE \E k \in Connections : Serving(k)
            BY <3>3 DEF Serving, GiveConnection, ReadPart, RefuseUpload, RequestFails, Execute, ExecuteFails,
                        Reply, ReplyFails, Found, WorkerGoto, TypeInv
        <3> QED BY <1>3, <3>1, <3>2, <3>3
    <2>3. \A c \in Clients : at[c] # "idle" => Conn(c) \in Connections
        BY OwnConnection
    <2> QED BY <2>1, <2>2, <2>3 DEF ClientInv, Conn, RequestParts, Connections
<1> QED BY <1>1, <1>2, <1>3 DEF Next

LEMMA StepRequests == Inv /\ [Next]_vars => RequestInv'
<1> SUFFICES ASSUME Inv, [Next]_vars PROVE RequestInv'
    OBVIOUS
<1> USE TcpAssumption DEF Inv
<1>1. CASE \E c \in Clients : Command(c)
    <2> PICK c \in Clients, o \in TcpOps : Ask(c, o)
        BY <1>1 DEF Command, OpenAuctionCommand, CloseAuctionCommand, ShowAssetCommand, BidCommand, TcpOps
    <2> DEFINE new == <<c, serial[c] + 1>>
    <2>1. new \in Connections /\ worker[new] = "none" /\ op' = [op EXCEPT ![new] = o]
        BY DEF Ask, TypeInv, ClientInv, Connections
    <2>2. UNCHANGED <<worker, sent, read, done>> /\ new \notin done
        BY <2>1 DEF Ask, serverVars, AnswerInv, Early
    <2>3. \A k \in Connections : k # new => RequestParts(k)' = RequestParts(k)
        BY <2>1 DEF RequestParts, TypeInv
    <2> QED BY <2>1, <2>2, <2>3 DEF RequestInv, TypeInv
<1>2. CASE \E c \in Clients : Running(c)
    <2> PICK c \in Clients : Running(c)
        BY <1>2
    <2>0. Conn(c) \in Connections /\ UNCHANGED <<op, read, done>>
        BY OwnConnection DEF Running, Connect, SendPart, Receive, SavePart, GiveUp, connVars, serverVars
    <2>1. \A k : RequestParts(k)' = RequestParts(k) /\ RequestParts(k) \in Nat
        BY <2>0 DEF RequestParts
    <2>2. CASE Connect(c)
        <3>1. worker[Conn(c)] = "none" /\ worker' = [worker EXCEPT ![Conn(c)] = "queued"]
              /\ UNCHANGED sent
            BY <2>2 DEF Connect, connVars, ClientInv
        <3> QED BY <2>0, <2>1, <3>1 DEF RequestInv, TypeInv
    <2>3. CASE SendPart(c)
        <3>1. /\ worker[Conn(c)] # "none" /\ sent[Conn(c)] < RequestParts(Conn(c))
              /\ sent' = [sent EXCEPT ![Conn(c)] = @ + 1] /\ UNCHANGED worker
            BY <2>3 DEF SendPart, ClientInv, serverVars
        <3> QED BY <2>0, <2>1, <3>1 DEF RequestInv, TypeInv
    <2>4. CASE Receive(c) \/ SavePart(c) \/ GiveUp(c)
        <3>1. UNCHANGED <<worker, sent>>
            BY <2>4 DEF Receive, SavePart, GiveUp, connVars, serverVars
        <3> QED BY <2>0, <2>1, <3>1 DEF RequestInv
    <2> QED BY <2>2, <2>3, <2>4 DEF Running
<1>3. CASE \E k \in Connections : Serving(k)
    <2> PICK k \in Connections : Serving(k)
        BY <1>3
    <2>0. UNCHANGED <<op, sent>>
        BY DEF Serving, GiveConnection, ReadPart, RefuseUpload, RequestFails, Execute, ExecuteFails,
               Reply, ReplyFails, connVars
    <2>1. \A l : RequestParts(l)' = RequestParts(l) /\ RequestParts(l) \in Nat
        BY <2>0 DEF RequestParts
    <2>2. CASE GiveConnection(k)
        BY <2>0, <2>1, <2>2 DEF GiveConnection, WorkerGoto, connVars, TypeInv, RequestInv
    <2>3. CASE ReadPart(k)
        <3>1. CASE UNCHANGED worker
            BY <2>0, <2>1, <2>3, <3>1 DEF ReadPart, TypeInv, RequestInv, AnswerInv, Early
        <3>2. CASE read'[k] = RequestParts(k) /\ WorkerGoto(k, "execute")
            BY <2>0, <2>1, <2>3, <3>2 DEF ReadPart, WorkerGoto, TypeInv, RequestInv, AnswerInv, Early
        <3> QED BY <2>3, <3>1, <3>2 DEF ReadPart
    <2>4. CASE RefuseUpload(k)
        BY <2>0, <2>1, <2>4 DEF RefuseUpload, Found, WorkerGoto, TypeInv, RequestInv, AnswerInv, Early
    <2>5. CASE RequestFails(k) \/ ExecuteFails(k) \/ Execute(k) \/ Reply(k) \/ ReplyFails(k)
        <3>1. UNCHANGED read /\ worker[k] # "none" /\ done' \subseteq done \union {k}
              /\ (k \in done' => k \in done \/ worker[k] = "execute")
            BY <2>5 DEF RequestFails, ExecuteFails, Execute, Reply, ReplyFails, connVars
        <3>2. \A l \in Connections : worker'[l] = worker[l] \/ (l = k /\ worker'[l] \in {"reply", "closed"})
            <4>1. \/ UNCHANGED worker
                  \/ \E label \in {"reply", "closed"} : worker' = [worker EXCEPT ![k] = label]
                BY <2>5 DEF RequestFails, ExecuteFails, Execute, Reply, ReplyFails, Found, WorkerGoto
            <4>2. ASSUME NEW label \in {"reply", "closed"}, worker' = [worker EXCEPT ![k] = label]
                  PROVE  \A l \in Connections : worker'[l] = worker[l] \/ (l = k /\ worker'[l] = label)
                BY <4>2 DEF TypeInv
            <4> QED BY <4>1, <4>2
        <3> QED BY <2>0, <2>1, <3>1, <3>2 DEF RequestInv
    <2> QED BY <2>2, <2>3, <2>4, <2>5 DEF Serving
<1>4. CASE Killed
    BY <1>4 DEF Killed, clientVars, connVars, TypeInv, RequestInv, RequestParts
<1>5. CASE UNCHANGED vars
    BY <1>5 DEF vars, connVars, serverVars, RequestInv, RequestParts
<1> QED BY <1>1, <1>2, <1>3, <1>4, <1>5 DEF Next

LEMMA Invariant == Spec => []Inv
<1>1. Inv /\ [Next]_vars => Inv'
    BY StepType, StepClients, StepRequests, StepAnswers DEF Inv
<1> QED BY Init0, <1>1, PTL DEF Spec

-----------------------------------------------------------------------------
(* Nothing takes effect before the whole of its request was sent and read,
   wherever either end gives up and whenever the server is killed. *)
THEOREM RequestsAreComplete == Spec => []OnlyCompleteRequests
<1>1. Inv => OnlyCompleteRequests
    <2> SUFFICES ASSUME Inv, NEW k \in done
                 PROVE  read[k] = RequestParts(k) /\ sent[k] = RequestParts(k)
        BY DEF OnlyCompleteRequests
    <2>1. k \in Connections /\ worker[k] # "none"
        BY DEF Inv, TypeInv, AnswerInv, Early
    <2>2. read[k] = RequestParts(k) /\ read[k] <= sent[k] /\ sent[k] <= RequestParts(k)
        BY <2>1 DEF Inv, RequestInv
    <2> QED BY <2>1, <2>2 DEF Inv, TypeInv
<1> QED BY Invariant, <1>1, PTL

(* The status a client is told tells whether its command took effect, and will
   tell it for ever. *)
THEOREM ClientsAreToldTheTruth == Spec => []AnswersAreTrue
<1>1. Inv => AnswersAreTrue
    BY DEF Inv, AnswerInv, AnswersAreTrue
<1> QED BY Invariant, <1>1, PTL

-----------------------------------------------------------------------------
(* What a client was told of its commands, and its copies of assets. *)

Outcomes == Answers \union {"exception"}

(* A command that has ended has an outcome; the one that runs, and those that
   were not given, have none. *)
OutcomeInv ==
    \A c \in Clients :
        /\ file[c] \in {"none", "part", "whole"}
        /\ \A n \in 1..MaxCommands :
              IF n < serial[c] \/ (n = serial[c] /\ at[c] = "idle")
              THEN told[<<c, n>>] \in Outcomes ELSE told[<<c, n>>] = None

HistoryInv == DOMAIN file = Clients /\ OutcomeInv

LEMMA ReadsAreAnswers == \A o : Response(o).reads \subseteq Answers
    BY DEF Response, Answers, Statuses, ErrorPacket, LoginResponse, LogoutResponse, UnregisterResponse,
           ListUserAuctionsResponse, ListUserBidsResponse, ListAuctionsResponse, ShowRecordResponse,
           OpenAuctionResponse, CloseAuctionResponse, ShowAssetResponse, BidResponse

(* What a step of client c may do to what was told and saved. *)
LEMMA ClientSteps ==
    ASSUME Inv, HistoryInv, NEW c \in Clients, Running(c)
    PROVE  /\ at[c] # "idle" /\ UNCHANGED <<serial, op>> /\ Conn(c) \in Connections
           /\ \A d \in Clients \ {c} : at'[d] = at[d] /\ file'[d] = file[d]
           /\ DOMAIN file' = Clients /\ file'[c] \in {"none", "part", "whole"}
           /\ \/ at'[c] # "idle" /\ told' = told
              \/ /\ at'[c] = "idle"
                 /\ \E out \in Outcomes : told' = [told EXCEPT ![Conn(c)] = out]
<1> USE DEF Inv, TypeInv, HistoryInv, OutcomeInv, Goto, End, Outcomes
<1>1. at[c] # "idle" /\ UNCHANGED <<serial, op>>
    BY DEF Running, Connect, SendPart, Receive, SavePart, GiveUp, connVars
<1>2. Conn(c) \in Connections
    BY <1>1, OwnConnection
<1>3. CASE Connect(c) \/ SendPart(c)
    BY <1>1, <1>2, <1>3 DEF Connect, SendPart
<1>4. CASE GiveUp(c)
    BY <1>1, <1>2, <1>4 DEF GiveUp
<1>5. CASE SavePart(c)
    <2>1. "OK" \in Answers
        BY DEF Answers, Statuses, ErrorPacket
    <2> QED  BY <1>1, <1>2, <1>5, <2>1 DEF SavePart
<1>6. CASE Receive(c)
    <2>1. Readable(Conn(c)) => status[Conn(c)] \in Answers
        BY ReadsAreAnswers DEF Readable
    <2> QED  BY <1>1, <1>2, <1>6, <2>1 DEF Receive
<1> QED  BY <1>3, <1>4, <1>5, <1>6 DEF Running

LEMMA StepHistory == Inv /\ HistoryInv /\ [Next]_vars => HistoryInv'
<1> SUFFICES ASSUME Inv, HistoryInv, [Next]_vars  PROVE HistoryInv'
    OBVIOUS
<1> USE TcpAssumption DEF Inv, TypeInv
<1>1. ASSUME NEW c \in Clients, Command(c)  PROVE HistoryInv'
    <2>1. /\ at[c] = "idle" /\ at' = [at EXCEPT ![c] = "connect"] /\ serial[c] < MaxCommands
          /\ serial' = [serial EXCEPT ![c] = @ + 1] /\ UNCHANGED <<file, told>>
        BY <1>1 DEF Command, OpenAuctionCommand, CloseAuctionCommand, ShowAssetCommand, BidCommand, Ask, Goto
    <2>2. at'[c] = "connect" /\ serial'[c] = serial[c] + 1 /\ serial[c] \in Nat
        BY <2>1
    <2>3. \A n \in 1..MaxCommands : n < serial[c] + 1 <=> n < serial[c] \/ n = serial[c]
        BY <2>2
    <2>4. \A d \in Clients \ {c} : at'[d] = at[d] /\ serial'[d] = serial[d]
        BY <2>1
    <2> QED  BY <2>1, <2>2, <2>3, <2>4 DEF HistoryInv, OutcomeInv
<1>2. ASSUME NEW c \in Clients, Running(c)  PROVE HistoryInv'
    <2>1. \A d \in Clients, n \in 1..MaxCommands : <<d, n>> \in Connections
        BY DEF Connections
    <2>2. /\ at[c] # "idle" /\ UNCHANGED <<serial, op>> /\ Conn(c) \in Connections
          /\ \A d \in Clients \ {c} : at'[d] = at[d] /\ file'[d] = file[d]
          /\ DOMAIN file' = Clients /\ file'[c] \in {"none", "part", "whole"}
          /\ \/ at'[c] # "idle" /\ told' = told
             \/ at'[c] = "idle" /\ \E out \in Outcomes : told' = [told EXCEPT ![Conn(c)] = out]
        BY <1>2, ClientSteps
    <2>3. CASE at'[c] # "idle" /\ told' = told
        BY <2>2, <2>3 DEF HistoryInv, OutcomeInv
    <2>4. ASSUME at'[c] = "idle", NEW out \in Outcomes, told' = [told EXCEPT ![Conn(c)] = out]
          PROVE  HistoryInv'
        <3>1. told'[<<c, serial[c]>>] = out
            BY <2>2, <2>4 DEF Conn
        <3>2. \A d \in Clients, n \in 1..MaxCommands :
                 d # c \/ n # serial[c] => told'[<<d, n>>] = told[<<d, n>>]
            BY <2>1, <2>4 DEF Conn
        <3>3. ASSUME NEW d \in Clients, NEW n \in 1..MaxCommands
              PROVE  IF n < serial[d] \/ (n = serial[d] /\ at'[d] = "idle")
                     THEN told'[<<d, n>>] \in Outcomes ELSE told'[<<d, n>>] = None
            <4>1. CASE d = c /\ n = serial[c]
                BY <2>4, <3>1, <4>1
            <4>2. CASE d = c /\ n # serial[c]
                BY <2>4, <3>2, <4>2 DEF HistoryInv, OutcomeInv
            <4>3. CASE d # c
                BY <2>2, <3>2, <4>3 DEF HistoryInv, OutcomeInv
            <4> QED  BY <4>1, <4>2, <4>3
        <3>4. \A d \in Clients : file'[d] \in {"none", "part", "whole"}
            BY <2>2 DEF HistoryInv, OutcomeInv
        <3> QED  BY <2>2, <3>3, <3>4 DEF HistoryInv, OutcomeInv
    <2> QED  BY <2>2, <2>3, <2>4
<1>3. CASE Killed \/ UNCHANGED vars \/ \E k \in Connections : Serving(k)
    <2>1. UNCHANGED <<at, serial, file, told>>
        BY <1>3 DEF Killed, vars, Serving, GiveConnection, ReadPart, RefuseUpload, RequestFails, Execute,
                    ExecuteFails, Reply, ReplyFails, clientVars
    <2> QED  BY <2>1 DEF HistoryInv, OutcomeInv
<1> QED  BY <1>1, <1>2, <1>3 DEF Next

-----------------------------------------------------------------------------
(* A worker at work has not let its client be told anything but that it gave up. *)
LEMMA WorkerStep ==
    ASSUME Inv, NEW k \in Connections, k \notin done, k \in done', [Next]_vars
    PROVE  worker[k] = "execute"
    BY DEF Next, vars, Command, OpenAuctionCommand, CloseAuctionCommand, ShowAssetCommand, BidCommand,
           Ask, Running, Connect, SendPart, Receive, SavePart, GiveUp, Serving, GiveConnection,
           ReadPart, RefuseUpload, RequestFails, Execute, ExecuteFails, Reply, ReplyFails, Killed,
           serverVars

(* The commands of a client take effect in the order it gave them, unless it
   gave one up: however slow its worker, one that the client was told the end
   of has had its effect or never will. *)
THEOREM OrderKept == Spec => OvertakenOnlyIfGivenUp
<1> DEFINE Kept == \A c \in Clients, i, j \in 1..MaxCommands :
                      i < j /\ <<c, j>> \in done /\ <<c, i>> \in done' \ done =>
                         told[<<c, i>>] = "exception"
<1>1. Inv /\ HistoryInv /\ [Next]_vars => [Kept]_vars
    <2> SUFFICES ASSUME Inv, HistoryInv, [Next]_vars, NEW c \in Clients,
                        NEW i \in 1..MaxCommands, NEW j \in 1..MaxCommands,
                        i < j, <<c, j>> \in done, <<c, i>> \in done' \ done
                 PROVE  told[<<c, i>>] = "exception"
        OBVIOUS
    <2>1. <<c, i>> \in Connections /\ <<c, j>> \in Connections
        BY DEF Connections
    <2>2. worker[<<c, i>>] = "execute"
        BY <2>1, WorkerStep
    <2>3. told[<<c, i>>] \notin Answers
        BY <2>1, <2>2 DEF Inv, AnswerInv, Early
    <2>4. worker[<<c, j>>] # "none"
        BY <2>1 DEF Inv, AnswerInv, Early
    <2>5. ~(j > serial[c])
        BY <2>4 DEF Inv, ClientInv
    <2>6. i < serial[c]
        BY <2>5, TcpAssumption DEF Inv, TypeInv
    <2> QED  BY <2>3, <2>6 DEF HistoryInv, OutcomeInv, Outcomes
<1>2. Init => HistoryInv
    BY DEF Init, HistoryInv, OutcomeInv, Connections
<1> QED  BY Invariant, StepHistory, <1>1, <1>2, PTL DEF Spec, OvertakenOnlyIfGivenUp

-----------------------------------------------------------------------------
(* The n-th command of c was a download, and has begun to write the file. *)
Downloaded(c, n) == n \in 1..serial[c] /\ op[<<c, n>>] = "SAS" /\ taken[<<c, n>>] > 0
Newest(c, n) == Downloaded(c, n) /\ \A m \in 1..MaxCommands : Downloaded(c, m) => m <= n

WholeInv ==
    \A c \in Clients, n \in 1..MaxCommands :
        Newest(c, n) /\ told[<<c, n>>] = "OK" => file[c] = "whole"

(* A client of which nothing new is downloaded, told or saved. *)
LEMMA WholeKept ==
    ASSUME Inv, NEW c \in Clients, file'[c] = file[c],
           \A n \in 1..MaxCommands : Newest(c, n) /\ told[<<c, n>>] = "OK" => file[c] = "whole",
           \A n \in 1..MaxCommands : Downloaded(c, n) => Downloaded(c, n)',
           NEW n \in 1..MaxCommands, Newest(c, n)', told'[<<c, n>>] = "OK",
           told[<<c, n>>] = "OK" /\ Downloaded(c, n)
    PROVE  file'[c] = "whole"
    BY DEF Newest

LEMMA StepWhole == Inv /\ HistoryInv /\ WholeInv /\ [Next]_vars => WholeInv'
<1> SUFFICES ASSUME Inv, HistoryInv, WholeInv, [Next]_vars, NEW d \in Clients,
                    NEW n \in 1..MaxCommands, Newest(d, n)', told'[<<d, n>>] = "OK"
             PROVE  file'[d] = "whole"
    BY DEF WholeInv
<1> USE TcpAssumption DEF Inv, TypeInv
<1>0. /\ \A c \in Clients, i \in 1..MaxCommands : <<c, i>> \in Connections
      /\ \A i \in 1..MaxCommands : i \in Nat
      /\ "OK" # None
    BY DEF Connections, Statuses
<1>1. ASSUME NEW c \in Clients, Command(c)  PROVE file'[d] = "whole"
    <2>1. PICK o \in TcpOps : Ask(c, o)
        BY <1>1 DEF Command, OpenAuctionCommand, CloseAuctionCommand, ShowAssetCommand, BidCommand, TcpOps
    <2>2. /\ serial[c] \in Nat /\ serial[c] + 1 \in 1..MaxCommands
          /\ serial' = [serial EXCEPT ![c] = @ + 1] /\ UNCHANGED <<file, told, taken>>
          /\ op' = [op EXCEPT ![<<c, serial[c] + 1>>] = o]
        BY <2>1 DEF Ask
    <2>3. \A i \in 1..MaxCommands : <<d, i>> # <<c, serial[c] + 1>> => op'[<<d, i>>] = op[<<d, i>>]
        BY <1>0, <2>2
    <2>4. serial'[d] = serial[d] \/ (d = c /\ serial'[d] = serial[c] + 1)
        BY <2>2
    <2>5. \A i \in 1..MaxCommands : Downloaded(d, i) => Downloaded(d, i)'
        BY <1>0, <2>2, <2>3, <2>4 DEF Downloaded
    <2>6. told[<<d, n>>] = "OK"
        BY <2>2
    <2>7. n <= serial[d]
        BY <1>0, <2>6 DEF HistoryInv, OutcomeInv
    <2>8. Downloaded(d, n)
        BY <1>0, <2>2, <2>3, <2>7 DEF Downloaded, Newest
    <2> QED  BY <2>2, <2>5, <2>6, <2>8, WholeKept DEF WholeInv
<1>2. ASSUME NEW c \in Clients, Running(c)  PROVE file'[d] = "whole"
    <2>1. /\ at[c] # "idle" /\ UNCHANGED <<serial, op>> /\ Conn(c) \in Connections
          /\ \A u \in Clients \ {c} : at'[u] = at[u] /\ file'[u] = file[u]
        BY <1>2, ClientSteps
    <2>2. Conn(c) = <<c, serial[c]>> /\ serial[c] \in 1..MaxCommands /\ told[<<c, serial[c]>>] = None
        BY <2>1 DEF Conn, Connections, HistoryInv, OutcomeInv
    <2>3. \A k \in Connections \ {Conn(c)} : taken'[k] = taken[k] /\ told'[k] = told[k]
        BY <1>2, <2>1
        DEF Running, Connect, SendPart, Receive, SavePart, GiveUp, End, connVars
    <2>4. \A i \in 1..MaxCommands : Downloaded(d, i) => Downloaded(d, i)'
        <3> SUFFICES ASSUME NEW i \in 1..MaxCommands, taken[<<d, i>>] > 0
                     PROVE  taken'[<<d, i>>] > 0
            BY <2>1 DEF Downloaded
        <3>1. CASE <<d, i>> = Conn(c)
            <4>1. taken[Conn(c)] \in Nat /\ taken'[Conn(c)] \in {taken[Conn(c)], 1, taken[Conn(c)] + 1}
                BY <1>2, <2>1
                DEF Running, Connect, SendPart, Receive, SavePart, GiveUp, connVars
            <4> QED  BY <3>1, <4>1
        <3>2. CASE <<d, i>> # Conn(c)
            BY <1>0, <2>3, <3>2
        <3> QED  BY <3>1, <3>2
    <2>5. CASE d # c \/ n # serial[c]
        <3>1. <<d, n>> \in Connections \ {Conn(c)}
            BY <1>0, <2>2, <2>5
        <3>2. told[<<d, n>>] = "OK" /\ Downloaded(d, n)
            BY <2>1, <2>3, <3>1 DEF Downloaded, Newest
        <3>3. CASE file'[d] = file[d]
            BY <2>4, <3>2, <3>3, WholeKept DEF WholeInv
        <3>4. CASE file'[d] # file[d]
            <4>1. d = c
                BY <2>1, <3>4
            <4>2. CASE SavePart(c)
                BY <3>4, <4>1, <4>2 DEF SavePart, HistoryInv
            <4>3. CASE Receive(c)
                <5>1. op[Conn(c)] = "SAS" /\ taken'[Conn(c)] = 1
                    BY <2>1, <3>4, <4>1, <4>3 DEF Receive
                <5>2. Downloaded(c, serial[c])'
                    BY <2>1, <2>2, <5>1 DEF Downloaded
                <5>3. serial[c] <= n /\ n <= serial[c]
                    BY <1>0, <2>1, <2>2, <4>1, <5>2 DEF Newest, Downloaded
                <5> QED  BY <1>0, <2>2, <2>5, <4>1, <5>3
            <4> QED
                BY <1>2, <3>4, <4>2, <4>3 DEF Running, Connect, SendPart, GiveUp
        <3> QED  BY <3>3, <3>4
    <2>6. CASE d = c /\ n = serial[c]
        <3>1. op[Conn(c)] = "SAS" /\ taken'[Conn(c)] > 0 /\ told'[Conn(c)] = "OK" /\ told[Conn(c)] = None
            BY <2>1, <2>2, <2>6 DEF Downloaded, Newest
        <3>2. told' # told
            BY <1>0, <3>1
        <3>3. CASE SavePart(c)
            BY <2>6, <3>2, <3>3 DEF SavePart, HistoryInv
        <3>4. CASE Receive(c)
            <4>1. status[Conn(c)] # "OK"
                BY <3>1, <3>2, <3>4 DEF Receive
            <4>2. told'[Conn(c)] \in {status[Conn(c)], "exception"}
                BY <2>1, <3>1, <3>4, <4>1 DEF Receive, End
            <4> QED  BY <3>1, <4>1, <4>2
        <3>5. CASE GiveUp(c)
            BY <2>1, <3>1, <3>5 DEF GiveUp, End
        <3> QED
            BY <1>2, <3>2, <3>3, <3>4, <3>5 DEF Running, Connect, SendPart
    <2> QED  BY <2>5, <2>6
<1>3. CASE Killed \/ UNCHANGED vars \/ \E k \in Connections : Serving(k)
    <2>1. UNCHANGED <<serial, file, told, op, taken>>
        BY <1>3 DEF Killed, vars, Serving, GiveConnection, ReadPart, RefuseUpload, RequestFails, Execute,
                    ExecuteFails, Reply, ReplyFails, clientVars, connVars
    <2> QED  BY <2>1 DEF WholeInv, Newest, Downloaded
<1> QED  BY <1>1, <1>2, <1>3 DEF Next

(* A client that is told that its download succeeded has the whole asset, until
   the file is truncated for the next download of it. *)
THEOREM DownloadsAreWhole == Spec => []DownloadIsWhole
<1>1. Init => HistoryInv /\ WholeInv
    BY DEF Init, HistoryInv, OutcomeInv, Connections, WholeInv, Newest, Downloaded
<1>2. Inv /\ WholeInv => DownloadIsWhole
    <2> SUFFICES ASSUME Inv, WholeInv, NEW c \in Clients, NEW n \in 1..serial[c],
                        op[<<c, n>>] = "SAS", taken[<<c, n>>] > 0, told[<<c, n>>] = "OK",
                        \A m \in {i \in 1..serial[c] : op[<<c, i>>] = "SAS" /\ taken[<<c, i>>] > 0} : m <= n
                 PROVE  file[c] = "whole"
        BY DEF DownloadIsWhole
    <2>1. serial[c] \in 0..MaxCommands /\ n \in 1..MaxCommands
        BY TcpAssumption DEF Inv, TypeInv
    <2>2. Newest(c, n)
        BY <2>1 DEF Newest, Downloaded
    <2> QED  BY <2>1, <2>2 DEF WholeInv
<1> QED  BY Invariant, StepHistory, StepWhole, <1>1, <1>2, PTL DEF Spec
=============================================================================

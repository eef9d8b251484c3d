--------------------------- MODULE UdpExchangeProofs ---------------------------
(***************************************************************************)
(* Proofs about UdpExchange, for any clients, users and passwords, any     *)
(* number of tries, and datagrams that are lost, copied, overtaken or      *)
(* late.                                                                   *)
(***************************************************************************)
EXTENDS UdpExchange, TLAPS

Asking(c) == at[c] \in {"send", "wait"}

(* A datagram asks what its client asked then, and asks still if it has given
   no command since. *)
Asked(d) ==
    /\ d.from \in Clients /\ d.request \in Requests
    /\ d.serial \in Nat /\ d.serial <= serial[d.from]
    /\ d.serial = serial[d.from] /\ Asking(d.from) => d.request = running[d.from]

Account == [pw : Passwords \union {None}, in : BOOLEAN]
Registered == [Users -> Account]

TypeInv ==
    /\ at \in [Clients -> {"idle", "send", "wait", "exited"}]
    /\ running \in [Clients -> Requests \union {None}]
    /\ serial \in [Clients -> 0..MaxCommands]
    /\ mixed \in [Clients -> BOOLEAN]
    /\ session \in [Clients -> Credentials \union {None}]
    /\ granted \in [Clients -> SUBSET Credentials]
    /\ account \in Registered
    /\ executed \in [Users -> (Clients \X Nat) \union {None}]
    /\ \A c \in Clients : Asking(c) => running[c] \in Requests
    /\ \A d \in requests : Asked(d)
    /\ command # Server!NoCommand => Asked(source) /\ command = source.request
    /\ status # "none" => command # Server!NoCommand
    /\ \A d \in replies : d.to \in Clients /\ d.serial \in Nat /\ d.serial <= serial[d.to]

LEMMA RequestFields ==
    ASSUME NEW r \in Requests
    PROVE  /\ r.op \in AccountOps /\ r.uid \in Users /\ r.pw \in Passwords
           /\ r # Server!NoCommand
           /\ r = [op |-> r.op, uid |-> r.uid, pw |-> r.pw]
    BY DEF Requests, AccountOps, Server!NoCommand

(* What a command makes of its account. *)
LEMMA EffectType ==
    ASSUME account \in Registered, command \in Requests, Server!TakeEffect
    PROVE  account' \in Registered
<1> DEFINE acc == account[command.uid]
<1>1. command.uid \in Users /\ command.pw \in Passwords
    BY RequestFields
<1>2. acc \in Account /\ acc = [pw |-> acc.pw, in |-> acc.in]
    BY <1>1 DEF Registered, Account
<1>3. /\ [pw |-> command.pw, in |-> TRUE] \in Account
      /\ [acc EXCEPT !.in = TRUE] \in Account /\ [acc EXCEPT !.in = FALSE] \in Account
      /\ Server!Unregistered \in Account
    BY <1>1, <1>2 DEF Account, Server!Unregistered
<1>4. ASSUME NEW left \in Account, NEW result, Server!Accept(result, left)
      PROVE  account' \in Registered
    BY <1>1, <1>4 DEF Server!Accept, Registered
<1>5. ASSUME NEW reason, Server!Refuse(reason)  PROVE account' \in Registered
    BY <1>5 DEF Server!Refuse
<1>6. CASE Server!Login(acc)
    BY <1>3, <1>4, <1>5, <1>6 DEF Server!Login
<1>7. ASSUME NEW left \in Account, Server!Leave(acc, left)  PROVE account' \in Registered
    BY <1>4, <1>5, <1>7 DEF Server!Leave
<1> QED  BY <1>3, <1>6, <1>7 DEF Server!TakeEffect

(* What a datagram that arrives leaves behind. *)
LEMMA ArriveKeeps ==
    ASSUME NEW d, Arrive(d)
    PROVE  requests' \subseteq requests /\ UNCHANGED <<at, running, serial, mixed, replies>>
    BY DEF Arrive

LEMMA InitTypeInv == Init => TypeInv
    BY RetriesAssumption
    DEF Init, UdpInit, TypeInv, Registered, Account, Asking, Server!Init, Server!Unregistered

(* The steps of a client. *)
LEMMA ClientTypeInv ==
    ASSUME TypeInv, NEW c \in Clients, Command(c) \/ Exchange(c)
    PROVE  TypeInv'
<1> USE DEF TypeInv, Asked, Asking, serverVars
<1>1. ASSUME NEW r \in Requests, Ask(c, r)  PROVE TypeInv'
    <2>1. serial[c] + 1 \in 0..MaxCommands /\ serial[c] + 1 \in Nat
        BY <1>1, RetriesAssumption DEF Ask, Begin
    <2>2. serial' \in [Clients -> 0..MaxCommands]
        BY <1>1, <2>1 DEF Ask, Begin
    <2> QED  BY <1>1, <2>1, <2>2 DEF Ask, Begin, Goto
<1>2. ASSUME NEW op \in AccountOps, NEW cred \in Credentials  PROVE Request(op, cred) \in Requests
    BY DEF Request, Requests, Credentials
<1>3. CASE LoginCommand(c) \/ LogoutCommand(c) \/ UnregisterCommand(c)
    BY <1>1, <1>2, <1>3 DEF LoginCommand, LogoutCommand, UnregisterCommand, AccountOps
<1>4. CASE ExitCommand(c) \/ Quit(c)
    BY <1>4 DEF ExitCommand, Quit, Leave, End, Goto
<1>5. CASE SendUdpPacket(c) /\ UNCHANGED <<session, serverVars>>
    BY <1>5 DEF SendUdpPacket, Goto, Datagram
<1>6. CASE SendUdpPacketFails(c) /\ UNCHANGED <<session, serverVars>>
    BY <1>6 DEF SendUdpPacketFails, Prompt, End, Goto
<1>7. CASE (Timeout(c) \/ WaitForPacketFails(c)) /\ UNCHANGED <<session, serverVars>>
    BY <1>7 DEF Timeout, WaitForPacketFails, Prompt, End, Goto
<1>8. ASSUME NEW d \in replies, Take(c, d)  PROVE TypeInv'
    <2>1. running[c] \in Requests
        BY <1>8 DEF Take, WaitForPacket
    <2>2. After(c, d.status) \in Credentials \union {None}
        BY <2>1, RequestFields DEF After, AfterLogin, AfterLogout, AfterUnregister, Credentials
    <2>3. session' \in [Clients -> Credentials \union {None}]
        BY <1>8, <2>2 DEF Take
    <2> QED  BY <1>8, <2>3 DEF Take, WaitForPacket, Prompt, End, Goto
<1> QED  BY <1>3, <1>4, <1>5, <1>6, <1>7, <1>8 DEF Command, Exchange

(* The steps of the server. *)
LEMMA ServerTypeInv ==
    ASSUME TypeInv, (\E d \in requests : ReceivePacket(d)) \/ HandlePacket \/ SendReply
    PROVE  TypeInv'
<1> USE DEF TypeInv, Asked, Asking
<1>1. ASSUME NEW d \in requests, ReceivePacket(d)  PROVE TypeInv'
    BY <1>1, ArriveKeeps, RequestFields DEF ReceivePacket, Server!Call
<1>2. CASE HandlePacket
    <2>1. /\ command # Server!NoCommand /\ command \in Requests
          /\ command.uid \in Users /\ command.pw \in Passwords
        BY <1>2, RequestFields DEF HandlePacket, Server!TakeEffect
    <2>2. account' \in Registered
        BY <1>2, <2>1, EffectType DEF HandlePacket
    <2>3. executed' \in [Users -> (Clients \X Nat) \union {None}]
        BY <1>2, <2>1 DEF HandlePacket
    <2> QED  BY <1>2, <2>1, <2>2, <2>3 DEF HandlePacket, Server!TakeEffect, udpVars
<1>3. CASE SendReply
    <2>1. command # Server!NoCommand /\ command \in Requests /\ source.from \in Clients
        BY <1>3 DEF SendReply, Server!Return
    <2>2. granted' \in [Clients -> SUBSET Credentials]
        BY <1>3, <2>1, RequestFields DEF SendReply, Credentials
    <2>3. \A d \in replies' : d \in replies \/ (d.to = source.from /\ d.serial = source.serial)
        BY <1>3 DEF SendReply, ReplyTo
    <2> QED  BY <1>3, <2>1, <2>2, <2>3 DEF SendReply, Server!Return
<1> QED  BY <1>1, <1>2, <1>3

LEMMA NextTypeInv == TypeInv /\ [Next]_vars => TypeInv'
<1> SUFFICES ASSUME TypeInv, [Next]_vars  PROVE TypeInv'
    OBVIOUS
<1>1. CASE UNCHANGED vars
    BY <1>1 DEF TypeInv, Asked, Asking, vars, udpVars, serverVars
<1> QED  BY <1>1, ClientTypeInv, ServerTypeInv DEF Next

-----------------------------------------------------------------------------
(* Sessions. *)

Given(c) == [uid |-> running[c].uid, pw |-> running[c].pw]

(* A reply that grants a login and carries the serial of a command that still
   runs was granted to that command. *)
Granting(d) ==
    d.serial = serial[d.to] /\ Asking(d.to) /\ d.op = "LIN" /\ d.status \in {"OK", "REG"} =>
        Given(d.to) \in granted[d.to]

SessionInv == SessionWasGranted /\ \A d \in replies : Granting(d)

LEMMA ClientSessionInv ==
    ASSUME TypeInv, SessionInv, NEW c \in Clients, Command(c) \/ Exchange(c)
    PROVE  SessionInv'
<1> USE DEF SessionInv, SessionWasGranted, Granting, Given, serverVars
<1>1. ASSUME NEW r, Ask(c, r)  PROVE SessionInv'
    BY <1>1 DEF Ask, Begin, Goto, Asking, TypeInv
<1>2. CASE LoginCommand(c) \/ LogoutCommand(c) \/ UnregisterCommand(c)
    BY <1>1, <1>2 DEF LoginCommand, LogoutCommand, UnregisterCommand
<1>3. CASE ExitCommand(c) \/ Quit(c)
    BY <1>3 DEF ExitCommand, Quit, Leave, End, Goto, Asking, TypeInv
<1>4. CASE /\ UNCHANGED <<session, serverVars>>
           /\ SendUdpPacket(c) \/ SendUdpPacketFails(c) \/ Timeout(c) \/ WaitForPacketFails(c)
    BY <1>4 DEF SendUdpPacket, SendUdpPacketFails, Timeout, WaitForPacketFails, Prompt, End, Goto,
                Asking, TypeInv
<1>5. ASSUME NEW d \in replies, Take(c, d)  PROVE SessionInv'
    <2>1. /\ at[c] = "wait" /\ d.to = c /\ running[c] \in Requests
          /\ replies' \subseteq replies /\ UNCHANGED <<serial, granted>>
          /\ at' = [at EXCEPT ![c] = "idle"] /\ running' = [running EXCEPT ![c] = None]
          /\ mixed' = [mixed EXCEPT ![c] = @ \/ d.serial # serial[c]]
          /\ session' = [session EXCEPT ![c] = IF d.op = running[c].op THEN After(c, d.status) ELSE @]
        BY <1>5 DEF Take, WaitForPacket, Prompt, End, Goto, TypeInv, Asking
    <2>2. \A e \in replies' : Granting(e)'
        BY <2>1 DEF TypeInv, Asking
    <2>3. ASSUME session'[c] # None, ~mixed'[c]  PROVE session'[c] \in granted[c]
        <3>1. ~mixed[c] /\ d.serial = serial[c]
            BY <2>1, <2>3 DEF TypeInv
        <3>2. session'[c] = session[c] \/ (session'[c] = Given(c) /\ d.op = "LIN"
                                           /\ d.status \in {"OK", "REG"})
            BY <2>1, <2>3 DEF TypeInv, After, AfterLogin, AfterLogout, AfterUnregister
        <3>3. CASE session'[c] = session[c]
            BY <2>3, <3>1, <3>3
        <3>4. CASE session'[c] # session[c]
            BY <2>1, <3>1, <3>2, <3>4 DEF Asking
        <3> QED  BY <3>3, <3>4
    <2>4. \A u \in Clients \ {c} : session'[u] = session[u] /\ mixed'[u] = mixed[u]
        BY <2>1 DEF TypeInv
    <2>5. SessionWasGranted'
        BY <2>1, <2>3, <2>4
    <2> QED  BY <2>2, <2>5
<1> QED  BY <1>2, <1>3, <1>4, <1>5 DEF Command, Exchange

LEMMA NextSessionInv == TypeInv /\ SessionInv /\ [Next]_vars => SessionInv'
<1> SUFFICES ASSUME TypeInv, SessionInv, [Next]_vars  PROVE SessionInv'
    OBVIOUS
<1> USE DEF SessionInv, SessionWasGranted, Granting, Given, Asking
<1>1. CASE UNCHANGED vars \/ HandlePacket \/ \E d \in requests : ReceivePacket(d)
    <2>1. UNCHANGED <<at, running, serial, mixed, session, granted, replies>>
        BY <1>1, ArriveKeeps DEF vars, udpVars, serverVars, HandlePacket, ReceivePacket
    <2> QED  BY <2>1
<1>2. CASE SendReply
    <2>1. /\ command # Server!NoCommand /\ Asked(source) /\ command = source.request
          /\ replies' = replies \union {ReplyTo(source, status, None)}
          /\ UNCHANGED <<at, running, serial, mixed, session>>
        BY <1>2 DEF SendReply, Server!Return, TypeInv
    <2>2. \A c \in Clients : granted[c] \subseteq granted'[c]
        BY <1>2, <2>1 DEF SendReply, TypeInv
    <2>3. \A d \in replies : Granting(d)'
        BY <2>1, <2>2 DEF TypeInv
    <2>4. ASSUME NEW d, d = ReplyTo(source, status, None)  PROVE Granting(d)'
        <3> SUFFICES ASSUME d.serial = serial[d.to], at[d.to] \in {"send", "wait"}, d.op = "LIN",
                            d.status \in {"OK", "REG"}
                     PROVE  [uid |-> running[d.to].uid, pw |-> running[d.to].pw] \in granted'[d.to]
            BY <2>1
        <3>1. d.to = source.from /\ d.serial = source.serial /\ command.op = "LIN"
            BY <2>1, <2>4 DEF ReplyTo
        <3>2. status \in {"OK", "REG"}
            BY <2>4 DEF ReplyTo, Sent, ErrorPacket
        <3>3. running[d.to] = command
            BY <2>1, <3>1 DEF Asked
        <3>4. [uid |-> command.uid, pw |-> command.pw] \in granted'[source.from]
            BY <1>2, <2>1, <3>1, <3>2 DEF SendReply, TypeInv, Asked
        <3> QED  BY <3>1, <3>3, <3>4
    <2>5. SessionWasGranted'
        BY <2>1, <2>2
    <2> QED  BY <2>1, <2>3, <2>4, <2>5
<1> QED  BY <1>1, <1>2, ClientSessionInv DEF Next

(* A client believes only in sessions the server granted it, however late the
   replies are, unless it took a reply for that of another command. *)
THEOREM SessionsWereGranted == Spec => []SessionWasGranted
<1>1. Init => SessionInv
    BY DEF Init, UdpInit, SessionInv, SessionWasGranted
<1>2. SessionInv => SessionWasGranted
    BY DEF SessionInv
<1> QED  BY InitTypeInv, NextTypeInv, NextSessionInv, <1>1, <1>2, PTL DEF Spec

-----------------------------------------------------------------------------
(* Retries. *)

(* To execute r changes nothing. *)
Settled(r) ==
    IF r.op = "LIN"
    THEN account[r.uid].pw # None /\ (account[r.uid].pw = r.pw => account[r.uid].in)
    ELSE account[r.uid].pw = None \/ ~account[r.uid].in \/ account[r.uid].pw # r.pw

(* A command that was the last to be executed on its account is settled: the
   copies of its datagram may come. *)
Harmless(r, c, n) == executed[r.uid] = <<c, n>> => Settled(r)

(* The datagrams of one command are copies. *)
Copies(d, e) == d.from = e.from /\ d.serial = e.serial => d.request = e.request

RetryInv ==
    /\ \A d, e \in requests : Copies(d, e)
    /\ \A d \in requests : Harmless(d.request, d.from, d.serial)
    /\ command # Server!NoCommand =>
          /\ Harmless(command, source.from, source.serial)
          /\ \A d \in requests : Copies(d, source)
    /\ \A c \in Clients : Asking(c) => Harmless(running[c], c, serial[c])
    /\ \A u \in Users, c \in Clients, n \in 1..MaxCommands :
          executed[u] = <<c, n>> => n <= serial[c]

LEMMA ClientRetryInv ==
    ASSUME TypeInv, TypeInv', RetryInv, NEW c \in Clients, Command(c) \/ Exchange(c)
    PROVE  RetryInv'
<1> USE DEF RetryInv, Copies, Harmless, Settled, serverVars
<1>1. ASSUME NEW r \in Requests, Ask(c, r)  PROVE RetryInv'
    <2>1. /\ serial' = [serial EXCEPT ![c] = @ + 1] /\ running' = [running EXCEPT ![c] = r]
          /\ at' = [at EXCEPT ![c] = "send"]
          /\ UNCHANGED <<requests, account, command, source, executed>>
        BY <1>1 DEF Ask, Begin, Goto
    <2>2. r.uid \in Users /\ executed[r.uid] # <<c, serial[c] + 1>>
        <3>1. r.uid \in Users /\ serial[c] \in 0..MaxCommands /\ serial[c] < MaxCommands
            BY <1>1, RequestFields DEF TypeInv, Ask, Begin
        <3>2. serial[c] + 1 \in 1..MaxCommands /\ ~(serial[c] + 1 <= serial[c])
            BY <3>1, RetriesAssumption
        <3> QED  BY <3>1, <3>2
    <2>3. ASSUME NEW u \in Clients, Asking(u)'  PROVE Harmless(running[u], u, serial[u])'
        <3>1. CASE u = c
            <4>1. running'[u] = r /\ serial'[u] = serial[c] + 1
                BY <2>1, <3>1 DEF TypeInv
            <4> QED  BY <2>1, <2>2, <3>1, <4>1
        <3>2. CASE u # c
            <4>1. running'[u] = running[u] /\ serial'[u] = serial[u] /\ Asking(u)
                BY <2>1, <2>3, <3>2 DEF TypeInv, Asking
            <4> QED  BY <2>1, <4>1
        <3> QED  BY <3>1, <3>2
    <2>4. \A u \in Users, k \in Clients, n \in 1..MaxCommands :
              executed'[u] = <<k, n>> => n <= serial'[k]
        BY <2>1 DEF TypeInv
    <2> QED  BY <2>1, <2>3, <2>4
<1>2. ASSUME NEW op \in AccountOps, NEW cred \in Credentials  PROVE Request(op, cred) \in Requests
    BY DEF Request, Requests, Credentials
<1>3. CASE LoginCommand(c) \/ LogoutCommand(c) \/ UnregisterCommand(c)
    BY <1>1, <1>2, <1>3 DEF LoginCommand, LogoutCommand, UnregisterCommand, AccountOps, TypeInv
<1>4. CASE SendUdpPacket(c) /\ UNCHANGED <<session, serverVars>>
    <2>1. /\ at[c] = "send" /\ at' = [at EXCEPT ![c] = "wait"]
          /\ requests' = requests \union {Datagram(c)}
          /\ UNCHANGED <<running, serial, account, command, source, executed>>
        BY <1>4 DEF SendUdpPacket, Goto
    <2>2. Datagram(c).from = c /\ Datagram(c).serial = serial[c] /\ Datagram(c).request = running[c]
        BY DEF Datagram
    <2>3. Asking(c) /\ \A u \in Clients : Asking(u)' => Asking(u)
        BY <2>1 DEF Asking, TypeInv
    <2>4. \A d \in requests : Copies(d, Datagram(c)) /\ Copies(Datagram(c), d)
        BY <2>2, <2>3 DEF TypeInv, Asked
    <2>5. command # Server!NoCommand => Copies(Datagram(c), source)
        BY <2>2, <2>3 DEF TypeInv, Asked
    <2> QED  BY <2>1, <2>2, <2>3, <2>4, <2>5
<1>5. ASSUME UNCHANGED <<requests, serial, account, command, source, executed>>,
             \A u \in Clients : Asking(u)' => Asking(u) /\ running'[u] = running[u]
      PROVE  RetryInv'
    BY <1>5
<1>6. CASE ExitCommand(c) \/ Quit(c)
    BY <1>5, <1>6 DEF ExitCommand, Quit, Leave, End, Goto, Asking, TypeInv
<1>7. CASE /\ SendUdpPacketFails(c) \/ Timeout(c) \/ WaitForPacketFails(c)
           /\ UNCHANGED <<session, serverVars>>
    BY <1>5, <1>7 DEF SendUdpPacketFails, Timeout, WaitForPacketFails, Prompt, End, Goto, Asking,
                      TypeInv
<1>8. ASSUME NEW d \in replies, Take(c, d)  PROVE RetryInv'
    BY <1>5, <1>8 DEF Take, WaitForPacket, Prompt, End, Goto, Asking, TypeInv
<1> QED  BY <1>3, <1>4, <1>6, <1>7, <1>8 DEF Command, Exchange

(* A command that has taken effect is settled, and a settled one changes
   nothing. *)
LEMMA EffectSettles ==
    ASSUME TypeInv, Server!TakeEffect
    PROVE  /\ \A u \in Users \ {command.uid} : account'[u] = account[u]
           /\ Settled(command)'
           /\ Settled(command) => UNCHANGED account
<1> DEFINE acc == account[command.uid]
<1>1. command \in Requests /\ command' = command
    BY DEF Server!TakeEffect, TypeInv, Asked
<1>2. command.uid \in Users /\ command.pw \in Passwords /\ command.op \in AccountOps
    BY <1>1, RequestFields
<1>3. acc \in Account /\ acc = [pw |-> acc.pw, in |-> acc.in] /\ None \notin Passwords
    BY <1>2, ExchangeAssumption DEF TypeInv, Registered, Account
<1>4. \A result, left : Server!Accept(result, left) =>
          /\ \A u \in Users \ {command.uid} : account'[u] = account[u]
          /\ account'[command.uid] = left
          /\ left = acc => UNCHANGED account
    BY <1>2 DEF Server!Accept, TypeInv, Registered
<1>5. \A reason : Server!Refuse(reason) => UNCHANGED account
    BY DEF Server!Refuse
<1>6. CASE command.op = "LIN"
    <2>1. Server!Login(acc)
        BY <1>6 DEF Server!TakeEffect
    <2>2. CASE acc.pw = None
        <3>1. Server!Accept("REG", [pw |-> command.pw, in |-> TRUE])
            BY <2>1, <2>2, <1>2, <1>3 DEF Server!Login
        <3> QED  BY <1>1, <1>2, <1>3, <1>4, <1>6, <2>2, <3>1 DEF Settled
    <2>3. CASE acc.pw # None /\ acc.pw = command.pw
        <3>1. Server!Accept("OK", [acc EXCEPT !.in = TRUE])
            BY <2>1, <2>3 DEF Server!Login
        <3>2. /\ [acc EXCEPT !.in = TRUE].pw = acc.pw /\ [acc EXCEPT !.in = TRUE].in
            BY <1>3 DEF Account
        <3>3. acc.in => [acc EXCEPT !.in = TRUE] = acc
            BY <1>3, <3>2 DEF Account
        <3> QED  BY <1>1, <1>2, <1>3, <1>4, <1>6, <2>3, <3>1, <3>2, <3>3 DEF Settled
    <2>4. CASE acc.pw # None /\ acc.pw # command.pw
        <3>1. Server!Refuse("NOK")
            BY <2>1, <2>4 DEF Server!Login
        <3> QED  BY <1>1, <1>5, <1>6, <2>4, <3>1 DEF Settled
    <2> QED  BY <2>2, <2>3, <2>4
<1>7. CASE command.op # "LIN"
    <2>1. PICK left \in {[acc EXCEPT !.in = FALSE], Server!Unregistered} : Server!Leave(acc, left)
        BY <1>7 DEF Server!TakeEffect
    <2>2. ~left.in
        BY <1>3 DEF Server!Unregistered
    <2>3. CASE acc.pw = None \/ ~acc.in \/ acc.pw # command.pw
        <3>1. \E reason : Server!Refuse(reason)
            BY <1>3, <2>1, <2>3 DEF Server!Leave, Account
        <3> QED  BY <1>1, <1>5, <1>7, <2>3, <3>1 DEF Settled
    <2>4. CASE ~(acc.pw = None \/ ~acc.in \/ acc.pw # command.pw)
        <3>1. Server!Accept("OK", left)
            BY <2>1, <2>4 DEF Server!Leave
        <3> QED  BY <1>1, <1>2, <1>4, <1>7, <2>2, <2>4, <3>1 DEF Settled
    <2> QED  BY <2>3, <2>4
<1> QED  BY <1>6, <1>7

LEMMA HandleRetryInv ==
    ASSUME TypeInv, RetryInv, HandlePacket
    PROVE  RetryInv'
<1>1. /\ command # Server!NoCommand /\ command \in Requests /\ command.uid \in Users
      /\ command = source.request /\ source.from \in Clients /\ Asked(source)
      /\ Server!TakeEffect
      /\ executed' = [executed EXCEPT ![command.uid] = <<source.from, source.serial>>]
      /\ UNCHANGED <<at, running, serial, requests, command, source>>
    BY RequestFields DEF HandlePacket, Server!TakeEffect, TypeInv, Asked, udpVars
<1>2. \A u \in Users \ {command.uid} : executed'[u] = executed[u] /\ account'[u] = account[u]
    BY <1>1, EffectSettles DEF TypeInv
<1>3. ASSUME NEW r \in Requests, NEW c, NEW n, Harmless(r, c, n),
             c = source.from /\ n = source.serial => r = command
      PROVE  Harmless(r, c, n)'
    <2>1. CASE r.uid # command.uid
        BY <1>2, <1>3, <2>1, RequestFields DEF Harmless, Settled
    <2>2. CASE r.uid = command.uid
        <3> SUFFICES ASSUME executed'[r.uid] = <<c, n>>  PROVE Settled(r)'
            BY DEF Harmless
        <3>1. executed'[r.uid] = <<source.from, source.serial>>
            BY <1>1, <2>2 DEF TypeInv
        <3>2. r = command
            BY <1>3, <3>1
        <3> QED  BY <1>1, <3>2, EffectSettles DEF Settled
    <2> QED  BY <2>1, <2>2
<1>4. \A d \in requests : Harmless(d.request, d.from, d.serial)'
    BY <1>1, <1>3 DEF RetryInv, Copies, TypeInv, Asked
<1>5. Harmless(command, source.from, source.serial)'
    BY <1>1, <1>3 DEF RetryInv
<1>6. \A c \in Clients : Asking(c) => Harmless(running[c], c, serial[c])'
    BY <1>1, <1>3 DEF RetryInv, TypeInv, Asked
<1>7. \A u \in Users, c \in Clients, n \in 1..MaxCommands :
          executed'[u] = <<c, n>> => n <= serial[c]
    <2>1. executed'[command.uid] = <<source.from, source.serial>>
        BY <1>1 DEF TypeInv
    <2>2. source.serial <= serial[source.from]
        BY <1>1 DEF Asked
    <2> QED  BY <1>2, <2>1, <2>2 DEF RetryInv
<1>8. /\ Harmless(command, source.from, source.serial)' =
            (executed'[command.uid] = <<source.from, source.serial>> => Settled(command)')
      /\ \A c \in Clients : Asking(c)' = Asking(c)
    BY <1>1 DEF Harmless, Settled, Asking
<1> QED  BY <1>1, <1>4, <1>5, <1>6, <1>7, <1>8 DEF RetryInv, Copies, Harmless, Settled

LEMMA NextRetryInv == TypeInv /\ TypeInv' /\ RetryInv /\ [Next]_vars => RetryInv'
<1> SUFFICES ASSUME TypeInv, TypeInv', RetryInv, [Next]_vars  PROVE RetryInv'
    OBVIOUS
<1> USE DEF RetryInv, Copies, Harmless, Settled
<1>1. CASE UNCHANGED vars
    BY <1>1 DEF vars, udpVars, serverVars, Asking
<1>2. ASSUME NEW d \in requests, ReceivePacket(d)  PROVE RetryInv'
    <2>1. /\ requests' \subseteq requests /\ command' = d.request /\ source' = d
          /\ UNCHANGED <<at, running, serial, account, executed>>
        BY <1>2, ArriveKeeps DEF ReceivePacket, Server!Call
    <2> QED  BY <2>1 DEF Asking
<1>3. CASE SendReply
    <2>1. /\ command' = Server!NoCommand
          /\ UNCHANGED <<at, running, serial, requests, account, executed>>
        BY <1>3 DEF SendReply, Server!Return
    <2> QED  BY <2>1 DEF Asking, Server!NoCommand
<1> QED  BY <1>1, <1>2, <1>3, ClientRetryInv, HandleRetryInv DEF Next

(* A command whose datagram was sent again, or overtaken, and is executed
   again changes nothing unless another command on the account came between. *)
THEOREM RepetitionsAreHarmless == Spec => RetriesAreHarmless
<1>1. Init => RetryInv
    <2> SUFFICES ASSUME Init  PROVE RetryInv
        OBVIOUS
    <2>1. \A u \in Users, c \in Clients, n \in 1..MaxCommands : executed[u] # <<c, n>>
        BY ExchangeAssumption DEF Init
    <2> QED  BY <2>1 DEF Init, UdpInit, RetryInv, Server!Init, Asking
<1>2. ASSUME TypeInv, RetryInv, Next
      PROVE  status = "none" /\ status' # "none"
             /\ executed[command.uid] = <<source.from, source.serial>> => UNCHANGED account
    <2> SUFFICES ASSUME status = "none", status' # "none",
                        executed[command.uid] = <<source.from, source.serial>>
                 PROVE  UNCHANGED account
        OBVIOUS
    <2>1. HandlePacket
        BY <1>2 DEF Next, Command, LoginCommand, LogoutCommand, UnregisterCommand, ExitCommand, Quit,
                    Ask, Exchange, Take, serverVars, ReceivePacket, SendReply, Server!Call, Server!Return
    <2>2. Server!TakeEffect /\ command # Server!NoCommand
        BY <2>1 DEF HandlePacket, Server!TakeEffect
    <2>3. Settled(command)
        BY <1>2, <2>2 DEF RetryInv, Harmless
    <2> QED  BY <1>2, <2>2, <2>3, EffectSettles
<1>3. TypeInv /\ RetryInv /\ [Next]_vars =>
          [status = "none" /\ status' # "none"
           /\ executed[command.uid] = <<source.from, source.serial>> => UNCHANGED account]_vars
    BY <1>2
<1> QED  BY InitTypeInv, NextTypeInv, NextRetryInv, <1>1, <1>3, PTL DEF Spec, RetriesAreHarmless
=============================================================================

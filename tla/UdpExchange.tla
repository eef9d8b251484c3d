----------------------------- MODULE UdpExchange ------------------------------
(***************************************************************************)
(* The account commands of the user application: login, logout, unregister *)
(* and exit, the session the application keeps, and the exchanges with the *)
(* server they make (UdpRetries).                                          *)
(*                                                                         *)
(* The server handles one datagram at a time, as Accounts says, and is not *)
(* killed; that UserManager implements Accounts is checked with            *)
(* UserManager.                                                            *)
(***************************************************************************)
EXTENDS UdpRetries

CONSTANTS Users, Passwords

ASSUME ExchangeAssumption ==
    None \notin Passwords /\ None \notin Clients \X (1..MaxCommands)

AccountOps == {"LIN", "LOU", "UNR"}
Requests == [op : AccountOps, uid : Users, pw : Passwords]
Credentials == [uid : Users, pw : Passwords]

VARIABLES
    session,        \* UserState::userID and password, or None
    account, command, status,   \* the server, see Accounts
    source,         \* the datagram the server is handling
    granted,        \* history: the credentials the server granted to each client
    executed        \* history: the last command executed on each account

serverVars == <<account, command, status, source, granted, executed>>
vars == <<udpVars, session, serverVars>>

Server == INSTANCE Accounts WITH
    NoPassword <- None, CommandRequests <- Requests, Broken <- "broken"

-----------------------------------------------------------------------------
(* Commands. *)

Request(op, cred) == [op |-> op, uid |-> cred.uid, pw |-> cred.pw]
Ask(c, r) == Begin(c, r) /\ UNCHANGED <<session, serverVars>>

(* Whether or not the client has a session. *)
LoginCommand(c) == \E cred \in Credentials : Ask(c, Request("LIN", cred))

LogoutCommand(c) == session[c] # None /\ Ask(c, Request("LOU", session[c]))

UnregisterCommand(c) == session[c] # None /\ Ask(c, Request("UNR", session[c]))

ExitCommand(c) ==
    at[c] = "idle" /\ session[c] = None /\ Leave(c) /\ UNCHANGED <<session, serverVars>>

(* What the application knew of its session is gone with it. *)
Quit(c) ==
    /\ at[c] # "exited" /\ Leave(c)
    /\ session' = [session EXCEPT ![c] = None]
    /\ UNCHANGED serverVars

(* Mutant: the session is set whatever the answer. *)
AfterLoginAlways(c, s) == [uid |-> running[c].uid, pw |-> running[c].pw]

(* What a reply to the command makes of the session. *)
AfterLogin(c, s) ==
    IF s \in {"OK", "REG"} THEN [uid |-> running[c].uid, pw |-> running[c].pw] ELSE session[c]
AfterLogout(c, s) == IF s = "OK" THEN None ELSE session[c]
AfterUnregister(c, s) == IF s = "OK" THEN None ELSE session[c]

After(c, s) ==
    CASE running[c].op = "LIN" -> AfterLogin(c, s)
      [] running[c].op = "LOU" -> AfterLogout(c, s)
      [] OTHER -> AfterUnregister(c, s)

(* The end of a command: what the datagram taken for its reply makes of the
   session. *)
Take(c, d) ==
    /\ WaitForPacket(c, d)
    /\ session' = [session EXCEPT ![c] = IF d.op = running[c].op THEN After(c, d.status) ELSE @]
    /\ UNCHANGED serverVars

-----------------------------------------------------------------------------
(* The server: wait_for_udp_packet and the handlers. *)

ReceivePacket(d) ==
    /\ Server!Call
    /\ command' = d.request /\ source' = d
    /\ Arrive(d)
    /\ UNCHANGED <<session, granted, executed>>

HandlePacket ==
    /\ Server!TakeEffect
    /\ executed' = [executed EXCEPT ![command.uid] = <<source.from, source.serial>>]
    /\ UNCHANGED <<udpVars, session, source, granted>>

SendReply ==
    /\ Server!Return
    /\ replies' = replies \union {ReplyTo(source, status, None)}
    /\ granted' = IF command.op = "LIN" /\ status \in {"OK", "REG"}
                  THEN [granted EXCEPT ![source.from] =
                            @ \union {[uid |-> command.uid, pw |-> command.pw]}]
                  ELSE granted
    /\ source' = None
    /\ UNCHANGED <<at, running, triesLeft, serial, mixed, leftover, requests, session, executed>>

-----------------------------------------------------------------------------
Init ==
    /\ UdpInit
    /\ session = [c \in Clients |-> None]
    /\ Server!Init /\ source = None
    /\ granted = [c \in Clients |-> {}]
    /\ executed = [u \in Users |-> None]

Command(c) ==
    LoginCommand(c) \/ LogoutCommand(c) \/ UnregisterCommand(c) \/ ExitCommand(c) \/ Quit(c)

Exchange(c) ==
    \/ SendUdpPacket(c) /\ UNCHANGED <<session, serverVars>>
    \/ SendUdpPacketFails(c) /\ UNCHANGED <<session, serverVars>>
    \/ Timeout(c) /\ UNCHANGED <<session, serverVars>>
    \/ WaitForPacketFails(c) /\ UNCHANGED <<session, serverVars>>
    \/ \E d \in replies : Take(c, d)

Next ==
    \/ \E c \in Clients : Command(c) \/ Exchange(c)
    \/ \E d \in requests : ReceivePacket(d)
    \/ HandlePacket \/ SendReply

Spec == Init /\ [][Next]_vars

(* The client runs, and select returns after its timeout at the latest. *)
FairSpec == Spec /\ \A c \in Clients : WF_vars(Exchange(c))

-----------------------------------------------------------------------------
(* Properties. *)

(* A client believes in a session only if the server granted it to this client,
   unless it took a reply to an earlier command for the reply to the last
   one. *)
SessionWasGranted ==
    \A c \in Clients : session[c] # None /\ ~mixed[c] => session[c] \in granted[c]

(* A retry is harmless to the account: when the same command is executed again,
   with no other command on the account in between, it changes nothing. *)
RetriesAreHarmless ==
    [][status = "none" /\ status' # "none"
       /\ executed[command.uid] = <<source.from, source.serial>>
          => UNCHANGED account]_vars
=============================================================================

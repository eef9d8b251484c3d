-------------------------- MODULE UserManagerProofs --------------------------
(***************************************************************************)
(* Proofs about UserManager and CredentialHistory, for any users,          *)
(* passwords, workers and requests, with the process killed and started    *)
(* again at any moment.                                                    *)
(***************************************************************************)
EXTENDS CredentialHistory, ProtocolProofs, TLAPS

(* A thread that is not idle serves a request of its own socket. *)
OwnSocket ==
    \A t \in Threads : pc[t] # "idle" =>
        req[t] \in IF t = Udp THEN UdpRequests ELSE TcpRequests

TypeInv == TypeOK /\ OwnSocket

LEMMA RequestsAreNotNone ==
    ASSUME NEW r \in Requests
    PROVE  r # NoRequest
<1>1. r.op \in Ops
    BY RequestsAssumption DEF Requests, Ops
<1> QED  BY <1>1 DEF Ops, UdpOps, TcpOps, NoRequest

(* Only the main thread serves account commands. *)
LEMMA AccountOpsAreUdp ==
    ASSUME TypeInv, NEW t \in Threads, pc[t] # "idle", Op(t) \in AccountOps
    PROVE  t = Udp
<1>1. CASE t # Udp
    <2>1. req[t] \in TcpRequests
        BY <1>1 DEF TypeInv, OwnSocket
    <2>2. Op(t) \in TcpOps
        BY <2>1, RequestsAssumption DEF Op
    <2> QED  BY <2>2 DEF TcpOps, AccountOps
<1> QED  BY <1>1

LEMMA InitTypeInv == Init => TypeInv
    BY DEF Init, TypeInv, TypeOK, OwnSocket, UdpLabels

FilesTyped ==
    /\ passFile \in [Users -> Passwords \union {NoFile, EmptyFile}]
    /\ loginFile \in [Users -> BOOLEAN]

WorkLabels == AuthLabels \union UdpLabels \union {"authorized"}

(* What a thread at work may do next: go on with another file operation, *)
LEMMA GotoTypeInv ==
    ASSUME TypeInv, FilesTyped', NEW t \in Threads, pc[t] \in WorkLabels,
           NEW label \in WorkLabels, Goto(t, label),
           label \in UdpLabels => t = Udp /\ Op(t) \in AccountOps
    PROVE  TypeInv'
<1> USE DEF TypeInv, Goto, WorkLabels
<1>1. pc[t] # "idle" /\ pc[t] # "send" /\ label # "idle" /\ label # "send"
    BY DEF AuthLabels, UdpLabels
<1>2. TypeOK'
    BY <1>1 DEF TypeOK, FilesTyped, Op
<1>3. OwnSocket'
    BY <1>1 DEF OwnSocket, TypeOK
<1> QED  BY <1>2, <1>3

(* or set the status of its reply. *)
LEMMA AnswerTypeInv ==
    ASSUME TypeInv, FilesTyped', NEW t \in Threads, pc[t] \in WorkLabels,
           NEW status, Answer(t, status)
    PROVE  TypeInv'
<1> USE DEF TypeInv, WorkLabels
<1>1. pc[t] # "idle" /\ pc[t] # "send"
    BY DEF AuthLabels, UdpLabels
<1>2. Sent(Op(t), status) \in Statuses /\ Sent(Op(t), status) # "none"
    BY SentIsStatus, StatusesAreNotNone
<1>3. TypeOK'
    BY <1>1, <1>2 DEF TypeOK, FilesTyped, Answer, Op, UdpLabels
<1>4. OwnSocket'
    BY <1>1 DEF OwnSocket, TypeOK, Answer
<1> QED  BY <1>3, <1>4

(* A thread at work serves a request of a known user. *)
LEMMA RequestFields ==
    ASSUME TypeInv, NEW t \in Threads, pc[t] # "idle"
    PROVE  req[t] \in Requests /\ Uid(t) \in Users /\ req[t].pw \in Passwords
<1>1. req[t] \in Requests
    BY DEF TypeInv, TypeOK
<1> QED  BY <1>1, RequestsAssumption DEF Uid

LEMMA NextTypeInv == TypeInv /\ [Next]_vars => TypeInv'
<1> SUFFICES ASSUME TypeInv, [Next]_vars  PROVE TypeInv'
    OBVIOUS
<1> USE DEF WorkLabels, AuthLabels, UdpLabels, At
<1>0. FilesTyped
    BY DEF TypeInv, TypeOK, FilesTyped
<1>1. ASSUME NEW t \in Threads, NEW r \in Requests, Receive(t, r)  PROVE TypeInv'
    <2>1. pc[t] = "idle" /\ reply[t] = "none" /\ r # NoRequest
        BY <1>1, RequestsAreNotNone DEF Receive, TypeInv, TypeOK
    <2>2. FirstStep(r) \in AuthLabels \union {"authorized"}
        BY DEF FirstStep
    <2>3. TypeOK'
        BY <1>1, <2>1, <2>2 DEF TypeInv, TypeOK, Receive, files, Op
    <2>4. OwnSocket'
        BY <1>1, <2>2 DEF TypeInv, TypeOK, OwnSocket, Receive
    <2> QED  BY <2>3, <2>4 DEF TypeInv
<1>2. ASSUME NEW t \in Threads, UserExists(t)  PROVE TypeInv'
    <2>1. FilesTyped'
        BY <1>0, <1>2 DEF UserExists, files, FilesTyped
    <2>2. pc[t] \in WorkLabels /\ pc[t] # "idle"
        BY <1>2 DEF UserExists
    <2>3. CASE Op(t) \in AccountOps
        <3>1. t = Udp
            BY <2>2, <2>3, AccountOpsAreUdp
        <3>2. \/ \E label \in {"login", "createPass", "isUserLoggedIn"} : Goto(t, label)
              \/ Answer(t, "UNR")
            BY <1>2, <2>3 DEF UserExists, AccountOps
        <3> QED  BY <2>1, <2>2, <2>3, <3>1, <3>2, GotoTypeInv, AnswerTypeInv
    <2>4. CASE Op(t) \notin AccountOps
        <3>1. Goto(t, "getUserPassword") \/ Answer(t, Caught(Op(t), "InvalidCredentials"))
            BY <1>2, <2>4 DEF UserExists, AccountOps, Throw
        <3> QED  BY <2>1, <2>2, <3>1, GotoTypeInv, AnswerTypeInv
    <2> QED  BY <2>3, <2>4
<1>3. ASSUME NEW t \in Threads, GetUserPassword(t)  PROVE TypeInv'
    <2>1. FilesTyped' /\ pc[t] \in WorkLabels
        BY <1>0, <1>3 DEF GetUserPassword, files, FilesTyped
    <2>2. \/ Goto(t, "isUserLoggedIn")
          \/ Answer(t, Caught(Op(t), "InvalidCredentials"))
        BY <1>3 DEF GetUserPassword, Throw
    <2> QED  BY <2>1, <2>2, GotoTypeInv, AnswerTypeInv
<1>4. ASSUME NEW t \in Threads, IsUserLoggedIn(t)  PROVE TypeInv'
    <2>1. FilesTyped' /\ pc[t] \in WorkLabels /\ pc[t] # "idle"
        BY <1>0, <1>4 DEF IsUserLoggedIn, files, FilesTyped
    <2>2. CASE Op(t) \in AccountOps
        <3>1. t = Udp
            BY <2>1, <2>2, AccountOpsAreUdp
        <3>2. \/ Goto(t, "logout")
              \/ Answer(t, "NOK")
              \/ Answer(t, Caught(Op(t), "UserNotLoggedIn"))
            BY <1>4, <2>2 DEF IsUserLoggedIn, Throw
        <3> QED  BY <2>1, <2>2, <3>1, <3>2, GotoTypeInv, AnswerTypeInv
    <2>3. CASE Op(t) \notin AccountOps
        <3>1. \/ Goto(t, "authorized")
              \/ Answer(t, Caught(Op(t), "UserNotLoggedIn"))
            BY <1>4, <2>3 DEF IsUserLoggedIn, Throw
        <3> QED  BY <2>1, <3>1, GotoTypeInv, AnswerTypeInv
    <2> QED  BY <2>2, <2>3
<1>5. ASSUME NEW t \in Threads, ManageAccount(t)  PROVE TypeInv'
    <2>1. pc[t] \in UdpLabels
        BY <1>5 DEF ManageAccount, CreatePass, WritePass, Login, CreateLogin, Logout,
                    DeleteLogin, UnregisterUser, DeletePass
    <2>2. pc[t] \in WorkLabels /\ pc[t] # "idle" /\ t = Udp /\ Op(t) \in AccountOps
        BY <2>1 DEF TypeInv, TypeOK
    <2>3. Uid(t) \in Users /\ req[t].pw \in Passwords
        BY <2>2, RequestFields
    <2>4. FilesTyped'
        BY <1>0, <1>5, <2>3
        DEF FilesTyped, files, ManageAccount, CreatePass, WritePass, Login, CreateLogin,
            Logout, DeleteLogin, UnregisterUser, DeletePass
    <2>5. \/ \E label \in UdpLabels : Goto(t, label)
          \/ \E status : Answer(t, status)
        BY <1>5
        DEF ManageAccount, CreatePass, WritePass, Login, CreateLogin, Logout,
            DeleteLogin, UnregisterUser, DeletePass, Throw
    <2> QED  BY <2>2, <2>4, <2>5, GotoTypeInv, AnswerTypeInv
<1>6. ASSUME NEW t \in Threads, Serve(t)  PROVE TypeInv'
    <2>1. FilesTyped' /\ pc[t] \in WorkLabels /\ Answer(t, "OK")
        BY <1>0, <1>6 DEF Serve, files, FilesTyped
    <2> QED  BY <2>1, AnswerTypeInv
<1>7. ASSUME NEW t \in Threads, Send(t)  PROVE TypeInv'
    <2>1. TypeOK'
        BY <1>7 DEF TypeInv, TypeOK, Send, files, Op
    <2>2. OwnSocket'
        BY <1>7 DEF TypeInv, TypeOK, OwnSocket, Send
    <2> QED  BY <2>1, <2>2 DEF TypeInv
<1>8. CASE Crash
    BY <1>8 DEF TypeInv, TypeOK, OwnSocket, Crash, files
<1>9. CASE Restart
    BY <1>9 DEF TypeInv, TypeOK, OwnSocket, Restart, files, Op
<1>10. CASE UNCHANGED vars
    BY <1>10 DEF TypeInv, TypeOK, OwnSocket, vars, Op
<1> QED
    BY <1>1, <1>2, <1>3, <1>4, <1>5, <1>6, <1>7, <1>8, <1>9, <1>10
    DEF Next, Step, Authenticate

(* Type correctness: whatever is registered and however the process dies, the
   files, the threads and their requests keep their types, and the account
   files are touched by the main thread alone. *)
THEOREM TypeCorrect == Spec => []TypeOK
<1>1. TypeInv => TypeOK
    BY DEF TypeInv
<1> QED  BY <1>1, InitTypeInv, NextTypeInv, PTL DEF Spec

-----------------------------------------------------------------------------
(* What the main thread knows of the account it is working on between two file
   operations.  No worker writes these files, so it stays true; LoginNeedsAccount
   alone is not inductive, since it does not say that the login file is created
   over a password and that the password goes after the login file. *)
MainThreadInv ==
    /\ pc[Udp] = "createPass" => passFile[Uid(Udp)] = NoFile
    /\ pc[Udp] = "writePass" => passFile[Uid(Udp)] = EmptyFile
    /\ pc[Udp] \in {"createLogin", "registerLogin", "registerCreateLogin", "deleteLogin",
                     "unregisterUser", "unregisterDeleteLogin", "deletePass"} =>
            passFile[Uid(Udp)] = req[Udp].pw
    /\ pc[Udp] \in {"unregisterUser", "unregisterDeleteLogin", "deletePass"} =>
            Op(Udp) = "UNR" /\ ~loginFile[Uid(Udp)]

AccountInv == TypeInv /\ LoginNeedsAccount /\ MainThreadInv

LEMMA InitAccountInv == Init => AccountInv
<1>1. Init => LoginNeedsAccount /\ MainThreadInv
    BY DEF Init, LoginNeedsAccount, MainThreadInv, Threads
<1> QED  BY <1>1, InitTypeInv DEF AccountInv

(* A worker, and a main thread that does not touch the account files, leaves
   what is known of them alone. *)
LEMMA ReadingKeepsAccounts ==
    ASSUME AccountInv, NEW t \in Threads, UNCHANGED files,
           \/ t # Udp /\ pc'[Udp] = pc[Udp] /\ req'[Udp] = req[Udp]
           \/ pc'[Udp] \in AuthLabels \union {"idle", "authorized", "send", "login", "logout"}
    PROVE  LoginNeedsAccount' /\ MainThreadInv'
    BY DEF AccountInv, LoginNeedsAccount, MainThreadInv, files, AuthLabels, Uid, Op

LEMMA NextAccountInv == AccountInv /\ [Next]_vars => AccountInv'
<1> SUFFICES ASSUME AccountInv, [Next]_vars  PROVE LoginNeedsAccount' /\ MainThreadInv'
    BY NextTypeInv DEF AccountInv
<1> USE DEF Goto, Answer, Throw
<1>0. TypeInv /\ TypeOK /\ Udp \in Threads
    BY DEF AccountInv, TypeInv, Threads
<1>1. ASSUME NEW t \in Threads, NEW r \in Requests, Receive(t, r)
      PROVE  LoginNeedsAccount' /\ MainThreadInv'
    <2>1. FirstStep(r) \in AuthLabels \union {"authorized"}
        BY DEF FirstStep, AuthLabels
    <2> QED  BY <1>0, <1>1, <2>1, ReadingKeepsAccounts DEF Receive, TypeOK
<1>2. ASSUME NEW t \in Threads, Authenticate(t), t # Udp
      PROVE  LoginNeedsAccount' /\ MainThreadInv'
    BY <1>0, <1>2, ReadingKeepsAccounts
    DEF Authenticate, UserExists, GetUserPassword, IsUserLoggedIn, TypeOK
<1>3. ASSUME Authenticate(Udp)
      PROVE  LoginNeedsAccount' /\ MainThreadInv'
    <2>1. CASE pc'[Udp] = "createPass"
        BY <1>0, <1>3, <2>1
        DEF Authenticate, UserExists, GetUserPassword, IsUserLoggedIn, TypeOK,
            AccountInv, LoginNeedsAccount, MainThreadInv, files, Uid, Op
    <2>2. CASE pc'[Udp] # "createPass"
        <3>1. /\ UNCHANGED files
              /\ pc'[Udp] \in AuthLabels \union {"idle", "authorized", "send", "login", "logout"}
            BY <1>0, <1>3, <2>2
            DEF Authenticate, UserExists, GetUserPassword, IsUserLoggedIn, TypeOK, AuthLabels
        <3> QED  BY <1>0, <3>1, ReadingKeepsAccounts
    <2> QED  BY <2>1, <2>2
<1>4. ASSUME NEW t \in Threads, ManageAccount(t)
      PROVE  LoginNeedsAccount' /\ MainThreadInv'
    <2>1. t = Udp /\ pc[t] # "idle"
        BY <1>0, <1>4
        DEF TypeOK, ManageAccount, CreatePass, WritePass, Login, CreateLogin, Logout,
            DeleteLogin, UnregisterUser, DeletePass, At, UdpLabels
    <2>2. Uid(Udp) \in Users /\ req[Udp].pw \in Passwords
        BY <1>0, <2>1, RequestFields
    <2> USE <1>0, <2>1, <2>2, FilesAssumption
        DEF AccountInv, LoginNeedsAccount, MainThreadInv, TypeOK, At, Uid, Op
    <2>3. CASE CreatePass(t)
        BY <2>3 DEF CreatePass
    <2>4. CASE WritePass(t)
        BY <2>4 DEF WritePass
    <2>5. CASE Login(t)
        BY <2>5 DEF Login, files, PasswordMatches
    <2>6. CASE CreateLogin(t)
        BY <2>6 DEF CreateLogin
    <2>7. CASE Logout(t)
        BY <2>7 DEF Logout, files, PasswordMatches
    <2>8. CASE DeleteLogin(t)
        BY <2>8 DEF DeleteLogin
    <2>9. CASE UnregisterUser(t)
        BY <2>9 DEF UnregisterUser, files, PasswordMatches
    <2>10. CASE DeletePass(t)
        BY <2>10 DEF DeletePass
    <2> QED
        BY <1>4, <2>3, <2>4, <2>5, <2>6, <2>7, <2>8, <2>9, <2>10 DEF ManageAccount
<1>5. ASSUME NEW t \in Threads, Serve(t) \/ Send(t)
      PROVE  LoginNeedsAccount' /\ MainThreadInv'
    BY <1>0, <1>5, ReadingKeepsAccounts DEF Serve, Send, TypeOK, files
<1>6. CASE Crash
    BY <1>0, <1>6, ReadingKeepsAccounts DEF Crash
<1>7. CASE Restart \/ UNCHANGED vars
    BY <1>7 DEF Restart, vars, files, AccountInv, LoginNeedsAccount, MainThreadInv, Uid, Op
<1> QED
    BY <1>1, <1>2, <1>3, <1>4, <1>5, <1>6, <1>7 DEF Next, Step

(* A login file always has a password behind it, also across kills: the order
   in which unregistering deletes the two files, and registering makes them. *)
THEOREM LoginsHaveAccounts == Spec => []LoginNeedsAccount
<1>1. AccountInv => LoginNeedsAccount
    BY DEF AccountInv
<1> QED  BY <1>1, InitAccountInv, NextAccountInv, PTL DEF Spec

(* A password on file is never replaced, and only goes away in an unregister
   request that gave it. *)
THEOREM PasswordsKept == Spec => PasswordRemovedByHolder
<1> DEFINE Kept ==
        \A u \in Users : passFile[u] \in Passwords /\ passFile'[u] # passFile[u] =>
            /\ passFile'[u] = NoFile /\ ~loginFile[u]
            /\ Op(Udp) = "UNR" /\ Uid(Udp) = u /\ req[Udp].pw = passFile[u]
<1>1. AccountInv /\ [Next]_vars => [Kept]_vars
    <2> SUFFICES ASSUME AccountInv, Next, passFile' # passFile  PROVE Kept
        BY DEF vars
    <2>1. PICK t \in Threads : CreatePass(t) \/ WritePass(t) \/ DeletePass(t)
        BY DEF Next, Step, Receive, Authenticate, UserExists, GetUserPassword,
               IsUserLoggedIn, ManageAccount, Login, CreateLogin, Logout, DeleteLogin,
               UnregisterUser, Serve, Send, Crash, Restart, files
    <2>2. t = Udp /\ TypeOK
        BY <2>1 DEF CreatePass, WritePass, DeletePass, At, UdpLabels, AccountInv, TypeInv, TypeOK
    <2> QED
        BY <2>1, <2>2, FilesAssumption
        DEF CreatePass, WritePass, DeletePass, At, AccountInv, MainThreadInv, TypeOK, Uid
<1> QED
    BY <1>1, InitAccountInv, NextAccountInv, PTL DEF Spec, PasswordRemovedByHolder

-----------------------------------------------------------------------------
(* The past of the credentials. *)

(* What the next step of an authentication relies on was seen by the steps
   before it. *)
PastInv ==
    \A t \in Threads : Op(t) \in PasswordOps =>
        /\ pc[t] = "isUserLoggedIn" => past[t].right
        /\ pc[t] = "authorized" => past[t].right /\ past[t].in

(* A step forgets nothing of a request that goes on, and notes what is true. *)
LEMMA PastGrows ==
    ASSUME Remember, NEW t \in Threads, pc'[t] # "idle"
    PROVE  /\ past'[t].right <=> past[t].right \/ passFile'[req'[t].uid] = req'[t].pw
           /\ past'[t].in <=> past[t].in \/ loginFile'[req'[t].uid]
<1>1. past'[t] = [k \in {"right", "in"} |-> past[t][k] \/ Now(t)[k]]
    BY DEF Remember
<1>2. Now(t)["right"] = (passFile'[req'[t].uid] = req'[t].pw)
    BY DEF Now
<1>3. Now(t)["in"] = loginFile'[req'[t].uid]
    BY DEF Now
<1> QED  BY <1>1, <1>2, <1>3

LEMMA NextPastInv == TypeInv /\ PastInv /\ [HNext]_<<vars, past>> => PastInv'
<1> SUFFICES ASSUME TypeInv, PastInv, [HNext]_<<vars, past>>,
                    NEW t \in Threads, Op(t)' \in PasswordOps
             PROVE  /\ pc'[t] = "isUserLoggedIn" => past'[t].right
                    /\ pc'[t] = "authorized" => past'[t].right /\ past'[t].in
    BY DEF PastInv
<1> USE DEF Goto, Answer, Throw, At, Op, Uid, Threads
<1>1. TypeOK /\ req'[t].op \in PasswordOps
    BY DEF TypeInv
<1>2. CASE UNCHANGED <<vars, past>>
    BY <1>2 DEF vars, PastInv
<1>3. CASE HNext /\ (pc'[t] \notin {"isUserLoggedIn", "authorized"})
    BY <1>3
<1>4. ASSUME HNext, pc'[t] \in {"isUserLoggedIn", "authorized"},
             UNCHANGED <<pc[t], req[t]>>
      PROVE  /\ past'[t].right /\ (pc'[t] = "authorized" => past'[t].in)
    BY <1>1, <1>4, PastGrows DEF HNext, PastInv
<1>5. ASSUME HNext, pc'[t] \in {"isUserLoggedIn", "authorized"}, ~UNCHANGED <<pc[t], req[t]>>
      PROVE  Step(t) \/ \E r \in Requests : Receive(t, r)
    <2>1. ~Crash /\ ~Restart
        BY <1>1, <1>5 DEF Crash, Restart
    <2>2. PICK u \in Threads : Step(u) \/ \E r \in Requests : Receive(u, r)
        BY <1>5, <2>1 DEF HNext, Next
    <2>3. \A v \in Threads \ {u} : pc'[v] = pc[v] /\ req'[v] = req[v]
        BY <1>1, <2>2
        DEF TypeOK, Step, Receive, Authenticate, UserExists, GetUserPassword,
            IsUserLoggedIn, ManageAccount, CreatePass, WritePass, Login, CreateLogin, Logout,
            DeleteLogin, UnregisterUser, DeletePass, Serve, Send
    <2> QED  BY <1>5, <2>2, <2>3
<1>6. ASSUME HNext, NEW r \in Requests, Receive(t, r)
      PROVE  pc'[t] \notin {"isUserLoggedIn", "authorized"}
    BY <1>1, <1>6 DEF Receive, FirstStep, TypeOK, PasswordOps, PublicOps
<1>7. ASSUME HNext, Step(t), pc'[t] \in {"isUserLoggedIn", "authorized"}
      PROVE  /\ past'[t].right /\ (pc'[t] = "authorized" => past'[t].in)
    <2>1. req' = req
        BY <1>1, <1>7
        DEF Step, Authenticate, UserExists, GetUserPassword,
            IsUserLoggedIn, ManageAccount, CreatePass, WritePass, Login, CreateLogin, Logout,
            DeleteLogin, UnregisterUser, DeletePass, Serve, Send, TypeOK
    <2>2. GetUserPassword(t) \/ IsUserLoggedIn(t)
        BY <1>1, <1>7, <2>1
        DEF Step, Authenticate, UserExists, ManageAccount, CreatePass, WritePass, Login, CreateLogin,
            Logout, DeleteLogin, UnregisterUser, DeletePass, Serve, Send, TypeOK, PasswordOps
    <2>3. CASE GetUserPassword(t)
        BY <1>1, <1>7, <2>1, <2>3, PastGrows
        DEF HNext, GetUserPassword, PasswordMatches, files, TypeOK
    <2>4. CASE IsUserLoggedIn(t)
        BY <1>1, <1>7, <2>1, <2>4, PastGrows
        DEF HNext, IsUserLoggedIn, files, PastInv, TypeOK
    <2> QED  BY <2>2, <2>3, <2>4
<1> QED  BY <1>2, <1>3, <1>4, <1>5, <1>6, <1>7 DEF HNext

(* Nobody bids, closes or opens without the right password and a session, each
   at some moment while the request was served, whatever the main thread does
   to the account in between. *)
THEOREM CredentialsRight == HSpec => []CredentialsWereRight
<1>1. HInit => Init /\ PastInv
    BY DEF HInit, Init, PastInv
<1>2. [HNext]_<<vars, past>> => [Next]_vars
    BY DEF HNext
<1>3. PastInv => CredentialsWereRight
    BY DEF PastInv, CredentialsWereRight, Accepted
<1> QED  BY <1>1, <1>2, <1>3, InitTypeInv, NextTypeInv, NextPastInv, PTL DEF HSpec

-----------------------------------------------------------------------------
(* UserManager implements Accounts: the safety part of ImplementsAccounts, one
   step at a time. *)

Registers == {"login", "createLogin", "createPass", "writePass", "registerLogin",
              "registerCreateLogin"}

(* What the main thread knows of the command and its account at each label. *)
CommandInv ==
    /\ pc[Udp] \in Registers => Op(Udp) = "LIN"
    /\ pc[Udp] \in UdpLabels \ Registers => Op(Udp) \in {"LOU", "UNR"}
    /\ pc[Udp] \in {"getUserPassword", "authorized"} => Op(Udp) \notin AccountOps
    /\ pc[Udp] = "isUserLoggedIn" /\ Op(Udp) \in AccountOps =>
          Op(Udp) # "LIN" /\ passFile[Uid(Udp)] # NoFile
    /\ pc[Udp] \in {"login", "logout"} => passFile[Uid(Udp)] # NoFile
    /\ pc[Udp] \in {"logout", "deleteLogin"} => loginFile[Uid(Udp)]
    /\ pc[Udp] \in {"createPass", "writePass", "registerLogin", "registerCreateLogin"} =>
          ~loginFile[Uid(Udp)]

LEMMA NextCommandInv == AccountInv /\ CommandInv /\ [Next]_vars => CommandInv'
<1> SUFFICES ASSUME AccountInv, CommandInv, [Next]_vars  PROVE CommandInv'
    OBVIOUS
<1> USE DEF Goto, Answer, Throw, At, Op, Uid
<1>0. TypeOK /\ Udp \in Threads
    BY DEF AccountInv, TypeInv, Threads
<1>1. ASSUME NEW r \in Requests, Receive(Udp, r)  PROVE CommandInv'
    BY <1>0, <1>1
    DEF Receive, FirstStep, CommandInv, TypeOK, Registers, UdpLabels, AccountOps, PublicOps
<1>2. ASSUME Step(Udp)  PROVE CommandInv'
    <2>0. CASE pc[Udp] # "idle"
        <3>1. req[Udp] \in Requests /\ Uid(Udp) \in Users
            BY <1>0, <2>0, RequestFields DEF AccountInv
        <3> USE <1>0, <3>1 DEF CommandInv, TypeOK, Registers, UdpLabels, AccountOps, files
        <3>2. CASE UserExists(Udp)
            BY <3>2, FilesAssumption DEF UserExists, AccountInv, LoginNeedsAccount
        <3>3. CASE GetUserPassword(Udp) \/ IsUserLoggedIn(Udp)
            BY <3>3 DEF GetUserPassword, IsUserLoggedIn
        <3>4. CASE CreatePass(Udp) \/ WritePass(Udp) \/ Login(Udp) \/ CreateLogin(Udp)
            BY <3>4 DEF CreatePass, WritePass, Login, CreateLogin
        <3>5. CASE Logout(Udp) \/ DeleteLogin(Udp) \/ UnregisterUser(Udp) \/ DeletePass(Udp)
            BY <3>5 DEF Logout, DeleteLogin, UnregisterUser, DeletePass
        <3>6. CASE Serve(Udp) \/ Send(Udp)
            BY <3>6 DEF Serve, Send
        <3> QED  BY <1>2, <3>2, <3>3, <3>4, <3>5, <3>6 DEF Step, Authenticate, ManageAccount
    <2> QED
        BY <1>2, <2>0
        DEF Step, Authenticate, UserExists, GetUserPassword,
            IsUserLoggedIn, ManageAccount, CreatePass, WritePass, Login, CreateLogin, Logout,
            DeleteLogin, UnregisterUser, DeletePass, Serve, Send
<1>3. ASSUME UNCHANGED <<files, pc[Udp], req[Udp]>>  PROVE CommandInv'
    BY <1>3 DEF files, CommandInv
<1>4. ASSUME NEW t \in Threads \ {Udp}, Step(t) \/ \E r \in Requests : Receive(t, r)
      PROVE  UNCHANGED <<files, pc[Udp], req[Udp]>>
    BY <1>0, <1>4
    DEF TypeOK, UdpLabels, Step, Receive, Authenticate, UserExists, GetUserPassword,
        IsUserLoggedIn, ManageAccount, CreatePass, WritePass, Login, CreateLogin, Logout,
        DeleteLogin, UnregisterUser, DeletePass, Serve, Send, files
<1>5. CASE Crash
    BY <1>0, <1>5 DEF Crash, CommandInv, Registers, UdpLabels
<1>6. CASE Restart \/ UNCHANGED vars
    BY <1>3, <1>6 DEF Restart, vars, files
<1> QED  BY <1>1, <1>2, <1>3, <1>4, <1>5, <1>6 DEF Next

(* The account a user has for Accounts, now and after a step. *)
LEMMA AccountIs ==
    ASSUME NEW u, NEW in \in BOOLEAN, NEW p,
           p = IF Registering(u) THEN NoFile ELSE passFile[u],
           in <=> loginFile[u] \/ Unregistering(u)
    PROVE  AccountOf(u) = [pw |-> p, in |-> in]
<1>1. CASE in = TRUE
    <2>1. (loginFile[u] \/ Unregistering(u)) = TRUE
        BY <1>1
    <2> QED  BY <1>1, <2>1 DEF AccountOf
<1>2. CASE in = FALSE
    <2>1. (loginFile[u] \/ Unregistering(u)) = FALSE
        BY <1>2
    <2> QED  BY <1>2, <2>1 DEF AccountOf
<1> QED  BY <1>1, <1>2

LEMMA AccountBecomes ==
    ASSUME NEW u, NEW in \in BOOLEAN, NEW p,
           p = IF Registering(u)' THEN NoFile ELSE passFile'[u],
           in <=> loginFile'[u] \/ Unregistering(u)'
    PROVE  AccountOf(u)' = [pw |-> p, in |-> in]
<1>1. CASE in = TRUE
    <2>1. (loginFile'[u] \/ Unregistering(u)') = TRUE
        BY <1>1
    <2> QED  BY <1>1, <2>1 DEF AccountOf
<1>2. CASE in = FALSE
    <2>1. (loginFile'[u] \/ Unregistering(u)') = FALSE
        BY <1>2
    <2> QED  BY <1>2, <2>1 DEF AccountOf
<1> QED  BY <1>1, <1>2

(* Where neither a file nor the part the main thread plays changes, nor does the account. *)
LEMMA AccountKept ==
    ASSUME AccountInv, NEW u \in Users,
           passFile'[u] = passFile[u], loginFile'[u] = loginFile[u],
           Registering(u)' <=> Registering(u), Unregistering(u)' <=> Unregistering(u)
    PROVE  AccountOf(u)' = AccountOf(u)
<1>1. loginFile[u] \in BOOLEAN
    BY DEF AccountInv, TypeInv, TypeOK
<1>2. PICK in \in BOOLEAN : in <=> loginFile[u] \/ Unregistering(u)
    OBVIOUS
<1>3. PICK p : p = IF Registering(u) THEN NoFile ELSE passFile[u]
    OBVIOUS
<1>4. AccountOf(u) = [pw |-> p, in |-> in]
    BY <1>2, <1>3, AccountIs
<1>5. AccountOf(u)' = [pw |-> p, in |-> in]
    BY <1>2, <1>3, AccountBecomes
<1> QED  BY <1>4, <1>5

(* What the account handlers answer is what their response packets can carry. *)
LEMMA AccountStatuses ==
    /\ Sent("LIN", "OK") = "OK" /\ Sent("LIN", "REG") = "REG"
    /\ Sent("LIN", Caught("LIN", "InvalidCredentials")) = "NOK"
    /\ \A op \in {"LOU", "UNR"} :
          /\ Sent(op, "OK") = "OK" /\ Sent(op, "NOK") = "NOK" /\ Sent(op, "UNR") = "UNR"
          /\ Sent(op, Caught(op, "InvalidCredentials")) = "ERR"
    BY DEF Sent, Response, LoginResponse, LogoutResponse, UnregisterResponse, Caught, Handler,
           handleLogin, handleLogout, handleUnregister

LEMMA AccountFields ==
    ASSUME NEW acc, NEW p
    PROVE  /\ acc = [pw |-> p, in |-> TRUE] =>
                 /\ acc.pw = p /\ acc.in
                 /\ [acc EXCEPT !.in = TRUE] = [pw |-> p, in |-> TRUE]
                 /\ [acc EXCEPT !.in = FALSE] = [pw |-> p, in |-> FALSE]
           /\ acc = [pw |-> p, in |-> FALSE] =>
                 /\ acc.pw = p /\ ~acc.in
                 /\ [acc EXCEPT !.in = TRUE] = [pw |-> p, in |-> TRUE]
<1>1. ASSUME acc = [pw |-> p, in |-> TRUE]  PROVE acc.pw = p /\ acc.in
    BY <1>1
<1>2. ASSUME acc = [pw |-> p, in |-> FALSE]  PROVE acc.pw = p /\ ~acc.in
    BY <1>2
<1>3. ASSUME NEW in, NEW b, acc = [pw |-> p, in |-> in]
      PROVE  [acc EXCEPT !.in = b] = [pw |-> p, in |-> b]
    BY <1>3
<1> QED  BY <1>1, <1>2, <1>3

(* A file operation of the main thread for an account command leaves all as
   Accounts sees it, or is where the command takes effect. *)
LEMMA CommandStep ==
    ASSUME AccountInv, CommandInv, Op(Udp) \in AccountOps, Authenticate(Udp) \/ ManageAccount(Udp)
    PROVE  Registry!TakeEffect \/ UNCHANGED Registry!vars
<1>0. TypeOK /\ Udp \in Threads /\ pc[Udp] \notin {"idle", "send"}
    BY DEF AccountInv, TypeInv, Threads, At, Authenticate, UserExists, GetUserPassword,
           IsUserLoggedIn, ManageAccount, CreatePass, WritePass, Login, CreateLogin, Logout,
           DeleteLogin, UnregisterUser, DeletePass
<1>1. PICK u, pw : u = Uid(Udp) /\ pw = req[Udp].pw
    OBVIOUS
<1>2. /\ u \in Users /\ pw \in Passwords /\ req[Udp] \in Requests /\ req[Udp] # NoRequest
      /\ pw # NoFile /\ pw # EmptyFile /\ reply[Udp] = "none"
    BY <1>0, <1>1, RequestFields, RequestsAreNotNone, FilesAssumption DEF AccountInv, TypeOK
<1>3. req' = req
    BY <1>0
    DEF Goto, Answer, Throw, Authenticate, UserExists, GetUserPassword,
        IsUserLoggedIn, ManageAccount, CreatePass, WritePass, Login, CreateLogin, Logout,
        DeleteLogin, UnregisterUser, DeletePass
<1>4. \A v \in Users \ {u} : passFile'[v] = passFile[v] /\ loginFile'[v] = loginFile[v]
    BY <1>0, <1>1
    DEF TypeOK, files, Authenticate, UserExists, GetUserPassword,
        IsUserLoggedIn, ManageAccount, CreatePass, WritePass, Login, CreateLogin, Logout,
        DeleteLogin, UnregisterUser, DeletePass
<1>5. \A v \in Users \ {u} : AccountOf(v)' = AccountOf(v)
    <2> SUFFICES ASSUME NEW v \in Users \ {u}  PROVE AccountOf(v)' = AccountOf(v)
        OBVIOUS
    <2>1. ~Registering(v) /\ ~Registering(v)' /\ ~Unregistering(v) /\ ~Unregistering(v)'
        BY <1>1, <1>3 DEF Registering, Unregistering, Serving, Uid
    <2> QED  BY <1>4, <2>1, AccountKept
<1>6. /\ registryCommand = req[Udp] /\ registryStatus = "none" /\ registryCommand' = req[Udp]
      /\ registryStatus' = reply'[Udp] /\ registryCommand # Registry!NoCommand
    BY <1>2, <1>3 DEF registryCommand, registryStatus, Op, Registry!NoCommand, NoRequest
<1>7. ASSUME reply'[Udp] = "none", AccountOf(u)' = AccountOf(u)
      PROVE  UNCHANGED Registry!vars
    <2>1. registryAccount' = registryAccount
        BY <1>5, <1>7 DEF registryAccount
    <2> QED  BY <1>6, <1>7, <2>1 DEF Registry!vars
<1>8. ASSUME NEW acc, AccountOf(u)' = acc
      PROVE  registryAccount' = [registryAccount EXCEPT ![u] = acc]
    BY <1>2, <1>5, <1>8 DEF registryAccount
<1>9. ASSUME AccountOf(u)' = AccountOf(u)
      PROVE  registryAccount' = registryAccount
    BY <1>5, <1>9 DEF registryAccount
<1>10. /\ registryAccount[u] = AccountOf(u) /\ registryCommand.uid = u /\ registryCommand.pw = pw
       /\ registryCommand.op = Op(Udp)
    BY <1>1, <1>2, <1>6 DEF registryAccount, Uid, Op
<1> DEFINE Between == {"writePass", "registerLogin", "registerCreateLogin", "unregisterUser",
                       "unregisterDeleteLogin", "deletePass"}
<1>11. ASSUME passFile'[u] = passFile[u], loginFile'[u] = loginFile[u],
              pc[Udp] \notin Between, pc'[Udp] \notin Between
       PROVE  AccountOf(u)' = AccountOf(u)
    <2>1. ~Registering(u) /\ ~Registering(u)' /\ ~Unregistering(u) /\ ~Unregistering(u)'
        BY <1>11 DEF Registering, Unregistering, Serving
    <2> QED  BY <1>2, <1>11, <2>1, AccountKept
<1>12. ASSUME pc[Udp] \notin Between, NEW in \in BOOLEAN, in <=> loginFile[u]
       PROVE  AccountOf(u) = [pw |-> passFile[u], in |-> in]
    BY <1>12, AccountIs DEF Registering, Unregistering, Serving
<1>13. ASSUME pc'[Udp] \notin Between, NEW in \in BOOLEAN, in <=> loginFile'[u]
       PROVE  AccountOf(u)' = [pw |-> passFile'[u], in |-> in]
    BY <1>13, AccountBecomes DEF Registering, Unregistering, Serving
<1>14. ASSUME pc[Udp] \in {"writePass", "registerLogin", "registerCreateLogin"}
       PROVE  AccountOf(u) = [pw |-> NoFile, in |-> FALSE]
    <2>1. Registering(u) /\ ~Unregistering(u) /\ ~loginFile[u]
        BY <1>1, <1>14 DEF Registering, Unregistering, Serving, CommandInv
    <2> QED  BY <2>1, AccountIs
<1>15. ASSUME pc'[Udp] \in {"writePass", "registerLogin", "registerCreateLogin"}, ~loginFile'[u]
       PROVE  AccountOf(u)' = [pw |-> NoFile, in |-> FALSE]
    <2>1. Registering(u)' /\ ~Unregistering(u)'
        BY <1>1, <1>3, <1>15 DEF Registering, Unregistering, Serving, Uid
    <2> QED  BY <1>15, <2>1, AccountBecomes
<1>16. ASSUME pc[Udp] \in {"unregisterUser", "unregisterDeleteLogin", "deletePass"}
       PROVE  AccountOf(u) = [pw |-> pw, in |-> TRUE]
    <2>1. ~Registering(u) /\ Unregistering(u) /\ passFile[u] = pw
        BY <1>1, <1>16 DEF Registering, Unregistering, Serving, AccountInv, MainThreadInv
    <2> QED  BY <2>1, AccountIs
<1>17. ASSUME pc'[Udp] \in {"unregisterUser", "unregisterDeleteLogin", "deletePass"}, passFile'[u] = pw
       PROVE  AccountOf(u)' = [pw |-> pw, in |-> TRUE]
    <2>1. ~Registering(u)' /\ Unregistering(u)'
        BY <1>1, <1>3, <1>17 DEF Registering, Unregistering, Serving, Uid
    <2> QED  BY <1>17, <2>1, AccountBecomes
<1>18. loginFile[u] \in BOOLEAN /\ pc \in [Threads -> AuthLabels \union UdpLabels \union {"idle", "authorized", "send"}]
       /\ reply \in [Threads -> Statuses \union {"none"}]
       /\ passFile \in [Users -> Passwords \union {NoFile, EmptyFile}]
       /\ loginFile \in [Users -> BOOLEAN]
    BY <1>0, <1>2 DEF TypeOK
<1>19. CASE UserExists(Udp)
    <2>1. passFile' = passFile /\ loginFile' = loginFile /\ pc[Udp] = "userExists"
        BY <1>19 DEF UserExists, files, At
    <2>2. pc'[Udp] \in {"login", "createPass", "isUserLoggedIn", "send"}
        BY <1>18, <1>19, <1>0 DEF UserExists, Goto, Answer, AccountOps
    <2>3. AccountOf(u)' = AccountOf(u)
        BY <1>11, <2>1, <2>2
    <2>4. CASE pc'[Udp] # "send"
        <3>1. reply' = reply
            BY <1>0, <1>18, <1>19, <2>4 DEF UserExists, Goto, Answer, AccountOps
        <3> QED  BY <1>2, <1>7, <2>3, <3>1
    <2>5. CASE pc'[Udp] = "send"
        <3>1. passFile[u] = NoFile /\ Op(Udp) \in {"LOU", "UNR"} /\ Answer(Udp, "UNR")
            BY <1>0, <1>1, <1>18, <1>19, <2>5 DEF UserExists, Goto, AccountOps
        <3>2. reply'[Udp] = "UNR"
            BY <1>0, <1>18, <3>1, AccountStatuses DEF Answer
        <3>3. AccountOf(u).pw = NoFile
            BY <1>12, <1>18, <2>1, <3>1
        <3> QED
            BY <1>6, <1>9, <1>10, <2>3, <3>1, <3>2, <3>3
            DEF Registry!TakeEffect, Registry!Leave, Registry!Refuse
    <2> QED  BY <2>4, <2>5
<1>20. CASE GetUserPassword(Udp)
    BY <1>20 DEF GetUserPassword, At, CommandInv
<1>21. CASE IsUserLoggedIn(Udp)
    <2>1. /\ passFile' = passFile /\ loginFile' = loginFile /\ pc[Udp] = "isUserLoggedIn"
          /\ Op(Udp) \in {"LOU", "UNR"} /\ passFile[u] # NoFile
        BY <1>1, <1>21 DEF IsUserLoggedIn, files, At, CommandInv, AccountOps
    <2>2. pc'[Udp] \in {"logout", "send"}
        BY <1>0, <1>18, <1>21 DEF IsUserLoggedIn, Goto, Answer
    <2>3. AccountOf(u)' = AccountOf(u)
        BY <1>11, <2>1, <2>2
    <2>4. CASE loginFile[u]
        <3>1. reply' = reply
            BY <1>1, <1>21, <2>4 DEF IsUserLoggedIn, Goto
        <3> QED  BY <1>2, <1>7, <2>3, <3>1
    <2>5. CASE ~loginFile[u]
        <3>1. reply'[Udp] = "NOK"
            BY <1>0, <1>1, <1>18, <1>21, <2>1, <2>5, AccountStatuses DEF IsUserLoggedIn, Answer
        <3>2. AccountOf(u) = [pw |-> passFile[u], in |-> FALSE]
            BY <1>12, <2>1, <2>5
        <3>3. AccountOf(u).pw # NoFile /\ ~AccountOf(u).in
            BY <2>1, <3>2, AccountFields
        <3> QED
            BY <1>6, <1>9, <1>10, <2>1, <2>3, <3>1, <3>3
            DEF Registry!TakeEffect, Registry!Leave, Registry!Refuse
    <2> QED  BY <2>4, <2>5
<1>22. CASE CreatePass(Udp)
    <2>1. /\ pc[Udp] = "createPass" /\ passFile[u] = NoFile /\ ~loginFile[u]
          /\ pc'[Udp] = "writePass" /\ ~loginFile'[u] /\ reply' = reply
        BY <1>0, <1>1, <1>18, <1>22
        DEF CreatePass, Goto, At, AccountInv, MainThreadInv, CommandInv
    <2>2. AccountOf(u) = [pw |-> NoFile, in |-> FALSE]
        BY <1>12, <2>1
    <2>3. AccountOf(u)' = [pw |-> NoFile, in |-> FALSE]
        BY <1>15, <2>1
    <2> QED  BY <1>2, <1>7, <2>1, <2>2, <2>3
<1>23. CASE WritePass(Udp)
    <2>1. /\ pc[Udp] = "writePass" /\ pc'[Udp] = "registerLogin"
          /\ ~loginFile[u] /\ ~loginFile'[u] /\ reply' = reply
        BY <1>0, <1>1, <1>18, <1>23 DEF WritePass, Goto, At, CommandInv
    <2> QED  BY <1>2, <1>7, <1>14, <1>15, <2>1
<1>24. CASE Login(Udp)
    <2>1. /\ passFile' = passFile /\ loginFile' = loginFile /\ Op(Udp) = "LIN"
          /\ pc[Udp] \in {"login", "registerLogin"} /\ passFile[u] # NoFile
        BY <1>1, <1>2, <1>24
        DEF Login, files, At, CommandInv, Registers, AccountInv, MainThreadInv
    <2>2. CASE pc[Udp] = "login" /\ passFile[u] = pw
        <3>1. pc'[Udp] = "createLogin" /\ reply' = reply
            BY <1>0, <1>1, <1>18, <1>24, <2>2 DEF Login, Goto, At, PasswordMatches
        <3> QED  BY <1>2, <1>7, <1>11, <2>1, <2>2, <3>1
    <2>3. CASE pc[Udp] = "login" /\ passFile[u] # pw
        <3>1. pc'[Udp] = "send" /\ reply'[Udp] = "NOK"
            BY <1>0, <1>1, <1>18, <1>24, <2>1, <2>3, AccountStatuses
            DEF Login, Throw, Answer, At, PasswordMatches
        <3>2. AccountOf(u)' = AccountOf(u)
            BY <1>11, <2>1, <2>3, <3>1
        <3>3. AccountOf(u).pw \notin {NoFile, pw}
            BY <1>12, <1>18, <2>1, <2>3
        <3> QED
            BY <1>6, <1>9, <1>10, <2>1, <3>1, <3>2, <3>3
            DEF Registry!TakeEffect, Registry!Login, Registry!Refuse
    <2>4. CASE pc[Udp] = "registerLogin"
        <3>1. pc'[Udp] = "registerCreateLogin" /\ reply' = reply /\ ~loginFile[u]
            BY <1>0, <1>1, <1>18, <1>24, <2>4
            DEF Login, Goto, At, PasswordMatches, AccountInv, MainThreadInv, CommandInv
        <3> QED  BY <1>2, <1>7, <1>14, <1>15, <2>1, <2>4, <3>1
    <2> QED  BY <2>1, <2>2, <2>3, <2>4
<1>25. CASE CreateLogin(Udp)
    <2>1. /\ Op(Udp) = "LIN" /\ pc[Udp] \in {"createLogin", "registerCreateLogin"}
          /\ pc'[Udp] = "send" /\ passFile[u] = pw /\ passFile'[u] = pw /\ loginFile'[u]
        BY <1>0, <1>1, <1>2, <1>18, <1>25
        DEF CreateLogin, Answer, At, CommandInv, Registers, AccountInv, MainThreadInv
    <2>2. AccountOf(u)' = [pw |-> pw, in |-> TRUE]
        BY <1>13, <2>1
    <2>3. CASE pc[Udp] = "createLogin"
        <3>1. AccountOf(u) = [pw |-> pw, in |-> TRUE] \/ AccountOf(u) = [pw |-> pw, in |-> FALSE]
            BY <1>12, <1>18, <2>1, <2>3
        <3>2. [AccountOf(u) EXCEPT !.in = TRUE] = [pw |-> pw, in |-> TRUE] /\ AccountOf(u).pw = pw
            BY <3>1, AccountFields
        <3>3. reply'[Udp] = "OK"
            BY <1>0, <1>18, <1>25, <2>1, <2>3, AccountStatuses DEF CreateLogin, Answer, At
        <3>4. registryAccount' = [registryAccount EXCEPT ![u] = [AccountOf(u) EXCEPT !.in = TRUE]]
            BY <1>8, <2>2, <3>2
        <3>5. Registry!Accept("OK", [AccountOf(u) EXCEPT !.in = TRUE])
            BY <1>6, <1>10, <3>3, <3>4 DEF Registry!Accept
        <3>6. Registry!Login(AccountOf(u))
            BY <1>2, <1>10, <3>2, <3>5 DEF Registry!Login
        <3> QED  BY <1>6, <1>10, <2>1, <3>6 DEF Registry!TakeEffect
    <2>4. CASE pc[Udp] = "registerCreateLogin"
        <3>1. AccountOf(u).pw = NoFile
            BY <1>14, <2>4
        <3>2. reply'[Udp] = "REG"
            BY <1>0, <1>18, <1>25, <2>1, <2>4, AccountStatuses DEF CreateLogin, Answer, At
        <3> QED
            BY <1>2, <1>6, <1>8, <1>10, <2>1, <2>2, <3>1, <3>2
            DEF Registry!TakeEffect, Registry!Login, Registry!Accept
    <2> QED  BY <2>1, <2>3, <2>4
<1>26. CASE Logout(Udp)
    <2>1. /\ passFile' = passFile /\ loginFile' = loginFile /\ Op(Udp) \in {"LOU", "UNR"}
          /\ pc[Udp] = "logout" /\ passFile[u] # NoFile /\ loginFile[u]
        BY <1>1, <1>26 DEF Logout, files, At, CommandInv, UdpLabels, Registers
    <2>2. CASE passFile[u] = pw
        <3>1. pc'[Udp] = "deleteLogin" /\ reply' = reply
            BY <1>0, <1>1, <1>18, <1>26, <2>2 DEF Logout, Goto, PasswordMatches
        <3> QED  BY <1>2, <1>7, <1>11, <2>1, <3>1
    <2>3. CASE passFile[u] # pw
        <3>1. pc'[Udp] = "send" /\ reply'[Udp] = "ERR"
            BY <1>0, <1>1, <1>18, <1>26, <2>1, <2>3, AccountStatuses
            DEF Logout, Throw, Answer, PasswordMatches
        <3>2. AccountOf(u)' = AccountOf(u)
            BY <1>11, <2>1, <3>1
        <3>3. AccountOf(u) = [pw |-> passFile[u], in |-> TRUE]
            BY <1>12, <2>1
        <3>4. AccountOf(u).pw \notin {NoFile, pw} /\ AccountOf(u).in
            BY <2>1, <2>3, <3>3, AccountFields
        <3> QED
            BY <1>6, <1>9, <1>10, <2>1, <3>1, <3>2, <3>4
            DEF Registry!TakeEffect, Registry!Leave, Registry!Refuse
    <2> QED  BY <2>2, <2>3
<1>27. CASE DeleteLogin(Udp)
    <2>1. passFile' = passFile /\ passFile[u] = pw /\ ~loginFile'[u]
        BY <1>1, <1>2, <1>18, <1>27
        DEF DeleteLogin, At, AccountInv, MainThreadInv
    <2>2. CASE pc[Udp] = "deleteLogin" /\ Op(Udp) = "LOU"
        <3>1. pc'[Udp] = "send" /\ reply'[Udp] = "OK" /\ loginFile[u]
            BY <1>0, <1>1, <1>18, <1>27, <2>2, AccountStatuses DEF DeleteLogin, Answer, At, CommandInv
        <3>2. AccountOf(u) = [pw |-> pw, in |-> TRUE]
            BY <1>12, <2>1, <2>2, <3>1
        <3>3. AccountOf(u)' = [pw |-> pw, in |-> FALSE]
            BY <1>13, <2>1, <3>1
        <3>4. AccountOf(u)' = [AccountOf(u) EXCEPT !.in = FALSE] /\ AccountOf(u).pw = pw /\ AccountOf(u).in
            BY <3>2, <3>3, AccountFields
        <3> QED
            BY <1>2, <1>6, <1>8, <1>10, <2>2, <3>1, <3>4
            DEF Registry!TakeEffect, Registry!Leave, Registry!Accept
    <2>3. CASE pc[Udp] = "deleteLogin" /\ Op(Udp) # "LOU"
        <3>1. pc'[Udp] = "unregisterUser" /\ reply' = reply /\ loginFile[u]
            BY <1>0, <1>1, <1>18, <1>27, <2>3 DEF DeleteLogin, Goto, At, CommandInv
        <3> QED  BY <1>2, <1>7, <1>12, <1>17, <2>1, <2>3, <3>1
    <2>4. CASE pc[Udp] = "unregisterDeleteLogin"
        <3>1. pc'[Udp] = "deletePass" /\ reply' = reply
            BY <1>0, <1>18, <1>27, <2>4 DEF DeleteLogin, Goto, At
        <3> QED  BY <1>2, <1>7, <1>16, <1>17, <2>1, <2>4, <3>1
    <2> QED  BY <1>27, <2>2, <2>3, <2>4 DEF DeleteLogin, At
<1>28. CASE UnregisterUser(Udp)
    <2>1. /\ pc[Udp] = "unregisterUser" /\ pc'[Udp] = "unregisterDeleteLogin" /\ passFile'[u] = pw
          /\ reply' = reply
        BY <1>0, <1>1, <1>18, <1>28
        DEF UnregisterUser, Goto, At, PasswordMatches, files, AccountInv, MainThreadInv
    <2> QED  BY <1>2, <1>7, <1>16, <1>17, <2>1
<1>29. CASE DeletePass(Udp)
    <2>1. /\ pc[Udp] = "deletePass" /\ pc'[Udp] = "send" /\ passFile'[u] = NoFile
          /\ ~loginFile'[u] /\ Op(Udp) = "UNR" /\ reply'[Udp] = "OK"
        BY <1>0, <1>1, <1>2, <1>18, <1>29, AccountStatuses
        DEF DeletePass, Answer, At, AccountInv, MainThreadInv
    <2>2. AccountOf(u)' = Registry!Unregistered
        BY <1>13, <2>1 DEF Registry!Unregistered
    <2>3. AccountOf(u) = [pw |-> pw, in |-> TRUE]
        BY <1>16, <2>1
    <2> QED
        BY <1>2, <1>6, <1>8, <1>10, <2>1, <2>2, <2>3
        DEF Registry!TakeEffect, Registry!Leave, Registry!Accept
<1> QED
    BY <1>19, <1>20, <1>21, <1>22, <1>23, <1>24, <1>25, <1>26, <1>27, <1>28, <1>29
    DEF Authenticate, ManageAccount

(* Any other step, of a worker or of the main thread for a listing, leaves all
   as Accounts sees it. *)
LEMMA OtherStep ==
    ASSUME AccountInv, TypeInv', UNCHANGED files,
           \/ UNCHANGED <<pc[Udp], req[Udp], reply[Udp]>>
           \/ Op(Udp) \notin AccountOps /\ Op(Udp)' \notin AccountOps
    PROVE  UNCHANGED Registry!vars
<1>1. UNCHANGED <<registryCommand, registryStatus>>
    BY DEF registryCommand, registryStatus, Op
<1>2. ASSUME NEW u \in Users  PROVE AccountOf(u)' = AccountOf(u)
    <2>1. CASE UNCHANGED <<pc[Udp], req[Udp], reply[Udp]>>
        BY <2>1, AccountKept DEF Registering, Unregistering, Serving, Uid, files
    <2>2. CASE Op(Udp) \notin AccountOps /\ Op(Udp)' \notin AccountOps
        <3>1. pc[Udp] \notin UdpLabels /\ pc'[Udp] \notin UdpLabels
            BY <2>2 DEF AccountInv, TypeInv, TypeOK, Threads, Op
        <3> QED  BY <3>1, AccountKept DEF Registering, Unregistering, Serving, UdpLabels, files
    <2> QED  BY <2>1, <2>2
<1>3. UNCHANGED registryAccount
    BY <1>2 DEF registryAccount
<1> QED  BY <1>1, <1>3 DEF Registry!vars

(* A datagram arrives: for an account command, a call. *)
LEMMA ReceiveStep ==
    ASSUME AccountInv, TypeInv', NEW r \in Requests, Receive(Udp, r), r.op \in AccountOps
    PROVE  Registry!Call
<1>1. /\ pc[Udp] = "idle" /\ req[Udp] = NoRequest /\ reply[Udp] = "none" /\ r \in UdpRequests
      /\ pc'[Udp] = FirstStep(r) /\ req'[Udp] = r /\ UNCHANGED <<files, reply>>
    BY DEF Receive, At, AccountInv, TypeInv, TypeOK, Threads
<1>2. pc'[Udp] = "userExists"
    BY <1>1 DEF FirstStep, AccountOps, PublicOps
<1>3. Op(Udp) \notin AccountOps /\ Op(Udp)' \in AccountOps
    BY <1>1 DEF Op, NoRequest, AccountOps
<1>4. /\ registryCommand = Registry!NoCommand /\ registryCommand' = r
      /\ registryStatus = "none" /\ registryStatus' = "none"
    BY <1>1, <1>3 DEF registryCommand, registryStatus, Registry!NoCommand, NoRequest
<1>5. ASSUME NEW u \in Users  PROVE AccountOf(u)' = AccountOf(u)
    BY <1>1, <1>2, AccountKept DEF Registering, Unregistering, Serving, files
<1>6. registryAccount' = registryAccount
    BY <1>5 DEF registryAccount
<1> QED  BY <1>1, <1>4, <1>6 DEF Registry!Call

LEMMA SendStep ==
    ASSUME AccountInv, TypeInv', Send(Udp), Op(Udp) \in AccountOps
    PROVE  Registry!Return
<1>1. /\ pc[Udp] = "send" /\ pc'[Udp] = "idle" /\ req'[Udp] = NoRequest /\ UNCHANGED files
      /\ reply[Udp] # "none"
    BY DEF Send, At, AccountInv, TypeInv, TypeOK, Threads
<1>2. Op(Udp)' \notin AccountOps
    BY <1>1 DEF Op, NoRequest, AccountOps
<1>3. registryStatus # "none" /\ registryCommand' = Registry!NoCommand /\ registryStatus' = "none"
    BY <1>1, <1>2 DEF registryCommand, registryStatus, Registry!NoCommand, NoRequest
<1>4. ASSUME NEW u \in Users  PROVE AccountOf(u)' = AccountOf(u)
    BY <1>1, AccountKept DEF Registering, Unregistering, Serving, files
<1>5. registryAccount' = registryAccount
    BY <1>4 DEF registryAccount
<1> QED  BY <1>3, <1>5 DEF Registry!Return

(* A kill in the middle of an account command leaves what Accounts names. *)
LEMMA CrashStep ==
    ASSUME AccountInv, CommandInv, TypeInv', Crash, Op(Udp) \in AccountOps
    PROVE  Registry!Killed
<1>1. PICK u, pw : u = Uid(Udp) /\ pw = req[Udp].pw
    OBVIOUS
<1>2. /\ Udp \in Threads /\ req[Udp] # NoRequest /\ pc[Udp] # "idle" /\ req[Udp] \in Requests
      /\ u \in Users /\ pw \in Passwords
    BY <1>1, RequestFields DEF AccountInv, TypeInv, TypeOK, Threads, Op, NoRequest, AccountOps
<1>3. pc'[Udp] = "idle" /\ req'[Udp] = NoRequest /\ reply'[Udp] = "none" /\ UNCHANGED files
    BY <1>2 DEF Crash
<1>4. Op(Udp)' \notin AccountOps
    BY <1>3 DEF Op, NoRequest, AccountOps
<1>5. /\ registryCommand = req[Udp] /\ registryCommand # Registry!NoCommand
      /\ registryCommand' = Registry!NoCommand /\ registryStatus' = "none"
    BY <1>2, <1>3, <1>4 DEF registryCommand, registryStatus, Registry!NoCommand, NoRequest
<1>6. \A v \in Users : ~Registering(v)' /\ ~Unregistering(v)'
    BY <1>3 DEF Registering, Unregistering, Serving
<1>7. ASSUME NEW v \in Users \ {u}  PROVE AccountOf(v)' = AccountOf(v)
    <2>1. ~Registering(v) /\ ~Unregistering(v)
        BY <1>1 DEF Registering, Unregistering, Serving
    <2> QED  BY <1>3, <1>6, <2>1, AccountKept DEF files
<1>8. CASE pc[Udp] \in {"writePass", "registerLogin", "registerCreateLogin"}
    <2>1. /\ Op(Udp) = "LIN" /\ ~loginFile'[u] /\ passFile'[u] \in {EmptyFile, pw} /\ reply[Udp] = "none"
        BY <1>1, <1>2, <1>3, <1>8
        DEF files, CommandInv, Registers, AccountInv, MainThreadInv, TypeInv, TypeOK
    <2>2. Registering(u) /\ ~Unregistering(u)
        BY <1>1, <1>8 DEF Registering, Unregistering, Serving
    <2>3. AccountOf(u) = [pw |-> NoFile, in |-> FALSE]
        BY <1>3, <2>1, <2>2, AccountIs DEF files
    <2>4. AccountOf(u)' = [pw |-> passFile'[u], in |-> FALSE]
        BY <1>2, <1>6, <2>1, AccountBecomes
    <2>5. registryAccount[u] = AccountOf(u) /\ AccountOf(u).pw = NoFile
        BY <1>2, <2>3, AccountFields DEF registryAccount
    <2>6. AccountOf(u)' \in Registry!HalfDone(registryAccount[u])
        BY <1>1, <1>5, <2>1, <2>4, <2>5 DEF Registry!HalfDone, Op
    <2>7. PICK left : left = AccountOf(u)'
        OBVIOUS
    <2>8. registryAccount' = [registryAccount EXCEPT ![u] = left]
        BY <1>2, <1>7, <2>7 DEF registryAccount
    <2>9. registryStatus = "none" /\ registryCommand.uid = u
        BY <1>1, <1>5, <2>1 DEF registryStatus, Uid
    <2> QED  BY <1>5, <2>6, <2>7, <2>8, <2>9 DEF Registry!Killed
<1>9. CASE pc[Udp] \in {"unregisterUser", "unregisterDeleteLogin", "deletePass"}
    <2>1. /\ Op(Udp) = "UNR" /\ ~loginFile'[u] /\ passFile[u] = pw /\ passFile'[u] = pw
          /\ reply[Udp] = "none"
        BY <1>1, <1>2, <1>3, <1>9
        DEF files, AccountInv, MainThreadInv, TypeInv, TypeOK
    <2>2. ~Registering(u) /\ Unregistering(u)
        BY <1>1, <1>9 DEF Registering, Unregistering, Serving
    <2>3. AccountOf(u) = [pw |-> pw, in |-> TRUE]
        BY <2>1, <2>2, AccountIs
    <2>4. AccountOf(u)' = [pw |-> pw, in |-> FALSE]
        BY <1>2, <1>6, <2>1, AccountBecomes
    <2>5. registryAccount[u] = AccountOf(u) /\ AccountOf(u).pw = pw /\ AccountOf(u).in
        BY <1>2, <2>3, AccountFields DEF registryAccount
    <2>6. AccountOf(u)' \in Registry!HalfDone(registryAccount[u])
        BY <1>1, <1>5, <2>1, <2>4, <2>5 DEF Registry!HalfDone, Op
    <2>7. PICK left : left = AccountOf(u)'
        OBVIOUS
    <2>8. registryAccount' = [registryAccount EXCEPT ![u] = left]
        BY <1>2, <1>7, <2>7 DEF registryAccount
    <2>9. registryStatus = "none" /\ registryCommand.uid = u
        BY <1>1, <1>5, <2>1 DEF registryStatus, Uid
    <2> QED  BY <1>5, <2>6, <2>7, <2>8, <2>9 DEF Registry!Killed
<1>10. CASE pc[Udp] \notin {"writePass", "registerLogin", "registerCreateLogin", "unregisterUser",
                            "unregisterDeleteLogin", "deletePass"}
    <2>1. ~Registering(u) /\ ~Unregistering(u)
        BY <1>10 DEF Registering, Unregistering, Serving
    <2>2. AccountOf(u)' = AccountOf(u)
        BY <1>2, <1>3, <1>6, <2>1, AccountKept DEF files
    <2>3. registryAccount' = registryAccount
        BY <1>7, <2>2 DEF registryAccount
    <2> QED  BY <1>5, <2>3 DEF Registry!Killed
<1> QED  BY <1>8, <1>9, <1>10

LEMMA RegistryStep ==
    ASSUME AccountInv, CommandInv, TypeInv', [Next]_vars
    PROVE  [Registry!Next]_Registry!vars
<1>0. TypeOK /\ Udp \in Threads
    BY DEF AccountInv, TypeInv, Threads
<1>1. ASSUME NEW r \in Requests, Receive(Udp, r)
      PROVE  Registry!Call \/ UNCHANGED Registry!vars
    <2>1. UNCHANGED files /\ Op(Udp) \notin AccountOps /\ req'[Udp] = r
        BY <1>0, <1>1 DEF Receive, TypeOK, At, Op, NoRequest, AccountOps
    <2>2. CASE r.op \notin AccountOps
        <3>1. Op(Udp)' \notin AccountOps
            BY <2>1, <2>2 DEF Op
        <3> QED  BY <2>1, <3>1, OtherStep
    <2> QED  BY <1>1, <2>2, ReceiveStep
<1>2. ASSUME Step(Udp), Op(Udp) \in AccountOps
      PROVE  Registry!TakeEffect \/ Registry!Return \/ UNCHANGED Registry!vars
    <2>1. ~Serve(Udp)
        BY <1>2 DEF Serve, At, CommandInv
    <2> QED  BY <1>2, <2>1, CommandStep, SendStep DEF Step
<1>3. ASSUME Step(Udp), Op(Udp) \notin AccountOps
      PROVE  UNCHANGED Registry!vars
    <2>1. ~ManageAccount(Udp)
        BY <1>0, <1>3
        DEF TypeOK, ManageAccount, CreatePass, WritePass, Login, CreateLogin, Logout,
            DeleteLogin, UnregisterUser, DeletePass, At, UdpLabels
    <2>2. UNCHANGED files /\ (req'[Udp] = req[Udp] \/ req'[Udp] = NoRequest)
        BY <1>0, <1>3, <2>1
        DEF TypeOK, Step, Authenticate, UserExists, GetUserPassword, IsUserLoggedIn, Serve, Send,
            Goto, Answer, Throw, files
    <2>3. Op(Udp)' \notin AccountOps
        BY <1>3, <2>2 DEF Op, NoRequest, AccountOps
    <2> QED  BY <1>3, <2>2, <2>3, OtherStep
<1>4. ASSUME NEW t \in Threads \ {Udp}, Step(t) \/ \E r \in Requests : Receive(t, r)
      PROVE  UNCHANGED Registry!vars
    <2>1. UNCHANGED <<files, pc[Udp], req[Udp], reply[Udp]>>
        BY <1>0, <1>4
        DEF TypeOK, UdpLabels, Goto, Answer, Throw, At, Step, Receive, Authenticate, UserExists,
            GetUserPassword, IsUserLoggedIn, ManageAccount, CreatePass, WritePass, Login, CreateLogin,
            Logout, DeleteLogin, UnregisterUser, DeletePass, Serve, Send, files
    <2> QED  BY <2>1, OtherStep
<1>5. CASE Crash
    <2>1. UNCHANGED files /\ Op(Udp)' \notin AccountOps
        BY <1>0, <1>5 DEF Crash, Op, NoRequest, AccountOps
    <2>2. CASE Op(Udp) \in AccountOps
        BY <1>5, <2>2, CrashStep DEF Registry!Next
    <2>3. CASE Op(Udp) \notin AccountOps
        BY <2>1, <2>3, OtherStep
    <2> QED  BY <2>2, <2>3
<1>6. CASE Restart \/ UNCHANGED vars
    BY <1>6, OtherStep DEF Restart, vars, files
<1> QED
    BY <1>1, <1>2, <1>3, <1>4, <1>5, <1>6 DEF Next, Registry!Next

(* Every behaviour of the account files is one of the account registry, kills
   included: the safety part of ImplementsAccounts, whose fairness is checked
   by TLC. *)
THEOREM RegistryImplemented ==
    Spec => Registry!Init /\ [][Registry!Next]_(Registry!vars)
<1>1. Init => AccountInv /\ CommandInv
    <2>1. Init => CommandInv
        BY DEF Init, CommandInv, Registers, UdpLabels, Threads
    <2> QED  BY <2>1, InitAccountInv
<1>2. Init => Registry!Init
    <2> SUFFICES ASSUME Init  PROVE Registry!Init
        OBVIOUS
    <2>1. Udp \in Threads /\ pc[Udp] = "idle" /\ req[Udp] = NoRequest /\ reply[Udp] = "none"
        BY DEF Init, Threads
    <2>2. registryCommand = Registry!NoCommand /\ registryStatus = "none"
        BY <2>1 DEF registryCommand, registryStatus, Op, NoRequest, Registry!NoCommand, AccountOps
    <2>3. ASSUME NEW u \in Users  PROVE AccountOf(u) = Registry!Unregistered
        <3>1. passFile[u] = NoFile /\ ~loginFile[u] /\ ~Registering(u) /\ ~Unregistering(u)
            BY <2>1 DEF Init, Registering, Unregistering, Serving
        <3> QED  BY <3>1, AccountIs DEF Registry!Unregistered
    <2> QED  BY <2>2, <2>3 DEF registryAccount, Registry!Init
<1>3. AccountInv => TypeInv
    BY DEF AccountInv
<1> QED
    BY <1>1, <1>2, <1>3, NextAccountInv, NextCommandInv, RegistryStep, PTL DEF Spec
=============================================================================

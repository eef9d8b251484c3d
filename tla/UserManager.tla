----------------------------- MODULE UserManager -----------------------------
(***************************************************************************)
(* The accounts of the auction server: class UserManager and the three     *)
(* account handlers, at the granularity of one file operation per step.    *)
(*                                                                         *)
(* An account is two files, USERS/<uid>/<uid>_pass.txt and _login.txt.     *)
(* Every file operation of utils.cpp runs under the mutex of its path and  *)
(* is one step; nothing is held between two operations.  Only the main     *)
(* thread (Udp) serves LIN, LOU and UNR, one datagram at a time.  Workers  *)
(* read the two files, one after the other, to authenticate BID, CLS and   *)
(* OPA; the main thread reads the login file for LMA and LMB.  What a      *)
(* request does once its credentials are accepted is not this module's     *)
(* business: the thread is then at "authorized".                           *)
(***************************************************************************)
EXTENDS Protocol

CONSTANTS
    Users, Passwords,
    Workers,        \* the threads of the TCP worker pool
    Udp,            \* the main thread, which serves the UDP socket
    UdpRequests,    \* the requests that may arrive at each socket: records
    TcpRequests,    \*   with at least the fields op, uid and pw
    NoFile,         \* the file does not exist
    EmptyFile,      \* the file exists and has no content
    Crashes         \* whether the process may be killed

Threads == Workers \union {Udp}
Requests == UdpRequests \union TcpRequests

AccountOps == {"LIN", "LOU", "UNR"}
PasswordOps == {"BID", "CLS", "OPA"}
PublicOps == {"LST", "SRC", "SAS"}

NoRequest == [op |-> "none"]

ASSUME ThreadsAssumption == Udp \notin Workers

ASSUME FilesAssumption ==
    NoFile # EmptyFile /\ NoFile \notin Passwords /\ EmptyFile \notin Passwords

ASSUME RequestsAssumption ==
    /\ \A r \in Requests : r.uid \in Users /\ r.pw \in Passwords
    /\ \A r \in UdpRequests : r.op \in UdpOps
    /\ \A r \in TcpRequests : r.op \in TcpOps

VARIABLES
    passFile,   \* [Users -> NoFile, EmptyFile or the password written in it]
    loginFile,  \* [Users -> BOOLEAN], whether the login file exists
    server,     \* "up" or "down"
    pc,         \* the file operation each thread is about to do
    req,        \* the request each thread is serving
    reply       \* the status each thread is about to send

files == <<passFile, loginFile>>
vars == <<passFile, loginFile, server, pc, req, reply>>

AuthLabels == {"userExists", "getUserPassword", "isUserLoggedIn"}
UdpLabels ==
    {"login", "createLogin", "createPass", "writePass", "registerLogin",
     "registerCreateLogin", "logout", "deleteLogin", "unregisterUser",
     "unregisterDeleteLogin", "deletePass"}

-----------------------------------------------------------------------------
(* Steps of a thread. *)

Goto(t, label) == pc' = [pc EXCEPT ![t] = label] /\ UNCHANGED <<server, req, reply>>

At(t, label) == server = "up" /\ pc[t] = label
Op(t) == req[t].op
Uid(t) == req[t].uid

Answer(t, status) ==
    /\ pc' = [pc EXCEPT ![t] = "send"]
    /\ reply' = [reply EXCEPT ![t] = Sent(Op(t), status)]
    /\ UNCHANGED <<server, req>>

Throw(t, exception) == Answer(t, Caught(Op(t), exception))

(* getUserPassword: read_from_file leaves the text empty when there is no file, and no
   password is empty: a missing and an empty file both fail to match. *)
PasswordMatches(t) == passFile[Uid(t)] = req[t].pw

(* Where a handler starts.  OpenAuctionRequest::receive compares the password
   without asking whether the user exists; the listings ask for the login
   file only, and the public requests for nothing. *)
FirstStep(r) ==
    CASE r.op \in {"LMA", "LMB"} -> "isUserLoggedIn"
      [] r.op = "OPA" -> "getUserPassword"
      [] r.op \in PublicOps -> "authorized"
      [] OTHER -> "userExists"

Receive(t, r) ==
    /\ At(t, "idle")
    /\ r \in IF t = Udp THEN UdpRequests ELSE TcpRequests
    /\ pc' = [pc EXCEPT ![t] = FirstStep(r)]
    /\ req' = [req EXCEPT ![t] = r]
    /\ UNCHANGED <<files, server, reply>>

(* Mutant: login registers the user again. *)
UserExistsAlwaysRegisters(t) ==
    /\ At(t, "userExists")
    /\ LET found == passFile[Uid(t)] # NoFile
       IN  CASE Op(t) = "LIN" -> Goto(t, "createPass")
             [] Op(t) \in {"LOU", "UNR"} ->
                    IF found THEN Goto(t, "isUserLoggedIn") ELSE Answer(t, "UNR")
             [] OTHER ->
                    IF found THEN Goto(t, "getUserPassword")
                             ELSE Throw(t, "InvalidCredentials")
    /\ UNCHANGED files

UserExists(t) ==
    /\ At(t, "userExists")
    /\ LET found == passFile[Uid(t)] # NoFile
       IN  CASE Op(t) = "LIN" -> Goto(t, IF found THEN "login" ELSE "createPass")
             [] Op(t) \in {"LOU", "UNR"} ->
                    IF found THEN Goto(t, "isUserLoggedIn") ELSE Answer(t, "UNR")
             [] OTHER ->
                    IF found THEN Goto(t, "getUserPassword")
                             ELSE Throw(t, "InvalidCredentials")
    /\ UNCHANGED files

(* Mutant: a worker takes any password. *)
GetUserPasswordUnchecked(t) ==
    /\ At(t, "getUserPassword")
    /\ IF TRUE THEN Goto(t, "isUserLoggedIn")
                             ELSE Throw(t, "InvalidCredentials")
    /\ UNCHANGED files

GetUserPassword(t) ==
    /\ At(t, "getUserPassword")
    /\ IF PasswordMatches(t) THEN Goto(t, "isUserLoggedIn")
                             ELSE Throw(t, "InvalidCredentials")
    /\ UNCHANGED files

IsUserLoggedIn(t) ==
    /\ At(t, "isUserLoggedIn")
    /\ CASE loginFile[Uid(t)] ->
              Goto(t, IF Op(t) \in AccountOps THEN "logout" ELSE "authorized")
         [] ~loginFile[Uid(t)] /\ Op(t) \in AccountOps -> Answer(t, "NOK")
         [] OTHER -> Throw(t, "UserNotLoggedIn")
    /\ UNCHANGED files

(* registerUser, and the login at its end *)

CreatePass(t) ==
    /\ At(t, "createPass")
    /\ passFile' = [passFile EXCEPT ![Uid(t)] = IF @ = NoFile THEN EmptyFile ELSE @]
    /\ Goto(t, "writePass")
    /\ UNCHANGED loginFile

WritePass(t) ==
    /\ At(t, "writePass")
    /\ passFile' = [passFile EXCEPT ![Uid(t)] = req[t].pw]
    /\ Goto(t, "registerLogin")
    /\ UNCHANGED loginFile

Login(t) ==
    /\ \/ At(t, "login") /\ PasswordMatches(t) /\ Goto(t, "createLogin")
       \/ At(t, "registerLogin") /\ PasswordMatches(t) /\ Goto(t, "registerCreateLogin")
       \/ /\ At(t, "login") \/ At(t, "registerLogin")
          /\ ~PasswordMatches(t)
          /\ Throw(t, "InvalidCredentials")
    /\ UNCHANGED files

CreateLogin(t) ==
    /\ \/ At(t, "createLogin") /\ Answer(t, "OK")
       \/ At(t, "registerCreateLogin") /\ Answer(t, "REG")
    /\ loginFile' = [loginFile EXCEPT ![Uid(t)] = TRUE]
    /\ UNCHANGED passFile

(* logout, which handleUnregister also calls before unregisterUser *)

(* Mutant: logging out asks for no password. *)
LogoutUnchecked(t) ==
    /\ At(t, "logout")
    /\ IF TRUE THEN Goto(t, "deleteLogin")
                             ELSE Throw(t, "InvalidCredentials")
    /\ UNCHANGED files

Logout(t) ==
    /\ At(t, "logout")
    /\ IF PasswordMatches(t) THEN Goto(t, "deleteLogin")
                             ELSE Throw(t, "InvalidCredentials")
    /\ UNCHANGED files

(* Mutant: unregistering leaves the login file. *)
DeleteLoginKeepsFile(t) ==
    /\ \/ At(t, "deleteLogin") /\ Op(t) = "LOU" /\ Answer(t, "OK")
       \/ At(t, "deleteLogin") /\ Op(t) = "UNR" /\ Goto(t, "unregisterUser")
       \/ At(t, "unregisterDeleteLogin") /\ Goto(t, "deletePass")
    /\ loginFile' = [loginFile EXCEPT ![Uid(t)] = @ /\ Op(t) = "UNR"]
    /\ UNCHANGED passFile

DeleteLogin(t) ==
    /\ \/ At(t, "deleteLogin") /\ Op(t) = "LOU" /\ Answer(t, "OK")
       \/ At(t, "deleteLogin") /\ Op(t) = "UNR" /\ Goto(t, "unregisterUser")
       \/ At(t, "unregisterDeleteLogin") /\ Goto(t, "deletePass")
    /\ loginFile' = [loginFile EXCEPT ![Uid(t)] = FALSE]
    /\ UNCHANGED passFile

UnregisterUser(t) ==
    /\ At(t, "unregisterUser")
    /\ IF PasswordMatches(t) THEN Goto(t, "unregisterDeleteLogin")
                             ELSE Throw(t, "InvalidCredentials")
    /\ UNCHANGED files

DeletePass(t) ==
    /\ At(t, "deletePass")
    /\ passFile' = [passFile EXCEPT ![Uid(t)] = NoFile]
    /\ Answer(t, "OK")
    /\ UNCHANGED loginFile

(* Mutant: the status of the last request is not cleared. *)
SendKeepsReply(t) ==
    /\ At(t, "send")
    /\ pc' = [pc EXCEPT ![t] = "idle"]
    /\ req' = [req EXCEPT ![t] = NoRequest]
    /\ reply' = reply
    /\ UNCHANGED <<files, server>>

Send(t) ==
    /\ At(t, "send")
    /\ pc' = [pc EXCEPT ![t] = "idle"]
    /\ req' = [req EXCEPT ![t] = NoRequest]
    /\ reply' = [reply EXCEPT ![t] = "none"]
    /\ UNCHANGED <<files, server>>

(* The handler's own work once the credentials are accepted, here only its
   end; AuctionManager refines it. *)
Serve(t) == At(t, "authorized") /\ Answer(t, "OK") /\ UNCHANGED files

(* The process is killed: the threads are lost, the files stay. *)
Crash ==
    /\ Crashes /\ server = "up"
    /\ server' = "down"
    /\ pc' = [t \in Threads |-> "idle"]
    /\ req' = [t \in Threads |-> NoRequest]
    /\ reply' = [t \in Threads |-> "none"]
    /\ UNCHANGED files

(* setupDB leaves the account files of the last run as they are. *)
Restart ==
    /\ server = "down"
    /\ server' = "up"
    /\ UNCHANGED <<files, pc, req, reply>>

-----------------------------------------------------------------------------
Authenticate(t) == UserExists(t) \/ GetUserPassword(t) \/ IsUserLoggedIn(t)

ManageAccount(t) ==
    \/ CreatePass(t) \/ WritePass(t) \/ Login(t) \/ CreateLogin(t)
    \/ Logout(t) \/ DeleteLogin(t) \/ UnregisterUser(t) \/ DeletePass(t)

Init ==
    /\ passFile = [u \in Users |-> NoFile]
    /\ loginFile = [u \in Users |-> FALSE]
    /\ server = "up"
    /\ pc = [t \in Threads |-> "idle"]
    /\ req = [t \in Threads |-> NoRequest]
    /\ reply = [t \in Threads |-> "none"]

Step(t) == Authenticate(t) \/ ManageAccount(t) \/ Serve(t) \/ Send(t)

Next ==
    \/ \E t \in Threads : Step(t) \/ \E r \in Requests : Receive(t, r)
    \/ Crash
    \/ Restart

Spec == Init /\ [][Next]_vars

-----------------------------------------------------------------------------
(* Properties. *)

(* Types, and what a thread's local state says of it: it has a request iff it
   is not idle, a status iff it is about to send it, and only the main thread
   touches the account files. *)
TypeOK ==
    /\ passFile \in [Users -> Passwords \union {NoFile, EmptyFile}]
    /\ loginFile \in [Users -> BOOLEAN]
    /\ server \in {"up", "down"}
    /\ pc \in [Threads -> AuthLabels \union UdpLabels \union {"idle", "authorized", "send"}]
    /\ req \in [Threads -> Requests \union {NoRequest}]
    /\ reply \in [Threads -> Statuses \union {"none"}]
    /\ \A t \in Threads :
          /\ pc[t] = "idle" <=> req[t] = NoRequest
          /\ pc[t] = "send" <=> reply[t] # "none"
          /\ pc[t] \in UdpLabels => t = Udp /\ Op(t) \in AccountOps

(* A user with a login file has a password on file: unregistering deletes the
   files in the order that no kill between two deletions can break. *)
LoginNeedsAccount == \A u \in Users : loginFile[u] => passFile[u] \in Passwords

(* Once written a password is never replaced: it only disappears, with the
   login file already gone, in an unregister request that gave that very
   password. *)
PasswordRemovedByHolder ==
    [][\A u \in Users : passFile[u] \in Passwords /\ passFile'[u] # passFile[u] =>
          /\ passFile'[u] = NoFile /\ ~loginFile[u]
          /\ Op(Udp) = "UNR" /\ Uid(Udp) = u /\ req[Udp].pw = passFile[u]]_vars

-----------------------------------------------------------------------------
(* The promise: an account command takes effect at once, with its reply.  An
   account being registered does not exist yet, one being unregistered is
   still there and logged in, and both change with the last file operation. *)

Serving(u, labels) == pc[Udp] \in labels /\ Uid(Udp) = u

Registering(u) == Serving(u, {"writePass", "registerLogin", "registerCreateLogin"})

Unregistering(u) ==
    Serving(u, {"unregisterUser", "unregisterDeleteLogin", "deletePass"})

AccountOf(u) ==
    [pw |-> IF Registering(u) THEN NoFile ELSE passFile[u],
     in |-> loginFile[u] \/ Unregistering(u)]

registryAccount == [u \in Users |-> AccountOf(u)]
registryCommand == IF Op(Udp) \in AccountOps THEN req[Udp] ELSE NoRequest
registryStatus == IF Op(Udp) \in AccountOps THEN reply[Udp] ELSE "none"

Registry == INSTANCE Accounts WITH
    NoPassword <- NoFile,
    Broken <- EmptyFile,
    CommandRequests <- {r \in UdpRequests : r.op \in AccountOps},
    account <- registryAccount, command <- registryCommand, status <- registryStatus

(* Killed or not, a thread that has work is scheduled; the kernel and the C++
   runtime starve no thread and every path mutex is held for one operation. *)
FairSpec == Spec /\ \A t \in Threads : WF_vars(Step(t))

(* UserManager implements the account registry, answers included: a command
   never shows a half-registered or half-deleted account to the next one, and
   what a kill leaves of it is one of the few states the registry names. *)
ImplementsAccounts == Registry!FairSpec
=============================================================================

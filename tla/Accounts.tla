------------------------------- MODULE Accounts -------------------------------
(***************************************************************************)
(* What the account commands of the auction server promise: each takes     *)
(* effect in one indivisible step, together with the status it answers;    *)
(* one that is cut off by a kill takes effect, or not, or leaves one of    *)
(* the few states named here.                                              *)
(***************************************************************************)
CONSTANTS
    Users, Passwords, CommandRequests,
    NoPassword,
    Broken      \* a password that nobody can give

VARIABLES
    account,    \* [Users -> [pw, in]]: password and whether logged in
    command,    \* the command being served, or NoCommand
    status      \* the status it is about to answer, "none" before it took effect

vars == <<account, command, status>>

NoCommand == [op |-> "none"]
Unregistered == [pw |-> NoPassword, in |-> FALSE]

Init ==
    /\ account = [u \in Users |-> Unregistered]
    /\ command = NoCommand
    /\ status = "none"

Call ==
    /\ command = NoCommand
    /\ command' \in CommandRequests
    /\ UNCHANGED <<account, status>>

Refuse(reason) == status' = reason /\ UNCHANGED account
Accept(result, acc) ==
    status' = result /\ account' = [account EXCEPT ![command.uid] = acc]

(* Mutant: a second login ends the session of the first. *)
LoginEndsSession(acc) ==
    \/ acc.pw = NoPassword /\ Accept("REG", [pw |-> command.pw, in |-> TRUE])
    \/ acc.pw # NoPassword /\ acc.pw = command.pw /\ Accept("OK", [acc EXCEPT !.in = ~acc.in])
    \/ acc.pw \notin {NoPassword, command.pw} /\ Refuse("NOK")

Login(acc) ==
    \/ acc.pw = NoPassword /\ Accept("REG", [pw |-> command.pw, in |-> TRUE])
    \/ acc.pw # NoPassword /\ acc.pw = command.pw /\ Accept("OK", [acc EXCEPT !.in = TRUE])
    \/ acc.pw \notin {NoPassword, command.pw} /\ Refuse("NOK")

(* Logging out and unregistering differ in what they leave. *)
Leave(acc, left) ==
    \/ acc.pw = NoPassword /\ Refuse("UNR")
    \/ acc.pw # NoPassword /\ ~acc.in /\ Refuse("NOK")
    \/ acc.pw \notin {NoPassword, command.pw} /\ acc.in /\ Refuse("ERR")
    \/ acc.pw # NoPassword /\ acc.pw = command.pw /\ acc.in /\ Accept("OK", left)

TakeEffect ==
    /\ command # NoCommand /\ status = "none"
    /\ LET acc == account[command.uid]
       IN  \/ command.op = "LIN" /\ Login(acc)
           \/ command.op = "LOU" /\ Leave(acc, [acc EXCEPT !.in = FALSE])
           \/ command.op = "UNR" /\ Leave(acc, Unregistered)
    /\ UNCHANGED command

Return ==
    /\ status # "none"
    /\ command' = NoCommand
    /\ status' = "none"
    /\ UNCHANGED account

(* What a command leaves that was killed on the way: a user registered with a
   broken password, or not logged in yet; one only logged out. *)
HalfDone(acc) ==
    {[pw |-> pw, in |-> FALSE] : pw \in
        IF command.op = "LIN" /\ acc.pw = NoPassword THEN {Broken, command.pw}
        ELSE IF command.op = "UNR" /\ acc.in /\ acc.pw = command.pw THEN {acc.pw}
        ELSE {}}

Killed ==
    /\ command # NoCommand
    /\ command' = NoCommand
    /\ status' = "none"
    /\ \/ UNCHANGED account
       \/ /\ status = "none"
          /\ \E left \in HalfDone(account[command.uid]) :
                account' = [account EXCEPT ![command.uid] = left]

Next == Call \/ TakeEffect \/ Return \/ Killed

FairSpec == Init /\ [][Next]_vars /\ WF_vars(TakeEffect) /\ WF_vars(Return)
=============================================================================

---------------------------- MODULE MCUserManager ----------------------------
(* Instances of UserManager for TLC. *)
EXTENDS UserManager, TLC

CONSTANTS u1, u2, p1, p2, w1

MCUsers == {u1, u2}
MCPasswords == {p1, p2}
MCOneWorker == {w1}

Request(op, u, p) == [op |-> op, uid |-> u, pw |-> p]

MCUdpRequests ==
    {Request(op, u, p) : op \in AccountOps, u \in Users, p \in Passwords}
    \union {Request("LMA", u, p1) : u \in Users}
MCTcpRequests ==
    {Request(op, u1, p) : op \in {"BID", "CLS", "OPA"}, p \in Passwords}
    \union {Request("SAS", u1, p1)}
=============================================================================

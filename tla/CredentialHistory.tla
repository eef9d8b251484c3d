-------------------------- MODULE CredentialHistory --------------------------
(***************************************************************************)
(* UserManager with a history of what was true of the credentials of each  *)
(* request while it was being served.  The history is never read by the    *)
(* server; it only lets the properties speak of the request's past.        *)
(***************************************************************************)
EXTENDS UserManager

VARIABLE past   \* [Threads -> [right, in: BOOLEAN]]

Never == [right |-> FALSE, in |-> FALSE]

(* Whether the password of t's request is right, and its user logged in, in
   the state after the step. *)
Now(t) ==
    [right |-> passFile'[req'[t].uid] = req'[t].pw, in |-> loginFile'[req'[t].uid]]

Remember ==
    past' = [t \in Threads |->
        IF pc'[t] = "idle" THEN Never
        ELSE [k \in {"right", "in"} |-> past[t][k] \/ Now(t)[k]]]

HInit == Init /\ past = [t \in Threads |-> Never]
HNext == Next /\ Remember
HSpec == HInit /\ [][HNext]_<<vars, past>>

HFairSpec == HSpec /\ \A t \in Threads : WF_vars(Step(t))

Accepted(t) == pc[t] = "authorized" /\ Op(t) \in PasswordOps

(* Nobody bids, closes or opens without having given, while the request was
   served, the password the account had at some moment, and having been
   logged in at some moment; the two files are read at different moments. *)
CredentialsWereRight ==
    \A t \in Threads : Accepted(t) => past[t].right /\ past[t].in
=============================================================================

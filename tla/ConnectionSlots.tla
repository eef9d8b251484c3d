---------------------------- MODULE ConnectionSlots ----------------------------
(***************************************************************************)
(* What the TCP side of the server promises: a connection is served in one *)
(* of a fixed number of slots, or refused at a moment when all slots are   *)
(* taken; a slot is given back after its connection was served.  It does   *)
(* not promise that every connection is settled: one may be leaked before  *)
(* it gets as far as a slot.                                               *)
(***************************************************************************)
EXTENDS Naturals, FiniteSets

CONSTANTS Slots, Connections

VARIABLES
    conn,       \* the state of each connection
    free,       \* how many slots are free
    stopping    \* whether the server is going down

vars == <<conn, free, stopping>>

Is(state) == {c \in Connections : conn[c] = state}

Init ==
    /\ conn = [c \in Connections |-> "none"]
    /\ free = Slots
    /\ stopping = FALSE

Become(c, from, to) == conn[c] = from /\ conn' = [conn EXCEPT ![c] = to]

Connect(c) == Become(c, "none", "pending") /\ UNCHANGED <<free, stopping>>
Accept(c) == Become(c, "pending", "accepted") /\ UNCHANGED <<free, stopping>>

(* A connection that is taken and forgotten at once: neither served, nor refused,
   nor closed.  It never had a slot, and costs none. *)
Leak(c) == Become(c, "pending", "leaked") /\ UNCHANGED <<free, stopping>>

Take(c) ==
    /\ free > 0 /\ free' = free - 1
    /\ Become(c, "accepted", "given")
    /\ UNCHANGED stopping

Refuse(c) ==
    /\ free = 0
    /\ Become(c, "accepted", "refused")
    /\ UNCHANGED <<free, stopping>>

Serve(c) == Become(c, "given", "served") /\ UNCHANGED <<free, stopping>>

(* A slot whose connection was served. *)
Release ==
    /\ free + Cardinality(Is("given")) < Slots
    /\ free' = free + 1
    /\ UNCHANGED <<conn, stopping>>

Stop == stopping' = TRUE /\ UNCHANGED <<conn, free>>

(* A connection that was handed over, or that is taken when the server goes
   down, is lost only by a server that goes down. *)
Lose(c) ==
    /\ stopping
    /\ Become(c, "pending", "lost") \/ Become(c, "given", "lost")
    /\ UNCHANGED <<free, stopping>>

Next ==
    \/ \E c \in Connections :
          \/ Connect(c) \/ Accept(c) \/ Leak(c)
          \/ Take(c) \/ Refuse(c) \/ Serve(c) \/ Lose(c)
    \/ Release \/ Stop

Spec == Init /\ [][Next]_vars
=============================================================================

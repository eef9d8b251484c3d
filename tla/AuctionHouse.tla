----------------------------- MODULE AuctionHouse -----------------------------
(***************************************************************************)
(* What AuctionManager promises of bids, closes, listings and records,     *)
(* however their file operations interleave.  A bid or a close takes       *)
(* effect in one step; an auction is over once its owner has closed it or  *)
(* somebody has noticed that its time is up; and what a request is told    *)
(* was true at some moment after it arrived.                               *)
(*                                                                         *)
(* What it does not promise: that a bid is larger than those made while it *)
(* was served, or that none is filed after the auction is over.  Both hold *)
(* only of what was there when the request arrived.                        *)
(***************************************************************************)
EXTENDS Protocol, Naturals, FiniteSets

CONSTANTS
    Threads, Requests,
    Auctions, Values,
    OwnerOf,        \* [Auctions -> users]
    StartValue,     \* [Auctions -> numbers]
    TopBids,        \* how many bids a record shows
    NoRequest

VARIABLES
    bids,       \* [Auctions -> SUBSET Values]
    over,       \* the auctions that are over
    due,        \* those whose time is up
    call,       \* the request each thread is serving, or NoRequest
    found,      \* what its request found: bids on its auction, auctions over or due
    answer,     \* the status it is about to answer, "none" before
    told        \* the bids and the ends that go with the answer

vars == <<bids, over, due, call, found, answer, told>>

Nothing == [bids |-> {}, over |-> {}]

(* A request that names an auction may name one that does not exist. *)
Names(r) == r.op \in {"BID", "CLS", "SAS", "SRC"}
Known(r) == r.aid \in Auctions
BidsFor(r) == IF Names(r) /\ Known(r) THEN bids[r.aid] ELSE {}

Init ==
    /\ bids = [a \in Auctions |-> {}]
    /\ over = {} /\ due \subseteq Auctions
    /\ call = [t \in Threads |-> NoRequest]
    /\ found = [t \in Threads |-> Nothing]
    /\ answer = [t \in Threads |-> "none"]
    /\ told = [t \in Threads |-> Nothing]

Call(t) ==
    /\ call[t] = NoRequest
    /\ \E r \in Requests :
          /\ call' = [call EXCEPT ![t] = r]
          /\ found' = [found EXCEPT ![t] = [bids |-> BidsFor(r), over |-> over \union due]]
    /\ UNCHANGED <<bids, over, due, answer, told>>

Serving(t, op) == answer[t] = "none" /\ call[t] # NoRequest /\ call[t].op = op

-----------------------------------------------------------------------------
(* Effects. *)

MayBid(t) ==
    LET r == call[t]
    IN  /\ Known(r) /\ r.uid # OwnerOf[r.aid] /\ r.aid \notin found[t].over
        /\ r.val > StartValue[r.aid] /\ \A b \in found[t].bids : r.val > b

MayClose(t) ==
    LET r == call[t]
    IN  Known(r) /\ r.uid = OwnerOf[r.aid] /\ r.aid \notin found[t].over

FileBid(t) ==
    /\ Serving(t, "BID") /\ MayBid(t)
    /\ bids' = [bids EXCEPT ![call[t].aid] = @ \union {call[t].val}]
    /\ UNCHANGED <<over, due, call, found, answer, told>>

End(a) ==
    /\ over' = over \union {a}
    /\ UNCHANGED <<bids, due, call, found, answer, told>>

Close(t) == Serving(t, "CLS") /\ MayClose(t) /\ End(call[t].aid)

Notice == \E a \in due : End(a)

TimePasses ==
    /\ due' \in {due \union late : late \in SUBSET Auctions}
    /\ UNCHANGED <<bids, over, call, found, answer, told>>

-----------------------------------------------------------------------------
(* Answers: when each status of a request that passed its authentication is
   true; one that did not pass may be refused in any case. *)

Unauthenticated == {"ERR", "ERR packet", "NLG"}

BidStatus(t, s) ==
    LET r == call[t]
    IN  \/ s = "ACC" /\ MayBid(t) /\ r.val \in bids[r.aid]
        \/ s = "NOK" /\ r.aid \in over
        \/ s = "REF" /\ Known(r) /\ \E b \in bids[r.aid] \union {StartValue[r.aid]} : r.val <= b
        \/ s = "ILG" /\ Known(r) /\ r.uid = OwnerOf[r.aid]
        \/ s \in Unauthenticated

CloseStatus(t, s) ==
    LET r == call[t]
    IN  \/ s = "OK" /\ MayClose(t) /\ r.aid \in over
        \/ s = "END" /\ r.aid \in over
        \/ s = "EOW" /\ Known(r) /\ r.uid # OwnerOf[r.aid]
        \/ s = "EAU" /\ ~Known(r)
        \/ s \in Unauthenticated

(* Of the bids and the end of the auction at least what it found, but for bids
   that TopBids larger ones leave no room for; and nothing that is not on file. *)
RecordStatus(t, s, shown) ==
    LET r == call[t]
    IN  \/ /\ s = "OK" /\ Known(r)
           /\ shown.bids \subseteq bids[r.aid]
           /\ \A v \in found[t].bids \ shown.bids :
                 Cardinality({w \in shown.bids : w > v}) = TopBids
           /\ found[t].over \intersect {r.aid} \subseteq shown.over
           /\ shown.over \subseteq over \intersect {r.aid}
        \/ s = "NOK" /\ ~Known(r)

AssetStatus(t, s) == s = IF Known(call[t]) THEN "OK" ELSE "NOK"

ListStatus(t, s, shown) ==
    \/ s = "OK" /\ found[t].over \subseteq shown.over /\ shown.over \subseteq over
    \/ s = "NOK"
    \/ s = "NLG" /\ call[t].op \in {"LMA", "LMB"}

Truthful(t, s, shown) ==
    LET op == call[t].op
    IN  \/ op = "BID" /\ BidStatus(t, s)
        \/ op = "CLS" /\ CloseStatus(t, s)
        \/ op = "SRC" /\ RecordStatus(t, s, shown)
        \/ op = "SAS" /\ AssetStatus(t, s)
        \/ op \in {"LST", "LMA", "LMB"} /\ ListStatus(t, s, shown)

Answer(t) ==
    /\ call[t] # NoRequest /\ answer[t] = "none"
    /\ \E s \in Statuses :
          /\ answer' = [answer EXCEPT ![t] = s]
          /\ \E shown \in [bids : SUBSET Values, over : SUBSET Auctions] :
                told' = [told EXCEPT ![t] = shown] /\ Truthful(t, s, shown)
    /\ UNCHANGED <<bids, over, due, call, found>>

Return(t) ==
    /\ answer[t] # "none"
    /\ call' = [call EXCEPT ![t] = NoRequest]
    /\ found' = [found EXCEPT ![t] = Nothing]
    /\ answer' = [answer EXCEPT ![t] = "none"]
    /\ told' = [told EXCEPT ![t] = Nothing]
    /\ UNCHANGED <<bids, over, due>>

(* What is on file outlives the server; what it was asked does not. *)
Killed ==
    /\ call' = [t \in Threads |-> NoRequest]
    /\ found' = [t \in Threads |-> Nothing]
    /\ answer' = [t \in Threads |-> "none"]
    /\ told' = [t \in Threads |-> Nothing]
    /\ UNCHANGED <<bids, over, due>>

-----------------------------------------------------------------------------
Next ==
    \/ \E t \in Threads : Call(t) \/ FileBid(t) \/ Close(t) \/ Answer(t) \/ Return(t)
    \/ Notice \/ TimePasses \/ Killed

Spec == Init /\ [][Next]_vars
=============================================================================

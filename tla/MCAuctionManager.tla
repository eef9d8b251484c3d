--------------------------- MODULE MCAuctionManager ---------------------------
(* Instances of AuctionManager for TLC: user o owns every auction, b1 and b2
   bid, n has an account and is not logged in. *)
EXTENDS AuctionManager, TLC

CONSTANTS o, b1, b2, n, pw, bad, w1, w2

MCUsers == {o, b1, b2, n}
MCPasswords == {pw, bad}
MCOneWorker == {w1}
MCWorkers == {w1, w2}
MCValues == 1..3
MCInitialPass == [u \in Users |-> pw]
MCInitialLogin == [u \in Users |-> u # n]

(* Auctions start at value 1 and last one second. *)
MCStartFile ==
    [a \in 1..NumAuctions |-> [owner |-> o, startValue |-> 1, timeActive |-> 1, start |-> 0]]

Request(op, u, p) == [op |-> op, uid |-> u, pw |-> p]
On(op, u, a) == [op |-> op, uid |-> u, pw |-> pw, aid |-> a]
Bid(u, p, a, v) == [op |-> "BID", uid |-> u, pw |-> p, aid |-> a, val |-> v]

Bids == {Bid(u, pw, 1, v) : u \in {b1, b2}, v \in {2, 3}}
UnknownBid == Bid(b1, pw, NumAuctions + 1, 3)
Refused == {Bid(b1, bad, 1, 3), UnknownBid}

MCNoRequests == {}
MCBidsAndClose == Bids \union {Bid(o, pw, 1, 3), On("CLS", o, 1)}

(* Two bidders bid the same value on one auction and the owner closes the other
   while one of them lists the auctions it has bid on. *)
MCEqualBids == {Bid(b1, pw, 1, 2), Bid(b2, pw, 1, 2), Bid(b1, pw, 2, 2), On("CLS", o, 2)}
MCMyBids == {Request("LMB", b1, pw)}

MCEveryTcp ==
    {Bid(b1, pw, 1, 2), Bid(b2, pw, 1, 3)} \union Refused
    \union {On("CLS", o, 1), On("CLS", b1, 1), On("CLS", o, 2), On("SAS", o, 1)}
MCCrashUdp ==
    {On("SRC", o, 1), Request("LST", o, pw), Request("LMA", o, pw), Request("LIN", b1, pw)}

MCSymmetry == Permutations(Workers)
=============================================================================

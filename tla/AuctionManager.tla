---------------------------- MODULE AuctionManager ----------------------------
(***************************************************************************)
(* Bidding on, closing and reading auctions: class AuctionManager and the  *)
(* handlers of BID, CLS, SAS, SRC, LST, LMA and LMB, on top of the account *)
(* files of UserManager, at the granularity of one file operation per      *)
(* step.                                                                   *)
(*                                                                         *)
(* An auction is a directory: a START file that never changes, an END file *)
(* that exists once the auction is over, and one file per bid, named after *)
(* its value.  Nobody closes an auction when its time is up: the first     *)
(* request that notices writes the END file.  No lock is held from one     *)
(* file operation to the next, so workers and the main thread interleave   *)
(* inside every check-then-act sequence.  A new file is created empty and  *)
(* written by a second operation; reading it in between indexes a vector   *)
(* past its end.  That is undefined, and in the program as built a fault   *)
(* that kills the process; so does reading the START file of an auction    *)
(* that does not exist.                                                    *)
(*                                                                         *)
(* The auctions of a behaviour are open and complete from the start (how   *)
(* they are opened is the subject of AuctionOpening); a directory scan is  *)
(* one step, and so is a write.                                            *)
(***************************************************************************)
EXTENDS Protocol, Naturals, FiniteSets

CONSTANTS
    Users, Passwords, Workers, Udp, UdpRequests, TcpRequests,
    NoFile, EmptyFile, Crashes,
    NumAuctions,    \* the auctions 1..NumAuctions are open
    Values,         \* bid values
    StartFile,      \* what the START file of each auction says
    InitialPass,    \* the accounts there are, and who is logged in
    InitialLogin,
    TopBids,        \* how many bids a record shows
    InitialTime,    \* the clock at the start
    MaxTime         \* bound on the clock, in seconds

Threads == Workers \union {Udp}
Requests == UdpRequests \union TcpRequests
Auctions == 1..NumAuctions
Ends == [early : BOOLEAN, seconds : Nat]

(* A request that names an auction may name one that does not exist. *)
AuctionOps == {"BID", "CLS", "SAS", "SRC"}
ListOps == {"LST", "LMA", "LMB"}

ASSUME NumbersAssumption ==
    /\ NumAuctions \in Nat /\ TopBids \in Nat
    /\ Values \subseteq Nat /\ IsFiniteSet(Values)
    /\ InitialTime \in Nat /\ MaxTime \in Nat /\ InitialTime <= MaxTime

ASSUME StartAssumption ==
    /\ StartFile \in [Auctions -> [owner : Users, startValue : Nat,
                                   timeActive : Nat, start : Nat]]
    /\ \A a \in Auctions : StartFile[a].start <= InitialTime

ASSUME FileContentsAssumption ==
    /\ NoFile # EmptyFile
    /\ {NoFile, EmptyFile} \intersect (Users \union Passwords \union Ends) = {}

ASSUME AccountsAssumption ==
    /\ InitialPass \in [Users -> Passwords \union {NoFile, EmptyFile}]
    /\ InitialLogin \in [Users -> BOOLEAN]

ASSUME AuctionRequestsAssumption ==
    /\ Udp \notin Workers
    /\ \A r \in Requests : r.uid \in Users /\ r.pw \in Passwords
    /\ \A r \in UdpRequests : r.op \in UdpOps
    /\ \A r \in TcpRequests : r.op \in TcpOps \ {"OPA"}
    /\ \A r \in Requests : r.op \in AuctionOps => r.aid \in Nat
    /\ \A r \in Requests : r.op = "BID" => r.val \in Values

VARIABLES
    passFile, loginFile, server, pc, req, reply,    \* see UserManager
    clock,      \* seconds since the epoch
    endFile,    \* [Auctions -> NoFile, EmptyFile or what it says]
    bidFile,    \* [Auctions -> [Values -> NoFile, EmptyFile or the bidder]]
    fault,      \* the undefined read that killed the process, or "none"
    cur,        \* the auction each thread is at
    early,      \* the earlyClosure argument of createCloseAuctionFile
    ended,      \* auctions a listing has found to be over
    mine,       \* auctions of the user's a listing has found
    shown,      \* what a show_record reply says: bids, and whether over
    seen        \* history: what was on file when each request arrived

userVars == <<passFile, loginFile, server, pc, req, reply>>
fileVars == <<endFile, bidFile>>
localVars == <<cur, early, ended, mine, shown>>
vars == <<userVars, clock, fileVars, fault, localVars, seen>>

U == INSTANCE UserManager

CloseLabels == {"closeCheck", "closeCreate", "closeWrite"}
Labels == CloseLabels \union
    {"checkAuctionValidity", "getAuctionOwner", "getLargestBid", "createBid",
     "writeBid", "getAuctionAsset", "getAuctionBids", "getAuctionEndInfo",
     "nextAuction", "getAuctionInfo", "getAuctionBidders"}

NothingShown == [bids |-> {}, over |-> FALSE]
NothingSeen == [bids |-> {}, over |-> {}, standing |-> {}]

-----------------------------------------------------------------------------
At(t, label) == U!At(t, label) /\ UNCHANGED <<passFile, loginFile, clock, seen>>
Authorized(t, ops) == At(t, "authorized") /\ req[t].op \in ops
Goto(t, label) == U!Goto(t, label) /\ UNCHANGED fault
Answer(t, status) == U!Answer(t, status) /\ UNCHANGED fault
Throw(t, exception) == U!Throw(t, exception) /\ UNCHANGED fault

(* Undefined behaviour: the process dies, what it had in memory is lost. *)
Fault(what) ==
    /\ fault' = what
    /\ server' = "down"
    /\ pc' = [u \in Threads |-> "idle"]
    /\ req' = [u \in Threads |-> U!NoRequest]
    /\ reply' = [u \in Threads |-> "none"]

LocalsLost ==
    /\ cur' = [t \in Threads |-> 0]
    /\ early' = [t \in Threads |-> FALSE]
    /\ ended' = [t \in Threads |-> {}]
    /\ mine' = [t \in Threads |-> {}]
    /\ shown' = [t \in Threads |-> NothingShown]

Exists(file) == file # NoFile
Owner(a) == StartFile[a].owner
Deadline(a) == StartFile[a].start + StartFile[a].timeActive
Expired(a) == clock >= Deadline(a)
BidsOn(a) == {v \in Values : Exists(bidFile[a][v])}
BidderOf(a, v) == bidFile[a][v]

-----------------------------------------------------------------------------
(* A bid that no worker is about to overwrite: two that file the same value
   write the same file, and the second replaces the bid of the first. *)
Stands(a, v, user) ==
    /\ bidFile[a][v] = user
    /\ \A t \in Threads :
          pc[t] \in {"createBid", "writeBid"} /\ cur[t] = a /\ req[t].val = v => req[t].uid = user

(* What the history notes of a request: the bids on file for the auction it
   names, the auctions that are over, and those its user has a bid on that
   nobody is about to overwrite. *)
OnFile(r) ==
    [bids |-> IF r.op \in AuctionOps /\ r.aid \in Auctions THEN BidsOn(r.aid) ELSE {},
     over |-> {a \in Auctions : Expired(a) \/ Exists(endFile[a])},
     standing |-> {a \in Auctions : r.op = "LMB" /\ \E v \in Values : Stands(a, v, r.uid)}]

Receive(t) ==
    \E r \in Requests :
        /\ U!Receive(t, r)
        /\ cur' = [cur EXCEPT ![t] = IF r.op \in AuctionOps THEN r.aid ELSE 1]
        /\ seen' = [seen EXCEPT ![t] = OnFile(r)]
        /\ UNCHANGED <<clock, fileVars, fault, early, ended, mine, shown>>

Authenticate(t) ==
    U!Authenticate(t) /\ UNCHANGED <<clock, fileVars, fault, localVars, seen>>

ManageAccount(t) ==
    U!ManageAccount(t) /\ UNCHANGED <<clock, fileVars, fault, localVars, seen>>

Send(t) ==
    /\ U!Send(t)
    /\ cur' = [cur EXCEPT ![t] = 0]
    /\ early' = [early EXCEPT ![t] = FALSE]
    /\ ended' = [ended EXCEPT ![t] = {}]
    /\ mine' = [mine EXCEPT ![t] = {}]
    /\ shown' = [shown EXCEPT ![t] = NothingShown]
    /\ seen' = [seen EXCEPT ![t] = NothingSeen]
    /\ UNCHANGED <<clock, fileVars, fault>>

-----------------------------------------------------------------------------
(* checkAuctionValidity, and createCloseAuctionFile, which it leads to when the
   time is up and a close request reaches anyhow. *)

(* Mutant: the loop over the auctions does not advance past one that is over. *)
ListedForgetsToAdvance(t, over) ==
    /\ ended' = [ended EXCEPT ![t] = IF over THEN @ \union {cur[t]} ELSE @]
    /\ IF over \/ cur[t] < NumAuctions
       THEN Goto(t, "nextAuction") /\ cur' = [cur EXCEPT ![t] = IF over THEN @ ELSE @ + 1]
       ELSE CASE req[t].op = "LST" -> Answer(t, "OK") /\ UNCHANGED cur
              [] req[t].op = "LMA" -> Goto(t, "getAuctionInfo") /\ UNCHANGED cur
              [] OTHER -> Goto(t, "getAuctionBidders") /\ cur' = [cur EXCEPT ![t] = 1]
    /\ UNCHANGED <<mine, shown>>

(* listAuctions is done with auction cur[t]; listUserAuctions and
   getAuctionsBiddedByUser go on when it is done with the last one. *)
Listed(t, over) ==
    /\ ended' = [ended EXCEPT ![t] = IF over THEN @ \union {cur[t]} ELSE @]
    /\ IF cur[t] < NumAuctions
       THEN Goto(t, "nextAuction") /\ cur' = [cur EXCEPT ![t] = @ + 1]
       ELSE CASE req[t].op = "LST" -> Answer(t, "OK") /\ UNCHANGED cur
              [] req[t].op = "LMA" -> Goto(t, "getAuctionInfo") /\ UNCHANGED cur
              [] OTHER -> Goto(t, "getAuctionBidders") /\ cur' = [cur EXCEPT ![t] = 1]
    /\ UNCHANGED <<mine, shown>>

(* The request goes on with an auction that is still active, or that it has
   just closed, or seen closed by another, on noticing that its time is up. *)
Proceed(t, over) ==
    \/ /\ req[t].op = "BID"
       /\ IF over THEN Throw(t, "NonActiveAuction") ELSE Goto(t, "getAuctionOwner")
       /\ UNCHANGED <<cur, ended, mine, shown>>
    \/ /\ req[t].op = "SAS" /\ Goto(t, "getAuctionAsset")
       /\ UNCHANGED <<cur, ended, mine, shown>>
    \/ /\ req[t].op = "SRC" /\ Goto(t, "getAuctionBids")
       /\ UNCHANGED <<cur, ended, mine, shown>>
    \/ req[t].op \in ListOps /\ Listed(t, over)

(* Mutant: closeAuction passes the wrong earlyClosure. *)
CheckAuctionValidityAlwaysLate(t) ==
    /\ At(t, "checkAuctionValidity")
    /\ UNCHANGED fileVars
    /\ IF cur[t] \notin Auctions
       THEN Fault("start") /\ LocalsLost
       ELSE IF Expired(cur[t]) \/ req[t].op = "CLS"
       THEN /\ early' = [early EXCEPT ![t] = FALSE]
            /\ Goto(t, "closeCheck")
            /\ UNCHANGED <<cur, ended, mine, shown>>
       ELSE Proceed(t, FALSE) /\ UNCHANGED early

(* Mutant: the deadline is missed by one second. *)
CheckAuctionValidityEarly(t) ==
    /\ At(t, "checkAuctionValidity")
    /\ UNCHANGED fileVars
    /\ IF cur[t] \notin Auctions
       THEN Fault("start") /\ LocalsLost
       ELSE IF clock + 1 >= Deadline(cur[t]) \/ req[t].op = "CLS"
       THEN /\ early' = [early EXCEPT ![t] = ~Expired(cur[t])]
            /\ Goto(t, "closeCheck")
            /\ UNCHANGED <<cur, ended, mine, shown>>
       ELSE Proceed(t, FALSE) /\ UNCHANGED early

CheckAuctionValidity(t) ==
    /\ At(t, "checkAuctionValidity")
    /\ UNCHANGED fileVars
    /\ IF cur[t] \notin Auctions
       THEN Fault("start") /\ LocalsLost
       ELSE IF Expired(cur[t]) \/ req[t].op = "CLS"
       THEN /\ early' = [early EXCEPT ![t] = ~Expired(cur[t])]
            /\ Goto(t, "closeCheck")
            /\ UNCHANGED <<cur, ended, mine, shown>>
       ELSE Proceed(t, FALSE) /\ UNCHANGED early

(* Only closeAuction lets NonActiveAuctionException through. *)
Closed(t, byThisThread) ==
    \/ /\ req[t].op = "CLS"
       /\ IF early[t] /\ byThisThread THEN Answer(t, "OK") ELSE Throw(t, "NonActiveAuction")
       /\ UNCHANGED <<cur, ended, mine, shown>>
    \/ req[t].op # "CLS" /\ Proceed(t, TRUE)

CloseCheck(t) ==
    /\ At(t, "closeCheck")
    /\ IF Exists(endFile[cur[t]])
       THEN Closed(t, FALSE)
       ELSE Goto(t, "closeCreate") /\ UNCHANGED <<cur, ended, mine, shown>>
    /\ UNCHANGED <<fileVars, early>>

CloseCreate(t) ==
    /\ At(t, "closeCreate")
    /\ endFile' = [endFile EXCEPT ![cur[t]] = IF Exists(@) THEN @ ELSE EmptyFile]
    /\ Goto(t, "closeWrite")
    /\ UNCHANGED <<bidFile, localVars>>

(* Mutant: the elapsed time is subtracted the wrong way round. *)
CloseWriteSwapped(t) ==
    /\ At(t, "closeWrite")
    /\ LET start == StartFile[cur[t]]
       IN  endFile' = [endFile EXCEPT ![cur[t]] =
              [early |-> early[t],
               seconds |-> IF early[t] THEN start.start - clock ELSE start.timeActive]]
    /\ Closed(t, TRUE)
    /\ UNCHANGED <<bidFile, early>>

CloseWrite(t) ==
    /\ At(t, "closeWrite")
    /\ LET start == StartFile[cur[t]]
       IN  endFile' = [endFile EXCEPT ![cur[t]] =
              [early |-> early[t],
               seconds |-> IF early[t] THEN clock - start.start ELSE start.timeActive]]
    /\ Closed(t, TRUE)
    /\ UNCHANGED <<bidFile, early>>

-----------------------------------------------------------------------------
(* BID and CLS, once the credentials are accepted *)

(* Mutant: the END file is not looked for. *)
BidEndExistsUnchecked(t) ==
    /\ Authorized(t, {"BID"})
    /\ IF FALSE
       THEN Throw(t, "NonActiveAuction")
       ELSE Goto(t, "checkAuctionValidity")
    /\ UNCHANGED <<fileVars, localVars>>

(* Mutant: an auction whose time is up is refused and not closed. *)
BidEndExistsLeavesOpen(t) ==
    /\ Authorized(t, {"BID"})
    /\ IF cur[t] \in Auctions /\ (Expired(cur[t]) \/ Exists(endFile[cur[t]]))
       THEN Throw(t, "NonActiveAuction")
       ELSE Goto(t, "checkAuctionValidity")
    /\ UNCHANGED <<fileVars, localVars>>

(* bidOnAuction asks for the END file, but never for the auction itself. *)
BidEndExists(t) ==
    /\ Authorized(t, {"BID"})
    /\ IF cur[t] \in Auctions /\ Exists(endFile[cur[t]])
       THEN Throw(t, "NonActiveAuction")
       ELSE Goto(t, "checkAuctionValidity")
    /\ UNCHANGED <<fileVars, localVars>>

(* Mutant: show_record does not ask whether the time is up. *)
DirectoryExistsOnly(t) ==
    /\ Authorized(t, {"CLS", "SAS", "SRC"})
    /\ CASE cur[t] \notin Auctions -> Throw(t, "AuctionNotFound")
         [] cur[t] \in Auctions /\ req[t].op = "CLS" -> Goto(t, "getAuctionOwner")
         [] cur[t] \in Auctions /\ req[t].op = "SRC" -> Goto(t, "getAuctionBids")
         [] OTHER -> Goto(t, "checkAuctionValidity")
    /\ UNCHANGED <<fileVars, localVars>>

DirectoryExists(t) ==
    /\ Authorized(t, {"CLS", "SAS", "SRC"})
    /\ CASE cur[t] \notin Auctions -> Throw(t, "AuctionNotFound")
         [] cur[t] \in Auctions /\ req[t].op = "CLS" -> Goto(t, "getAuctionOwner")
         [] OTHER -> Goto(t, "checkAuctionValidity")
    /\ UNCHANGED <<fileVars, localVars>>

(* Mutant: owners may bid. *)
GetAuctionOwnerUnchecked(t) ==
    /\ At(t, "getAuctionOwner")
    /\ LET owns == Owner(cur[t]) = req[t].uid
       IN  CASE req[t].op = "CLS" /\ owns -> Goto(t, "checkAuctionValidity")
             [] req[t].op = "CLS" /\ ~owns -> Throw(t, "IncorrectAuctionOwner")
             [] req[t].op = "BID" /\ FALSE -> Throw(t, "IllegalBid")
             [] OTHER -> Goto(t, "getLargestBid")
    /\ UNCHANGED <<fileVars, localVars>>

GetAuctionOwner(t) ==
    /\ At(t, "getAuctionOwner")
    /\ LET owns == Owner(cur[t]) = req[t].uid
       IN  CASE req[t].op = "CLS" /\ owns -> Goto(t, "checkAuctionValidity")
             [] req[t].op = "CLS" /\ ~owns -> Throw(t, "IncorrectAuctionOwner")
             [] req[t].op = "BID" /\ owns -> Throw(t, "IllegalBid")
             [] OTHER -> Goto(t, "getLargestBid")
    /\ UNCHANGED <<fileVars, localVars>>

(* Mutant: a bid equal to the largest one is taken. *)
TooLowAllowsEqual(a, v) ==
    IF BidsOn(a) = {} THEN v <= StartFile[a].startValue ELSE \E b \in BidsOn(a) : v < b

(* bidValue <= getLargestBid: the file names are the values, and the start
   value counts as a bid when there is no other. *)
TooLow(a, v) ==
    IF BidsOn(a) = {} THEN v <= StartFile[a].startValue ELSE \E b \in BidsOn(a) : v <= b

GetLargestBid(t) ==
    /\ At(t, "getLargestBid")
    /\ IF TooLow(cur[t], req[t].val) THEN Throw(t, "BidRefused") ELSE Goto(t, "createBid")
    /\ UNCHANGED <<fileVars, localVars>>

CreateBid(t) ==
    /\ At(t, "createBid")
    /\ bidFile' = [bidFile EXCEPT ![cur[t]][req[t].val] = IF Exists(@) THEN @ ELSE EmptyFile]
    /\ Goto(t, "writeBid")
    /\ UNCHANGED <<endFile, localVars>>

WriteBid(t) ==
    /\ At(t, "writeBid")
    /\ bidFile' = [bidFile EXCEPT ![cur[t]][req[t].val] = req[t].uid]
    /\ Answer(t, "ACC")
    /\ UNCHANGED <<endFile, localVars>>

-----------------------------------------------------------------------------
(* SAS and SRC *)

GetAuctionAsset(t) ==
    /\ At(t, "getAuctionAsset")
    /\ Answer(t, "OK")
    /\ UNCHANGED <<fileVars, localVars>>

GetAuctionBids(t) ==
    /\ At(t, "getAuctionBids")
    /\ IF \E v \in Values : bidFile[cur[t]][v] = EmptyFile
       THEN Fault("bid") /\ LocalsLost
       ELSE /\ shown' = [shown EXCEPT ![t].bids = BidsOn(cur[t])]
            /\ Goto(t, "getAuctionEndInfo")
            /\ UNCHANGED <<cur, early, ended, mine>>
    /\ UNCHANGED fileVars

(* Mutant: the bids are sorted the other way round. *)
GetTopNumBidsAscending(all) ==
    {v \in all : Cardinality({w \in all : w < v}) < TopBids}

(* sortAuctionBids and getTopNumBids: the largest bids. *)
GetTopNumBids(all) ==
    {v \in all : Cardinality({w \in all : w > v}) < TopBids}

GetAuctionEndInfo(t) ==
    /\ At(t, "getAuctionEndInfo")
    /\ IF endFile[cur[t]] = EmptyFile
       THEN Fault("end") /\ LocalsLost
       ELSE /\ shown' = [shown EXCEPT ![t] = [bids |-> GetTopNumBids(@.bids),
                                             over |-> Exists(endFile[cur[t]])]]
            /\ Answer(t, "OK")
            /\ UNCHANGED <<cur, early, ended, mine>>
    /\ UNCHANGED fileVars

-----------------------------------------------------------------------------
(* LST, LMA and LMB *)

ListAuction(t) ==
    /\ Authorized(t, ListOps) \/ At(t, "nextAuction")
    /\ IF NumAuctions = 0
       THEN /\ Throw(t, IF req[t].op = "LMB" THEN "NoOngoingBids" ELSE "NoAuctions")
            /\ UNCHANGED <<cur, ended, mine, shown>>
       ELSE IF Exists(endFile[cur[t]])
       THEN Listed(t, TRUE)
       ELSE Goto(t, "checkAuctionValidity") /\ UNCHANGED <<cur, ended, mine, shown>>
    /\ UNCHANGED <<fileVars, early>>

(* listUserAuctions: the START files never change, so they are read in one step. *)
GetAuctionInfo(t) ==
    /\ At(t, "getAuctionInfo")
    /\ LET owned == {a \in Auctions : Owner(a) = req[t].uid}
       IN  /\ mine' = [mine EXCEPT ![t] = owned]
           /\ IF owned = {} THEN Throw(t, "NoAuctions") ELSE Answer(t, "OK")
    /\ UNCHANGED <<fileVars, cur, early, ended, shown>>

(* getAuctionsBiddedByUser: getAuctionBidders throws for an auction without
   bids, and the loop over the auctions does not catch it. *)
GetAuctionBidders(t) ==
    /\ At(t, "getAuctionBidders")
    /\ LET a == cur[t]
           bids == BidsOn(a)
           found == IF \E v \in bids : BidderOf(a, v) = req[t].uid
                    THEN mine[t] \union {a} ELSE mine[t]
       IN  /\ mine' = [mine EXCEPT ![t] = found]
           /\ CASE bids = {} \/ (a = NumAuctions /\ found = {}) ->
                       Throw(t, "NoOngoingBids") /\ UNCHANGED cur
                [] bids # {} /\ a = NumAuctions /\ found # {} ->
                       Answer(t, "OK") /\ UNCHANGED cur
                [] OTHER ->
                       Goto(t, "getAuctionBidders") /\ cur' = [cur EXCEPT ![t] = @ + 1]
    /\ UNCHANGED <<fileVars, early, ended, shown>>

-----------------------------------------------------------------------------
Crash ==
    /\ U!Crash
    /\ LocalsLost
    /\ seen' = [t \in Threads |-> NothingSeen]
    /\ UNCHANGED <<clock, fileVars, fault>>

Restart ==
    /\ U!Restart
    /\ fault' = "none"
    /\ seen' = [t \in Threads |-> NothingSeen]
    /\ UNCHANGED <<clock, fileVars, localVars>>

Tick ==
    /\ clock < MaxTime
    /\ clock' = clock + 1
    /\ UNCHANGED <<userVars, fileVars, fault, localVars, seen>>

Init ==
    /\ passFile = InitialPass
    /\ loginFile = InitialLogin
    /\ server = "up"
    /\ pc = [t \in Threads |-> "idle"]
    /\ req = [t \in Threads |-> U!NoRequest]
    /\ reply = [t \in Threads |-> "none"]
    /\ clock = InitialTime
    /\ endFile = [a \in Auctions |-> NoFile]
    /\ bidFile = [a \in Auctions |-> [v \in Values |-> NoFile]]
    /\ fault = "none"
    /\ cur = [t \in Threads |-> 0]
    /\ early = [t \in Threads |-> FALSE]
    /\ ended = [t \in Threads |-> {}]
    /\ mine = [t \in Threads |-> {}]
    /\ shown = [t \in Threads |-> NothingShown]
    /\ seen = [t \in Threads |-> NothingSeen]

Step(t) ==
    \/ Authenticate(t) \/ ManageAccount(t) \/ Send(t)
    \/ CheckAuctionValidity(t) \/ CloseCheck(t) \/ CloseCreate(t) \/ CloseWrite(t)
    \/ BidEndExists(t) \/ DirectoryExists(t) \/ GetAuctionOwner(t)
    \/ GetLargestBid(t) \/ CreateBid(t) \/ WriteBid(t)
    \/ GetAuctionAsset(t) \/ GetAuctionBids(t) \/ GetAuctionEndInfo(t)
    \/ ListAuction(t) \/ GetAuctionInfo(t) \/ GetAuctionBidders(t)

Next ==
    \/ \E t \in Threads : Receive(t) \/ Step(t)
    \/ Crash \/ Restart \/ Tick

Spec == Init /\ [][Next]_vars

(* A thread with work to do is scheduled in the end. *)
FairSpec == Spec /\ \A t \in Threads : WF_vars(Step(t))

-----------------------------------------------------------------------------
(* Properties the code has. *)

(* Types, and which requests may be at which label. *)
TypeOK ==
    /\ passFile \in [Users -> Passwords \union {NoFile, EmptyFile}]
    /\ loginFile \in [Users -> BOOLEAN]
    /\ server \in {"up", "down"}
    /\ pc \in [Threads -> Labels \union U!AuthLabels \union U!UdpLabels
                                 \union {"idle", "authorized", "send"}]
    /\ req \in [Threads -> Requests \union {U!NoRequest}]
    /\ reply \in [Threads -> Statuses \union {"none"}]
    /\ clock \in InitialTime..MaxTime
    /\ endFile \in [Auctions -> Ends \union {NoFile, EmptyFile}]
    /\ bidFile \in [Auctions -> [Values -> Users \union {NoFile, EmptyFile}]]
    /\ fault \in {"none", "start", "bid", "end"}
    /\ cur \in [Threads -> Nat]
    /\ early \in [Threads -> BOOLEAN]
    /\ ended \in [Threads -> SUBSET Auctions]
    /\ mine \in [Threads -> SUBSET Auctions]
    /\ shown \in [Threads -> [bids : SUBSET Values, over : BOOLEAN]]
    /\ seen \in [Threads -> [bids : SUBSET Values, over : SUBSET Auctions,
                             standing : SUBSET Auctions]]
    /\ \A t \in Threads : pc[t] # "idle" => req[t] \in Requests

Answered(t, op, status) == pc[t] = "send" /\ req[t].op = op /\ reply[t] = status

(* An END file that says the time was up is only there once it is: no thread
   closes an auction on a stale look at the clock. *)
ExpiredEndIsLate ==
    \A a \in Auctions : endFile[a] \in Ends /\ ~endFile[a].early => Expired(a)

(* An auction that still has time left gets its END file from a close request
   of its owner, and from nobody else. *)
OnlyOwnerEndsEarly ==
    [][\A a \in Auctions :
          ~Exists(endFile[a]) /\ Exists(endFile'[a]) /\ ~Expired(a) =>
             \E t \in Threads : /\ pc[t] = "closeCreate" /\ req[t].op = "CLS"
                                /\ cur[t] = a /\ req[t].uid = Owner(a)]_vars

(* Nobody's bid stands on an auction of their own, and none at or below the
   start value. *)
BidsAreLegal ==
    \A a \in Auctions : \A v \in BidsOn(a) :
        bidFile[a][v] # Owner(a) /\ v > StartFile[a].startValue

(* An accepted bid is larger than every bid that was on file when it arrived,
   although bids made meanwhile may not be noticed. *)
OutbidsEarlierBids ==
    \A t \in Threads : Answered(t, "BID", "ACC") =>
        \A v \in seen[t].bids : req[t].val > v

(* A request that arrives when the auction is over, by the clock or by an END
   file, does not bid on it or close it. *)
LateRequestsRefused ==
    \A t \in Threads : Answered(t, "BID", "ACC") \/ Answered(t, "CLS", "OK") =>
        req[t].aid \notin seen[t].over

(* A listing that succeeds shows as over every auction that was over when the
   request arrived, and leaves out none that its user had a bid on, unless the
   bid was about to be overwritten. *)
ListingIsCurrent ==
    \A t \in Threads : req[t].op \in ListOps /\ pc[t] = "send" /\ reply[t] = "OK" =>
        /\ seen[t].over \subseteq ended[t]
        /\ seen[t].standing \subseteq mine[t]

(* A record shows the end of an auction that was over when the request
   arrived, and every bid that was on file then, but for those that TopBids
   larger ones leave no room for. *)
RecordIsCurrent ==
    \A t \in Threads : Answered(t, "SRC", "OK") =>
        /\ \A v \in seen[t].bids \ shown[t].bids :
              Cardinality({w \in shown[t].bids : w > v}) = TopBids
        /\ req[t].aid \in seen[t].over => shown[t].over

(* Every request is answered, unless the process dies first: a thread always
   gets back to waiting for the next. *)
RequestsAnswered == \A t \in Threads : []<>(pc[t] = "idle")

Calls(t) == req[t].op \in AuctionOps \union ListOps

Told(t) ==
    CASE Answered(t, "SRC", "OK") ->
            [bids |-> shown[t].bids, over |-> IF shown[t].over THEN {req[t].aid} ELSE {}]
      [] pc[t] = "send" /\ req[t].op \in ListOps -> [bids |-> {}, over |-> ended[t]]
      [] OTHER -> [bids |-> {}, over |-> {}]

(* What the files and the threads are to AuctionHouse. *)
houseBids == [a \in Auctions |-> BidsOn(a)]
houseOver == {a \in Auctions : Exists(endFile[a])}
houseDue == {a \in Auctions : Expired(a)}
houseCall == [t \in Threads |-> IF Calls(t) THEN req[t] ELSE U!NoRequest]
houseFound ==
    [t \in Threads |->
        IF Calls(t) THEN [bids |-> seen[t].bids, over |-> seen[t].over] ELSE [bids |-> {}, over |-> {}]]
houseAnswer == [t \in Threads |-> IF Calls(t) THEN reply[t] ELSE "none"]
houseTold == [t \in Threads |-> Told(t)]

(* The file operations of a request add up to what AuctionHouse promises. *)
House == INSTANCE AuctionHouse WITH
    Requests <- {r \in Requests : r.op \in AuctionOps \union ListOps},
    OwnerOf <- [a \in Auctions |-> StartFile[a].owner],
    StartValue <- [a \in Auctions |-> StartFile[a].startValue],
    NoRequest <- U!NoRequest,
    bids <- houseBids, over <- houseOver, due <- houseDue,
    call <- houseCall, found <- houseFound, answer <- houseAnswer, told <- houseTold

ImplementsAuctions == House!Spec

-----------------------------------------------------------------------------
(* What the code and its README say and the code does not do. *)

(* "Exception thrown when the auction is no longer active." (server_auction.hpp:228)
   and "auction is closed" (server_auction.cpp:450): no bid is filed for an
   auction that has an END file.  The file is looked for six file operations
   before the bid is filed. *)
NoBidAfterEnd ==
    [][\A a \in Auctions, v \in Values :
          ~Exists(bidFile[a][v]) /\ Exists(bidFile'[a][v]) => ~Exists(endFile[a])]_vars
=============================================================================

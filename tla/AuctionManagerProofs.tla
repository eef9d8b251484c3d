------------------------- MODULE AuctionManagerProofs -------------------------
(***************************************************************************)
(* Proofs about AuctionManager, for any users, auctions, values, workers   *)
(* and requests, any clock, and a process that faults, is killed and is    *)
(* started again at any moment: its types and its bids; then what          *)
(* AuctionHouse promises: when an auction ends, what a late request is     *)
(* told, what a record and a listing show, and that every file operation   *)
(* is a step of the house or none.                                         *)
(***************************************************************************)
EXTENDS AuctionManager, ProtocolProofs, FiniteSetTheorems, TLAPS

BusyLabels == Labels \union U!AuthLabels \union U!UdpLabels \union {"authorized", "send"}

ThreadsTyped ==
    /\ server \in {"up", "down"}
    /\ pc \in [Threads -> BusyLabels \union {"idle"}]
    /\ req \in [Threads -> Requests \union {U!NoRequest}]
    /\ reply \in [Threads -> Statuses \union {"none"}]
    /\ fault \in {"none", "start", "bid", "end"}
    /\ \A t \in Threads : pc[t] # "idle" => req[t] \in Requests

AccountsTyped ==
    /\ passFile \in [Users -> Passwords \union {NoFile, EmptyFile}]
    /\ loginFile \in [Users -> BOOLEAN]

AuctionsTyped ==
    /\ clock \in InitialTime..MaxTime
    /\ endFile \in [Auctions -> Ends \union {NoFile, EmptyFile}]
    /\ bidFile \in [Auctions -> [Values -> Users \union {NoFile, EmptyFile}]]

LocalsTyped ==
    /\ cur \in [Threads -> Nat]
    /\ early \in [Threads -> BOOLEAN]
    /\ ended \in [Threads -> SUBSET Auctions]
    /\ mine \in [Threads -> SUBSET Auctions]
    /\ shown \in [Threads -> [bids : SUBSET Values, over : BOOLEAN]]
    /\ seen \in [Threads -> [bids : SUBSET Values, over : SUBSET Auctions,
                             standing : SUBSET Auctions]]

(* The auction a thread is at, and the requests that reach each label. *)
ThreadAtAuction(t) ==
    pc[t] # "idle" =>
        /\ req[t].op \in AuctionOps => cur[t] = req[t].aid
        /\ req[t].op \notin AuctionOps => cur[t] = 1 \/ cur[t] \in Auctions
        /\ req[t].op \in ListOps /\ pc[t] = "checkAuctionValidity" => cur[t] \in Auctions
        /\ pc[t] \in Labels \ {"checkAuctionValidity", "nextAuction", "getAuctionInfo"} =>
              cur[t] \in Auctions
        /\ pc[t] \in {"nextAuction", "getAuctionInfo", "getAuctionBidders"} =>
              req[t].op \in ListOps /\ NumAuctions # 0
        /\ pc[t] = "getAuctionOwner" => req[t].op \in {"BID", "CLS"}
        /\ pc[t] \in {"getLargestBid", "createBid", "writeBid"} => req[t].op = "BID"

AtAuction == \A t \in Threads : ThreadAtAuction(t)

TypeInv == ThreadsTyped /\ AccountsTyped /\ AuctionsTyped /\ LocalsTyped /\ AtAuction

LEMMA TypeInvTypeOK == TypeInv => TypeOK
    BY DEF TypeInv, TypeOK, ThreadsTyped, AccountsTyped, AuctionsTyped, LocalsTyped, BusyLabels

LEMMA InitTypeInv == Init => TypeInv
<1> SUFFICES ASSUME Init  PROVE TypeInv
    OBVIOUS
<1>1. ThreadsTyped /\ AccountsTyped /\ AtAuction
    BY AccountsAssumption DEF Init, ThreadsTyped, AccountsTyped, AtAuction, ThreadAtAuction
<1>2. AuctionsTyped
    BY NumbersAssumption DEF Init, AuctionsTyped
<1>3. LocalsTyped
    BY DEF Init, LocalsTyped, NothingShown, NothingSeen
<1> QED  BY <1>1, <1>2, <1>3 DEF TypeInv

(* UserManager's statuses are those of Protocol. *)
LEMMA SameStatuses ==
    ASSUME NEW op, NEW status
    PROVE  U!Sent(op, status) = Sent(op, status)
<1>1. U!Response(op) = Response(op)
    BY DEF U!Response, Response, U!LoginResponse, LoginResponse, U!LogoutResponse,
           LogoutResponse, U!UnregisterResponse, UnregisterResponse,
           U!ListUserAuctionsResponse, ListUserAuctionsResponse, U!ListUserBidsResponse,
           ListUserBidsResponse, U!ListAuctionsResponse, ListAuctionsResponse,
           U!ShowRecordResponse, ShowRecordResponse, U!OpenAuctionResponse,
           OpenAuctionResponse, U!CloseAuctionResponse, CloseAuctionResponse,
           U!ShowAssetResponse, ShowAssetResponse, U!BidResponse, BidResponse
<1> QED  BY <1>1 DEF U!Sent, Sent, U!ErrorPacket, ErrorPacket

(* What the step of a busy thread may do to the control state: go on, set a
   status, or fault. *)
Moves(t) ==
    \/ \E label \in BusyLabels : Goto(t, label)
    \/ \E status : Answer(t, status)
    \/ \E what \in {"start", "bid", "end"} : Fault(what)

LEMMA MovesThreadsTyped ==
    ASSUME ThreadsTyped, NEW t \in Threads, pc[t] # "idle", Moves(t)
    PROVE  ThreadsTyped'
<1>1. CASE \E label \in BusyLabels : Goto(t, label)
    BY <1>1 DEF ThreadsTyped, Goto, U!Goto
<1>2. ASSUME NEW status, Answer(t, status)  PROVE ThreadsTyped'
    <2>1. U!Sent(req[t].op, status) \in Statuses
        BY SentIsStatus, SameStatuses
    <2> QED  BY <1>2, <2>1 DEF ThreadsTyped, Answer, U!Answer, U!Op, BusyLabels
<1>3. CASE \E what \in {"start", "bid", "end"} : Fault(what)
    BY <1>3 DEF ThreadsTyped, Fault
<1> QED  BY <1>1, <1>2, <1>3 DEF Moves

(* The other threads stay where they are. *)
LEMMA MovesAtAuction ==
    ASSUME TypeInv, NEW t \in Threads, server = "up", pc[t] # "idle", Moves(t),
           server' = "down" \/ (ThreadAtAuction(t)' /\ \A u \in Threads \ {t} : cur'[u] = cur[u])
    PROVE  AtAuction'
<1> USE DEF TypeInv, ThreadsTyped
<1>1. CASE \E what \in {"start", "bid", "end"} : Fault(what)
    BY <1>1 DEF Fault, AtAuction, ThreadAtAuction
<1>2. CASE (\E label \in BusyLabels : Goto(t, label)) \/ \E status : Answer(t, status)
    <2>1. \A u \in Threads \ {t} : pc'[u] = pc[u] /\ req'[u] = req[u] /\ cur'[u] = cur[u]
        BY <1>2 DEF Goto, U!Goto, Answer, U!Answer
    <2>2. ThreadAtAuction(t)'
        BY <1>2 DEF Goto, U!Goto, Answer, U!Answer
    <2>3. ASSUME NEW u \in Threads \ {t}  PROVE ThreadAtAuction(u)'
        BY <2>1 DEF AtAuction, ThreadAtAuction
    <2> QED  BY <2>2, <2>3 DEF AtAuction
<1> QED  BY <1>1, <1>2 DEF Moves

(* What is left to show of a step of t, whichever it is. *)
LEMMA MovesTypeInv ==
    ASSUME TypeInv, NEW t \in Threads, server = "up", pc[t] # "idle", Moves(t),
           AccountsTyped', AuctionsTyped', LocalsTyped',
           server' = "down" \/ (ThreadAtAuction(t)' /\ \A u \in Threads \ {t} : cur'[u] = cur[u])
    PROVE  TypeInv'
    BY MovesThreadsTyped, MovesAtAuction DEF TypeInv

(* The fields of the request of a busy thread. *)
LEMMA RequestFields ==
    ASSUME TypeInv, NEW t \in Threads, pc[t] # "idle"
    PROVE  /\ req[t] \in Requests /\ req[t].op \in Ops
           /\ req[t].uid \in Users /\ req[t].pw \in Passwords
           /\ req[t].op \in AuctionOps => req[t].aid \in Nat
           /\ req[t].op = "BID" => req[t].val \in Values
<1>1. req[t] \in Requests
    BY DEF TypeInv, ThreadsTyped
<1> QED  BY <1>1, AuctionRequestsAssumption DEF Ops, Requests

LEMMA ReceiveTypeInv ==
    ASSUME TypeInv, NEW t \in Threads, Receive(t)
    PROVE  TypeInv'
<1>1. PICK r \in Requests :
        /\ U!Receive(t, r)
        /\ cur' = [cur EXCEPT ![t] = IF r.op \in AuctionOps THEN r.aid ELSE 1]
        /\ seen' = [seen EXCEPT ![t] = OnFile(r)]
    BY DEF Receive
<1>2. U!FirstStep(r) \in U!AuthLabels \union {"authorized"}
    BY DEF U!FirstStep, U!AuthLabels
<1>3. r.op \in AuctionOps => r.aid \in Nat
    BY AuctionRequestsAssumption
<1>4. ThreadsTyped'
    BY <1>1, <1>2 DEF TypeInv, ThreadsTyped, BusyLabels, U!Receive, Receive
<1>5. AccountsTyped' /\ AuctionsTyped'
    BY <1>1 DEF TypeInv, AccountsTyped, AuctionsTyped, Receive, U!Receive, U!files, fileVars
<1>6. LocalsTyped'
    <2>1. OnFile(r) \in [bids : SUBSET Values, over : SUBSET Auctions,
                         standing : SUBSET Auctions]
        BY DEF OnFile, BidsOn
    <2>2. seen' \in [Threads -> [bids : SUBSET Values, over : SUBSET Auctions,
                                 standing : SUBSET Auctions]]
        BY <1>1, <2>1 DEF TypeInv, LocalsTyped
    <2> QED  BY <1>1, <1>3, <2>2 DEF TypeInv, LocalsTyped, Receive
<1>7. AtAuction'
    <2>1. ThreadAtAuction(t)'
        BY <1>1, <1>2, NumbersAssumption
        DEF TypeInv, ThreadsTyped, LocalsTyped, ThreadAtAuction, U!Receive, U!AuthLabels, Labels,
            CloseLabels,
            AuctionOps, ListOps
    <2>2. ASSUME NEW u \in Threads \ {t}  PROVE ThreadAtAuction(u)'
        <3>1. pc'[u] = pc[u] /\ req'[u] = req[u] /\ cur'[u] = cur[u]
            BY <1>1 DEF TypeInv, ThreadsTyped, LocalsTyped, U!Receive
        <3> QED  BY <3>1 DEF TypeInv, AtAuction, ThreadAtAuction
    <2> QED  BY <2>1, <2>2 DEF AtAuction
<1> QED  BY <1>4, <1>5, <1>6, <1>7 DEF TypeInv

LEMMA SendTypeInv ==
    ASSUME TypeInv, NEW t \in Threads, Send(t)
    PROVE  TypeInv'
<1>1. ThreadsTyped' /\ AccountsTyped' /\ AuctionsTyped'
    BY DEF TypeInv, ThreadsTyped, AccountsTyped, AuctionsTyped, Send, U!Send, U!files, fileVars
<1>2. LocalsTyped'
    BY DEF TypeInv, LocalsTyped, Send, NothingShown, NothingSeen
<1>3. ASSUME NEW u \in Threads  PROVE ThreadAtAuction(u)'
    <2>1. CASE u = t
        BY <2>1 DEF TypeInv, ThreadsTyped, Send, U!Send, ThreadAtAuction
    <2>2. CASE u # t
        <3>1. pc'[u] = pc[u] /\ req'[u] = req[u] /\ cur'[u] = cur[u]
            BY <2>2 DEF TypeInv, ThreadsTyped, LocalsTyped, Send, U!Send
        <3> QED  BY <3>1 DEF TypeInv, AtAuction, ThreadAtAuction
    <2> QED  BY <2>1, <2>2
<1> QED  BY <1>1, <1>2, <1>3 DEF TypeInv, AtAuction

-----------------------------------------------------------------------------
(* A step of UserManager touches no auction. *)
LEMMA AuthenticateTypeInv ==
    ASSUME TypeInv, NEW t \in Threads, Authenticate(t)
    PROVE  TypeInv'
<1> USE DEF Authenticate, U!Authenticate, U!UserExists, U!GetUserPassword, U!IsUserLoggedIn, U!At
<1>1. server = "up" /\ pc[t] # "idle"
    OBVIOUS
<1>2. \/ \E label \in {"login", "createPass", "isUserLoggedIn", "getUserPassword", "logout",
                       "authorized"} : Goto(t, label)
      \/ \E status : Answer(t, status)
    BY DEF U!Throw, Goto, Answer
<1>3. Moves(t)
    BY <1>2 DEF Moves, BusyLabels, U!AuthLabels, U!UdpLabels
<1>4. AccountsTyped' /\ AuctionsTyped' /\ LocalsTyped'
    BY DEF TypeInv, AccountsTyped, AuctionsTyped, LocalsTyped, localVars, fileVars, U!files
<1>5. ThreadAtAuction(t)' /\ \A u \in Threads \ {t} : cur'[u] = cur[u]
    BY <1>1, <1>2
    DEF TypeInv, ThreadsTyped, AtAuction, ThreadAtAuction, Goto, Answer, U!Goto, U!Answer,
        localVars, Labels, CloseLabels
<1> QED  BY <1>1, <1>3, <1>4, <1>5, MovesTypeInv

LEMMA ManageAccountTypeInv ==
    ASSUME TypeInv, NEW t \in Threads, ManageAccount(t)
    PROVE  TypeInv'
<1> USE DEF ManageAccount, U!ManageAccount, U!CreatePass, U!WritePass, U!Login, U!CreateLogin,
            U!Logout, U!DeleteLogin, U!UnregisterUser, U!DeletePass, U!At
<1>1. server = "up" /\ pc[t] # "idle"
    OBVIOUS
<1>2. \/ \E label \in U!UdpLabels : Goto(t, label)
      \/ \E status : Answer(t, status)
    BY DEF U!Throw, Goto, Answer, U!UdpLabels
<1>3. Moves(t)
    BY <1>2 DEF Moves, BusyLabels
<1>4. AccountsTyped'
    BY <1>1, RequestFields DEF TypeInv, AccountsTyped, U!Uid, U!files
<1>5. AuctionsTyped' /\ LocalsTyped'
    BY DEF TypeInv, AuctionsTyped, LocalsTyped, localVars, fileVars
<1>6. ThreadAtAuction(t)' /\ \A u \in Threads \ {t} : cur'[u] = cur[u]
    BY <1>1, <1>2
    DEF TypeInv, ThreadsTyped, AtAuction, ThreadAtAuction, Goto, Answer, U!Goto, U!Answer,
        localVars, Labels, CloseLabels, U!UdpLabels
<1> QED  BY <1>1, <1>3, <1>4, <1>5, <1>6, MovesTypeInv

-----------------------------------------------------------------------------
(* The auction of a thread that may read its files. *)
LEMMA ListedKeeps ==
    ASSUME TypeInv, NEW t \in Threads, NEW over \in BOOLEAN, Listed(t, over),
           server = "up", pc[t] \in {"authorized", "nextAuction", "checkAuctionValidity", "closeCheck", "closeWrite"},
           req[t].op \in ListOps, cur[t] \in Auctions
    PROVE  /\ Moves(t)
           /\ ThreadAtAuction(t)' /\ \A u \in Threads \ {t} : cur'[u] = cur[u]
           /\ cur' \in [Threads -> Nat] /\ ended' \in [Threads -> SUBSET Auctions]
           /\ UNCHANGED <<mine, shown>>
<1> USE DEF Listed
<1>1. \/ \E label \in {"nextAuction", "getAuctionInfo", "getAuctionBidders"} : Goto(t, label)
      \/ \E status : Answer(t, status)
    OBVIOUS
<1>2. Moves(t)
    BY <1>1 DEF Moves, BusyLabels, Labels
<1>3. \/ cur' = cur
      \/ cur' = [cur EXCEPT ![t] = @ + 1] /\ cur[t] < NumAuctions
      \/ cur' = [cur EXCEPT ![t] = 1]
    OBVIOUS
<1>4. cur' \in [Threads -> Nat] /\ cur'[t] \in Auctions /\ \A u \in Threads \ {t} : cur'[u] = cur[u]
    BY <1>3, NumbersAssumption DEF TypeInv, LocalsTyped, Auctions
<1>5. ThreadAtAuction(t)'
    BY <1>1, <1>4, NumbersAssumption
    DEF TypeInv, ThreadsTyped, ThreadAtAuction, Goto, Answer, U!Goto, U!Answer, Auctions,
        ListOps, AuctionOps
<1>6. ended' \in [Threads -> SUBSET Auctions]
    BY DEF TypeInv, LocalsTyped
<1> QED  BY <1>2, <1>4, <1>5, <1>6

LEMMA ProceedKeeps ==
    ASSUME TypeInv, NEW t \in Threads, NEW over \in BOOLEAN, Proceed(t, over),
           server = "up", pc[t] \in {"checkAuctionValidity", "closeCheck", "closeWrite"},
           cur[t] \in Auctions
    PROVE  /\ Moves(t)
           /\ ThreadAtAuction(t)' /\ \A u \in Threads \ {t} : cur'[u] = cur[u]
           /\ cur' \in [Threads -> Nat] /\ ended' \in [Threads -> SUBSET Auctions]
           /\ UNCHANGED <<mine, shown>>
<1>1. CASE req[t].op \in ListOps /\ Listed(t, over)
    BY <1>1, ListedKeeps
<1>2. CASE req[t].op \in AuctionOps /\ UNCHANGED <<cur, ended, mine, shown>>
    <2>1. \/ \E label \in {"getAuctionOwner", "getAuctionAsset", "getAuctionBids"} :
                 Goto(t, label) /\ (label = "getAuctionOwner" => req[t].op = "BID")
          \/ \E status : Answer(t, status)
        BY <1>2 DEF Proceed, Throw, U!Throw, Answer, AuctionOps, ListOps
    <2>2. Moves(t)
        BY <2>1 DEF Moves, BusyLabels, Labels
    <2>3. ThreadAtAuction(t)'
        BY <1>2, <2>1
        DEF TypeInv, ThreadsTyped, AtAuction, ThreadAtAuction, Goto, Answer, U!Goto, U!Answer,
            AuctionOps, ListOps
    <2> QED  BY <1>2, <2>2, <2>3 DEF TypeInv, LocalsTyped
<1> QED  BY <1>1, <1>2 DEF Proceed, AuctionOps

LEMMA FaultKeeps ==
    ASSUME NEW what \in {"start", "bid", "end"}, NEW t \in Threads, Fault(what), LocalsLost,
           UNCHANGED seen, TypeInv
    PROVE  Moves(t) /\ LocalsTyped' /\ server' = "down"
    BY DEF Fault, LocalsLost, Moves, TypeInv, LocalsTyped, NothingShown

LEMMA AtKeeps ==
    ASSUME TypeInv, NEW t \in Threads, NEW label \in BusyLabels, At(t, label)
    PROVE  /\ server = "up" /\ pc[t] = label /\ pc[t] # "idle"
           /\ AccountsTyped' /\ UNCHANGED <<clock, seen>>
<1>1. server = "up" /\ pc[t] = label /\ AccountsTyped' /\ UNCHANGED <<clock, seen>>
    BY DEF At, U!At, TypeInv, AccountsTyped
<1>2. "idle" \notin BusyLabels
    BY DEF BusyLabels, Labels, CloseLabels, U!AuthLabels, U!UdpLabels
<1> QED  BY <1>1, <1>2

LEMMA CheckAuctionValidityTypeInv ==
    ASSUME TypeInv, NEW t \in Threads, CheckAuctionValidity(t)
    PROVE  TypeInv'
<1>1. /\ server = "up" /\ pc[t] = "checkAuctionValidity" /\ pc[t] # "idle"
      /\ AccountsTyped' /\ UNCHANGED <<clock, seen>>
    BY AtKeeps DEF CheckAuctionValidity, BusyLabels, Labels
<1>2. AuctionsTyped'
    BY <1>1 DEF CheckAuctionValidity, TypeInv, AuctionsTyped, fileVars
<1>3. CASE cur[t] \notin Auctions
    BY <1>1, <1>2, <1>3, FaultKeeps, MovesTypeInv DEF CheckAuctionValidity
<1>4. CASE cur[t] \in Auctions /\ Goto(t, "closeCheck")
    <2>1. early' \in [Threads -> BOOLEAN] /\ UNCHANGED <<cur, ended, mine, shown>>
        BY <1>4 DEF CheckAuctionValidity, Expired, Proceed, Listed, Throw, U!Throw, U!Answer, Goto,
                    U!Goto, TypeInv, ThreadsTyped, LocalsTyped, Answer
    <2>2. LocalsTyped' /\ Moves(t)
        BY <1>1, <1>4, <2>1 DEF TypeInv, LocalsTyped, Moves, BusyLabels, Labels, CloseLabels
    <2>3. ThreadAtAuction(t)'
        BY <1>1, <1>4, <2>1 DEF TypeInv, ThreadsTyped, AtAuction, ThreadAtAuction, Goto, U!Goto
    <2> QED  BY <1>1, <1>2, <2>1, <2>2, <2>3, MovesTypeInv
<1>5. CASE cur[t] \in Auctions /\ Proceed(t, FALSE) /\ UNCHANGED early
    <2>1. /\ Moves(t)
          /\ ThreadAtAuction(t)' /\ \A u \in Threads \ {t} : cur'[u] = cur[u]
          /\ cur' \in [Threads -> Nat] /\ ended' \in [Threads -> SUBSET Auctions]
          /\ UNCHANGED <<mine, shown>>
        BY <1>1, <1>5, ProceedKeeps
    <2>2. LocalsTyped'
        BY <1>1, <1>5, <2>1 DEF TypeInv, LocalsTyped
    <2> QED  BY <1>1, <1>2, <2>1, <2>2, MovesTypeInv
<1> QED  BY <1>3, <1>4, <1>5 DEF CheckAuctionValidity

LEMMA ClosedKeeps ==
    ASSUME TypeInv, NEW t \in Threads, NEW own \in BOOLEAN, Closed(t, own),
           server = "up", pc[t] \in {"closeCheck", "closeWrite"}
    PROVE  /\ Moves(t)
           /\ ThreadAtAuction(t)' /\ \A u \in Threads \ {t} : cur'[u] = cur[u]
           /\ cur' \in [Threads -> Nat] /\ ended' \in [Threads -> SUBSET Auctions]
           /\ UNCHANGED <<mine, shown>>
<1>1. CASE req[t].op = "CLS" /\ UNCHANGED <<cur, ended, mine, shown>>
    <2>1. \E status : Answer(t, status)
        BY <1>1 DEF Closed, Throw, U!Throw, Answer
    <2>2. ThreadAtAuction(t)'
        BY <1>1, <2>1 DEF TypeInv, ThreadsTyped, AtAuction, ThreadAtAuction, Answer, U!Answer,
                          Labels, CloseLabels
    <2> QED  BY <1>1, <2>1, <2>2 DEF Moves, TypeInv, LocalsTyped
<1>2. CASE req[t].op # "CLS" /\ Proceed(t, TRUE)
    <2>1. cur[t] \in Auctions
        BY DEF TypeInv, AtAuction, ThreadAtAuction, Labels, CloseLabels
    <2> QED  BY <1>2, <2>1, ProceedKeeps
<1> QED  BY <1>1, <1>2 DEF Closed

LEMMA CloseTypeInv ==
    ASSUME TypeInv, NEW t \in Threads, CloseCheck(t) \/ CloseCreate(t) \/ CloseWrite(t)
    PROVE  TypeInv'
<1>1. PICK label \in CloseLabels : At(t, label)
    BY DEF CloseCheck, CloseCreate, CloseWrite, CloseLabels
<1>2. /\ server = "up" /\ pc[t] = label /\ pc[t] # "idle"
      /\ AccountsTyped' /\ UNCHANGED <<clock, seen>>
    BY <1>1, AtKeeps DEF BusyLabels, Labels
<1>3. cur[t] \in Auctions
    BY <1>2 DEF TypeInv, AtAuction, ThreadAtAuction, Labels, CloseLabels
<1>4. AuctionsTyped'
    <2>1. CASE CloseCheck(t)
        BY <1>2, <2>1 DEF CloseCheck, TypeInv, AuctionsTyped, fileVars
    <2>2. CASE CloseCreate(t)
        BY <1>2, <2>2 DEF CloseCreate, TypeInv, AuctionsTyped
    <2>3. CASE CloseWrite(t)
        <3>1. [early |-> early[t],
               seconds |-> IF early[t] THEN clock - StartFile[cur[t]].start
                                       ELSE StartFile[cur[t]].timeActive] \in Ends
            BY <1>3, NumbersAssumption, StartAssumption
            DEF Ends, TypeInv, AuctionsTyped, LocalsTyped, Auctions
        <3> QED  BY <1>2, <2>3, <3>1 DEF CloseWrite, TypeInv, AuctionsTyped
    <2> QED  BY <2>1, <2>2, <2>3
<1>5. CASE UNCHANGED early /\ \E own \in BOOLEAN : Closed(t, own) /\ ~CloseCreate(t)
    <2>1. pc[t] \in {"closeCheck", "closeWrite"}
        BY <1>2, <1>5 DEF CloseCheck, CloseCreate, CloseWrite, At, U!At
    <2>2. /\ Moves(t)
          /\ ThreadAtAuction(t)' /\ \A u \in Threads \ {t} : cur'[u] = cur[u]
          /\ cur' \in [Threads -> Nat] /\ ended' \in [Threads -> SUBSET Auctions]
          /\ UNCHANGED <<mine, shown>>
        BY <1>2, <1>5, <2>1, ClosedKeeps
    <2>3. LocalsTyped'
        BY <1>2, <1>5, <2>2 DEF TypeInv, LocalsTyped
    <2> QED  BY <1>2, <1>4, <2>2, <2>3, MovesTypeInv
<1>6. CASE UNCHANGED localVars /\ \E next \in CloseLabels : Goto(t, next)
    <2>1. LocalsTyped' /\ Moves(t)
        BY <1>2, <1>6 DEF TypeInv, LocalsTyped, localVars, Moves, BusyLabels, Labels
    <2>2. ThreadAtAuction(t)' /\ \A u \in Threads \ {t} : cur'[u] = cur[u]
        BY <1>2, <1>3, <1>6
        DEF TypeInv, ThreadsTyped, AtAuction, ThreadAtAuction, Goto, U!Goto, CloseLabels, localVars
    <2> QED  BY <1>2, <1>4, <2>1, <2>2, MovesTypeInv
<1> QED
    BY <1>5, <1>6 DEF CloseCheck, CloseCreate, CloseWrite, At, U!At, localVars, CloseLabels

(* Steps that look at files and then go on or answer. *)
LEMMA LookTypeInv ==
    ASSUME TypeInv, NEW t \in Threads, UNCHANGED <<fileVars, localVars>>,
           \/ BidEndExists(t) \/ DirectoryExists(t) \/ GetAuctionOwner(t)
           \/ GetLargestBid(t) \/ GetAuctionAsset(t)
    PROVE  TypeInv'
<1> USE DEF BidEndExists, DirectoryExists, GetAuctionOwner, GetLargestBid, GetAuctionAsset,
            Authorized
<1>1. PICK label \in {"authorized", "getAuctionOwner", "getLargestBid", "getAuctionAsset"} : At(t, label)
    OBVIOUS
<1>2. /\ server = "up" /\ pc[t] = label /\ pc[t] # "idle"
      /\ AccountsTyped' /\ UNCHANGED <<clock, seen>>
    BY <1>1, AtKeeps DEF BusyLabels, Labels
<1>3. AuctionsTyped' /\ LocalsTyped'
    BY <1>2 DEF TypeInv, AuctionsTyped, LocalsTyped, fileVars, localVars
<1>4. \/ \E next \in {"checkAuctionValidity", "getAuctionOwner", "getLargestBid", "createBid"} : Goto(t, next)
      \/ \E status : Answer(t, status)
    BY DEF Throw, U!Throw, Answer
<1>5. Moves(t)
    BY <1>4 DEF Moves, BusyLabels, Labels
<1>6. ThreadAtAuction(t)' /\ \A u \in Threads \ {t} : cur'[u] = cur[u]
    <2>1. cur' = cur /\ req' = req
        BY <1>4 DEF Goto, U!Goto, Answer, U!Answer, localVars
    <2>2. CASE pc'[t] \in {"send", "checkAuctionValidity"}
        BY <1>2, <2>1, <2>2
        DEF TypeInv, AtAuction, ThreadAtAuction, At, U!At, Labels, CloseLabels, AuctionOps, ListOps
    <2>3. CASE pc'[t] = "getAuctionOwner"
        <3>1. req[t].op = "CLS" /\ cur[t] \in Auctions
            BY <1>2, <1>4, <2>3 DEF At, U!At, TypeInv, ThreadsTyped, Goto, U!Goto, Answer, U!Answer,
                                    Throw, U!Throw
        <3> QED  BY <1>2, <2>1, <2>3, <3>1 DEF TypeInv, AtAuction, ThreadAtAuction, Labels, ListOps
    <2>4. CASE pc'[t] \in {"getLargestBid", "createBid"}
        <3>1. label \in {"getAuctionOwner", "getLargestBid"} /\ req[t].op = "BID"
            BY <1>2, <1>4, <2>4, RequestFields DEF At, U!At, TypeInv, ThreadsTyped, Goto, U!Goto,
                                                   Answer,
                  U!Answer, Throw, U!Throw, AtAuction, ThreadAtAuction
        <3> QED  BY <1>2, <2>1, <2>4, <3>1 DEF TypeInv, AtAuction, ThreadAtAuction, Labels, ListOps
    <2>5. pc'[t] \in {"send", "checkAuctionValidity", "getAuctionOwner", "getLargestBid", "createBid"}
        BY <1>4 DEF Goto, U!Goto, Answer, U!Answer, TypeInv, ThreadsTyped
    <2> QED  BY <2>1, <2>2, <2>3, <2>4, <2>5
<1> QED  BY <1>2, <1>3, <1>5, <1>6, MovesTypeInv

LEMMA BidFileTypeInv ==
    ASSUME TypeInv, NEW t \in Threads, CreateBid(t) \/ WriteBid(t)
    PROVE  TypeInv'
<1> USE DEF CreateBid, WriteBid
<1>1. PICK label \in {"createBid", "writeBid"} : At(t, label)
    OBVIOUS
<1>2. /\ server = "up" /\ pc[t] = label /\ pc[t] # "idle"
      /\ AccountsTyped' /\ UNCHANGED <<clock, seen>>
    BY <1>1, AtKeeps DEF BusyLabels, Labels
<1>3. cur[t] \in Auctions /\ req[t].op = "BID" /\ req[t].uid \in Users /\ req[t].val \in Values
    BY <1>2, RequestFields DEF TypeInv, AtAuction, ThreadAtAuction, Labels
<1>4. AuctionsTyped'
    BY <1>2, <1>3 DEF TypeInv, AuctionsTyped
<1>5. LocalsTyped'
    BY <1>2 DEF TypeInv, LocalsTyped, localVars
<1>6. Goto(t, "writeBid") \/ Answer(t, "ACC")
    OBVIOUS
<1>7. Moves(t)
    BY <1>6 DEF Moves, BusyLabels, Labels
<1>8. ThreadAtAuction(t)' /\ \A u \in Threads \ {t} : cur'[u] = cur[u]
    BY <1>2, <1>3, <1>6
    DEF TypeInv, ThreadsTyped, AtAuction, ThreadAtAuction, Goto, U!Goto, Answer, U!Answer,
        localVars, Labels, CloseLabels, ListOps
<1> QED  BY <1>2, <1>4, <1>5, <1>7, <1>8, MovesTypeInv

LEMMA RecordTypeInv ==
    ASSUME TypeInv, NEW t \in Threads, GetAuctionBids(t) \/ GetAuctionEndInfo(t)
    PROVE  TypeInv'
<1> USE DEF GetAuctionBids, GetAuctionEndInfo
<1>1. PICK label \in {"getAuctionBids", "getAuctionEndInfo"} : At(t, label)
    OBVIOUS
<1>2. /\ server = "up" /\ pc[t] = label /\ pc[t] # "idle"
      /\ AccountsTyped' /\ UNCHANGED <<clock, seen>>
    BY <1>1, AtKeeps DEF BusyLabels, Labels
<1>3. AuctionsTyped'
    BY <1>2 DEF TypeInv, AuctionsTyped, fileVars
<1>4. CASE \E what \in {"bid", "end"} : Fault(what) /\ LocalsLost
    BY <1>2, <1>3, <1>4, FaultKeeps, MovesTypeInv
<1>5. CASE /\ Goto(t, "getAuctionEndInfo") \/ Answer(t, "OK")
           /\ UNCHANGED <<cur, early, ended, mine>>
           /\ \/ shown' = [shown EXCEPT ![t].bids = BidsOn(cur[t])]
              \/ shown' = [shown EXCEPT ![t] = [bids |-> GetTopNumBids(@.bids),
                                               over |-> Exists(endFile[cur[t]])]]
    <2>1. LocalsTyped'
        <3> HIDE DEF GetAuctionBids, GetAuctionEndInfo
        <3>1. shown \in [Threads -> [bids : SUBSET Values, over : BOOLEAN]]
            BY DEF TypeInv, LocalsTyped
        <3>2. BidsOn(cur[t]) \in SUBSET Values /\ Exists(endFile[cur[t]]) \in BOOLEAN
            BY DEF BidsOn, Exists
        <3>3. shown' \in [Threads -> [bids : SUBSET Values, over : BOOLEAN]]
            <4>1. CASE shown' = [shown EXCEPT ![t].bids = BidsOn(cur[t])]
                BY <3>1, <3>2, <4>1
            <4>2. CASE shown' = [shown EXCEPT ![t] = [bids |-> GetTopNumBids(@.bids),
                                                      over |-> Exists(endFile[cur[t]])]]
                <5>1. GetTopNumBids(shown[t].bids) \in SUBSET Values
                    BY <3>1 DEF GetTopNumBids
                <5> QED  BY <3>1, <3>2, <4>2, <5>1
            <4> QED  BY <1>5, <4>1, <4>2
        <3> QED  BY <1>2, <1>5, <3>3 DEF TypeInv, LocalsTyped
    <2>2. Moves(t)
        BY <1>5 DEF Moves, BusyLabels, Labels
    <2>3. ThreadAtAuction(t)' /\ \A u \in Threads \ {t} : cur'[u] = cur[u]
        BY <1>2, <1>5
        DEF TypeInv, ThreadsTyped, AtAuction, ThreadAtAuction, Goto, U!Goto, Answer, U!Answer,
            Labels, CloseLabels
    <2> QED  BY <1>2, <1>3, <2>1, <2>2, <2>3, MovesTypeInv
<1> QED  BY <1>4, <1>5

LEMMA ListAuctionTypeInv ==
    ASSUME TypeInv, NEW t \in Threads, ListAuction(t)
    PROVE  TypeInv'
<1> USE DEF ListAuction, Authorized
<1>1. PICK label \in {"authorized", "nextAuction"} : At(t, label)
    OBVIOUS
<1>2. /\ server = "up" /\ pc[t] = label /\ pc[t] # "idle"
      /\ AccountsTyped' /\ UNCHANGED <<clock, seen>>
    BY <1>1, AtKeeps DEF BusyLabels, Labels
<1>3. req[t].op \in ListOps
    BY <1>2 DEF At, U!At, TypeInv, AtAuction, ThreadAtAuction
<1>4. AuctionsTyped'
    BY <1>2 DEF TypeInv, AuctionsTyped, fileVars
<1>5. CASE UNCHANGED localVars /\ \E status : Answer(t, status)
    <2>1. LocalsTyped' /\ Moves(t)
        BY <1>2, <1>5 DEF TypeInv, LocalsTyped, localVars, Moves
    <2>2. ThreadAtAuction(t)' /\ \A u \in Threads \ {t} : cur'[u] = cur[u]
        BY <1>2, <1>5
        DEF TypeInv, ThreadsTyped, AtAuction, ThreadAtAuction, Answer, U!Answer, localVars,
            Labels, CloseLabels
    <2> QED  BY <1>2, <1>4, <2>1, <2>2, MovesTypeInv
<1>6. CASE NumAuctions # 0 /\ ~\E status : Answer(t, status) /\ UNCHANGED localVars
    <2>1. cur[t] \in Auctions
        BY <1>2, <1>3, <1>6, NumbersAssumption
        DEF TypeInv, AtAuction, ThreadAtAuction, Auctions, AuctionOps, ListOps
    <2>2. CASE Listed(t, TRUE)
        <3>1. /\ Moves(t)
              /\ ThreadAtAuction(t)' /\ \A u \in Threads \ {t} : cur'[u] = cur[u]
              /\ cur' \in [Threads -> Nat] /\ ended' \in [Threads -> SUBSET Auctions]
              /\ UNCHANGED <<mine, shown>>
            BY <1>2, <1>3, <2>1, <2>2, ListedKeeps
        <3>2. LocalsTyped'
            BY <1>2, <3>1 DEF TypeInv, LocalsTyped
        <3> QED  BY <1>2, <1>4, <3>1, <3>2, MovesTypeInv
    <2>3. CASE Goto(t, "checkAuctionValidity") /\ UNCHANGED localVars
        <3>1. LocalsTyped' /\ Moves(t)
            BY <1>2, <2>3 DEF TypeInv, LocalsTyped, localVars, Moves, BusyLabels, Labels
        <3>2. ThreadAtAuction(t)' /\ \A u \in Threads \ {t} : cur'[u] = cur[u]
            BY <1>2, <1>3, <2>1, <2>3
            DEF TypeInv, ThreadsTyped, AtAuction, ThreadAtAuction, Goto, U!Goto, localVars,
                Labels, CloseLabels, AuctionOps, ListOps
        <3> QED  BY <1>2, <1>4, <3>1, <3>2, MovesTypeInv
    <2> QED  BY <1>6, <2>2, <2>3 DEF localVars, Throw, U!Throw, Answer
<1> QED  BY <1>5, <1>6 DEF Throw, U!Throw, Answer, localVars

LEMMA ListMineTypeInv ==
    ASSUME TypeInv, NEW t \in Threads, GetAuctionInfo(t) \/ GetAuctionBidders(t)
    PROVE  TypeInv'
<1>1. PICK label \in {"getAuctionInfo", "getAuctionBidders"} : At(t, label)
    BY DEF GetAuctionInfo, GetAuctionBidders
<1>2. /\ server = "up" /\ pc[t] = label /\ pc[t] # "idle"
      /\ AccountsTyped' /\ UNCHANGED <<clock, seen>>
    BY <1>1, AtKeeps DEF BusyLabels, Labels
<1>3. AuctionsTyped'
    BY <1>2 DEF TypeInv, AuctionsTyped, fileVars, GetAuctionInfo, GetAuctionBidders
<1>4. /\ UNCHANGED <<early, ended, shown>>
      /\ \E found \in SUBSET Auctions : mine' = [mine EXCEPT ![t] = found]
      /\ \/ UNCHANGED cur /\ \E status : Answer(t, status)
         \/ /\ Goto(t, "getAuctionBidders")
            /\ label = "getAuctionBidders" /\ cur[t] # NumAuctions
            /\ cur' = [cur EXCEPT ![t] = @ + 1]
    <2>1. CASE GetAuctionInfo(t)
        BY <2>1 DEF GetAuctionInfo, Throw, U!Throw, Answer
    <2>2. CASE GetAuctionBidders(t)
        <3> DEFINE found == IF \E v \in BidsOn(cur[t]) : BidderOf(cur[t], v) = req[t].uid
                            THEN mine[t] \union {cur[t]} ELSE mine[t]
        <3>1. cur[t] \in Auctions /\ label = "getAuctionBidders"
            BY <1>2, <2>2
            DEF GetAuctionBidders, At, U!At, TypeInv, AtAuction, ThreadAtAuction, Labels
        <3>2. found \in SUBSET Auctions
            BY <3>1 DEF TypeInv, LocalsTyped
        <3>3. mine' = [mine EXCEPT ![t] = found] /\ UNCHANGED <<early, ended, shown>>
            BY <2>2 DEF GetAuctionBidders
        <3>4. \/ UNCHANGED cur /\ \E status : Answer(t, status)
              \/ /\ Goto(t, "getAuctionBidders") /\ cur[t] # NumAuctions
                 /\ cur' = [cur EXCEPT ![t] = @ + 1]
            BY <2>2 DEF GetAuctionBidders, Throw, U!Throw, Answer
        <3> QED  BY <3>1, <3>2, <3>3, <3>4
    <2> QED  BY <2>1, <2>2
<1>5. Moves(t)
    BY <1>4 DEF Moves, BusyLabels, Labels
<1>6. label = "getAuctionBidders" => cur[t] \in Auctions
    BY <1>2 DEF TypeInv, AtAuction, ThreadAtAuction, Labels
<1>7. LocalsTyped'
    BY <1>2, <1>4 DEF TypeInv, LocalsTyped
<1>8. ThreadAtAuction(t)' /\ \A u \in Threads \ {t} : cur'[u] = cur[u]
    <2>1. CASE UNCHANGED cur /\ \E status : Answer(t, status)
        BY <1>2, <2>1
        DEF TypeInv, ThreadsTyped, AtAuction, ThreadAtAuction, Answer, U!Answer, Labels, CloseLabels
    <2>2. CASE /\ Goto(t, "getAuctionBidders")
               /\ label = "getAuctionBidders" /\ cur[t] # NumAuctions
               /\ cur' = [cur EXCEPT ![t] = @ + 1]
        <3>0. cur'[t] = cur[t] + 1 /\ \A u \in Threads \ {t} : cur'[u] = cur[u]
            BY <2>2 DEF TypeInv, LocalsTyped
        <3>1. cur'[t] \in Auctions /\ \A u \in Threads \ {t} : cur'[u] = cur[u]
            BY <1>6, <2>2, <3>0, NumbersAssumption DEF Auctions
        <3> QED
            BY <1>2, <2>2, <3>1
            DEF TypeInv, ThreadsTyped, AtAuction, ThreadAtAuction, Goto, U!Goto, AuctionOps, ListOps
    <2> QED  BY <1>4, <2>1, <2>2
<1> QED  BY <1>2, <1>3, <1>5, <1>7, <1>8, MovesTypeInv

LEMMA ProcessTypeInv ==
    ASSUME TypeInv, Crash \/ Restart \/ Tick \/ UNCHANGED vars
    PROVE  TypeInv'
<1>0. U!Threads = Threads
    BY DEF U!Threads, Threads
<1>1. CASE Crash
    <2>1. ThreadsTyped' /\ AccountsTyped' /\ AuctionsTyped'
        BY <1>0, <1>1 DEF Crash, U!Crash, U!files, fileVars, TypeInv, ThreadsTyped, AccountsTyped,
                          AuctionsTyped
    <2>2. LocalsTyped' /\ AtAuction'
        BY <1>0, <1>1 DEF Crash, U!Crash, LocalsLost, LocalsTyped, AtAuction, ThreadAtAuction,
                    NothingShown, NothingSeen
    <2> QED  BY <2>1, <2>2 DEF TypeInv
<1>2. CASE Restart
    <2>1. ThreadsTyped' /\ AccountsTyped' /\ AuctionsTyped'
        BY <1>2 DEF Restart, U!Restart, U!files, fileVars, TypeInv, ThreadsTyped, AccountsTyped,
                    AuctionsTyped
    <2>2. LocalsTyped'
        BY <1>2 DEF Restart, localVars, TypeInv, LocalsTyped, NothingSeen
    <2>3. AtAuction'
        BY <1>2 DEF Restart, U!Restart, localVars, TypeInv, AtAuction, ThreadAtAuction
    <2> QED  BY <2>1, <2>2, <2>3 DEF TypeInv
<1>3. CASE Tick \/ UNCHANGED vars
    <2>1. ThreadsTyped' /\ AccountsTyped' /\ LocalsTyped' /\ AtAuction'
        BY <1>3 DEF Tick, vars, userVars, localVars, TypeInv, ThreadsTyped, AccountsTyped,
                    LocalsTyped, AtAuction, ThreadAtAuction
    <2>2. AuctionsTyped'
        BY <1>3, NumbersAssumption DEF Tick, vars, fileVars, TypeInv, AuctionsTyped
    <2> QED  BY <2>1, <2>2 DEF TypeInv
<1> QED  BY <1>1, <1>2, <1>3

LEMMA NextTypeInv == TypeInv /\ [Next]_vars => TypeInv'
<1> SUFFICES ASSUME TypeInv, [Next]_vars  PROVE TypeInv'
    OBVIOUS
<1>1. ASSUME NEW t \in Threads, Step(t)  PROVE TypeInv'
    BY <1>1, AuthenticateTypeInv, ManageAccountTypeInv, SendTypeInv, CheckAuctionValidityTypeInv,
       CloseTypeInv, LookTypeInv, BidFileTypeInv, RecordTypeInv, ListAuctionTypeInv, ListMineTypeInv
    DEF Step, BidEndExists, DirectoryExists, GetAuctionOwner, GetLargestBid, GetAuctionAsset
<1> QED  BY <1>1, ReceiveTypeInv, ProcessTypeInv DEF Next

(* Type correctness, for any auctions, bids and clock: in particular the END
   file written at an early close never says a negative time. *)
THEOREM TypeCorrect == Spec => []TypeOK
<1> QED  BY InitTypeInv, NextTypeInv, TypeInvTypeOK, PTL DEF Spec

-----------------------------------------------------------------------------
(* What the exceptions a request can meet are answered with. *)
LEMMA BidExceptions ==
    ASSUME NEW e \in {"InvalidCredentials", "UserNotLoggedIn", "NonActiveAuction", "BidRefused",
                      "IllegalBid"}
    PROVE  /\ U!Sent("BID", U!Caught("BID", e)) # "ACC"
           /\ U!Sent("BID", U!Caught("BID", e)) = "NOK" => e = "NonActiveAuction"
    BY DEF U!Sent, U!Caught, U!Handler, U!handleBid, U!Response, U!BidResponse

LEMMA CloseExceptions ==
    ASSUME NEW e \in {"InvalidCredentials", "UserNotLoggedIn", "AuctionNotFound",
                      "IncorrectAuctionOwner", "NonActiveAuction"}
    PROVE  /\ U!Sent("CLS", U!Caught("CLS", e)) # "OK"
           /\ U!Sent("CLS", U!Caught("CLS", e)) = "END" => e = "NonActiveAuction"
    BY DEF U!Sent, U!Caught, U!Handler, U!handleCloseAuction, U!Response, U!CloseAuctionResponse,
           U!ErrorPacket

(* What a step of one thread leaves of another: everything, or, after a fault,
   nothing. *)
Untouched(u) ==
    /\ pc'[u] = pc[u] /\ req'[u] = req[u] /\ reply'[u] = reply[u]
    /\ cur'[u] = cur[u] /\ early'[u] = early[u] /\ ended'[u] = ended[u]
    /\ mine'[u] = mine[u] /\ shown'[u] = shown[u] /\ seen'[u] = seen[u]

Forgotten(u) ==
    pc'[u] = "idle" /\ req'[u] = U!NoRequest /\ reply'[u] = "none" /\ ended'[u] = {}

LEMMA OthersUntouched ==
    ASSUME TypeInv, NEW t \in Threads, Receive(t) \/ Step(t), NEW u \in Threads \ {t}
    PROVE  Untouched(u) \/ (Forgotten(u) /\ \E what : Fault(what))
<1> USE DEF TypeInv, ThreadsTyped, LocalsTyped, Untouched, Forgotten, Goto, U!Goto, Answer,
            U!Answer, U!Throw, Throw,
            At, U!At, Authorized
<1>1. CASE Receive(t)
    BY <1>1 DEF Receive, U!Receive
<1>2. CASE Authenticate(t) \/ ManageAccount(t) \/ Send(t)
    BY <1>2
    DEF Authenticate, ManageAccount, Send, U!Authenticate, U!ManageAccount, U!Send, localVars,
        U!UserExists, U!GetUserPassword, U!IsUserLoggedIn, U!CreatePass, U!WritePass, U!Login,
        U!CreateLogin, U!Logout, U!DeleteLogin, U!UnregisterUser, U!DeletePass
<1>3. ASSUME NEW over \in BOOLEAN, Proceed(t, over)
      PROVE  /\ pc'[u] = pc[u] /\ req'[u] = req[u] /\ reply'[u] = reply[u]
             /\ cur'[u] = cur[u] /\ ended'[u] = ended[u] /\ mine'[u] = mine[u] /\ shown'[u] = shown[u]
    BY <1>3 DEF Proceed, Listed
<1>4. ASSUME NEW own \in BOOLEAN, Closed(t, own)
      PROVE  /\ pc'[u] = pc[u] /\ req'[u] = req[u] /\ reply'[u] = reply[u]
             /\ cur'[u] = cur[u] /\ ended'[u] = ended[u] /\ mine'[u] = mine[u] /\ shown'[u] = shown[u]
    BY <1>3, <1>4 DEF Closed
<1>5. CASE CheckAuctionValidity(t)
    <2>1. CASE Fault("start") /\ LocalsLost
        BY <2>1 DEF Fault, LocalsLost
    <2>2. CASE ~(Fault("start") /\ LocalsLost)
        <3>1. early'[u] = early[u] /\ seen'[u] = seen[u]
            BY <1>5, <2>2 DEF CheckAuctionValidity
        <3>2. CASE UNCHANGED <<cur, ended, mine, shown>> /\ Goto(t, "closeCheck")
            BY <3>1, <3>2
        <3>3. CASE Proceed(t, FALSE)
            BY <1>3, <3>1, <3>3
        <3> QED  BY <1>5, <2>2, <3>2, <3>3 DEF CheckAuctionValidity
    <2> QED  BY <2>1, <2>2
<1>6. CASE CloseCheck(t) \/ CloseCreate(t) \/ CloseWrite(t)
    BY <1>4, <1>6 DEF CloseCheck, CloseCreate, CloseWrite, localVars
<1>7. CASE \/ BidEndExists(t) \/ DirectoryExists(t) \/ GetAuctionOwner(t)
           \/ GetLargestBid(t) \/ CreateBid(t) \/ WriteBid(t) \/ GetAuctionAsset(t)
    BY <1>7 DEF BidEndExists, DirectoryExists, GetAuctionOwner, GetLargestBid, CreateBid, WriteBid,
                GetAuctionAsset, localVars
<1>8. CASE GetAuctionBids(t) \/ GetAuctionEndInfo(t)
    BY <1>8 DEF GetAuctionBids, GetAuctionEndInfo, Fault, LocalsLost
<1>9. CASE ListAuction(t) \/ GetAuctionInfo(t) \/ GetAuctionBidders(t)
    BY <1>9 DEF ListAuction, Listed, GetAuctionInfo, GetAuctionBidders
<1> QED
    BY <1>1, <1>2, <1>5, <1>6, <1>7, <1>8, <1>9 DEF Step

(* Files are only ever added, and the clock goes forward. *)
LEMMA FilesStay ==
    ASSUME TypeInv, [Next]_vars
    PROVE  /\ \A a \in Auctions : Exists(endFile[a]) => Exists(endFile'[a])
           /\ \A a \in Auctions, v \in Values : Exists(bidFile[a][v]) => Exists(bidFile'[a][v])
           /\ clock <= clock'
           /\ \A a \in Auctions : Expired(a) => Expired(a)'
<1> USE FileContentsAssumption DEF TypeInv, AuctionsTyped, Exists
<1>1. clock' = clock \/ (Tick /\ clock' = clock + 1)
    BY DEF Next, vars, Step, Receive, Authenticate, ManageAccount, Send, CheckAuctionValidity,
           CloseCheck, CloseCreate, CloseWrite, BidEndExists, DirectoryExists, GetAuctionOwner,
           GetLargestBid, CreateBid, WriteBid, GetAuctionAsset, GetAuctionBids, GetAuctionEndInfo,
           ListAuction, GetAuctionInfo, GetAuctionBidders, Crash, Restart, Tick, At, Authorized
<1>2. clock <= clock' /\ clock \in Nat /\ clock' \in Nat
    BY <1>1, NumbersAssumption
<1>3. \A a \in Auctions : Expired(a) => Expired(a)'
    BY <1>2, StartAssumption DEF Expired, Deadline
<1>4. CASE UNCHANGED fileVars
    BY <1>2, <1>3, <1>4 DEF fileVars
<1>5. ASSUME NEW t \in Threads, CloseCreate(t) \/ CloseWrite(t)
      PROVE  /\ \A a \in Auctions : Exists(endFile[a]) => Exists(endFile'[a])
             /\ UNCHANGED bidFile
    <2>1. cur[t] \in Auctions
        BY <1>5 DEF CloseCreate, CloseWrite, At, U!At, AtAuction, ThreadAtAuction, Labels, CloseLabels
    <2>2. CASE CloseCreate(t)
        BY <2>1, <2>2 DEF CloseCreate
    <2>3. CASE CloseWrite(t)
        <3> DEFINE end == [early |-> early[t],
                           seconds |-> IF early[t] THEN clock - StartFile[cur[t]].start
                                                   ELSE StartFile[cur[t]].timeActive]
        <3>1. endFile' = [endFile EXCEPT ![cur[t]] = end] /\ UNCHANGED bidFile
            BY <2>3 DEF CloseWrite
        <3>2. end \in Ends
            BY <2>1, NumbersAssumption, StartAssumption DEF Ends, LocalsTyped, Auctions
        <3> QED  BY <3>1, <3>2
    <2> QED  BY <1>5, <2>2, <2>3
<1>6. ASSUME NEW t \in Threads, CreateBid(t) \/ WriteBid(t)
      PROVE  /\ \A a \in Auctions, v \in Values : Exists(bidFile[a][v]) => Exists(bidFile'[a][v])
             /\ UNCHANGED endFile
    <2>1. pc[t] # "idle"
        BY <1>6 DEF CreateBid, WriteBid, At, U!At
    <2>2. cur[t] \in Auctions /\ req[t].uid \in Users /\ req[t].val \in Values
        BY <1>6, <2>1, RequestFields
        DEF CreateBid, WriteBid, At, U!At, AtAuction, ThreadAtAuction, Labels, CloseLabels
    <2> QED  BY <1>6, <2>2 DEF CreateBid, WriteBid
<1>7. \/ UNCHANGED fileVars
      \/ \E t \in Threads : CloseCreate(t) \/ CloseWrite(t) \/ CreateBid(t) \/ WriteBid(t)
    BY DEF Next, vars, Step, Receive, Authenticate, ManageAccount, Send, CheckAuctionValidity,
           CloseCheck, BidEndExists, DirectoryExists, GetAuctionOwner, GetLargestBid,
           GetAuctionAsset, GetAuctionBids, GetAuctionEndInfo, ListAuction, GetAuctionInfo,
           GetAuctionBidders, Crash, Restart, Tick
<1> QED  BY <1>2, <1>3, <1>4, <1>5, <1>6, <1>7

-----------------------------------------------------------------------------
(* Bids.  What a worker has made sure of when it files a bid: the bidder does
   not own the auction, the value is above the start value and above every bid
   that was on file when the request came, all of which are still there. *)
ThreadBids(t) ==
    pc[t] # "idle" /\ req[t].op = "BID" =>
        /\ cur[t] \in Auctions => seen[t].bids \subseteq BidsOn(cur[t])
        /\ pc[t] \in {"getLargestBid", "createBid", "writeBid"} => req[t].uid # Owner(cur[t])
        /\ pc[t] \in {"createBid", "writeBid"} => req[t].val > StartFile[cur[t]].startValue
        /\ pc[t] \in {"createBid", "writeBid"} \/ Answered(t, "BID", "ACC") =>
              \A v \in seen[t].bids : req[t].val > v

BidInv == TypeInv /\ BidsAreLegal /\ \A t \in Threads : ThreadBids(t)

LEMMA UntouchedBids ==
    ASSUME BidInv, [Next]_vars, NEW u \in Threads, Untouched(u) \/ pc'[u] = "idle"
    PROVE  ThreadBids(u)'
<1> USE DEF ThreadBids, Answered, Owner, Untouched
<1>1. CASE pc'[u] = "idle"
    BY <1>1
<1>2. CASE Untouched(u)
    <2>1. \A a \in Auctions, v \in Values : Exists(bidFile[a][v]) => Exists(bidFile'[a][v])
        BY FilesStay DEF BidInv
    <2>2. ThreadBids(u)
        BY DEF BidInv
    <2> QED  BY <1>2, <2>1, <2>2 DEF BidsOn
<1> QED  BY <1>1, <1>2

(* The steps of a thread that do not bring a bid further. *)
LEMMA OtherMovesBids ==
    ASSUME BidInv, [Next]_vars, NEW t \in Threads,
           req'[t] = req[t], seen'[t] = seen[t], cur'[t] = cur[t] \/ req[t].op # "BID",
           pc[t] # "idle",
           pc'[t] \notin {"getLargestBid", "createBid", "writeBid"},
           Answered(t, "BID", "ACC")' => Answered(t, "BID", "ACC")
    PROVE  ThreadBids(t)'
<1>1. \A a \in Auctions, v \in Values : Exists(bidFile[a][v]) => Exists(bidFile'[a][v])
    BY FilesStay DEF BidInv
<1>2. ThreadBids(t)
    BY DEF BidInv
<1> QED  BY <1>1, <1>2 DEF ThreadBids, BidsOn

LEMMA ReceiveBids ==
    ASSUME BidInv, [Next]_vars, NEW t \in Threads, Receive(t)
    PROVE  ThreadBids(t)'
<1>0. ThreadsTyped /\ LocalsTyped
    BY DEF BidInv, TypeInv
<1>1. PICK r \in Requests :
        /\ U!Receive(t, r)
        /\ cur' = [cur EXCEPT ![t] = IF r.op \in AuctionOps THEN r.aid ELSE 1]
        /\ seen' = [seen EXCEPT ![t] = OnFile(r)]
    BY DEF Receive
<1>2. UNCHANGED bidFile
    BY DEF Receive, fileVars
<1>3. pc'[t] \notin {"getLargestBid", "createBid", "writeBid", "send"} /\ req'[t] = r
    BY <1>0, <1>1 DEF U!Receive, U!FirstStep, ThreadsTyped
<1>4. ASSUME r.op = "BID", r.aid \in Auctions
      PROVE  /\ cur'[t] = r.aid
             /\ seen'[t].bids = BidsOn(r.aid)
    BY <1>0, <1>1, <1>4 DEF AuctionOps, LocalsTyped, OnFile
<1>5. ASSUME r.op = "BID"  PROVE cur'[t] = r.aid
    BY <1>0, <1>1, <1>5 DEF AuctionOps, LocalsTyped
<1> QED
    BY <1>2, <1>3, <1>4, <1>5, FileContentsAssumption DEF ThreadBids, Answered, BidsOn, Exists

LEMMA GetLargestBidBids ==
    ASSUME BidInv, [Next]_vars, NEW t \in Threads, GetLargestBid(t)
    PROVE  ThreadBids(t)'
<1>0. ThreadsTyped /\ AtAuction /\ ThreadBids(t)
    BY DEF BidInv, TypeInv
<1>1. /\ pc[t] = "getLargestBid" /\ req[t].op = "BID" /\ cur[t] \in Auctions
      /\ UNCHANGED <<req, seen, cur, bidFile>>
    BY <1>0 DEF GetLargestBid, At, U!At, AtAuction, ThreadAtAuction, Labels, localVars,
                fileVars, Throw, U!Throw, Goto, U!Goto, U!Answer
<1>2. CASE TooLow(cur[t], req[t].val)
    <2>1. pc'[t] = "send" /\ reply'[t] # "ACC"
        BY <1>0, <1>1, <1>2, BidExceptions
        DEF GetLargestBid, Throw, U!Throw, U!Answer, U!Op, ThreadsTyped
    <2> QED  BY <1>1, <2>1, OtherMovesBids DEF Answered
<1>3. CASE ~TooLow(cur[t], req[t].val)
    <2>1. pc'[t] = "createBid"
        BY <1>0, <1>1, <1>3 DEF GetLargestBid, Goto, U!Goto, ThreadsTyped
    <2>2. req[t].val \in Nat /\ BidsOn(cur[t]) \subseteq Nat /\ StartFile[cur[t]].startValue \in Nat
        BY <1>1, RequestFields, NumbersAssumption, StartAssumption DEF BidInv, BidsOn
    <2>3. \A v \in BidsOn(cur[t]) : req[t].val > v
        BY <1>3, <2>2 DEF TooLow
    <2>4. req[t].val > StartFile[cur[t]].startValue
        <3>1. CASE BidsOn(cur[t]) = {}
            BY <1>3, <2>2, <3>1 DEF TooLow
        <3>2. ASSUME NEW v \in BidsOn(cur[t])  PROVE req[t].val > StartFile[cur[t]].startValue
            <4>1. v > StartFile[cur[t]].startValue /\ req[t].val > v /\ v \in Nat
                BY <1>1, <2>2, <2>3, <3>2 DEF BidInv, BidsAreLegal
            <4> QED  BY <2>2, <4>1
        <3> QED  BY <3>1, <3>2
    <2>5. seen[t].bids \subseteq BidsOn(cur[t]) /\ req[t].uid # Owner(cur[t])
        BY <1>0, <1>1 DEF ThreadBids
    <2>6. pc' = [pc EXCEPT ![t] = "createBid"] /\ ~Answered(t, "BID", "ACC")'
        BY <1>1, <1>3, <2>1 DEF GetLargestBid, Goto, U!Goto, Answered
    <2> QED  BY <1>1, <2>1, <2>3, <2>4, <2>5, <2>6 DEF ThreadBids, Owner, BidsOn
<1> QED  BY <1>2, <1>3

(* A request stays the same until it is answered, or the process dies. *)
LEMMA RequestStays ==
    ASSUME TypeInv, NEW t \in Threads, Step(t)
    PROVE  pc'[t] = "idle" \/ (req'[t] = req[t] /\ seen'[t] = seen[t])
<1> USE DEF TypeInv, ThreadsTyped, Goto, U!Goto, Answer, U!Answer, U!Throw, Throw, At, Authorized
<1>1. CASE Authenticate(t) \/ ManageAccount(t) \/ Send(t)
    BY <1>1
    DEF Authenticate, ManageAccount, Send, U!Authenticate, U!ManageAccount, U!Send,
        U!UserExists, U!GetUserPassword, U!IsUserLoggedIn, U!CreatePass, U!WritePass, U!Login,
        U!CreateLogin, U!Logout, U!DeleteLogin, U!UnregisterUser, U!DeletePass
<1>2. ASSUME NEW over \in BOOLEAN, Proceed(t, over)  PROVE req' = req
    BY <1>2 DEF Proceed, Listed
<1>3. CASE CheckAuctionValidity(t) \/ CloseCheck(t) \/ CloseCreate(t) \/ CloseWrite(t)
    BY <1>2, <1>3 DEF CheckAuctionValidity, CloseCheck, CloseCreate, CloseWrite, Closed, Fault
<1>4. CASE \/ BidEndExists(t) \/ DirectoryExists(t) \/ GetAuctionOwner(t)
           \/ GetLargestBid(t) \/ CreateBid(t) \/ WriteBid(t) \/ GetAuctionAsset(t)
    BY <1>4 DEF BidEndExists, DirectoryExists, GetAuctionOwner, GetLargestBid, CreateBid, WriteBid,
                GetAuctionAsset
<1>5. CASE GetAuctionBids(t) \/ GetAuctionEndInfo(t)
    BY <1>5 DEF GetAuctionBids, GetAuctionEndInfo, Fault
<1>6. CASE ListAuction(t) \/ GetAuctionInfo(t) \/ GetAuctionBidders(t)
    BY <1>6 DEF ListAuction, Listed, GetAuctionInfo, GetAuctionBidders
<1> QED  BY <1>1, <1>3, <1>4, <1>5, <1>6 DEF Step

(* A status other than ACC, or an exception, is not answered ACC. *)
LEMMA AnswerNotACC ==
    ASSUME ThreadsTyped, NEW t \in Threads, req[t].op = "BID",
           \/ \E status : status # "ACC" /\ Answer(t, status)
           \/ \E e \in {"InvalidCredentials", "UserNotLoggedIn", "NonActiveAuction", "BidRefused",
                       "IllegalBid"} : Throw(t, e)
    PROVE  pc'[t] = "send" /\ ~Answered(t, "BID", "ACC")' /\ UNCHANGED req
<1>1. ASSUME NEW status, status # "ACC"  PROVE U!Sent("BID", status) # "ACC"
    BY <1>1 DEF U!Sent, U!ErrorPacket
<1> QED
    BY <1>1, BidExceptions DEF Answer, U!Answer, Throw, U!Throw, U!Op, ThreadsTyped, Answered

(* Steps of a bid request on its way to the bid, or to a refusal. *)
LEMMA EarlyStepsBids ==
    ASSUME BidInv, [Next]_vars, NEW t \in Threads, req[t].op = "BID",
           \/ Authenticate(t) \/ ManageAccount(t)
           \/ CheckAuctionValidity(t) \/ CloseCheck(t) \/ CloseCreate(t) \/ CloseWrite(t)
           \/ BidEndExists(t) \/ DirectoryExists(t)
    PROVE  ThreadBids(t)'
<1>0. ThreadsTyped /\ AtAuction /\ ThreadBids(t)
    BY DEF BidInv, TypeInv
<1>1. pc[t] # "idle" /\ (pc'[t] = "idle" \/ (req'[t] = req[t] /\ seen'[t] = seen[t]))
    BY RequestStays
    DEF Step, BidInv, Authenticate, ManageAccount, CheckAuctionValidity, CloseCheck, CloseCreate,
        CloseWrite, BidEndExists, DirectoryExists, At, U!At, Authorized, U!Authenticate,
        U!ManageAccount, U!UserExists, U!GetUserPassword, U!IsUserLoggedIn, U!CreatePass,
        U!WritePass, U!Login, U!CreateLogin, U!Logout, U!DeleteLogin, U!UnregisterUser, U!DeletePass
<1>2. SUFFICES ASSUME pc'[t] # "idle"
               PROVE  /\ cur' = cur
                      /\ \/ \E label \in BusyLabels \ {"getLargestBid", "createBid", "writeBid", "send"} : Goto(t, label)
                         \/ \E status : status # "ACC" /\ Answer(t, status)
                         \/ \E e \in {"InvalidCredentials", "UserNotLoggedIn", "NonActiveAuction"} : Throw(t, e)
    <2>1. ASSUME NEW label \in BusyLabels \ {"getLargestBid", "createBid", "writeBid", "send"}, Goto(t, label)
          PROVE  pc'[t] = label
        BY <1>0, <2>1 DEF Goto, U!Goto, ThreadsTyped
    <2> QED
        BY <1>0, <1>1, <1>2, <2>1, OtherMovesBids, AnswerNotACC DEF ThreadBids, Answered
<1>3. CASE Authenticate(t) \/ ManageAccount(t)
    BY <1>3
    DEF Authenticate, ManageAccount, U!Authenticate, U!ManageAccount, U!UserExists, U!GetUserPassword,
        U!IsUserLoggedIn, U!CreatePass, U!WritePass, U!Login, U!CreateLogin, U!Logout, U!DeleteLogin,
        U!UnregisterUser, U!DeletePass, localVars, Goto, Answer, Throw, BusyLabels, U!AuthLabels,
        U!UdpLabels, U!Op, U!AccountOps
<1>4. ASSUME NEW over \in BOOLEAN, Proceed(t, over)
      PROVE  cur' = cur /\ (Goto(t, "getAuctionOwner") \/ Throw(t, "NonActiveAuction"))
    BY <1>4 DEF Proceed, ListOps
<1>5. CASE CheckAuctionValidity(t) \/ CloseCheck(t) \/ CloseCreate(t) \/ CloseWrite(t)
    <2>1. CASE \E over \in BOOLEAN : Proceed(t, over)
        BY <1>4, <2>1 DEF BusyLabels, Labels
    <2>2. CASE cur' = cur /\ \E label \in CloseLabels : Goto(t, label)
        BY <2>2 DEF BusyLabels, Labels, CloseLabels
    <2> QED
        BY <1>0, <1>2, <1>5, <2>1, <2>2
        DEF CheckAuctionValidity, CloseCheck, CloseCreate, CloseWrite, Closed, CloseLabels, localVars,
            Fault
<1>6. CASE BidEndExists(t) \/ DirectoryExists(t)
    BY <1>6 DEF BidEndExists, DirectoryExists, Authorized, localVars, BusyLabels, Labels
<1> QED  BY <1>3, <1>5, <1>6

LEMMA GetAuctionOwnerBids ==
    ASSUME BidInv, [Next]_vars, NEW t \in Threads, req[t].op = "BID", GetAuctionOwner(t)
    PROVE  ThreadBids(t)'
<1>0. ThreadsTyped /\ AtAuction /\ ThreadBids(t)
    BY DEF BidInv, TypeInv
<1>1. pc[t] = "getAuctionOwner" /\ cur[t] \in Auctions /\ UNCHANGED <<seen, cur, bidFile>>
    BY <1>0 DEF GetAuctionOwner, At, U!At, AtAuction, ThreadAtAuction, Labels, localVars, fileVars
<1>2. CASE Owner(cur[t]) = req[t].uid
    <2>1. Throw(t, "IllegalBid")
        BY <1>2 DEF GetAuctionOwner
    <2>2. pc'[t] = "send" /\ ~Answered(t, "BID", "ACC")' /\ UNCHANGED req
        BY <1>0, <2>1, AnswerNotACC
    <2> QED  BY <1>1, <2>2, OtherMovesBids
<1>3. CASE Owner(cur[t]) # req[t].uid
    <2>1. pc'[t] = "getLargestBid" /\ UNCHANGED req
        BY <1>0, <1>3 DEF GetAuctionOwner, Goto, U!Goto, ThreadsTyped
    <2> QED  BY <1>0, <1>1, <1>3, <2>1 DEF ThreadBids, Answered, Owner, BidsOn
<1> QED  BY <1>2, <1>3

LEMMA BidFileBids ==
    ASSUME BidInv, [Next]_vars, NEW t \in Threads, CreateBid(t) \/ WriteBid(t)
    PROVE  ThreadBids(t)' /\ BidsAreLegal'
<1>0. ThreadsTyped /\ AtAuction /\ AuctionsTyped /\ ThreadBids(t) /\ BidsAreLegal
    BY DEF BidInv, TypeInv
<1>1. /\ pc[t] \in {"createBid", "writeBid"} /\ cur[t] \in Auctions /\ req[t].op = "BID"
      /\ UNCHANGED <<req, seen, cur>>
    BY <1>0 DEF CreateBid, WriteBid, At, U!At, AtAuction, ThreadAtAuction, Labels, localVars,
                Goto, U!Goto, Answer, U!Answer
<1>2. /\ pc[t] # "idle" /\ req[t].uid \in Users /\ req[t].val \in Values
      /\ req[t].uid # Owner(cur[t]) /\ req[t].val > StartFile[cur[t]].startValue
      /\ \A v \in seen[t].bids : req[t].val > v
    BY <1>0, <1>1, RequestFields DEF BidInv, ThreadBids
<1>3. ThreadBids(t)'
    <2>1. \A a \in Auctions, v \in Values : Exists(bidFile[a][v]) => Exists(bidFile'[a][v])
        BY FilesStay DEF BidInv
    <2> QED  BY <1>0, <1>1, <1>2, <2>1 DEF ThreadBids, BidsOn, Owner
<1>4. /\ \E bid \in {EmptyFile, req[t].uid} :
             \/ bidFile' = [bidFile EXCEPT ![cur[t]][req[t].val] = bid]
             \/ bidFile' = [bidFile EXCEPT ![cur[t]][req[t].val] = IF Exists(@) THEN @ ELSE bid]
      /\ Owner(cur[t]) \in Users
    BY <1>1, StartAssumption DEF CreateBid, WriteBid, Owner
<1>5. ASSUME NEW a \in Auctions, NEW v \in Values, Exists(bidFile'[a][v])
      PROVE  bidFile'[a][v] # Owner(a) /\ v > StartFile[a].startValue
    <2>1. CASE a = cur[t] /\ v = req[t].val
        <3>1. bidFile'[a][v] \in {EmptyFile, req[t].uid, bidFile[a][v]}
            BY <1>0, <1>1, <1>2, <1>4, <2>1 DEF AuctionsTyped
        <3>2. bidFile[a][v] # Owner(a)
            BY <1>0, <1>4, <2>1, FileContentsAssumption DEF BidsAreLegal, BidsOn, Exists
        <3> QED  BY <1>2, <1>4, <2>1, <3>1, <3>2, FileContentsAssumption
    <2>2. CASE a # cur[t] \/ v # req[t].val
        <3>1. bidFile'[a][v] = bidFile[a][v]
            BY <1>0, <1>1, <1>2, <1>4, <2>2 DEF AuctionsTyped
        <3> QED  BY <1>0, <1>5, <3>1 DEF BidsAreLegal, BidsOn
    <2> QED  BY <2>1, <2>2
<1>6. BidsAreLegal'
    BY <1>5 DEF BidsAreLegal, BidsOn, Owner, Exists
<1> QED  BY <1>3, <1>6

LEMMA BidFileUnchanged ==
    ASSUME BidInv, [Next]_vars, \A t \in Threads : ~CreateBid(t) /\ ~WriteBid(t)
    PROVE  BidsAreLegal'
<1>1. UNCHANGED bidFile
    BY DEF Next, vars, Step, Receive, Authenticate, ManageAccount, Send, CheckAuctionValidity,
           CloseCheck, CloseCreate, CloseWrite, BidEndExists, DirectoryExists, GetAuctionOwner,
           GetLargestBid, GetAuctionAsset, GetAuctionBids, GetAuctionEndInfo, ListAuction,
           GetAuctionInfo, GetAuctionBidders, Crash, Restart, Tick, fileVars
<1> QED  BY <1>1 DEF BidInv, BidsAreLegal, BidsOn, Exists, Owner

LEMMA StepBids ==
    ASSUME BidInv, [Next]_vars, NEW t \in Threads, Step(t)
    PROVE  ThreadBids(t)'
<1>1. pc'[t] = "idle" \/ (req'[t] = req[t] /\ seen'[t] = seen[t])
    BY RequestStays DEF BidInv
<1>2. CASE req[t].op # "BID" \/ pc'[t] = "idle"
    BY <1>1, <1>2 DEF ThreadBids
<1>3. CASE req[t].op = "BID" /\ pc'[t] # "idle"
    <2>1. ~Send(t)
        BY <1>3 DEF Send, U!Send, BidInv, TypeInv, ThreadsTyped
    <2>2. ~ListAuction(t) /\ ~GetAuctionInfo(t) /\ ~GetAuctionBidders(t)
        BY <1>3 DEF ListAuction, GetAuctionInfo, GetAuctionBidders, Authorized, At, U!At, ListOps,
                    BidInv, TypeInv, AtAuction, ThreadAtAuction
    <2>3. CASE GetAuctionAsset(t) \/ GetAuctionBids(t) \/ GetAuctionEndInfo(t)
        <3>1. /\ pc[t] # "idle" /\ cur'[t] = cur[t]
              /\ Goto(t, "getAuctionEndInfo") \/ Answer(t, "OK")
            BY <1>3, <2>3 DEF GetAuctionAsset, GetAuctionBids, GetAuctionEndInfo, At, U!At, Fault,
                              localVars
        <3>2. CASE Goto(t, "getAuctionEndInfo")
            BY <1>1, <1>3, <3>1, <3>2, OtherMovesBids
            DEF Goto, U!Goto, BidInv, TypeInv, ThreadsTyped, Answered
        <3>3. CASE Answer(t, "OK")
            <4>1. ThreadsTyped
                BY DEF BidInv, TypeInv
            <4>2. pc'[t] = "send" /\ ~Answered(t, "BID", "ACC")' /\ UNCHANGED req
                BY <1>3, <3>3, <4>1, AnswerNotACC
            <4> QED  BY <1>1, <1>3, <3>1, <4>2, OtherMovesBids
        <3> QED  BY <3>1, <3>2, <3>3
    <2> QED
        BY <1>3, <2>1, <2>2, <2>3, EarlyStepsBids, GetAuctionOwnerBids, GetLargestBidBids, BidFileBids
        DEF Step
<1> QED  BY <1>2, <1>3

LEMMA InitBidInv == Init => BidInv
<1> SUFFICES ASSUME Init  PROVE BidsAreLegal /\ \A t \in Threads : ThreadBids(t)
    BY InitTypeInv DEF BidInv
<1> QED  BY DEF Init, BidsAreLegal, BidsOn, Exists, ThreadBids

LEMMA NextBidInv == BidInv /\ [Next]_vars => BidInv'
<1> SUFFICES ASSUME BidInv, [Next]_vars
             PROVE  BidsAreLegal' /\ \A u \in Threads : ThreadBids(u)'
    BY NextTypeInv DEF BidInv
<1>1. BidsAreLegal'
    BY BidFileBids, BidFileUnchanged
<1>2. ASSUME NEW u \in Threads  PROVE ThreadBids(u)'
    <2>1. ASSUME NEW t \in Threads, Receive(t) \/ Step(t)  PROVE ThreadBids(u)'
        <3>1. CASE u = t
            BY <2>1, <3>1, ReceiveBids, StepBids
        <3>2. CASE u # t
            BY <2>1, <3>2, OthersUntouched, UntouchedBids DEF BidInv, Forgotten
        <3> QED  BY <3>1, <3>2
    <2>2. CASE Crash
        <3>1. U!Threads = Threads
            BY DEF U!Threads, Threads
        <3> QED  BY <2>2, <3>1, UntouchedBids DEF Crash, U!Crash
    <2>3. CASE Restart
        <3>1. CASE pc[u] = "idle"
            BY <2>3, <3>1, UntouchedBids DEF Restart, U!Restart
        <3>2. CASE pc[u] # "idle"
            <4>1. ThreadBids(u) /\ seen'[u].bids = {} /\ UNCHANGED <<pc, req, reply, cur, bidFile>>
                BY <2>3 DEF Restart, U!Restart, localVars, fileVars, NothingSeen, BidInv
            <4> QED  BY <4>1 DEF ThreadBids, Answered, Owner, BidsOn
        <3> QED  BY <3>1, <3>2
    <2>4. CASE Tick \/ UNCHANGED vars
        BY <2>4, UntouchedBids DEF Tick, vars, userVars, localVars, Untouched
    <2> QED  BY <2>1, <2>2, <2>3, <2>4 DEF Next
<1> QED  BY <1>1, <1>2

(* No bid stands on an auction of its own owner, or at or below the start
   value: however the workers interleave, whoever files a bid has passed both
   tests, and the start value is only tested when there is no bid on file. *)
THEOREM BidsLegal == Spec => []BidsAreLegal
<1>1. BidInv => BidsAreLegal
    BY DEF BidInv
<1> QED  BY <1>1, InitBidInv, NextBidInv, PTL DEF Spec

(* An accepted bid exceeds every bid that was on file when it arrived. *)
THEOREM EarlierBidsOutbid == Spec => []OutbidsEarlierBids
<1>1. BidInv => OutbidsEarlierBids
    BY DEF BidInv, OutbidsEarlierBids, ThreadBids, Answered
<1> QED  BY <1>1, InitBidInv, NextBidInv, PTL DEF Spec

-----------------------------------------------------------------------------
(* The promise of AuctionHouse. *)

(* Which requests reach each label. *)
ServedAt(label) ==
    CASE label = "userExists" -> U!AccountOps \union {"BID", "CLS"}
      [] label = "getUserPassword" -> {"BID", "CLS"}
      [] label = "isUserLoggedIn" -> {"LOU", "UNR", "LMA", "LMB", "BID", "CLS"}
      [] label \in U!UdpLabels -> U!AccountOps
      [] label \in {"authorized", "checkAuctionValidity"} \union CloseLabels -> AuctionOps \union ListOps
      [] label = "getAuctionOwner" -> {"BID", "CLS"}
      [] label \in {"getLargestBid", "createBid", "writeBid"} -> {"BID"}
      [] label = "getAuctionAsset" -> {"SAS"}
      [] label \in {"getAuctionBids", "getAuctionEndInfo"} -> {"SRC"}
      [] label = "nextAuction" -> ListOps
      [] label = "getAuctionInfo" -> {"LMA"}
      [] label = "getAuctionBidders" -> {"LMB"}
      [] OTHER -> Ops

ThreadServes(t) ==
    /\ pc[t] = "idle" => req[t] = U!NoRequest
    /\ pc[t] # "idle" => req[t].op \in ServedAt(pc[t])
    /\ pc[t] = "send" <=> reply[t] # "none"
    /\ server = "down" => pc[t] = "idle"

FlowInv == TypeInv /\ \A t \in Threads : ThreadServes(t)

LEMMA GotoServes ==
    ASSUME FlowInv, NEW t \in Threads, NEW label \in BusyLabels \ {"send"}, Goto(t, label),
           server = "up", pc[t] \notin {"idle", "send"}, req[t].op \in ServedAt(label)
    PROVE  ThreadServes(t)'
<1>1. label # "idle"
    BY DEF BusyLabels, Labels, CloseLabels, U!AuthLabels, U!UdpLabels
<1>2. pc'[t] = label /\ req'[t] = req[t] /\ reply'[t] = "none" /\ server' = "up"
    BY DEF FlowInv, TypeInv, ThreadsTyped, ThreadServes, Goto, U!Goto
<1> QED  BY <1>1, <1>2 DEF ThreadServes

LEMMA AnswerServes ==
    ASSUME FlowInv, NEW t \in Threads, NEW status, Answer(t, status),
           server = "up", pc[t] # "idle"
    PROVE  ThreadServes(t)'
<1>1. U!Sent(req[t].op, status) # "none"
    BY SentIsStatus, StatusesAreNotNone, SameStatuses
<1>2. /\ pc'[t] = "send" /\ req'[t] = req[t] /\ server' = "up"
      /\ reply'[t] = U!Sent(req[t].op, status)
    BY DEF FlowInv, TypeInv, ThreadsTyped, Answer, U!Answer, U!Op
<1>3. req[t].op \in Ops
    BY RequestFields DEF FlowInv
<1>4. ServedAt("send") = Ops
    BY DEF ServedAt, CloseLabels, U!UdpLabels
<1> QED  BY <1>1, <1>2, <1>3, <1>4 DEF ThreadServes

LEMMA ForgottenServes ==
    ASSUME NEW t \in Threads, Forgotten(t)
    PROVE  ThreadServes(t)'
    BY DEF Forgotten, ThreadServes

LEMMA FaultForgets ==
    ASSUME NEW what, Fault(what), LocalsLost, NEW t \in Threads
    PROVE  Forgotten(t)
    BY DEF Fault, LocalsLost, Forgotten

LEMMA AccountStepServes ==
    ASSUME FlowInv, NEW t \in Threads, Authenticate(t) \/ ManageAccount(t)
    PROVE  ThreadServes(t)'
<1> USE DEF U!At, U!Op, Throw, U!Throw, Answer, Goto
<1>1. server = "up" /\ pc[t] \notin {"idle", "send"} /\ UNCHANGED fault
    BY DEF Authenticate, ManageAccount, U!Authenticate, U!ManageAccount, U!UserExists,
           U!GetUserPassword, U!IsUserLoggedIn, U!CreatePass, U!WritePass, U!Login,
           U!CreateLogin, U!Logout, U!DeleteLogin, U!UnregisterUser, U!DeletePass
<1>2. req[t].op \in ServedAt(pc[t]) /\ req[t].op \in Ops
    BY <1>1, RequestFields DEF FlowInv, ThreadServes
<1>3. CASE Authenticate(t)
    <2>1. \/ \E status : Answer(t, status)
          \/ \E label \in {"login", "createPass", "isUserLoggedIn", "getUserPassword", "logout",
                          "authorized"} : Goto(t, label) /\ req[t].op \in ServedAt(label)
        BY <1>1, <1>2, <1>3
        DEF Authenticate, U!Authenticate, U!UserExists, U!GetUserPassword, U!IsUserLoggedIn,
            ServedAt, U!AccountOps, U!UdpLabels, AuctionOps, ListOps, CloseLabels
    <2>2. {"login", "createPass", "isUserLoggedIn", "getUserPassword", "logout", "authorized"}
             \subseteq BusyLabels \ {"send"}
        BY DEF BusyLabels, U!AuthLabels, U!UdpLabels
    <2> HIDE DEF Answer, Goto
    <2> QED  BY <1>1, <2>1, <2>2, AnswerServes, GotoServes
<1>4. CASE ManageAccount(t)
    <2>1. /\ \/ \E status : Answer(t, status)
             \/ \E label \in U!UdpLabels : Goto(t, label)
          /\ pc[t] \in U!UdpLabels
        BY <1>1, <1>4
        DEF ManageAccount, U!ManageAccount, U!CreatePass, U!WritePass, U!Login, U!CreateLogin,
            U!Logout, U!DeleteLogin, U!UnregisterUser, U!DeletePass, U!UdpLabels
    <2>2. \A label \in U!UdpLabels : ServedAt(label) = U!AccountOps /\ label \in BusyLabels \ {"send"}
        BY DEF ServedAt, U!UdpLabels, CloseLabels, BusyLabels
    <2> HIDE DEF Answer, Goto
    <2> QED  BY <1>1, <1>2, <2>1, <2>2, AnswerServes, GotoServes
<1> QED  BY <1>3, <1>4


LEMMA ProceedServes ==
    ASSUME FlowInv, NEW t \in Threads, NEW over \in BOOLEAN, Proceed(t, over),
           server = "up", pc[t] \notin {"idle", "send"}
    PROVE  ThreadServes(t)'
<1>1. CASE req[t].op \in ListOps /\ Listed(t, over)
    <2>1. \/ \E status : Answer(t, status)
          \/ \E label \in {"nextAuction", "getAuctionInfo", "getAuctionBidders"} :
                Goto(t, label) /\ req[t].op \in ServedAt(label)
        BY <1>1 DEF Listed, ListOps, ServedAt, U!UdpLabels, CloseLabels
    <2> QED  BY <2>1, AnswerServes, GotoServes DEF BusyLabels, Labels
<1>2. CASE req[t].op \notin ListOps
    <2>1. \/ \E status : Answer(t, status)
          \/ \E label \in {"getAuctionOwner", "getAuctionAsset", "getAuctionBids"} :
                Goto(t, label) /\ req[t].op \in ServedAt(label)
        BY <1>2 DEF Proceed, Throw, U!Throw, Answer, ServedAt, U!UdpLabels, CloseLabels
    <2> QED  BY <2>1, AnswerServes, GotoServes DEF BusyLabels, Labels
<1> QED  BY <1>1, <1>2 DEF Proceed, ListOps

LEMMA CloseStepServes ==
    ASSUME FlowInv, NEW t \in Threads,
           CheckAuctionValidity(t) \/ CloseCheck(t) \/ CloseCreate(t) \/ CloseWrite(t)
    PROVE  ThreadServes(t)'
<1>1. /\ server = "up" /\ pc[t] \notin {"idle", "send"}
      /\ req[t].op \in ServedAt(pc[t]) /\ pc[t] \in {"checkAuctionValidity"} \union CloseLabels
    BY DEF CheckAuctionValidity, CloseCheck, CloseCreate, CloseWrite, At, U!At, CloseLabels,
           FlowInv, ThreadServes
<1>2. \A label \in {"checkAuctionValidity"} \union CloseLabels :
         ServedAt(label) = AuctionOps \union ListOps /\ label \in BusyLabels \ {"send"}
    BY DEF ServedAt, U!UdpLabels, CloseLabels, BusyLabels, Labels
<1>3. \/ Fault("start") /\ LocalsLost
      \/ \E label \in CloseLabels : Goto(t, label)
      \/ \E over \in BOOLEAN : Proceed(t, over)
      \/ \E status : Answer(t, status)
    BY DEF CheckAuctionValidity, CloseCheck, CloseCreate, CloseWrite, Closed, CloseLabels,
           Throw, U!Throw, Answer
<1> QED
    BY <1>1, <1>2, <1>3, FaultForgets, ForgottenServes, GotoServes, ProceedServes, AnswerServes

LEMMA OtherStepServes ==
    ASSUME FlowInv, NEW t \in Threads,
           \/ BidEndExists(t) \/ DirectoryExists(t) \/ GetAuctionOwner(t)
           \/ GetLargestBid(t) \/ CreateBid(t) \/ WriteBid(t)
           \/ GetAuctionAsset(t) \/ GetAuctionBids(t) \/ GetAuctionEndInfo(t)
           \/ GetAuctionInfo(t) \/ GetAuctionBidders(t)
    PROVE  ThreadServes(t)'
<1> USE DEF BidEndExists, DirectoryExists, GetAuctionOwner, GetLargestBid, CreateBid, WriteBid,
            GetAuctionAsset, GetAuctionBids, GetAuctionEndInfo, GetAuctionInfo,
            GetAuctionBidders, Authorized, At, U!At
<1>1. /\ server = "up" /\ pc[t] \notin {"idle", "send"}
      /\ req[t].op \in ServedAt(pc[t])
    BY DEF FlowInv, ThreadServes
<1>2. \/ \E what \in {"bid", "end"} : Fault(what) /\ LocalsLost
      \/ \E status : Answer(t, status)
      \/ \E label \in {"checkAuctionValidity", "getAuctionOwner", "getLargestBid", "createBid",
                      "writeBid", "getAuctionEndInfo", "getAuctionBidders"} :
            Goto(t, label) /\ req[t].op \in ServedAt(label)
    BY <1>1 DEF Throw, U!Throw, Answer, ServedAt, U!UdpLabels, CloseLabels, AuctionOps
<1> HIDE DEF BidEndExists, DirectoryExists, GetAuctionOwner, GetLargestBid, CreateBid, WriteBid,
             GetAuctionAsset, GetAuctionBids, GetAuctionEndInfo, GetAuctionInfo,
             GetAuctionBidders, Authorized, At, U!At
<1> QED
    BY <1>1, <1>2, FaultForgets, ForgottenServes, GotoServes, AnswerServes DEF BusyLabels, Labels

LEMMA ListAuctionServes ==
    ASSUME FlowInv, NEW t \in Threads, ListAuction(t)
    PROVE  ThreadServes(t)'
<1>1. /\ server = "up" /\ pc[t] \in {"authorized", "nextAuction"}
      /\ req[t].op \in ListOps
    BY DEF ListAuction, Authorized, At, U!At, FlowInv, TypeInv, AtAuction, ThreadAtAuction
<1>2. CASE \E over \in BOOLEAN : Listed(t, over)
    <2>1. \E over \in BOOLEAN : Proceed(t, over)
        BY <1>1, <1>2 DEF Proceed
    <2> QED  BY <1>1, <2>1, ProceedServes
<1>3. CASE ~\E over \in BOOLEAN : Listed(t, over)
    <2>1. (\E status : Answer(t, status)) \/ Goto(t, "checkAuctionValidity")
        BY <1>3 DEF ListAuction, Throw, U!Throw, Answer
    <2>2. req[t].op \in ServedAt("checkAuctionValidity")
        BY <1>1 DEF ServedAt, U!UdpLabels, CloseLabels
    <2> QED  BY <1>1, <2>1, <2>2, GotoServes, AnswerServes DEF BusyLabels, Labels
<1> QED  BY <1>2, <1>3

LEMMA ReceiveServes ==
    ASSUME FlowInv, NEW t \in Threads, Receive(t)
    PROVE  ThreadServes(t)'
<1>1. PICK r \in Requests : U!Receive(t, r)
    BY DEF Receive
<1>2. /\ pc[t] = "idle" /\ server' = "up" /\ pc'[t] = U!FirstStep(r) /\ req'[t] = r
      /\ reply'[t] = reply[t]
    BY <1>1 DEF U!Receive, U!At, FlowInv, TypeInv, ThreadsTyped
<1>3. r.op \in UdpOps \union (TcpOps \ {"OPA"})
    BY AuctionRequestsAssumption DEF Requests
<1>4. U!FirstStep(r) \notin {"idle", "send"} /\ r.op \in ServedAt(U!FirstStep(r))
    BY <1>3 DEF U!FirstStep, ServedAt, U!UdpLabels, CloseLabels, UdpOps, TcpOps, U!PublicOps,
                U!AccountOps, AuctionOps, ListOps
<1> QED  BY <1>2, <1>4 DEF FlowInv, ThreadServes

(* The server goes down when it faults, and then all threads are gone. *)
LEMMA ServerSteps ==
    ASSUME TypeInv, NEW t \in Threads, Receive(t) \/ Step(t), NEW u \in Threads
    PROVE  server' = server \/ (server' = "down" /\ Forgotten(u))
<1> USE DEF Goto, U!Goto, Answer, U!Answer, U!Throw, Throw
<1>1. CASE Receive(t)
    BY <1>1 DEF Receive, U!Receive
<1>2. CASE Authenticate(t) \/ ManageAccount(t) \/ Send(t)
    BY <1>2
    DEF Authenticate, ManageAccount, Send, U!Authenticate, U!ManageAccount, U!Send,
        U!UserExists, U!GetUserPassword, U!IsUserLoggedIn, U!CreatePass, U!WritePass, U!Login,
        U!CreateLogin, U!Logout, U!DeleteLogin, U!UnregisterUser, U!DeletePass
<1>3. ASSUME NEW over \in BOOLEAN, Proceed(t, over)  PROVE server' = server
    BY <1>3 DEF Proceed, Listed
<1>4. CASE CheckAuctionValidity(t) \/ CloseCheck(t) \/ CloseCreate(t) \/ CloseWrite(t)
    BY <1>3, <1>4, FaultForgets
    DEF CheckAuctionValidity, CloseCheck, CloseCreate, CloseWrite, Closed, Fault
<1>5. CASE \/ BidEndExists(t) \/ DirectoryExists(t) \/ GetAuctionOwner(t)
           \/ GetLargestBid(t) \/ CreateBid(t) \/ WriteBid(t) \/ GetAuctionAsset(t)
    BY <1>5 DEF BidEndExists, DirectoryExists, GetAuctionOwner, GetLargestBid, CreateBid, WriteBid,
                GetAuctionAsset
<1>6. CASE GetAuctionBids(t) \/ GetAuctionEndInfo(t)
    BY <1>6, FaultForgets DEF GetAuctionBids, GetAuctionEndInfo, Fault
<1>7. CASE ListAuction(t) \/ GetAuctionInfo(t) \/ GetAuctionBidders(t)
    BY <1>7 DEF ListAuction, Listed, GetAuctionInfo, GetAuctionBidders
<1> QED  BY <1>1, <1>2, <1>4, <1>5, <1>6, <1>7 DEF Step

LEMMA InitFlowInv == Init => FlowInv
<1> SUFFICES ASSUME Init  PROVE FlowInv
    OBVIOUS
<1> QED  BY InitTypeInv DEF Init, FlowInv, ThreadServes

LEMMA NextFlowInv == FlowInv /\ [Next]_vars => FlowInv'
<1> SUFFICES ASSUME FlowInv, [Next]_vars, NEW u \in Threads  PROVE ThreadServes(u)'
    BY NextTypeInv DEF FlowInv
<1>0. TypeInv /\ ThreadServes(u)
    BY DEF FlowInv
<1>1. ASSUME NEW t \in Threads, Receive(t) \/ Step(t)  PROVE ThreadServes(u)'
    <2>1. CASE u # t
        <3>1. server' \in {server, "down"} /\ (server' = "down" => Forgotten(u) \/ server = "down")
            BY <1>0, <1>1, ServerSteps
        <3> QED  BY <1>0, <1>1, <2>1, <3>1, OthersUntouched, ForgottenServes DEF Untouched, ThreadServes
    <2>2. CASE u = t /\ Receive(t)
        BY <1>0, <2>2, ReceiveServes
    <2>3. CASE u = t /\ Send(t)
        BY <2>3 DEF Send, U!Send, FlowInv, TypeInv, ThreadsTyped, ThreadServes
    <2> QED
        BY <1>1, <2>1, <2>2, <2>3, AccountStepServes, CloseStepServes, OtherStepServes,
           ListAuctionServes DEF Step
<1>2. CASE Crash
    <2>1. U!Threads = Threads
        BY DEF U!Threads, Threads
    <2> QED  BY <1>2, <2>1 DEF Crash, U!Crash, ThreadServes
<1>3. CASE Restart
    BY <1>0, <1>3 DEF Restart, U!Restart, ThreadServes
<1>4. CASE Tick \/ UNCHANGED vars
    BY <1>0, <1>4 DEF Tick, vars, userVars, ThreadServes
<1> QED  BY <1>1, <1>2, <1>3, <1>4 DEF Next

-----------------------------------------------------------------------------
(* What a thread knows of the end of the auction it is at. *)

(* An auction that was over is over. *)
OverStays(t) == \A a \in seen[t].over : Expired(a) \/ Exists(endFile[a])

(* A thread on its way to write an END file has seen the time run out, or
   serves a close request of the owner. *)
ClosesForReason(t) ==
    /\ pc[t] \in CloseLabels => IF early[t] THEN req[t].op = "CLS" ELSE Expired(cur[t])
    /\ pc[t] \in {"checkAuctionValidity"} \union CloseLabels /\ req[t].op = "CLS" =>
          req[t].uid = Owner(cur[t])
    /\ pc[t] = "closeWrite" => Exists(endFile[cur[t]])

(* A bid on an auction that was over gets no further than the deadline. *)
BidComesLate(t) ==
    req[t].op = "BID" /\ cur[t] \in seen[t].over =>
        /\ pc[t] = "checkAuctionValidity" => Expired(cur[t])
        /\ pc[t] \notin {"getAuctionOwner", "getLargestBid", "createBid", "writeBid"}
        /\ ~Answered(t, "BID", "ACC")

(* A close of an auction that was over finds the END file, or is not early. *)
CloseComesLate(t) ==
    req[t].op = "CLS" /\ cur[t] \in seen[t].over =>
        /\ pc[t] = "closeCheck" /\ early[t] => Exists(endFile[cur[t]])
        /\ pc[t] \in {"closeCreate", "closeWrite"} => ~early[t]
        /\ ~Answered(t, "CLS", "OK")

ThreadEnds(t) ==
    pc[t] # "idle" => OverStays(t) /\ ClosesForReason(t) /\ BidComesLate(t) /\ CloseComesLate(t)

EndInv == FlowInv /\ ExpiredEndIsLate /\ \A t \in Threads : ThreadEnds(t)

LEMMA UntouchedEnds ==
    ASSUME EndInv, [Next]_vars, NEW u \in Threads, Untouched(u) \/ pc'[u] = "idle"
    PROVE  ThreadEnds(u)'
<1>0. TypeInv /\ LocalsTyped /\ ThreadAtAuction(u) /\ ThreadEnds(u)
    BY DEF EndInv, FlowInv, TypeInv, AtAuction
<1>1. /\ \A a \in Auctions : Exists(endFile[a]) => Exists(endFile'[a])
      /\ \A a \in Auctions : Expired(a) => Expired(a)'
    BY <1>0, FilesStay
<1>2. SUFFICES ASSUME Untouched(u), pc[u] # "idle"  PROVE ThreadEnds(u)'
    BY DEF ThreadEnds, Untouched
<1>3. seen[u].over \subseteq Auctions /\ (pc[u] \in CloseLabels => cur[u] \in Auctions)
    BY <1>0, <1>2 DEF LocalsTyped, ThreadAtAuction, Labels, CloseLabels
<1>4. OverStays(u)'
    BY <1>0, <1>1, <1>2, <1>3 DEF ThreadEnds, OverStays, Untouched
<1>5. ClosesForReason(u)'
    BY <1>0, <1>1, <1>2, <1>3 DEF ThreadEnds, ClosesForReason, Untouched, Owner, CloseLabels
<1>6. BidComesLate(u)' /\ CloseComesLate(u)'
    BY <1>0, <1>1, <1>2, <1>3 DEF ThreadEnds, BidComesLate, CloseComesLate, Untouched, Answered
<1> QED  BY <1>4, <1>5, <1>6 DEF ThreadEnds

LEMMA ReceiveEnds ==
    ASSUME EndInv, NEW t \in Threads, Receive(t)
    PROVE  ThreadEnds(t)'
<1>0. ThreadsTyped /\ LocalsTyped
    BY DEF EndInv, FlowInv, TypeInv
<1>1. PICK r \in Requests : U!Receive(t, r) /\ seen' = [seen EXCEPT ![t] = OnFile(r)]
    BY DEF Receive
<1>2. pc'[t] \in U!AuthLabels \union {"authorized"} /\ UNCHANGED <<clock, endFile>>
    BY <1>0, <1>1 DEF U!Receive, U!FirstStep, U!AuthLabels, ThreadsTyped, Receive, fileVars
<1>3. seen'[t].over = {a \in Auctions : Expired(a) \/ Exists(endFile[a])}
    BY <1>0, <1>1 DEF LocalsTyped, OnFile
<1>4. OverStays(t)'
    BY <1>2, <1>3 DEF OverStays, Expired
<1>5. ClosesForReason(t)' /\ BidComesLate(t)' /\ CloseComesLate(t)'
    BY <1>2 DEF ClosesForReason, BidComesLate, CloseComesLate, Answered, U!AuthLabels, CloseLabels
<1> QED  BY <1>4, <1>5 DEF ThreadEnds

(* What is left to show of a step of t. *)
LEMMA StepOverStays ==
    ASSUME EndInv, [Next]_vars, NEW t \in Threads, Step(t), pc'[t] # "idle"
    PROVE  /\ pc[t] # "idle" /\ req'[t] = req[t] /\ seen'[t] = seen[t]
           /\ ThreadEnds(t) /\ OverStays(t)'
<1>0. TypeInv /\ LocalsTyped /\ ThreadEnds(t) /\ ThreadServes(t)
    BY DEF EndInv, FlowInv, TypeInv
<1>1. req'[t] = req[t] /\ seen'[t] = seen[t]
    BY <1>0, RequestStays
<1>2. pc[t] # "idle"
    BY <1>0 DEF Step, Authenticate, ManageAccount, Send, CheckAuctionValidity, CloseCheck, CloseCreate,
       CloseWrite, BidEndExists, DirectoryExists, GetAuctionOwner, GetLargestBid, CreateBid,
       WriteBid, GetAuctionAsset, GetAuctionBids, GetAuctionEndInfo, ListAuction,
       GetAuctionInfo, GetAuctionBidders, At, Authorized, U!At, U!Authenticate, U!ManageAccount,
       U!UserExists, U!GetUserPassword, U!IsUserLoggedIn, U!CreatePass, U!WritePass, U!Login,
       U!CreateLogin, U!Logout, U!DeleteLogin, U!UnregisterUser, U!DeletePass, U!Send
<1>3. /\ \A a \in Auctions : Exists(endFile[a]) => Exists(endFile'[a])
      /\ \A a \in Auctions : Expired(a) => Expired(a)'
    BY <1>0, FilesStay
<1>4. seen[t].over \subseteq Auctions
    BY <1>0 DEF LocalsTyped
<1>5. OverStays(t)'
    BY <1>0, <1>1, <1>2, <1>3, <1>4 DEF ThreadEnds, OverStays
<1> QED  BY <1>0, <1>1, <1>2, <1>5

(* An exception is no acceptance. *)
LEMMA ThrowsEnd ==
    ASSUME FlowInv, NEW t \in Threads, req[t].op \in {"BID", "CLS"},
           NEW e \in {"InvalidCredentials", "UserNotLoggedIn", "NonActiveAuction", "BidRefused",
                      "IllegalBid", "AuctionNotFound", "IncorrectAuctionOwner"}, Throw(t, e),
           e \in {"BidRefused", "IllegalBid"} => req[t].op = "BID",
           e \in {"AuctionNotFound", "IncorrectAuctionOwner"} => req[t].op = "CLS"
    PROVE  /\ pc'[t] = "send" /\ req'[t] = req[t]
           /\ ~Answered(t, "BID", "ACC")' /\ ~Answered(t, "CLS", "OK")'
<1>1. pc'[t] = "send" /\ req'[t] = req[t] /\ reply'[t] = U!Sent(req[t].op, U!Caught(req[t].op, e))
    BY DEF FlowInv, TypeInv, ThreadsTyped, Throw, U!Throw, U!Answer, U!Op
<1> QED  BY <1>1, BidExceptions, CloseExceptions DEF Answered

LEMMA LeavesEnds ==
    ASSUME EndInv, [Next]_vars, NEW t \in Threads, Step(t), pc'[t] # "idle",
           pc'[t] \notin CloseLabels,
           req[t].op \in {"BID", "CLS"} =>
               /\ pc'[t] \notin {"checkAuctionValidity", "getLargestBid", "createBid", "writeBid"}
               /\ pc'[t] = "getAuctionOwner" => req[t].op = "CLS"
               /\ ~Answered(t, "BID", "ACC")' /\ ~Answered(t, "CLS", "OK")'
    PROVE  ThreadEnds(t)'
<1>1. req'[t] = req[t] /\ OverStays(t)'
    BY StepOverStays
<1> QED
    BY <1>1 DEF ThreadEnds, ClosesForReason, BidComesLate, CloseComesLate, CloseLabels, Answered

LEMMA AccountStepEnds ==
    ASSUME EndInv, [Next]_vars, NEW t \in Threads, Step(t), pc'[t] # "idle",
           Authenticate(t) \/ ManageAccount(t)
    PROVE  ThreadEnds(t)'
<1>0. FlowInv /\ ThreadServes(t) /\ ThreadsTyped /\ pc[t] # "idle"
    BY StepOverStays DEF EndInv, FlowInv, TypeInv
<1>1. /\ pc'[t] \notin Labels
      /\ req[t].op \in {"BID", "CLS"} /\ pc'[t] = "send" =>
            \E e \in {"InvalidCredentials", "UserNotLoggedIn"} : Throw(t, e)
    <2>1. CASE Authenticate(t)
        BY <1>0, <2>1
        DEF Authenticate, U!Authenticate, U!UserExists, U!GetUserPassword, U!IsUserLoggedIn,
            U!Goto, U!Throw, U!Answer, Throw, ThreadsTyped, Labels, CloseLabels, U!Op, U!AccountOps
    <2>2. CASE ManageAccount(t)
        <3>1. pc[t] \in U!UdpLabels /\ pc'[t] \notin Labels
            BY <1>0, <2>2
            DEF ManageAccount, U!ManageAccount, U!CreatePass, U!WritePass, U!Login, U!CreateLogin,
                U!Logout, U!DeleteLogin, U!UnregisterUser, U!DeletePass, U!UdpLabels, U!At,
                U!Goto, U!Throw, U!Answer, ThreadsTyped, Labels, CloseLabels
        <3>2. ServedAt(pc[t]) = U!AccountOps
            BY <3>1 DEF ServedAt, U!UdpLabels, CloseLabels
        <3> QED  BY <1>0, <3>1, <3>2 DEF ThreadServes, U!AccountOps
    <2> QED  BY <2>1, <2>2
<1>2. ASSUME req[t].op \in {"BID", "CLS"}
      PROVE  ~Answered(t, "BID", "ACC")' /\ ~Answered(t, "CLS", "OK")'
    BY <1>0, <1>1, <1>2, ThrowsEnd DEF Answered
<1> QED  BY <1>1, <1>2, LeavesEnds DEF Labels, CloseLabels

LEMMA CheckEnds ==
    ASSUME EndInv, [Next]_vars, NEW t \in Threads, CheckAuctionValidity(t), pc'[t] # "idle"
    PROVE  ThreadEnds(t)'
<1>0. TypeInv /\ ThreadsTyped /\ LocalsTyped /\ ThreadEnds(t) /\ pc[t] = "checkAuctionValidity"
    BY DEF EndInv, FlowInv, TypeInv, CheckAuctionValidity, At, U!At
<1>1. req'[t] = req[t] /\ seen'[t] = seen[t] /\ OverStays(t)' /\ OverStays(t)
    BY <1>0, StepOverStays DEF Step, ThreadEnds
<1>2. cur[t] \in Auctions /\ UNCHANGED <<clock, endFile>>
    BY <1>0 DEF CheckAuctionValidity, Fault, At, fileVars
<1>3. CASE Goto(t, "closeCheck") /\ UNCHANGED <<cur, ended, mine, shown>>
    <2>1. /\ pc'[t] = "closeCheck" /\ cur'[t] = cur[t] /\ early'[t] = ~Expired(cur[t])
          /\ ~Expired(cur[t]) => req[t].op = "CLS"
        <3>1. pc'[t] = "closeCheck" /\ cur'[t] = cur[t]
            BY <1>0, <1>3 DEF Goto, U!Goto, ThreadsTyped
        <3>2. ~Proceed(t, FALSE)
            BY <1>0, <3>1
            DEF Proceed, Listed, Throw, U!Throw, Goto, U!Goto, Answer, U!Answer, ThreadsTyped
        <3>3. /\ early' = [early EXCEPT ![t] = ~Expired(cur[t])]
              /\ Expired(cur[t]) \/ req[t].op = "CLS"
            BY <1>2, <3>2 DEF CheckAuctionValidity
        <3>4. early'[t] = ~Expired(cur[t])
            BY <1>0, <3>3, Zenon DEF LocalsTyped
        <3> QED  BY <3>1, <3>3, <3>4
    <2> QED
        BY <1>0, <1>1, <1>2, <2>1
        DEF ThreadEnds, ClosesForReason, BidComesLate, CloseComesLate, OverStays, Expired, Owner,
            CloseLabels, Answered
<1>4. CASE ~Expired(cur[t]) /\ req[t].op # "CLS" /\ Proceed(t, FALSE) /\ UNCHANGED early
    <2>1. req[t].op = "BID" => pc'[t] = "getAuctionOwner" /\ cur'[t] = cur[t]
        BY <1>0, <1>4 DEF Proceed, ListOps, Goto, U!Goto, ThreadsTyped
    <2>2. pc'[t] \notin CloseLabels
        BY <1>0, <1>4 DEF Proceed, Listed, Goto, U!Goto, Answer, U!Answer, ThreadsTyped, CloseLabels
    <2> QED
        BY <1>0, <1>1, <1>2, <1>4, <2>1, <2>2
        DEF ThreadEnds, ClosesForReason, BidComesLate, CloseComesLate, OverStays, Expired,
            CloseLabels, Answered
<1> QED  BY <1>2, <1>3, <1>4 DEF CheckAuctionValidity

(* The request is done with an auction that is over. *)
LEMMA ClosedEnds ==
    ASSUME EndInv, [Next]_vars, NEW t \in Threads, CloseCheck(t) \/ CloseWrite(t),
           NEW byThisThread \in BOOLEAN, Closed(t, byThisThread), byThisThread => pc[t] = "closeWrite",
           pc'[t] # "idle", pc[t] \in {"closeCheck", "closeWrite"}
    PROVE  ThreadEnds(t)'
<1>0. FlowInv /\ TypeInv /\ ThreadsTyped /\ AtAuction /\ ThreadEnds(t)
    BY DEF EndInv, FlowInv, TypeInv
<1>1. req'[t] = req[t] /\ seen'[t] = seen[t] /\ OverStays(t)' /\ Step(t)
    BY StepOverStays DEF Step
<1>2. CASE req[t].op = "CLS" /\ early[t] /\ byThisThread
    <2>1. pc'[t] = "send" /\ cur'[t] = cur[t] /\ cur[t] \notin seen[t].over
        BY <1>0, <1>2
        DEF Closed, Answer, U!Answer, ThreadsTyped, ThreadEnds, CloseComesLate
    <2> QED
        BY <1>1, <1>2, <2>1
        DEF ThreadEnds, ClosesForReason, BidComesLate, CloseComesLate, CloseLabels, Answered
<1>3. CASE req[t].op \in {"BID", "CLS"} /\ Throw(t, "NonActiveAuction")
    BY <1>0, <1>1, <1>3, ThrowsEnd, LeavesEnds DEF CloseLabels
<1>4. CASE req[t].op \notin {"BID", "CLS"} /\ Proceed(t, TRUE)
    <2>1. pc'[t] \notin CloseLabels
        BY <1>0, <1>4 DEF Proceed, Listed, Goto, U!Goto, Answer, U!Answer, ThreadsTyped, CloseLabels
    <2> QED  BY <1>1, <1>4, <2>1, LeavesEnds
<1> QED  BY <1>2, <1>3, <1>4 DEF Closed, Proceed, ListOps

LEMMA CloseStepEnds ==
    ASSUME EndInv, [Next]_vars, NEW t \in Threads, pc'[t] # "idle",
           CloseCheck(t) \/ CloseCreate(t) \/ CloseWrite(t)
    PROVE  ThreadEnds(t)'
<1>0. /\ TypeInv /\ ThreadsTyped /\ LocalsTyped /\ AuctionsTyped /\ ThreadEnds(t)
      /\ pc[t] \in CloseLabels /\ cur[t] \in Auctions /\ UNCHANGED clock
    BY DEF EndInv, FlowInv, TypeInv, AtAuction, ThreadAtAuction, CloseCheck, CloseCreate, CloseWrite,
           At, U!At, CloseLabels, Labels
<1>1. req'[t] = req[t] /\ seen'[t] = seen[t] /\ OverStays(t)' /\ OverStays(t)
    BY <1>0, StepOverStays DEF Step, ThreadEnds
<1>2. CASE CloseCheck(t)
    <2>1. CASE Exists(endFile[cur[t]])
        BY <1>2, <2>1, ClosedEnds DEF CloseCheck, At, U!At
    <2>2. CASE ~Exists(endFile[cur[t]])
        <3>1. /\ pc[t] = "closeCheck" /\ pc'[t] = "closeCreate"
              /\ cur'[t] = cur[t] /\ early'[t] = early[t] /\ UNCHANGED endFile
            BY <1>0, <1>2, <2>2 DEF CloseCheck, At, U!At, Goto, U!Goto, ThreadsTyped, fileVars
        <3> QED
            BY <1>0, <1>1, <2>2, <3>1
            DEF ThreadEnds, ClosesForReason, BidComesLate, CloseComesLate, Expired, Owner,
                CloseLabels, Answered
    <2> QED  BY <2>1, <2>2
<1>3. CASE CloseCreate(t)
    <2>1. /\ pc[t] = "closeCreate" /\ pc'[t] = "closeWrite"
          /\ cur'[t] = cur[t] /\ early'[t] = early[t] /\ Exists(endFile'[cur[t]])
        BY <1>0, <1>3, FileContentsAssumption
        DEF CloseCreate, At, U!At, Goto, U!Goto, ThreadsTyped, localVars, AuctionsTyped, Exists
    <2> QED
        BY <1>0, <1>1, <2>1
        DEF ThreadEnds, ClosesForReason, BidComesLate, CloseComesLate, Expired, Owner,
            CloseLabels, Answered
<1>4. CASE CloseWrite(t)
    BY <1>4, ClosedEnds DEF CloseWrite, At, U!At
<1> QED  BY <1>2, <1>3, <1>4

LEMMA OtherStepEnds ==
    ASSUME EndInv, [Next]_vars, NEW t \in Threads, pc'[t] # "idle",
           \/ BidEndExists(t) \/ DirectoryExists(t) \/ GetAuctionOwner(t)
           \/ GetLargestBid(t) \/ CreateBid(t) \/ WriteBid(t)
           \/ GetAuctionAsset(t) \/ GetAuctionBids(t) \/ GetAuctionEndInfo(t)
           \/ GetAuctionInfo(t) \/ GetAuctionBidders(t) \/ ListAuction(t)
    PROVE  ThreadEnds(t)'
<1>0. FlowInv /\ TypeInv /\ ThreadsTyped /\ LocalsTyped /\ ThreadServes(t) /\ ThreadEnds(t)
    BY DEF EndInv, FlowInv, TypeInv
<1>1. Step(t) /\ pc[t] # "idle" /\ req'[t] = req[t] /\ seen'[t] = seen[t] /\ OverStays(t)' /\ OverStays(t)
    BY <1>0, StepOverStays DEF Step, ThreadEnds
<1>2. req[t].op \in ServedAt(pc[t])
    BY <1>0, <1>1 DEF ThreadServes
<1>3. CASE BidEndExists(t) /\ Goto(t, "checkAuctionValidity")
    <2>1. /\ pc'[t] = "checkAuctionValidity" /\ req[t].op = "BID" /\ cur'[t] = cur[t]
          /\ cur[t] \in Auctions => ~Exists(endFile[cur[t]])
          /\ UNCHANGED <<clock, endFile>>
        BY <1>0, <1>3
        DEF BidEndExists, Authorized, At, Goto, U!Goto, Throw, U!Throw, U!Answer, ThreadsTyped,
            localVars, fileVars
    <2>2. seen[t].over \subseteq Auctions
        BY <1>0 DEF LocalsTyped
    <2> QED
        BY <1>0, <1>1, <2>1, <2>2
        DEF ThreadEnds, OverStays, ClosesForReason, BidComesLate, CloseComesLate, Expired,
            CloseLabels, Answered
<1>4. CASE DirectoryExists(t)
    <2>1. \/ pc'[t] \in {"checkAuctionValidity", "getAuctionOwner"} /\ (req[t].op = "CLS" => pc'[t] = "getAuctionOwner")
          \/ Throw(t, "AuctionNotFound")
        BY <1>0, <1>4 DEF DirectoryExists, Goto, U!Goto, ThreadsTyped
    <2>2. req[t].op # "BID" /\ (req[t].op # "CLS" => pc'[t] \notin CloseLabels)
        BY <1>0, <1>4
        DEF DirectoryExists, Authorized, Goto, U!Goto, Throw, U!Throw, U!Answer, ThreadsTyped,
            CloseLabels
    <2> QED  BY <1>0, <1>1, <2>1, <2>2, ThrowsEnd, LeavesEnds DEF CloseLabels, Answered
<1>5. CASE GetAuctionOwner(t)
    <2>1. CASE Throw(t, "IncorrectAuctionOwner") \/ Throw(t, "IllegalBid")
        <3>1. pc[t] = "getAuctionOwner" /\ ServedAt("getAuctionOwner") = {"BID", "CLS"}
            BY <1>5 DEF GetAuctionOwner, At, U!At, ServedAt, U!UdpLabels, CloseLabels
        <3>2. \E e \in {"IncorrectAuctionOwner", "IllegalBid"} :
                 /\ Throw(t, e)
                 /\ e = "IllegalBid" => req[t].op = "BID"
                 /\ e = "IncorrectAuctionOwner" => req[t].op = "CLS"
            BY <1>0, <1>2, <1>5, <2>1, <3>1
            DEF GetAuctionOwner, Goto, U!Goto, Throw, U!Throw, U!Answer, ThreadsTyped
        <3>3. /\ pc'[t] = "send"
              /\ ~Answered(t, "BID", "ACC")' /\ ~Answered(t, "CLS", "OK")'
            BY <1>0, <1>2, <3>1, <3>2, ThrowsEnd
        <3> QED  BY <1>0, <1>1, <3>3, LeavesEnds DEF CloseLabels
    <2>2. CASE Goto(t, "checkAuctionValidity") /\ req[t].op = "CLS" /\ Owner(cur[t]) = req[t].uid
        <3>1. pc'[t] = "checkAuctionValidity" /\ cur'[t] = cur[t]
            BY <1>0, <1>5, <2>2 DEF GetAuctionOwner, Goto, U!Goto, ThreadsTyped, localVars
        <3> QED
            BY <1>1, <2>2, <3>1
            DEF ThreadEnds, ClosesForReason, BidComesLate, CloseComesLate, CloseLabels, Answered, Owner
    <2>3. CASE Goto(t, "getLargestBid") /\ req[t].op = "BID"
        <3>1. pc[t] = "getAuctionOwner" /\ pc'[t] = "getLargestBid" /\ cur'[t] = cur[t]
            BY <1>0, <1>5, <2>3 DEF GetAuctionOwner, At, U!At, Goto, U!Goto, ThreadsTyped, localVars
        <3> QED
            BY <1>0, <1>1, <2>3, <3>1
            DEF ThreadEnds, ClosesForReason, BidComesLate, CloseComesLate, CloseLabels, Answered
    <2>4. req[t].op \in {"BID", "CLS"}
        BY <1>2, <1>5 DEF GetAuctionOwner, At, U!At, ServedAt, U!UdpLabels, CloseLabels
    <2> QED  BY <1>5, <2>1, <2>2, <2>3, <2>4 DEF GetAuctionOwner
<1>6. CASE GetLargestBid(t) \/ CreateBid(t) \/ WriteBid(t)
    <2>1. pc[t] \in {"getLargestBid", "createBid", "writeBid"} /\ req[t].op = "BID" /\ cur'[t] = cur[t]
        BY <1>0, <1>6
        DEF GetLargestBid, CreateBid, WriteBid, At, U!At, localVars, TypeInv, AtAuction, ThreadAtAuction
    <2>2. pc'[t] \in {"createBid", "writeBid", "send"}
        BY <1>0, <1>6
        DEF GetLargestBid, CreateBid, WriteBid, Goto, U!Goto, Answer, Throw, U!Throw, U!Answer,
            ThreadsTyped
    <2>3. cur[t] \notin seen[t].over
        BY <1>0, <1>1, <2>1 DEF ThreadEnds, BidComesLate
    <2> QED
        BY <1>1, <2>1, <2>2, <2>3
        DEF ThreadEnds, ClosesForReason, BidComesLate, CloseComesLate, CloseLabels, Answered
<1>7. CASE \/ GetAuctionAsset(t) \/ GetAuctionBids(t) \/ GetAuctionEndInfo(t)
           \/ GetAuctionInfo(t) \/ GetAuctionBidders(t) \/ ListAuction(t)
    <2>1. req[t].op \notin {"BID", "CLS"}
        BY <1>2, <1>7
        DEF GetAuctionAsset, GetAuctionBids, GetAuctionEndInfo, GetAuctionInfo, GetAuctionBidders,
            ListAuction, Authorized, At, U!At, ServedAt, U!UdpLabels, CloseLabels, ListOps
    <2>2. pc'[t] \notin CloseLabels
        BY <1>0, <1>1, <1>7
        DEF GetAuctionAsset, GetAuctionBids, GetAuctionEndInfo, GetAuctionInfo, GetAuctionBidders,
            ListAuction, Listed, Goto, U!Goto, Answer, Throw, U!Throw, U!Answer, Fault,
            ThreadsTyped, CloseLabels
    <2> QED  BY <1>1, <2>1, <2>2, LeavesEnds
<1>8. CASE BidEndExists(t) /\ Throw(t, "NonActiveAuction")
    <2>1. req[t].op = "BID"
        BY <1>8 DEF BidEndExists, Authorized
    <2> QED  BY <1>0, <1>1, <1>8, <2>1, ThrowsEnd, LeavesEnds DEF CloseLabels
<1> QED  BY <1>3, <1>4, <1>5, <1>6, <1>7, <1>8 DEF BidEndExists

(* Nothing is written in an END file but by CloseWrite. *)
LEMMA EndFileWritten ==
    ASSUME EndInv, [Next]_vars
    PROVE  \/ endFile' = endFile
           \/ \E t \in Threads : CloseCreate(t) /\ cur[t] \in Auctions
           \/ \E t \in Threads : CloseWrite(t) /\ cur[t] \in Auctions
<1>1. \/ UNCHANGED endFile
      \/ \E t \in Threads : CloseCreate(t) \/ CloseWrite(t)
    BY DEF Next, vars, Step, Receive, Authenticate, ManageAccount, Send, CheckAuctionValidity,
           CloseCheck, BidEndExists, DirectoryExists, GetAuctionOwner, GetLargestBid, CreateBid,
           WriteBid, GetAuctionAsset, GetAuctionBids, GetAuctionEndInfo, ListAuction,
           GetAuctionInfo, GetAuctionBidders, Crash, Restart, Tick, fileVars
<1>2. ASSUME NEW t \in Threads, CloseCreate(t) \/ CloseWrite(t)  PROVE cur[t] \in Auctions
    BY <1>2 DEF CloseCreate, CloseWrite, At, U!At, EndInv, FlowInv, TypeInv, AtAuction,
                ThreadAtAuction, Labels, CloseLabels
<1> QED  BY <1>1, <1>2

LEMMA NextExpiredEndIsLate ==
    ASSUME EndInv, [Next]_vars
    PROVE  ExpiredEndIsLate'
<1>0. TypeInv /\ AuctionsTyped /\ LocalsTyped /\ ExpiredEndIsLate
    BY DEF EndInv, FlowInv, TypeInv
<1>1. \A a \in Auctions : Expired(a) => Expired(a)'
    BY <1>0, FilesStay
<1>2. SUFFICES ASSUME NEW a \in Auctions, endFile'[a] \in Ends, ~endFile'[a].early
               PROVE  Expired(a)'
    BY DEF ExpiredEndIsLate
<1>3. CASE endFile'[a] = endFile[a]
    BY <1>0, <1>1, <1>2, <1>3 DEF ExpiredEndIsLate
<1>4. ASSUME NEW t \in Threads, CloseCreate(t), cur[t] \in Auctions  PROVE Expired(a)'
    <2>1. endFile'[a] \in {endFile[a], EmptyFile}
        BY <1>0, <1>4 DEF CloseCreate, AuctionsTyped
    <2>2. EmptyFile \notin Ends
        BY FileContentsAssumption
    <2> QED  BY <1>2, <1>3, <2>1, <2>2
<1>5. ASSUME NEW t \in Threads, CloseWrite(t), cur[t] \in Auctions  PROVE Expired(a)'
    <2>1. CASE a # cur[t]
        BY <1>0, <1>3, <1>5, <2>1 DEF CloseWrite, AuctionsTyped
    <2>2. CASE a = cur[t]
        <3> DEFINE seconds == IF early[t] THEN clock - StartFile[cur[t]].start
                                          ELSE StartFile[cur[t]].timeActive
        <3>1. endFile' = [endFile EXCEPT ![a] = [early |-> early[t], seconds |-> seconds]]
            BY <1>5, <2>2 DEF CloseWrite
        <3>2. endFile'[a].early = early[t]
            BY <1>0, <3>1 DEF AuctionsTyped
        <3>3. pc[t] = "closeWrite" /\ pc[t] # "idle"
            BY <1>5 DEF CloseWrite, At, U!At
        <3>4. Expired(cur[t])
            BY <1>2, <3>2, <3>3 DEF EndInv, ThreadEnds, ClosesForReason, CloseLabels
        <3> QED  BY <1>1, <2>2, <3>4
    <2> QED  BY <2>1, <2>2
<1> QED  BY <1>3, <1>4, <1>5, EndFileWritten

LEMMA InitEndInv == Init => EndInv
<1> SUFFICES ASSUME Init  PROVE ExpiredEndIsLate /\ \A t \in Threads : ThreadEnds(t)
    BY InitFlowInv DEF EndInv
<1> QED  BY FileContentsAssumption DEF Init, ExpiredEndIsLate, ThreadEnds

LEMMA NextEndInv == EndInv /\ [Next]_vars => EndInv'
<1> SUFFICES ASSUME EndInv, [Next]_vars
             PROVE  ExpiredEndIsLate' /\ \A u \in Threads : ThreadEnds(u)'
    BY NextFlowInv DEF EndInv
<1>1. ExpiredEndIsLate'
    BY NextExpiredEndIsLate
<1>2. ASSUME NEW u \in Threads  PROVE ThreadEnds(u)'
    <2>0. TypeInv /\ ThreadServes(u)
        BY DEF EndInv, FlowInv
    <2>1. ASSUME NEW t \in Threads, Receive(t) \/ Step(t)  PROVE ThreadEnds(u)'
        <3>1. CASE u # t
            BY <2>0, <2>1, <3>1, OthersUntouched, UntouchedEnds DEF Forgotten
        <3>2. CASE u = t /\ Receive(t)
            BY <3>2, ReceiveEnds
        <3>3. CASE u = t /\ Step(t) /\ pc'[t] = "idle"
            BY <3>3 DEF ThreadEnds
        <3>4. CASE u = t /\ Step(t) /\ pc'[t] # "idle"
            <4>1. ~Send(t)
                BY <3>4 DEF Send, U!Send, EndInv, FlowInv, TypeInv, ThreadsTyped
            <4> QED
                BY <3>4, <4>1, AccountStepEnds, CheckEnds, CloseStepEnds, OtherStepEnds DEF Step
        <3> QED  BY <2>1, <3>1, <3>2, <3>3, <3>4
    <2>2. CASE Crash
        <3>1. U!Threads = Threads
            BY DEF U!Threads, Threads
        <3> QED  BY <2>2, <3>1 DEF Crash, U!Crash, ThreadEnds
    <2>3. CASE Restart
        BY <2>0, <2>3 DEF Restart, U!Restart, ThreadServes, ThreadEnds
    <2>4. CASE Tick \/ UNCHANGED vars
        BY <2>4, UntouchedEnds DEF Tick, vars, userVars, localVars, Untouched
    <2> QED  BY <2>1, <2>2, <2>3, <2>4 DEF Next
<1> QED  BY <1>1, <1>2

(* An END file says that the time was up only when it was: a thread that has
   seen the deadline pass may write it much later, but never sooner. *)
THEOREM ExpiredEndsAreLate == Spec => []ExpiredEndIsLate
<1>1. EndInv => ExpiredEndIsLate
    BY DEF EndInv
<1> QED  BY <1>1, InitEndInv, NextEndInv, PTL DEF Spec

(* A bid or a close that arrived when its auction was over is refused, whatever
   the other threads do to the END file meanwhile. *)
THEOREM LateOnesRefused == Spec => []LateRequestsRefused
<1>1. ASSUME EndInv  PROVE LateRequestsRefused
    <2>1. SUFFICES ASSUME NEW t \in Threads, Answered(t, "BID", "ACC") \/ Answered(t, "CLS", "OK"),
                          req[t].aid \in seen[t].over
                   PROVE  FALSE
        BY DEF LateRequestsRefused
    <2>2. cur[t] = req[t].aid /\ pc[t] # "idle"
        BY <1>1, <2>1 DEF EndInv, FlowInv, TypeInv, AtAuction, ThreadAtAuction, Answered, AuctionOps
    <2> QED
        BY <1>1, <2>1, <2>2 DEF EndInv, ThreadEnds, BidComesLate, CloseComesLate, Answered
<1> QED  BY <1>1, InitEndInv, NextEndInv, PTL DEF Spec

(* Only a close request of the owner creates the END file of an auction that
   still has time left. *)
THEOREM OnlyOwnersEndEarly == Spec => OnlyOwnerEndsEarly
<1> DEFINE ByOwner ==
        \A a \in Auctions :
            ~Exists(endFile[a]) /\ Exists(endFile'[a]) /\ ~Expired(a) =>
               \E t \in Threads : /\ pc[t] = "closeCreate" /\ req[t].op = "CLS"
                                  /\ cur[t] = a /\ req[t].uid = Owner(a)
<1>1. EndInv /\ [Next]_vars => [ByOwner]_vars
    <2> SUFFICES ASSUME EndInv, [Next]_vars, NEW a \in Auctions,
                        ~Exists(endFile[a]), Exists(endFile'[a]), ~Expired(a)
                 PROVE  \E t \in Threads : /\ pc[t] = "closeCreate" /\ req[t].op = "CLS"
                                           /\ cur[t] = a /\ req[t].uid = Owner(a)
        OBVIOUS
    <2>1. PICK t \in Threads : (CloseCreate(t) \/ CloseWrite(t)) /\ cur[t] = a
        BY EndFileWritten DEF CloseCreate, CloseWrite, EndInv, FlowInv, TypeInv, AuctionsTyped
    <2>2. pc[t] \in {"closeCreate", "closeWrite"} /\ ThreadEnds(t)
        BY <2>1 DEF CloseCreate, CloseWrite, At, U!At, EndInv
    <2>3. pc[t] = "closeCreate" /\ early[t]
        BY <2>1, <2>2 DEF ThreadEnds, ClosesForReason, CloseLabels
    <2> QED  BY <2>1, <2>2, <2>3 DEF ThreadEnds, ClosesForReason, CloseLabels
<1> QED  BY <1>1, InitEndInv, NextEndInv, PTL DEF Spec, OnlyOwnerEndsEarly

-----------------------------------------------------------------------------
(* Records.  How many of the larger bids getTopNumBids leaves. *)

(* The number of larger elements tells the elements of a finite set of numbers
   apart, and is every number below the size of the set. *)
LEMMA RanksCount ==
    ASSUME NEW S \in SUBSET Nat, IsFiniteSet(S), NEW n \in Nat, n <= Cardinality(S)
    PROVE  Cardinality({v \in S : Cardinality({w \in S : w > v}) < n}) = n
<1> DEFINE Above(v) == {w \in S : w > v}
           k == Cardinality(S)
           rank == [v \in S |-> Cardinality(Above(v))]
           top == {v \in S : rank[v] < n}
           topRank == [v \in top |-> rank[v]]
<1>1. k \in Nat
    BY FS_CardinalityType
<1>2. ASSUME NEW v \in S
      PROVE  IsFiniteSet(Above(v)) /\ Cardinality(Above(v)) \in 0..(k-1)
    <2>1. Above(v) \in SUBSET S /\ v \notin Above(v)
        OBVIOUS
    <2>2. /\ IsFiniteSet(Above(v)) /\ Cardinality(Above(v)) <= k
          /\ Cardinality(Above(v)) # k
        BY <1>2, <2>1, FS_Subset
    <2>3. Cardinality(Above(v)) \in Nat
        BY <2>2, FS_CardinalityType
    <2> QED  BY <1>1, <2>2, <2>3
<1>3. ASSUME NEW v \in S, NEW w \in S, v < w  PROVE Cardinality(Above(w)) < Cardinality(Above(v))
    <2>1. Above(w) \in SUBSET Above(v) /\ Above(w) # Above(v)
        <3>1. w \in Above(v) /\ w \notin Above(w)
            BY <1>3
        <3>2. ASSUME NEW x \in S, x > w  PROVE x > v
            BY <1>3, <3>2
        <3> QED  BY <3>1, <3>2
    <2>2. IsFiniteSet(Above(v))
        BY <1>2
    <2>3. Cardinality(Above(w)) <= Cardinality(Above(v)) /\ Cardinality(Above(w)) # Cardinality(Above(v))
        BY <2>1, <2>2, FS_Subset
    <2> QED  BY <1>2, <2>3
<1>4. rank \in Injection(S, 0..(k-1))
    <2>1. rank \in [S -> 0..(k-1)]
        BY <1>2
    <2>2. ASSUME NEW v \in S, NEW w \in S, rank[v] = rank[w]  PROVE v = w
        <3>1. CASE v < w
            BY <1>2, <1>3, <2>2, <3>1
        <3>2. CASE w < v
            BY <1>2, <1>3, <2>2, <3>2
        <3> QED  BY <3>1, <3>2
    <2> QED  BY <2>1, <2>2 DEF Injection, IsInjective
<1>5. IsFiniteSet(0..(k-1)) /\ Cardinality(0..(k-1)) = k
    <2>1. 0 \in Int /\ k - 1 \in Int
        BY <1>1
    <2>2. /\ IsFiniteSet(0..(k-1))
          /\ Cardinality(0..(k-1)) = IF 0 > k - 1 THEN 0 ELSE (k - 1) - 0 + 1
        BY <2>1, FS_Interval
    <2> QED  BY <1>1, <2>2
<1>6. rank \in Surjection(S, 0..(k-1))
    BY <1>4, <1>5, FS_Injection
<1>7. topRank \in Bijection(top, 0..(n-1))
    <2>1. topRank \in [top -> 0..(n-1)]
        <3>1. ASSUME NEW v \in top  PROVE rank[v] \in 0..(n-1)
            <4>1. rank[v] \in 0..(k-1) /\ rank[v] < n
                BY <1>4 DEF Injection
            <4> QED  BY <1>1, <4>1
        <3> QED  BY <3>1
    <2>2. \A v, w \in top : topRank[v] = topRank[w] => v = w
        BY <1>4 DEF Injection, IsInjective
    <2>3. ASSUME NEW i \in 0..(n-1)  PROVE \E v \in top : topRank[v] = i
        <3>1. i \in 0..(k-1)
            BY <1>1
        <3>2. PICK v \in S : rank[v] = i
            BY <1>6, <3>1 DEF Surjection
        <3> QED  BY <3>2
    <2> QED  BY <2>1, <2>2, <2>3 DEF Bijection, Injection, IsInjective, Surjection
<1>8. IsFiniteSet(top)
    BY FS_Subset
<1>9. Cardinality(top) = Cardinality(0..(n-1))
    BY <1>7, <1>8, FS_Bijection DEF ExistsBijection
<1>10. Cardinality(0..(n-1)) = n
    <2>1. 0 \in Int /\ n - 1 \in Int
        OBVIOUS
    <2>2. Cardinality(0..(n-1)) = IF 0 > n - 1 THEN 0 ELSE (n - 1) - 0 + 1
        BY <2>1, FS_Interval
    <2> QED  BY <2>2
<1>11. top = {v \in S : Cardinality({w \in S : w > v}) < n}
    OBVIOUS
<1> QED  BY <1>9, <1>10, <1>11

(* A bid that a record leaves out has TopBids larger ones in it. *)
LEMMA LargestBidsShown ==
    ASSUME NEW bids \in SUBSET Values, NEW v \in bids \ GetTopNumBids(bids)
    PROVE  Cardinality({w \in GetTopNumBids(bids) : w > v}) = TopBids
<1> DEFINE larger == {w \in bids : w > v}
<1>1. IsFiniteSet(bids) /\ bids \subseteq Nat /\ TopBids \in Nat
    BY NumbersAssumption, FS_Subset
<1>2. larger \in SUBSET Nat /\ IsFiniteSet(larger) /\ Cardinality(larger) \in Nat
    BY <1>1, FS_Subset, FS_CardinalityType
<1>3. TopBids <= Cardinality(larger)
    BY <1>1, <1>2 DEF GetTopNumBids
<1>4. ASSUME NEW w \in larger
      PROVE  {x \in bids : x > w} = {x \in larger : x > w}
    <2>1. ASSUME NEW x \in bids, x > w  PROVE x > v
        <3>1. v \in Nat /\ w \in Nat /\ x \in Nat /\ w > v
            BY <1>1
        <3> QED  BY <2>1, <3>1
    <2> QED  BY <2>1
<1>5. {w \in GetTopNumBids(bids) : w > v} =
          {w \in larger : Cardinality({x \in larger : x > w}) < TopBids}
    BY <1>4 DEF GetTopNumBids
<1> QED  BY <1>1, <1>2, <1>3, <1>5, RanksCount

(* What a record holds: at first every bid that was there, then the largest. *)
ThreadRecord(t) ==
    pc[t] # "idle" /\ req[t].op = "SRC" =>
        /\ cur[t] \in Auctions => seen[t].bids \subseteq BidsOn(cur[t])
        /\ pc[t] = "getAuctionEndInfo" =>
              seen[t].bids \subseteq shown[t].bids /\ shown[t].bids \subseteq BidsOn(cur[t])
        /\ pc[t] \in {"getAuctionBids", "getAuctionEndInfo"} /\ cur[t] \in seen[t].over =>
              Exists(endFile[cur[t]])
        /\ Answered(t, "SRC", "OK") =>
              /\ cur[t] \in Auctions
              /\ shown[t].bids \subseteq BidsOn(cur[t])
              /\ \A v \in seen[t].bids \ shown[t].bids :
                    Cardinality({w \in shown[t].bids : w > v}) = TopBids
              /\ cur[t] \in seen[t].over => shown[t].over
              /\ shown[t].over => Exists(endFile[cur[t]])

RecordInv == EndInv /\ \A t \in Threads : ThreadRecord(t)

LEMMA UntouchedRecord ==
    ASSUME RecordInv, [Next]_vars, NEW u \in Threads, Untouched(u) \/ pc'[u] = "idle"
    PROVE  ThreadRecord(u)'
<1>0. TypeInv /\ LocalsTyped /\ ThreadAtAuction(u) /\ ThreadRecord(u) /\ ThreadServes(u)
    BY DEF RecordInv, EndInv, FlowInv, TypeInv, AtAuction
<1>1. /\ \A a \in Auctions : Exists(endFile[a]) => Exists(endFile'[a])
      /\ \A a \in Auctions, v \in Values : Exists(bidFile[a][v]) => Exists(bidFile'[a][v])
    BY <1>0, FilesStay
<1>2. SUFFICES ASSUME Untouched(u), pc[u] # "idle", req[u].op = "SRC"  PROVE ThreadRecord(u)'
    BY DEF ThreadRecord, Untouched
<1>3. pc[u] \in {"getAuctionBids", "getAuctionEndInfo"} => cur[u] \in Auctions
    BY <1>0, <1>2 DEF ThreadAtAuction, Labels
<1>4. \A a \in Auctions : BidsOn(a) \subseteq BidsOn(a)'
    BY <1>1 DEF BidsOn
<1> QED  BY <1>0, <1>1, <1>2, <1>3, <1>4 DEF ThreadRecord, Untouched, Answered

LEMMA ReceiveRecord ==
    ASSUME RecordInv, NEW t \in Threads, Receive(t)
    PROVE  ThreadRecord(t)'
<1>0. ThreadsTyped /\ LocalsTyped
    BY DEF RecordInv, EndInv, FlowInv, TypeInv
<1>1. PICK r \in Requests :
          /\ U!Receive(t, r)
          /\ cur' = [cur EXCEPT ![t] = IF r.op \in AuctionOps THEN r.aid ELSE 1]
          /\ seen' = [seen EXCEPT ![t] = OnFile(r)]
    BY DEF Receive
<1>2. pc'[t] \in U!AuthLabels \union {"authorized"} /\ req'[t] = r /\ UNCHANGED bidFile
    BY <1>0, <1>1 DEF U!Receive, U!FirstStep, U!AuthLabels, ThreadsTyped, Receive, fileVars
<1>3. r.op = "SRC" /\ r.aid \in Auctions => cur'[t] = r.aid /\ seen'[t].bids = BidsOn(r.aid)
    BY <1>0, <1>1 DEF LocalsTyped, OnFile, AuctionOps
<1>4. r.op = "SRC" => cur'[t] = r.aid
    BY <1>0, <1>1 DEF LocalsTyped, AuctionOps
<1> QED  BY <1>2, <1>3, <1>4 DEF ThreadRecord, Answered, BidsOn, U!AuthLabels

LEMMA KeepsRecord ==
    ASSUME RecordInv, [Next]_vars, NEW t \in Threads, pc[t] # "idle",
           req'[t] = req[t], seen'[t] = seen[t], cur'[t] = cur[t],
           pc'[t] # "getAuctionEndInfo", ~Answered(t, "SRC", "OK")',
           pc'[t] = "getAuctionBids" /\ cur[t] \in seen[t].over => Exists(endFile'[cur[t]])
    PROVE  ThreadRecord(t)'
<1>1. \A a \in Auctions, v \in Values : Exists(bidFile[a][v]) => Exists(bidFile'[a][v])
    BY FilesStay DEF RecordInv, EndInv, FlowInv
<1>2. \A a \in Auctions : BidsOn(a) \subseteq BidsOn(a)'
    BY <1>1 DEF BidsOn
<1>3. ThreadRecord(t)
    BY DEF RecordInv
<1> QED  BY <1>2, <1>3 DEF ThreadRecord

(* A record request on its way through checkAuctionValidity. *)
LEMMA CheckRecord ==
    ASSUME RecordInv, [Next]_vars, NEW t \in Threads, pc'[t] # "idle", req[t].op = "SRC",
           CheckAuctionValidity(t) \/ CloseCheck(t) \/ CloseCreate(t) \/ CloseWrite(t)
    PROVE  ThreadRecord(t)'
<1>0. /\ TypeInv /\ ThreadsTyped /\ LocalsTyped /\ AuctionsTyped /\ ThreadAtAuction(t)
      /\ ThreadEnds(t) /\ EndInv /\ pc[t] # "idle"
    BY DEF RecordInv, EndInv, FlowInv, TypeInv, AtAuction, CheckAuctionValidity, CloseCheck,
           CloseCreate,
           CloseWrite, At, U!At
<1>1. req'[t] = req[t] /\ seen'[t] = seen[t] /\ OverStays(t)
    BY <1>0, StepOverStays DEF Step, ThreadEnds
<1>2. \/ \E label \in CloseLabels : Goto(t, label) /\ UNCHANGED cur
      \/ \E over \in BOOLEAN : Proceed(t, over)
    BY <1>0
    DEF CheckAuctionValidity, CloseCheck, CloseCreate, CloseWrite, Closed, CloseLabels, Fault, localVars
<1>3. cur' = cur /\ pc'[t] \in CloseLabels \union {"getAuctionBids"}
    BY <1>0, <1>2 DEF Proceed, ListOps, Goto, U!Goto, ThreadsTyped
<1>4. ASSUME pc'[t] = "getAuctionBids", cur[t] \in seen[t].over
      PROVE  Exists(endFile'[cur[t]])
    <2>1. seen[t].over \subseteq Auctions
        BY <1>0 DEF LocalsTyped
    <2>2. \A a \in Auctions : Exists(endFile[a]) => Exists(endFile'[a])
        BY <1>0, FilesStay
    <2>3. ~\E label \in CloseLabels : Goto(t, label)
        BY <1>0, <1>4 DEF Goto, U!Goto, ThreadsTyped, CloseLabels
    <2>4. CASE CheckAuctionValidity(t)
        <3>1. ~Expired(cur[t])
            BY <1>0, <1>4, <2>1, <2>3, <2>4 DEF CheckAuctionValidity, CloseLabels
        <3> QED  BY <1>1, <1>4, <2>1, <2>2, <3>1 DEF OverStays
    <2>5. CASE CloseCheck(t)
        BY <1>4, <2>1, <2>2, <2>3, <2>5 DEF CloseCheck, CloseLabels
    <2>6. CASE CloseCreate(t)
        BY <2>3, <2>6 DEF CloseCreate, CloseLabels
    <2>7. CASE CloseWrite(t)
        BY <1>0, <1>4, <2>1, <2>2, <2>7
        DEF CloseWrite, At, U!At, ThreadEnds, ClosesForReason
    <2> QED  BY <2>4, <2>5, <2>6, <2>7
<1>5. cur'[t] = cur[t]
    BY <1>3
<1> QED  BY <1>0, <1>1, <1>3, <1>4, <1>5, KeepsRecord DEF CloseLabels, Answered

LEMMA ReadRecord ==
    ASSUME RecordInv, [Next]_vars, NEW t \in Threads, pc'[t] # "idle",
           GetAuctionBids(t) \/ GetAuctionEndInfo(t)
    PROVE  ThreadRecord(t)'
<1>0. /\ TypeInv /\ ThreadsTyped /\ LocalsTyped /\ AuctionsTyped /\ ThreadRecord(t) /\ ThreadAtAuction(t)
      /\ EndInv /\ ThreadServes(t)
    BY DEF RecordInv, EndInv, FlowInv, TypeInv, AtAuction
<1>1. /\ pc[t] \in {"getAuctionBids", "getAuctionEndInfo"} /\ pc[t] # "idle"
      /\ UNCHANGED <<fileVars, seen>>
    BY DEF GetAuctionBids, GetAuctionEndInfo, At, U!At
<1>2. /\ cur[t] \in Auctions /\ req'[t] = req[t] /\ UNCHANGED <<bidFile, endFile>>
      /\ req[t].op = "SRC"
    <2>1. ServedAt(pc[t]) = {"SRC"}
        BY <1>1 DEF ServedAt, U!UdpLabels, CloseLabels
    <2>2. req'[t] = req[t]
        BY <1>0, StepOverStays DEF Step
    <2> QED  BY <1>0, <1>1, <2>1, <2>2 DEF ThreadAtAuction, Labels, ThreadServes, fileVars
<1>3. CASE GetAuctionBids(t)
    <2>1. /\ shown' = [shown EXCEPT ![t].bids = BidsOn(cur[t])]
          /\ Goto(t, "getAuctionEndInfo") /\ UNCHANGED cur
        BY <1>0, <1>3 DEF GetAuctionBids, Fault
    <2>2. shown'[t].bids = BidsOn(cur[t]) /\ pc'[t] = "getAuctionEndInfo" /\ cur'[t] = cur[t]
        BY <1>0, <2>1 DEF LocalsTyped, Goto, U!Goto, ThreadsTyped
    <2>3. pc[t] = "getAuctionBids"
        BY <1>3 DEF GetAuctionBids, At, U!At
    <2> QED  BY <1>0, <1>1, <1>2, <2>2, <2>3 DEF ThreadRecord, BidsOn, Answered
<1>4. CASE GetAuctionEndInfo(t)
    <2> DEFINE all == shown[t].bids
    <2>1. /\ shown' = [shown EXCEPT ![t] = [bids |-> GetTopNumBids(all), over |-> Exists(endFile[cur[t]])]]
          /\ Answer(t, "OK") /\ UNCHANGED cur /\ pc[t] = "getAuctionEndInfo"
        BY <1>0, <1>4 DEF GetAuctionEndInfo, Fault, At, U!At
    <2>2. /\ shown'[t] = [bids |-> GetTopNumBids(all), over |-> Exists(endFile[cur[t]])]
          /\ pc'[t] = "send" /\ cur'[t] = cur[t]
        BY <1>0, <2>1 DEF LocalsTyped, Answer, U!Answer, ThreadsTyped
    <2>3. all \in SUBSET Values /\ seen[t].bids \subseteq all /\ all \subseteq BidsOn(cur[t])
        BY <1>0, <1>2, <2>1 DEF LocalsTyped, ThreadRecord
    <2>4. /\ shown'[t].bids = GetTopNumBids(all) /\ shown'[t].over = Exists(endFile[cur[t]])
          /\ GetTopNumBids(all) \subseteq all
        BY <2>2 DEF GetTopNumBids
    <2>5. \A v \in seen[t].bids \ shown'[t].bids :
             Cardinality({w \in shown'[t].bids : w > v}) = TopBids
        BY <2>3, <2>4, LargestBidsShown
    <2>6. cur[t] \in seen[t].over => Exists(endFile[cur[t]])
        BY <1>0, <1>2, <2>1 DEF ThreadRecord
    <2>7. seen'[t] = seen[t] /\ (BidsOn(cur[t]))' = BidsOn(cur[t])
        BY <1>1, <1>2, <2>1 DEF BidsOn
    <2>8. ThreadRecord(t)
        BY <1>0
    <2>9. seen[t].bids \subseteq BidsOn(cur[t])
        BY <1>1, <1>2, <2>8 DEF ThreadRecord
    <2> QED
        BY <1>1, <1>2, <2>2, <2>3, <2>4, <2>5, <2>6, <2>7, <2>9 DEF ThreadRecord
<1> QED  BY <1>3, <1>4

LEMMA StepRecord ==
    ASSUME RecordInv, [Next]_vars, NEW t \in Threads, Step(t)
    PROVE  ThreadRecord(t)'
<1>0. FlowInv /\ TypeInv /\ ThreadsTyped /\ EndInv /\ ThreadServes(t)
    BY DEF RecordInv, EndInv, FlowInv, TypeInv
<1>1. SUFFICES ASSUME pc'[t] # "idle", req[t].op = "SRC"  PROVE ThreadRecord(t)'
    BY <1>0, StepOverStays DEF ThreadRecord
<1>2. pc[t] # "idle" /\ req'[t] = req[t] /\ seen'[t] = seen[t]
    BY <1>0, <1>1, StepOverStays
<1>3. req[t].op \in ServedAt(pc[t])
    BY <1>0, <1>2 DEF ThreadServes
<1>4. CASE DirectoryExists(t)
    <2>1. Throw(t, "AuctionNotFound") \/ Goto(t, "checkAuctionValidity")
        BY <1>1, <1>4 DEF DirectoryExists
    <2>2. U!Sent("SRC", U!Caught("SRC", "AuctionNotFound")) # "OK"
        BY DEF U!Sent, U!Caught, U!Handler, U!handleShowRecord, U!ErrorPacket
    <2>3. pc'[t] \in {"send", "checkAuctionValidity"} /\ ~Answered(t, "SRC", "OK")'
        BY <1>0, <1>1, <2>1, <2>2
        DEF Goto, U!Goto, Throw, U!Throw, U!Answer, U!Op, ThreadsTyped, Answered
    <2>4. cur'[t] = cur[t]
        BY <1>4 DEF DirectoryExists, localVars
    <2> QED  BY <1>2, <2>3, <2>4, KeepsRecord
<1>5. ~(Authenticate(t) \/ ManageAccount(t) \/ Send(t))
    <2>1. pc[t] \notin U!AuthLabels \union U!UdpLabels
        BY <1>1, <1>3 DEF ServedAt, U!UdpLabels, U!AuthLabels, U!AccountOps, CloseLabels
    <2>2. ~(Authenticate(t) \/ ManageAccount(t))
        BY <2>1
        DEF Authenticate, ManageAccount, U!Authenticate, U!ManageAccount, U!UserExists, U!At,
            U!GetUserPassword, U!IsUserLoggedIn, U!CreatePass, U!WritePass, U!Login, U!CreateLogin,
            U!Logout, U!DeleteLogin, U!UnregisterUser, U!DeletePass, U!UdpLabels, U!AuthLabels
    <2>3. ~Send(t)
        BY <1>0, <1>1 DEF Send, U!Send, ThreadsTyped
    <2> QED  BY <2>2, <2>3
<1>6. ~(\/ BidEndExists(t) \/ GetAuctionOwner(t) \/ GetLargestBid(t) \/ CreateBid(t) \/ WriteBid(t)
        \/ GetAuctionAsset(t) \/ ListAuction(t) \/ GetAuctionInfo(t) \/ GetAuctionBidders(t))
    BY <1>1, <1>3
    DEF BidEndExists, GetAuctionOwner, GetLargestBid, CreateBid, WriteBid, GetAuctionAsset,
        ListAuction, GetAuctionInfo, GetAuctionBidders, Authorized, At, U!At, ServedAt, U!UdpLabels,
        CloseLabels, ListOps
<1> QED  BY <1>1, <1>4, <1>5, <1>6, CheckRecord, ReadRecord DEF Step

LEMMA NextRecordInv == RecordInv /\ [Next]_vars => RecordInv'
<1> SUFFICES ASSUME RecordInv, [Next]_vars, NEW u \in Threads  PROVE ThreadRecord(u)'
    BY NextEndInv DEF RecordInv
<1>0. TypeInv /\ ThreadServes(u)
    BY DEF RecordInv, EndInv, FlowInv
<1>1. ASSUME NEW t \in Threads, Receive(t) \/ Step(t)  PROVE ThreadRecord(u)'
    <2>1. CASE u # t
        BY <1>0, <1>1, <2>1, OthersUntouched, UntouchedRecord DEF Forgotten
    <2> QED  BY <1>1, <2>1, ReceiveRecord, StepRecord
<1>2. CASE Crash
    <2>1. U!Threads = Threads
        BY DEF U!Threads, Threads
    <2> QED  BY <1>2, <2>1 DEF Crash, U!Crash, ThreadRecord
<1>3. CASE Restart
    BY <1>0, <1>3 DEF Restart, U!Restart, ThreadServes, ThreadRecord
<1>4. CASE Tick \/ UNCHANGED vars
    BY <1>4, UntouchedRecord DEF Tick, vars, userVars, localVars, Untouched
<1> QED  BY <1>1, <1>2, <1>3, <1>4 DEF Next

LEMMA InitRecordInv == Init => RecordInv
    BY InitEndInv DEF Init, RecordInv, ThreadRecord

(* A record shows the end and the bids that were there when it was asked for,
   but for bids that TopBids larger ones leave no room for. *)
THEOREM RecordsAreCurrent == Spec => []RecordIsCurrent
<1>1. ASSUME RecordInv  PROVE RecordIsCurrent
    <2>1. SUFFICES ASSUME NEW t \in Threads, Answered(t, "SRC", "OK")
                   PROVE  /\ \A v \in seen[t].bids \ shown[t].bids :
                                Cardinality({w \in shown[t].bids : w > v}) = TopBids
                          /\ req[t].aid \in seen[t].over => shown[t].over
        BY DEF RecordIsCurrent
    <2>2. cur[t] = req[t].aid /\ pc[t] # "idle" /\ ThreadRecord(t)
        BY <1>1, <2>1
        DEF RecordInv, EndInv, FlowInv, TypeInv, AtAuction, ThreadAtAuction, Answered, AuctionOps
    <2> QED  BY <2>1, <2>2 DEF ThreadRecord, Answered
<1> QED  BY <1>1, InitRecordInv, NextRecordInv, PTL DEF Spec

-----------------------------------------------------------------------------
(* What a listing has found of the auctions before the one it is at. *)
ThreadListing(t) ==
    /\ \A a \in ended[t] : Exists(endFile[a])
    /\ pc[t] # "idle" /\ req[t].op \in ListOps =>
        /\ pc[t] \in U!AuthLabels \union {"authorized"} => cur[t] = 1
        /\ pc[t] \in CloseLabels \union {"authorized", "nextAuction", "checkAuctionValidity"} =>
              \A a \in seen[t].over : a < cur[t] => a \in ended[t]
        /\ pc[t] = "checkAuctionValidity" /\ cur[t] \in seen[t].over => Expired(cur[t])
        /\ pc[t] \in {"getAuctionInfo", "getAuctionBidders"} \/ (pc[t] = "send" /\ reply[t] = "OK") =>
              seen[t].over \subseteq ended[t]

(* The bids of the user of a listing that stood when it arrived still do, and
   those on the auctions before the one it is at have been found. *)
ThreadMine(t) ==
    pc[t] # "idle" /\ req[t].op \in ListOps =>
        /\ \A a \in seen[t].standing : \E v \in Values : Stands(a, v, req[t].uid)
        /\ pc[t] = "getAuctionBidders" => \A a \in seen[t].standing : a < cur[t] => a \in mine[t]
        /\ pc[t] = "send" /\ reply[t] = "OK" => seen[t].standing \subseteq mine[t]
        /\ req[t].op # "LMB" => seen[t].standing = {}

ListInv == EndInv /\ \A t \in Threads : ThreadListing(t) /\ ThreadMine(t)

LEMMA OnlyBidsGoOn ==
    ASSUME TypeInv, NEW t \in Threads, Step(t), pc'[t] \in {"createBid", "writeBid"}
    PROVE  GetLargestBid(t) \/ CreateBid(t)
<1>0. ThreadsTyped
    BY DEF TypeInv
<1> USE DEF Goto, U!Goto, Answer, U!Answer, Throw, U!Throw, Fault
<1>1. ~(Authenticate(t) \/ ManageAccount(t) \/ Send(t))
    BY <1>0
    DEF Authenticate, ManageAccount, Send, U!Authenticate, U!ManageAccount, U!Send, ThreadsTyped,
        U!UserExists, U!GetUserPassword, U!IsUserLoggedIn, U!CreatePass, U!WritePass, U!Login,
        U!CreateLogin, U!Logout, U!DeleteLogin, U!UnregisterUser, U!DeletePass
<1>2. ~(\E over \in BOOLEAN : Proceed(t, over))
    BY <1>0 DEF Proceed, Listed, ThreadsTyped
<1>3. ~(CheckAuctionValidity(t) \/ CloseCheck(t) \/ CloseCreate(t) \/ CloseWrite(t))
    BY <1>0, <1>2
    DEF CheckAuctionValidity, CloseCheck, CloseCreate, CloseWrite, Closed, ThreadsTyped
<1>4. ~(\/ BidEndExists(t) \/ DirectoryExists(t) \/ GetAuctionOwner(t) \/ WriteBid(t)
        \/ GetAuctionAsset(t) \/ GetAuctionBids(t) \/ GetAuctionEndInfo(t))
    BY <1>0
    DEF BidEndExists, DirectoryExists, GetAuctionOwner, WriteBid, GetAuctionAsset,
        GetAuctionBids, GetAuctionEndInfo, ThreadsTyped
<1>5. ~(ListAuction(t) \/ GetAuctionInfo(t) \/ GetAuctionBidders(t))
    BY <1>0 DEF ListAuction, Listed, GetAuctionInfo, GetAuctionBidders, ThreadsTyped
<1> QED  BY <1>1, <1>3, <1>4, <1>5 DEF Step

(* A standing bid stays: no worker passes the test for the largest bid with
   its value, and those that had passed it bid for the same user. *)
LEMMA StandsStays ==
    ASSUME FlowInv, [Next]_vars, NEW a \in Auctions, NEW v \in Values, NEW user \in Users,
           Stands(a, v, user)
    PROVE  Stands(a, v, user)'
<1>0. TypeInv /\ ThreadsTyped /\ AuctionsTyped /\ AtAuction
    BY DEF FlowInv, TypeInv
<1>1. Exists(bidFile[a][v]) /\ v \in BidsOn(a) /\ v \in Nat
    BY FileContentsAssumption, NumbersAssumption DEF Stands, Exists, BidsOn
<1>2. bidFile'[a][v] = user
    <2>1. CASE UNCHANGED bidFile
        BY <2>1 DEF Stands
    <2>2. ASSUME NEW t \in Threads, CreateBid(t) \/ WriteBid(t)  PROVE bidFile'[a][v] = user
        <3>1. /\ pc[t] \in {"createBid", "writeBid"} /\ pc[t] # "idle"
              /\ cur[t] \in Auctions /\ req[t].val \in Values
            BY <1>0, <2>2, RequestFields
            DEF CreateBid, WriteBid, At, U!At, AtAuction, ThreadAtAuction, Labels
        <3>2. CASE cur[t] = a /\ req[t].val = v
            <4>1. req[t].uid = user
                BY <3>1, <3>2 DEF Stands
            <4> QED  BY <1>0, <1>1, <2>2, <3>2, <4>1 DEF CreateBid, WriteBid, AuctionsTyped, Stands
        <3>3. CASE ~(cur[t] = a /\ req[t].val = v)
            BY <1>0, <2>2, <3>1, <3>3 DEF CreateBid, WriteBid, AuctionsTyped, Stands
        <3> QED  BY <3>2, <3>3
    <2>3. UNCHANGED bidFile \/ \E t \in Threads : CreateBid(t) \/ WriteBid(t)
        BY DEF Next, vars, Step, Receive, Authenticate, ManageAccount, Send, CheckAuctionValidity,
               CloseCheck, CloseCreate, CloseWrite, BidEndExists, DirectoryExists, GetAuctionOwner,
               GetLargestBid, GetAuctionAsset, GetAuctionBids, GetAuctionEndInfo, ListAuction,
               GetAuctionInfo, GetAuctionBidders, Crash, Restart, Tick, fileVars
    <2> QED  BY <2>1, <2>2, <2>3
<1>3. ASSUME NEW w \in Threads, pc'[w] \in {"createBid", "writeBid"}, cur'[w] = a, req'[w].val = v
      PROVE  req'[w].uid = user
    <2>1. CASE Untouched(w)
        BY <1>3, <2>1 DEF Untouched, Stands
    <2>2. CASE Step(w)
        <3>1. req'[w] = req[w]
            BY <1>0, <1>3, <2>2, RequestStays
        <3>2. GetLargestBid(w) \/ CreateBid(w)
            BY <1>0, <1>3, <2>2, OnlyBidsGoOn
        <3>3. cur'[w] = cur[w]
            BY <3>2 DEF GetLargestBid, CreateBid, localVars
        <3>4. ~GetLargestBid(w)
            <4>1. TooLow(a, v)
                BY <1>1 DEF TooLow
            <4>2. GetLargestBid(w) => pc'[w] = "send"
                BY <1>0, <1>3, <3>1, <3>3, <4>1
                DEF GetLargestBid, Throw, U!Throw, U!Answer, ThreadsTyped
            <4> QED  BY <1>3, <4>2
        <3>5. pc[w] = "createBid"
            BY <3>2, <3>4 DEF CreateBid, At, U!At
        <3> QED  BY <1>3, <3>1, <3>3, <3>5 DEF Stands
    <2>3. ~Receive(w)
        BY <1>0, <1>3 DEF Receive, U!Receive, U!FirstStep, ThreadsTyped
    <2>4. ~Forgotten(w) /\ ~Crash
        <3>1. U!Threads = Threads
            BY DEF U!Threads, Threads
        <3> QED  BY <1>3, <3>1 DEF Forgotten, Crash, U!Crash
    <2>5. CASE Restart
        BY <1>3, <2>5 DEF Restart, U!Restart, localVars, Stands
    <2>6. CASE Tick \/ UNCHANGED vars
        BY <2>1, <2>6 DEF Tick, vars, userVars, localVars, Untouched
    <2>7. ASSUME NEW t \in Threads \ {w}, Receive(t) \/ Step(t)  PROVE Untouched(w)
        BY <1>0, <2>4, <2>7, OthersUntouched
    <2> QED  BY <2>1, <2>2, <2>3, <2>4, <2>5, <2>6, <2>7 DEF Next
<1> QED  BY <1>2, <1>3 DEF Stands

(* The bids of the user of a listing that stood still do. *)
LEMMA StandingStays ==
    ASSUME ListInv, [Next]_vars, NEW u \in Threads, pc[u] # "idle", req[u].op \in ListOps,
           req'[u] = req[u], seen'[u] = seen[u]
    PROVE  (\A a \in seen[u].standing : \E v \in Values : Stands(a, v, req[u].uid))'
<1>0. FlowInv /\ LocalsTyped /\ ThreadMine(u)
    BY DEF ListInv, EndInv, FlowInv, TypeInv
<1>1. PICK user \in Users : user = req[u].uid
    BY <1>0, RequestFields DEF FlowInv
<1>2. \A a \in seen[u].standing : \E v \in Values : Stands(a, v, user)'
    BY <1>0, <1>1, StandsStays DEF ThreadMine, LocalsTyped
<1> QED  BY <1>1, <1>2

LEMMA UntouchedListing ==
    ASSUME ListInv, [Next]_vars, NEW u \in Threads, Untouched(u) \/ Forgotten(u)
    PROVE  ThreadListing(u)' /\ ThreadMine(u)'
<1>0. /\ FlowInv /\ TypeInv /\ LocalsTyped /\ ThreadAtAuction(u) /\ ThreadListing(u) /\ ThreadMine(u)
    BY DEF ListInv, EndInv, FlowInv, TypeInv, AtAuction
<1>1. /\ \A a \in Auctions : Exists(endFile[a]) => Exists(endFile'[a])
      /\ \A a \in Auctions : Expired(a) => Expired(a)'
    BY <1>0, FilesStay
<1>2. ended[u] \subseteq Auctions /\ seen[u].standing \subseteq Auctions
    BY <1>0 DEF LocalsTyped
<1>3. SUFFICES ASSUME Untouched(u)  PROVE ThreadListing(u)' /\ ThreadMine(u)'
    BY <1>0, <1>1, <1>2 DEF ThreadListing, ThreadMine, Forgotten
<1>4. pc[u] = "checkAuctionValidity" /\ req[u].op \in ListOps => cur[u] \in Auctions
    BY <1>0 DEF ThreadAtAuction
<1>5. ThreadListing(u)'
    BY <1>0, <1>1, <1>2, <1>3, <1>4 DEF ThreadListing, Untouched
<1>6. ThreadMine(u)'
    BY <1>0, <1>3, StandingStays DEF ThreadMine, Untouched
<1> QED  BY <1>5, <1>6

LEMMA ReceiveListing ==
    ASSUME ListInv, [Next]_vars, NEW t \in Threads, Receive(t)
    PROVE  ThreadListing(t)' /\ ThreadMine(t)'
<1>0. FlowInv /\ ThreadsTyped /\ LocalsTyped
    BY DEF ListInv, EndInv, FlowInv, TypeInv
<1>1. PICK r \in Requests :
          /\ U!Receive(t, r)
          /\ cur' = [cur EXCEPT ![t] = IF r.op \in AuctionOps THEN r.aid ELSE 1]
          /\ seen' = [seen EXCEPT ![t] = OnFile(r)]
    BY DEF Receive
<1>2. /\ pc'[t] \in U!AuthLabels \union {"authorized"} /\ req'[t] = r /\ ended'[t] = ended[t]
      /\ pc[t] = "idle"
    BY <1>0, <1>1 DEF U!Receive, U!FirstStep, U!AuthLabels, U!At, ThreadsTyped, Receive
<1>3. /\ seen'[t].over \subseteq Auctions
      /\ seen'[t].standing = {a \in Auctions : r.op = "LMB" /\ \E v \in Values : Stands(a, v, r.uid)}
    BY <1>0, <1>1 DEF LocalsTyped, OnFile
<1>4. r.op \in ListOps => cur'[t] = 1
    BY <1>0, <1>1 DEF LocalsTyped, ListOps, AuctionOps
<1>5. ThreadListing(t) /\ ended[t] \subseteq Auctions /\ UNCHANGED endFile
    BY <1>0 DEF ListInv, LocalsTyped, Receive, fileVars
<1>6. ThreadListing(t)'
    BY <1>2, <1>3, <1>4, <1>5 DEF ThreadListing, U!AuthLabels, Auctions
<1>7. r.uid \in Users
    BY AuctionRequestsAssumption
<1>8. \A a \in seen'[t].standing : \E v \in Values : Stands(a, v, r.uid)'
    BY <1>0, <1>3, <1>7, StandsStays
<1>9. ThreadMine(t)'
    BY <1>2, <1>3, <1>8 DEF ThreadMine, U!AuthLabels, Stands
<1> QED  BY <1>6, <1>9

(* What is left to show of a step of a listing that stays at its auction. *)
LEMMA KeepsListing ==
    ASSUME ListInv, [Next]_vars, NEW t \in Threads, pc[t] # "idle", req[t].op \in ListOps,
           req'[t] = req[t], seen'[t] = seen[t], ended'[t] = ended[t], cur'[t] = cur[t],
           pc[t] \in CloseLabels \union {"authorized", "nextAuction", "checkAuctionValidity"},
           pc'[t] \in CloseLabels \union {"checkAuctionValidity"},
           pc'[t] = "checkAuctionValidity" /\ cur[t] \in seen[t].over => Expired(cur[t])'
    PROVE  ThreadListing(t)' /\ ThreadMine(t)'
<1>0. TypeInv /\ LocalsTyped /\ ThreadListing(t) /\ ThreadMine(t)
    BY DEF ListInv, EndInv, FlowInv, TypeInv
<1>1. \A a \in Auctions : Exists(endFile[a]) => Exists(endFile'[a])
    BY <1>0, FilesStay
<1>2. ThreadListing(t)'
    BY <1>0, <1>1 DEF ThreadListing, LocalsTyped, CloseLabels, U!AuthLabels
<1>3. ThreadMine(t)'
    BY <1>0, StandingStays DEF ThreadMine, CloseLabels
<1> QED  BY <1>2, <1>3

(* A listing that does not succeed promises nothing. *)
LEMMA ListExceptions ==
    ASSUME NEW op \in ListOps, NEW e \in {"UserNotLoggedIn", "NoAuctions", "NoOngoingBids"},
           e = "UserNotLoggedIn" => op # "LST", e = "NoAuctions" => op # "LMB",
           e = "NoOngoingBids" => op = "LMB"
    PROVE  U!Sent(op, U!Caught(op, e)) # "OK"
<1>1. U!Caught(op, e) \in {"NLG", "NOK"}
    BY DEF ListOps, U!Caught, U!Handler, U!handleListAuctions, U!handleListUserAuctions,
           U!handleListUserBids
<1> QED  BY <1>1 DEF U!Sent, U!ErrorPacket

LEMMA ThrowsListing ==
    ASSUME ListInv, [Next]_vars, NEW t \in Threads, pc[t] # "idle", req[t].op \in ListOps,
           seen'[t] = seen[t], ended'[t] = ended[t],
           NEW e \in {"UserNotLoggedIn", "NoAuctions", "NoOngoingBids"}, Throw(t, e),
           e = "UserNotLoggedIn" => req[t].op # "LST", e = "NoAuctions" => req[t].op # "LMB",
           e = "NoOngoingBids" => req[t].op = "LMB"
    PROVE  ThreadListing(t)' /\ ThreadMine(t)'
<1>0. TypeInv /\ ThreadsTyped /\ LocalsTyped /\ ThreadListing(t) /\ ThreadMine(t)
    BY DEF ListInv, EndInv, FlowInv, TypeInv
<1>1. pc'[t] = "send" /\ req'[t] = req[t] /\ reply'[t] # "OK"
    BY <1>0, ListExceptions DEF Throw, U!Throw, U!Answer, U!Op, ThreadsTyped
<1>2. \A a \in Auctions : Exists(endFile[a]) => Exists(endFile'[a])
    BY <1>0, FilesStay
<1>3. ThreadListing(t)'
    BY <1>0, <1>1, <1>2 DEF ThreadListing, LocalsTyped, CloseLabels, U!AuthLabels
<1>4. ThreadMine(t)'
    BY <1>0, <1>1, StandingStays DEF ThreadMine
<1> QED  BY <1>3, <1>4

(* The listing is done with an auction: when the auction was over it has been
   found to be. *)
LEMMA ListedListing ==
    ASSUME ListInv, [Next]_vars, NEW t \in Threads, pc[t] # "idle", req[t].op \in ListOps,
           pc[t] \in CloseLabels \union {"authorized", "nextAuction", "checkAuctionValidity"},
           NEW over \in BOOLEAN, Listed(t, over), seen'[t] = seen[t], cur[t] \in Auctions,
           over => Exists(endFile'[cur[t]]), cur[t] \in seen[t].over => over
    PROVE  ThreadListing(t)' /\ ThreadMine(t)'
<1>0. /\ TypeInv /\ ThreadsTyped /\ LocalsTyped /\ ThreadListing(t) /\ ThreadMine(t)
      /\ seen[t].over \subseteq Auctions
    BY DEF ListInv, EndInv, FlowInv, TypeInv, LocalsTyped
<1>1. \A a \in Auctions : Exists(endFile[a]) => Exists(endFile'[a])
    BY <1>0, FilesStay
<1>2. ended'[t] = IF over THEN ended[t] \union {cur[t]} ELSE ended[t]
    BY <1>0 DEF Listed, LocalsTyped
<1>3. \A a \in ended'[t] : Exists(endFile'[a])
    BY <1>0, <1>1, <1>2 DEF ThreadListing, LocalsTyped
<1>4. \A a \in seen[t].over : a <= cur[t] => a \in ended'[t]
    BY <1>0, <1>2 DEF ThreadListing, Auctions
<1>5. req'[t] = req[t]
    BY DEF Listed, Goto, U!Goto, Answer, U!Answer, ListOps
<1>6. (\A a \in seen[t].standing : \E v \in Values : Stands(a, v, req[t].uid))'
    BY <1>5, StandingStays
<1>7. CASE cur[t] < NumAuctions
    <2>1. pc'[t] = "nextAuction" /\ cur'[t] = cur[t] + 1
        BY <1>0, <1>7 DEF Listed, Goto, U!Goto, ThreadsTyped, LocalsTyped
    <2>2. \A a \in seen[t].over : a < cur'[t] => a \in ended'[t]
        BY <1>0, <1>4, <2>1 DEF Auctions
    <2> QED
        BY <1>0, <1>3, <1>5, <1>6, <2>1, <2>2 DEF ThreadListing, ThreadMine, U!AuthLabels
<1>8. CASE ~(cur[t] < NumAuctions)
    <2>1. seen[t].over \subseteq ended'[t]
        BY <1>0, <1>4, <1>8, NumbersAssumption DEF Auctions
    <2>2. \/ req[t].op = "LST" /\ pc'[t] = "send"
          \/ req[t].op = "LMA" /\ pc'[t] = "getAuctionInfo"
          \/ req[t].op = "LMB" /\ pc'[t] = "getAuctionBidders" /\ cur'[t] = 1
        BY <1>0, <1>8 DEF Listed, Goto, U!Goto, Answer, U!Answer, ThreadsTyped, LocalsTyped, ListOps
    <2>3. ThreadListing(t)'
        BY <1>3, <1>5, <2>1, <2>2 DEF ThreadListing, U!AuthLabels, CloseLabels
    <2>4. req[t].op # "LMB" => seen'[t].standing = {}
        BY <1>0 DEF ThreadMine
    <2>5. \A a \in seen'[t].standing : ~(a < 1)
        BY <1>0 DEF LocalsTyped, Auctions
    <2>6. ThreadMine(t)'
        BY <1>5, <1>6, <2>2, <2>4, <2>5 DEF ThreadMine
    <2> QED  BY <2>3, <2>6
<1> QED  BY <1>7, <1>8

(* A listing on its way through checkAuctionValidity. *)
LEMMA CheckListing ==
    ASSUME ListInv, [Next]_vars, NEW t \in Threads, pc'[t] # "idle", req[t].op \in ListOps,
           CheckAuctionValidity(t) \/ CloseCheck(t) \/ CloseCreate(t) \/ CloseWrite(t)
    PROVE  ThreadListing(t)' /\ ThreadMine(t)'
<1>0. /\ EndInv /\ TypeInv /\ ThreadsTyped /\ LocalsTyped /\ ThreadAtAuction(t) /\ ThreadListing(t)
      /\ ThreadEnds(t) /\ pc[t] # "idle"
      /\ pc[t] \in CloseLabels \union {"checkAuctionValidity"}
    BY DEF ListInv, EndInv, FlowInv, TypeInv, AtAuction, CheckAuctionValidity, CloseCheck, CloseCreate,
           CloseWrite, At, U!At, CloseLabels
<1>1. req'[t] = req[t] /\ seen'[t] = seen[t] /\ OverStays(t)
    BY <1>0, StepOverStays DEF Step, ThreadEnds
<1>2. cur[t] \in Auctions
    BY <1>0 DEF ThreadAtAuction, Labels, CloseLabels
<1>3. \A a \in Auctions : Exists(endFile[a]) => Exists(endFile'[a])
    BY <1>0, FilesStay
<1>4. ASSUME NEW label \in CloseLabels, Goto(t, label), UNCHANGED <<cur, ended>>
      PROVE  ThreadListing(t)' /\ ThreadMine(t)'
    <2>1. pc'[t] = label /\ cur'[t] = cur[t] /\ ended'[t] = ended[t]
        BY <1>0, <1>4 DEF Goto, U!Goto, ThreadsTyped
    <2> QED  BY <1>0, <1>1, <2>1, KeepsListing DEF CloseLabels
<1>5. ASSUME NEW over \in BOOLEAN, Proceed(t, over),
             over => Exists(endFile'[cur[t]]), cur[t] \in seen[t].over => over
      PROVE  ThreadListing(t)' /\ ThreadMine(t)'
    <2>1. Listed(t, over)
        BY <1>5 DEF Proceed, ListOps
    <2> QED  BY <1>0, <1>1, <1>2, <1>5, <2>1, ListedListing
<1>6. CASE CheckAuctionValidity(t)
    <2>1. CASE Expired(cur[t])
        BY <1>0, <1>2, <1>4, <1>6, <2>1 DEF CheckAuctionValidity, CloseLabels
    <2>2. CASE ~Expired(cur[t])
        <3>1. Proceed(t, FALSE)
            BY <1>2, <1>6, <2>2 DEF CheckAuctionValidity, ListOps
        <3>2. cur[t] \notin seen[t].over
            BY <1>0, <1>6, <2>2 DEF CheckAuctionValidity, At, U!At, ThreadListing
        <3> QED  BY <1>5, <3>1, <3>2
    <2> QED  BY <2>1, <2>2
<1>7. CASE CloseCheck(t)
    BY <1>2, <1>3, <1>4, <1>5, <1>7 DEF CloseCheck, Closed, CloseLabels, ListOps
<1>8. CASE CloseCreate(t)
    BY <1>4, <1>8 DEF CloseCreate, CloseLabels, localVars
<1>9. CASE CloseWrite(t)
    <2>1. Exists(endFile'[cur[t]])
        BY <1>0, <1>2, <1>3, <1>9 DEF CloseWrite, At, U!At, ThreadEnds, ClosesForReason
    <2> QED  BY <1>5, <1>9, <2>1 DEF CloseWrite, Closed, ListOps
<1> QED  BY <1>6, <1>7, <1>8, <1>9

LEMMA ListAuctionListing ==
    ASSUME ListInv, [Next]_vars, NEW t \in Threads, pc'[t] # "idle", ListAuction(t)
    PROVE  ThreadListing(t)' /\ ThreadMine(t)'
<1>0. /\ EndInv /\ TypeInv /\ ThreadsTyped /\ LocalsTyped /\ ThreadAtAuction(t) /\ ThreadListing(t)
      /\ ThreadEnds(t) /\ pc[t] # "idle" /\ req[t].op \in ListOps
      /\ pc[t] \in {"authorized", "nextAuction"}
    BY DEF ListInv, EndInv, FlowInv, TypeInv, AtAuction, ThreadAtAuction, ListAuction, Authorized,
           At, U!At
<1>1. req'[t] = req[t] /\ seen'[t] = seen[t] /\ OverStays(t)
    BY <1>0, StepOverStays DEF Step, ThreadEnds
<1>2. UNCHANGED <<clock, endFile, early>>
    BY <1>0 DEF ListAuction, Authorized, At, fileVars
<1>3. CASE NumAuctions = 0
    <2>1. Throw(t, IF req[t].op = "LMB" THEN "NoOngoingBids" ELSE "NoAuctions") /\ ended'[t] = ended[t]
        BY <1>3 DEF ListAuction
    <2> QED  BY <1>0, <1>1, <2>1, ThrowsListing
<1>4. CASE NumAuctions # 0
    <2>1. cur[t] \in Auctions
        BY <1>0, <1>4, NumbersAssumption DEF ThreadAtAuction, ThreadListing, Auctions, Labels,
                                             AuctionOps, ListOps
    <2>2. CASE Exists(endFile[cur[t]])
        <3>1. Listed(t, TRUE)
            BY <1>4, <2>2 DEF ListAuction
        <3> QED  BY <1>0, <1>1, <1>2, <2>1, <2>2, <3>1, ListedListing
    <2>3. CASE ~Exists(endFile[cur[t]])
        <3>1. pc'[t] = "checkAuctionValidity" /\ cur'[t] = cur[t] /\ ended'[t] = ended[t]
            BY <1>0, <1>4, <2>3 DEF ListAuction, Goto, U!Goto, ThreadsTyped
        <3>2. cur[t] \in seen[t].over => Expired(cur[t])'
            BY <1>1, <1>2, <2>3, <3>1 DEF OverStays, Expired, Deadline
        <3> QED  BY <1>0, <1>1, <3>1, <3>2, KeepsListing
    <2> QED  BY <2>2, <2>3
<1> QED  BY <1>3, <1>4

(* listUserAuctions and getAuctionsBiddedByUser pick out the user's own. *)
LEMMA MineListing ==
    ASSUME ListInv, [Next]_vars, NEW t \in Threads, pc'[t] # "idle",
           GetAuctionInfo(t) \/ GetAuctionBidders(t)
    PROVE  ThreadListing(t)' /\ ThreadMine(t)'
<1>0. /\ FlowInv /\ EndInv /\ TypeInv /\ ThreadsTyped /\ LocalsTyped /\ ThreadListing(t) /\ ThreadMine(t)
      /\ pc[t] \in {"getAuctionInfo", "getAuctionBidders"}
      /\ req[t].op \in ServedAt(pc[t])
    BY DEF ListInv, EndInv, FlowInv, TypeInv, ThreadServes, GetAuctionInfo, GetAuctionBidders, At, U!At
<1>1. req'[t] = req[t] /\ seen'[t] = seen[t] /\ pc[t] # "idle"
    BY <1>0, StepOverStays DEF Step
<1>2. req[t].op = IF pc[t] = "getAuctionInfo" THEN "LMA" ELSE "LMB"
    BY <1>0 DEF ServedAt, U!UdpLabels, CloseLabels
<1>3. /\ ended' = ended /\ (\A a \in Auctions : Exists(endFile[a]) => Exists(endFile'[a]))
      /\ seen[t].over \subseteq ended[t]
    BY <1>0, <1>1, <1>2, FilesStay DEF GetAuctionInfo, GetAuctionBidders, ThreadListing, ListOps
<1>4. pc'[t] \in {"getAuctionBidders", "send"}
    BY <1>0
    DEF GetAuctionInfo, GetAuctionBidders, Goto, U!Goto, Throw, U!Throw, Answer, U!Answer, ThreadsTyped
<1>5. ThreadListing(t)'
    BY <1>0, <1>1, <1>3, <1>4 DEF ThreadListing, LocalsTyped, CloseLabels, U!AuthLabels
<1>6. CASE GetAuctionInfo(t)
    <2>1. req[t].op = "LMA" /\ seen[t].standing = {} /\ pc'[t] = "send"
        BY <1>0, <1>1, <1>2, <1>6
        DEF GetAuctionInfo, At, U!At, Throw, U!Throw, Answer, U!Answer, ThreadsTyped, ThreadMine,
            ListOps
    <2> QED  BY <1>1, <1>5, <2>1 DEF ThreadMine
<1>7. CASE GetAuctionBidders(t)
    <2>1. pc[t] = "getAuctionBidders" /\ req[t].op = "LMB"
        BY <1>2, <1>7 DEF GetAuctionBidders, At, U!At
    <2>2. cur[t] \in Auctions /\ req[t].uid \in Users
        BY <1>0, <1>1, <2>1, RequestFields DEF TypeInv, AtAuction, ThreadAtAuction, Labels
    <2>3. cur[t] \in seen[t].standing => \E v \in BidsOn(cur[t]) : BidderOf(cur[t], v) = req[t].uid
        BY <1>0, <1>1, <2>1, <2>2, FileContentsAssumption
        DEF ThreadMine, Stands, BidsOn, BidderOf, Exists, ListOps
    <2>4. mine'[t] = IF \E v \in BidsOn(cur[t]) : BidderOf(cur[t], v) = req[t].uid
                     THEN mine[t] \union {cur[t]} ELSE mine[t]
        BY <1>0, <1>7 DEF GetAuctionBidders, LocalsTyped
    <2>5. \A a \in seen[t].standing : a < cur[t] => a \in mine[t]
        BY <1>0, <1>1, <2>1 DEF ThreadMine, ListOps
    <2>6. \A a \in seen[t].standing : a <= cur[t] => a \in mine'[t]
        <3>1. ASSUME NEW a \in seen[t].standing, a <= cur[t]  PROVE a < cur[t] \/ a = cur[t]
            <4>1. a \in Auctions
                BY <1>0, <3>1 DEF LocalsTyped
            <4>2. a \in Int /\ cur[t] \in Int
                BY <2>2, <4>1 DEF Auctions
            <4> QED  BY <3>1, <4>2
        <3>2. cur[t] \in seen[t].standing => cur[t] \in mine'[t]
            BY <2>3, <2>4
        <3>3. mine[t] \subseteq mine'[t]
            BY <2>4
        <3> QED  BY <2>5, <3>1, <3>2, <3>3
    <2>7. (\A a \in seen[t].standing : \E v \in Values : Stands(a, v, req[t].uid))'
        BY <1>1, <2>1, StandingStays DEF ListOps
    <2>8. CASE Throw(t, "NoOngoingBids")
        BY <1>1, <1>3, <2>1, <2>8, ThrowsListing DEF ListOps
    <2>9. CASE Goto(t, "getAuctionBidders") /\ cur' = [cur EXCEPT ![t] = @ + 1]
        <3>1. pc'[t] = "getAuctionBidders" /\ cur'[t] = cur[t] + 1
            BY <1>0, <2>9 DEF Goto, U!Goto, ThreadsTyped, LocalsTyped
        <3>2. \A a \in seen[t].standing : a < cur'[t] => a \in mine'[t]
            BY <1>0, <2>2, <2>6, <3>1 DEF LocalsTyped, Auctions
        <3> QED  BY <1>1, <1>5, <2>1, <2>7, <3>1, <3>2 DEF ThreadMine
    <2>10. CASE Answer(t, "OK") /\ cur[t] = NumAuctions
        <3>1. pc'[t] = "send"
            BY <1>0, <2>10 DEF Answer, U!Answer, ThreadsTyped
        <3>2. seen[t].standing \subseteq mine'[t]
            BY <1>0, <2>2, <2>6, <2>10, NumbersAssumption DEF LocalsTyped, Auctions
        <3> QED  BY <1>1, <1>5, <2>1, <2>7, <3>1, <3>2 DEF ThreadMine
    <2> QED  BY <1>7, <2>8, <2>9, <2>10 DEF GetAuctionBidders
<1> QED  BY <1>6, <1>7

(* A busy thread is done once its answer is sent, or the process dies. *)
LEMMA BecomesIdle ==
    ASSUME TypeInv, NEW t \in Threads, Step(t), pc'[t] = "idle"
    PROVE  Send(t) \/ \E what : Fault(what) /\ LocalsLost
<1>0. ThreadsTyped
    BY DEF TypeInv
<1> USE <1>0 DEF Goto, U!Goto, Answer, U!Answer, Throw, U!Throw, ThreadsTyped
<1>1. ~(Authenticate(t) \/ ManageAccount(t))
    BY DEF Authenticate, ManageAccount, U!Authenticate, U!ManageAccount, U!UserExists,
           U!GetUserPassword, U!IsUserLoggedIn, U!CreatePass, U!WritePass, U!Login,
           U!CreateLogin, U!Logout, U!DeleteLogin, U!UnregisterUser, U!DeletePass
<1>2. ~(\E over \in BOOLEAN : Proceed(t, over) \/ Listed(t, over))
    BY DEF Proceed, Listed
<1>3. CASE CheckAuctionValidity(t) \/ CloseCheck(t) \/ CloseCreate(t) \/ CloseWrite(t)
    BY <1>2, <1>3 DEF CheckAuctionValidity, CloseCheck, CloseCreate, CloseWrite, Closed
<1>4. CASE GetAuctionBids(t) \/ GetAuctionEndInfo(t)
    BY <1>4 DEF GetAuctionBids, GetAuctionEndInfo
<1>5. ~(\/ BidEndExists(t) \/ DirectoryExists(t) \/ GetAuctionOwner(t)
        \/ GetLargestBid(t) \/ CreateBid(t) \/ WriteBid(t) \/ GetAuctionAsset(t))
    BY DEF BidEndExists, DirectoryExists, GetAuctionOwner, GetLargestBid, CreateBid, WriteBid,
           GetAuctionAsset
<1>6. ~(ListAuction(t) \/ GetAuctionInfo(t) \/ GetAuctionBidders(t))
    BY <1>2 DEF ListAuction, GetAuctionInfo, GetAuctionBidders
<1> QED  BY <1>1, <1>3, <1>4, <1>5, <1>6 DEF Step

LEMMA StepListing ==
    ASSUME ListInv, [Next]_vars, NEW t \in Threads, Step(t)
    PROVE  ThreadListing(t)' /\ ThreadMine(t)'
<1>0. /\ FlowInv /\ TypeInv /\ ThreadsTyped /\ LocalsTyped /\ EndInv /\ ThreadServes(t)
      /\ ThreadListing(t) /\ ThreadMine(t)
    BY DEF ListInv, EndInv, FlowInv, TypeInv
<1>1. CASE req[t].op \notin ListOps /\ pc'[t] # "idle"
    <2>1. req'[t] = req[t]
        BY <1>0, <1>1, StepOverStays
    <2>2. ended'[t] = ended[t]
        <3>1. ~Send(t)
            BY <1>0, <1>1 DEF Send, U!Send, ThreadsTyped
        <3>2. ~\E what : Fault(what)
            BY <1>0, <1>1 DEF Fault
        <3>3. ASSUME NEW over \in BOOLEAN, Proceed(t, over)  PROVE ended' = ended
            BY <1>1, <3>3 DEF Proceed
        <3>4. CASE CheckAuctionValidity(t) \/ CloseCheck(t) \/ CloseCreate(t) \/ CloseWrite(t)
            BY <3>2, <3>3, <3>4
            DEF CheckAuctionValidity, CloseCheck, CloseCreate, CloseWrite, Closed, localVars
        <3>5. CASE ~(CheckAuctionValidity(t) \/ CloseCheck(t) \/ CloseCreate(t) \/ CloseWrite(t))
            BY <1>0, <1>1, <3>1, <3>2, <3>5
            DEF Step, Authenticate, ManageAccount, BidEndExists, DirectoryExists, GetAuctionOwner,
                GetLargestBid, CreateBid, WriteBid, GetAuctionAsset, GetAuctionBids,
                GetAuctionEndInfo, ListAuction, Authorized, At, U!At, GetAuctionInfo, GetAuctionBidders,
                localVars, TypeInv, AtAuction, ThreadAtAuction
        <3> QED  BY <3>4, <3>5
    <2>3. \A a \in Auctions : Exists(endFile[a]) => Exists(endFile'[a])
        BY <1>0, FilesStay
    <2> QED  BY <1>0, <1>1, <2>1, <2>2, <2>3 DEF ThreadListing, ThreadMine, LocalsTyped
<1>2. CASE pc'[t] = "idle"
    <2>1. ended'[t] = {}
        BY <1>0, <1>2, BecomesIdle DEF Send, LocalsLost, LocalsTyped
    <2> QED  BY <1>2, <2>1 DEF ThreadListing, ThreadMine
<1>3. CASE req[t].op \in ListOps /\ pc'[t] # "idle"
    <2>1. pc[t] # "idle" /\ req'[t] = req[t] /\ seen'[t] = seen[t] /\ req[t].op \in ServedAt(pc[t])
        BY <1>0, <1>3, StepOverStays DEF ThreadServes
    <2>2. CASE Authenticate(t)
        <3>1. pc[t] = "isUserLoggedIn" /\ req[t].op # "LST" /\ U!IsUserLoggedIn(t) /\ UNCHANGED fault
            BY <1>3, <2>1, <2>2
            DEF Authenticate, U!Authenticate, U!UserExists, U!GetUserPassword, U!IsUserLoggedIn, U!At,
                ServedAt, U!UdpLabels, U!AccountOps, CloseLabels, ListOps
        <3>2. UNCHANGED <<cur, ended, mine, clock, endFile>>
            BY <2>2 DEF Authenticate, localVars, fileVars
        <3>3. CASE Throw(t, "UserNotLoggedIn")
            BY <1>3, <2>1, <3>1, <3>2, <3>3, ThrowsListing
        <3>4. CASE ~Throw(t, "UserNotLoggedIn")
            <4>1. pc'[t] = "authorized"
                BY <1>0, <1>3, <3>1, <3>4
                DEF U!IsUserLoggedIn, U!Goto, Throw, U!Op, U!AccountOps, ListOps, ThreadsTyped
            <4>2. cur'[t] = 1
                BY <1>0, <1>3, <2>1, <3>1, <3>2 DEF ThreadListing, U!AuthLabels
            <4>3. ThreadListing(t)'
                BY <1>0, <2>1, <3>2, <4>1, <4>2 DEF ThreadListing, LocalsTyped, Auctions, CloseLabels
            <4>4. ThreadMine(t)'
                BY <1>0, <1>3, <2>1, <4>1, StandingStays DEF ThreadMine
            <4> QED  BY <4>3, <4>4
        <3> QED  BY <3>3, <3>4
    <2>3. ~ManageAccount(t) /\ ~Send(t)
        <3>1. pc[t] \notin U!UdpLabels
            BY <1>3, <2>1 DEF ServedAt, U!UdpLabels, U!AccountOps, ListOps, CloseLabels
        <3>2. ~ManageAccount(t)
            BY <3>1
            DEF ManageAccount, U!ManageAccount, U!At, U!CreatePass, U!WritePass, U!Login, U!CreateLogin,
                U!Logout, U!DeleteLogin, U!UnregisterUser, U!DeletePass, U!UdpLabels
        <3>3. ~Send(t)
            BY <1>0, <1>3 DEF Send, U!Send, ThreadsTyped
        <3> QED  BY <3>2, <3>3
    <2>4. ~(\/ BidEndExists(t) \/ DirectoryExists(t) \/ GetAuctionOwner(t) \/ GetLargestBid(t)
            \/ CreateBid(t) \/ WriteBid(t) \/ GetAuctionAsset(t) \/ GetAuctionBids(t)
            \/ GetAuctionEndInfo(t))
        BY <1>3, <2>1
        DEF BidEndExists, DirectoryExists, GetAuctionOwner, GetLargestBid, CreateBid, WriteBid,
            GetAuctionAsset, GetAuctionBids, GetAuctionEndInfo, Authorized, At, U!At, ServedAt,
            U!UdpLabels, CloseLabels, ListOps
    <2> QED
        BY <1>3, <2>2, <2>3, <2>4, CheckListing, ListAuctionListing, MineListing DEF Step
<1> QED  BY <1>1, <1>2, <1>3

LEMMA NextListInv == ListInv /\ [Next]_vars => ListInv'
<1> SUFFICES ASSUME ListInv, [Next]_vars, NEW u \in Threads
             PROVE  ThreadListing(u)' /\ ThreadMine(u)'
    BY NextEndInv DEF ListInv
<1>0. TypeInv /\ ThreadServes(u) /\ ThreadListing(u) /\ LocalsTyped
    BY DEF ListInv, EndInv, FlowInv, TypeInv
<1>1. ASSUME NEW t \in Threads, Receive(t) \/ Step(t)  PROVE ThreadListing(u)' /\ ThreadMine(u)'
    <2>1. CASE u # t
        BY <1>0, <1>1, <2>1, OthersUntouched, UntouchedListing
    <2> QED  BY <1>1, <2>1, ReceiveListing, StepListing
<1>2. CASE Crash
    <2>1. U!Threads = Threads
        BY DEF U!Threads, Threads
    <2>2. pc'[u] = "idle" /\ ended'[u] = {}
        BY <1>2, <2>1 DEF Crash, U!Crash, LocalsLost
    <2> QED  BY <2>2 DEF ThreadListing, ThreadMine
<1>3. CASE Restart
    <2>1. pc[u] = "idle" /\ UNCHANGED <<pc, ended, endFile>>
        BY <1>0, <1>3 DEF Restart, U!Restart, ThreadServes, localVars, fileVars
    <2> QED  BY <1>0, <2>1 DEF ThreadListing, ThreadMine
<1>4. CASE Tick \/ UNCHANGED vars
    BY <1>4, UntouchedListing DEF Tick, vars, userVars, localVars, Untouched
<1> QED  BY <1>1, <1>2, <1>3, <1>4 DEF Next

LEMMA InitListInv == Init => ListInv
    BY InitEndInv DEF Init, ListInv, ThreadListing, ThreadMine

(* A listing shows as over every auction that was over when it was asked for,
   and leaves out none that its user had a bid on that nobody was about to
   overwrite, although auctions are closed and bids filed while it is made. *)
THEOREM ListingsAreCurrent == Spec => []ListingIsCurrent
<1>1. ListInv => ListingIsCurrent
    BY DEF ListInv, ListingIsCurrent, ThreadListing, ThreadMine
<1> QED  BY <1>1, InitListInv, NextListInv, PTL DEF Spec

-----------------------------------------------------------------------------
(* Every step of a thread is a step of AuctionHouse, or none. *)

(* A bid is on file when it is written. *)
BidFiled(t) == pc[t] = "writeBid" => Exists(bidFile[cur[t]][req[t].val])

HouseInv == BidInv /\ RecordInv /\ ListInv /\ \A t \in Threads : BidFiled(t)

LEMMA NextHouseInv == HouseInv /\ [Next]_vars => HouseInv'
<1> SUFFICES ASSUME HouseInv, [Next]_vars, NEW u \in Threads  PROVE BidFiled(u)'
    BY NextBidInv, NextRecordInv, NextListInv DEF HouseInv
<1>0. TypeInv /\ ThreadsTyped /\ AuctionsTyped /\ BidFiled(u) /\ AtAuction
    BY DEF HouseInv, BidInv, TypeInv
<1>1. \A a \in Auctions, v \in Values : Exists(bidFile[a][v]) => Exists(bidFile'[a][v])
    BY <1>0, FilesStay
<1>2. pc[u] \in {"createBid", "writeBid"} => cur[u] \in Auctions /\ req[u].val \in Values
    BY <1>0, RequestFields DEF AtAuction, ThreadAtAuction, Labels
<1>3. CASE Untouched(u) \/ pc'[u] # "writeBid"
    BY <1>0, <1>1, <1>2, <1>3 DEF BidFiled, Untouched
<1>4. CASE Step(u) /\ pc'[u] = "writeBid"
    <2>1. CreateBid(u)
        <3>1. GetLargestBid(u) \/ CreateBid(u)
            BY <1>0, <1>4, OnlyBidsGoOn
        <3>2. ~GetLargestBid(u)
            BY <1>0, <1>4 DEF GetLargestBid, Goto, U!Goto, Throw, U!Throw, U!Answer, ThreadsTyped
        <3> QED  BY <3>1, <3>2
    <2>2. pc[u] = "createBid" /\ cur' = cur /\ req' = req
        BY <2>1 DEF CreateBid, At, U!At, Goto, U!Goto, localVars
    <2>3. Exists(bidFile'[cur[u]][req[u].val])
        BY <1>0, <1>2, <2>1, <2>2, FileContentsAssumption DEF CreateBid, AuctionsTyped, Exists
    <2> QED  BY <2>2, <2>3 DEF BidFiled
<1>5. ASSUME NEW t \in Threads \ {u}, Receive(t) \/ Step(t)
      PROVE  Untouched(u) \/ pc'[u] # "writeBid"
    BY <1>0, <1>5, OthersUntouched DEF Forgotten
<1>6. Receive(u) => pc'[u] # "writeBid"
    BY <1>0 DEF Receive, U!Receive, U!FirstStep, ThreadsTyped
<1>7. Crash => pc'[u] # "writeBid"
    <2>1. U!Threads = Threads
        BY DEF U!Threads, Threads
    <2> QED  BY <2>1 DEF Crash, U!Crash
<1>8. CASE Restart
    BY <1>0, <1>8 DEF Restart, U!Restart, localVars, fileVars, BidFiled
<1>9. Tick \/ UNCHANGED vars => Untouched(u)
    BY DEF Tick, vars, userVars, localVars, Untouched
<1> QED  BY <1>3, <1>4, <1>5, <1>6, <1>7, <1>8, <1>9 DEF Next

LEMMA InitHouseInv == Init => HouseInv
    BY InitBidInv, InitRecordInv, InitListInv DEF Init, HouseInv, BidFiled

(* What a thread is to AuctionHouse, and what becomes of it. *)
SameView(u) ==
    /\ houseCall'[u] = houseCall[u] /\ houseFound'[u] = houseFound[u]
    /\ houseAnswer'[u] = houseAnswer[u] /\ houseTold'[u] = houseTold[u]

BlankView(u) ==
    /\ houseCall'[u] = U!NoRequest /\ houseFound'[u] = [bids |-> {}, over |-> {}]
    /\ houseAnswer'[u] = "none" /\ houseTold'[u] = [bids |-> {}, over |-> {}]

LEMMA UntouchedView ==
    ASSUME NEW u \in Threads, Untouched(u)
    PROVE  SameView(u)
<1>1. Calls(u)' = Calls(u)
    BY DEF Untouched, Calls
<1>2. Answered(u, "SRC", "OK")' = Answered(u, "SRC", "OK")
    BY DEF Untouched, Answered
<1>3. Told(u)' = Told(u)
    BY <1>2 DEF Untouched, Told
<1> QED  BY <1>1, <1>3 DEF SameView, Untouched, houseCall, houseFound, houseAnswer, houseTold

LEMMA IdleView ==
    ASSUME NEW u \in Threads, req'[u] = U!NoRequest
    PROVE  BlankView(u)
<1>1. ~Calls(u)' /\ ~(req'[u].op = "SRC") /\ ~(req'[u].op \in ListOps)
    BY DEF Calls, U!NoRequest, AuctionOps, ListOps
<1>2. Told(u)' = [bids |-> {}, over |-> {}]
    BY <1>1 DEF Told, Answered
<1> QED  BY <1>1, <1>2 DEF BlankView, houseCall, houseFound, houseAnswer, houseTold

(* A step of a request that goes on, or of one that is none of the house's. *)
LEMMA BusyView ==
    ASSUME NEW t \in Threads, req'[t] = req[t], reply'[t] = reply[t], seen'[t] = seen[t],
           pc[t] # "send", pc'[t] # "send"
    PROVE  SameView(t)
    BY DEF SameView, houseCall, houseFound, houseAnswer, houseTold, Calls, Told, Answered

LEMMA AccountView ==
    ASSUME NEW t \in Threads, ~Calls(t), ~Calls(t)'
    PROVE  SameView(t)
    BY DEF SameView, houseCall, houseFound, houseAnswer, houseTold, Calls, Told, Answered,
           AuctionOps, ListOps

(* Files and clock. *)
LEMMA SameFiles ==
    ASSUME UNCHANGED <<clock, endFile, bidFile>>
    PROVE  UNCHANGED <<houseBids, houseOver, houseDue>>
    BY DEF houseBids, houseOver, houseDue, BidsOn, Expired, Deadline

LEMMA SameThreads ==
    ASSUME \A u \in Threads : SameView(u)
    PROVE  UNCHANGED <<houseCall, houseFound, houseAnswer, houseTold>>
<1>1. /\ houseCall = [u \in Threads |-> houseCall[u]] /\ houseCall' = [u \in Threads |-> houseCall'[u]]
      /\ houseFound = [u \in Threads |-> houseFound[u]]
      /\ houseFound' = [u \in Threads |-> houseFound'[u]]
      /\ houseAnswer = [u \in Threads |-> houseAnswer[u]]
      /\ houseAnswer' = [u \in Threads |-> houseAnswer'[u]]
      /\ houseTold = [u \in Threads |-> houseTold[u]] /\ houseTold' = [u \in Threads |-> houseTold'[u]]
    BY DEF houseCall, houseFound, houseAnswer, houseTold
<1> QED  BY <1>1 DEF SameView

LEMMA HouseMoves ==
    ASSUME NEW t \in Threads, \A u \in Threads \ {t} : SameView(u)
    PROVE  /\ houseCall' = [houseCall EXCEPT ![t] = houseCall'[t]]
           /\ houseFound' = [houseFound EXCEPT ![t] = houseFound'[t]]
           /\ houseAnswer' = [houseAnswer EXCEPT ![t] = houseAnswer'[t]]
           /\ houseTold' = [houseTold EXCEPT ![t] = houseTold'[t]]
<1>1. /\ houseCall = [u \in Threads |-> houseCall[u]] /\ houseCall' = [u \in Threads |-> houseCall'[u]]
      /\ houseFound = [u \in Threads |-> houseFound[u]]
      /\ houseFound' = [u \in Threads |-> houseFound'[u]]
      /\ houseAnswer = [u \in Threads |-> houseAnswer[u]]
      /\ houseAnswer' = [u \in Threads |-> houseAnswer'[u]]
      /\ houseTold = [u \in Threads |-> houseTold[u]] /\ houseTold' = [u \in Threads |-> houseTold'[u]]
    BY DEF houseCall, houseFound, houseAnswer, houseTold
<1> QED  BY <1>1 DEF SameView

(* The statuses that the handlers of the house's requests put on the wire. *)
LEMMA HouseStatuses ==
    /\ U!Sent("BID", U!Caught("BID", "InvalidCredentials")) = "ERR"
    /\ U!Sent("BID", U!Caught("BID", "UserNotLoggedIn")) = "NLG"
    /\ U!Sent("BID", U!Caught("BID", "NonActiveAuction")) = "NOK"
    /\ U!Sent("BID", U!Caught("BID", "BidRefused")) = "REF"
    /\ U!Sent("BID", U!Caught("BID", "IllegalBid")) = "ILG"
    /\ U!Sent("BID", "ACC") = "ACC"
    /\ U!Sent("CLS", U!Caught("CLS", "InvalidCredentials")) = "ERR packet"
    /\ U!Sent("CLS", U!Caught("CLS", "UserNotLoggedIn")) = "NLG"
    /\ U!Sent("CLS", U!Caught("CLS", "AuctionNotFound")) = "EAU"
    /\ U!Sent("CLS", U!Caught("CLS", "IncorrectAuctionOwner")) = "EOW"
    /\ U!Sent("CLS", U!Caught("CLS", "NonActiveAuction")) = "END"
    /\ U!Sent("CLS", "OK") = "OK"
    /\ U!Sent("SRC", U!Caught("SRC", "AuctionNotFound")) = "NOK"
    /\ U!Sent("SRC", "OK") = "OK"
    /\ U!Sent("SAS", U!Caught("SAS", "AuctionNotFound")) = "NOK"
    /\ U!Sent("SAS", "OK") = "OK"
    /\ \A op \in ListOps : U!Sent(op, "OK") = "OK"
    /\ \A op \in {"LMA", "LMB"} : U!Sent(op, U!Caught(op, "UserNotLoggedIn")) = "NLG"
    /\ \A op \in {"LST", "LMA"} : U!Sent(op, U!Caught(op, "NoAuctions")) = "NOK"
    /\ U!Sent("LMB", U!Caught("LMB", "NoOngoingBids")) = "NOK"
<1> USE DEF U!Sent, U!Caught, U!Handler, U!Response, U!ErrorPacket
<1>1. /\ U!Sent("BID", U!Caught("BID", "InvalidCredentials")) = "ERR"
      /\ U!Sent("BID", U!Caught("BID", "UserNotLoggedIn")) = "NLG"
      /\ U!Sent("BID", U!Caught("BID", "NonActiveAuction")) = "NOK"
      /\ U!Sent("BID", U!Caught("BID", "BidRefused")) = "REF"
      /\ U!Sent("BID", U!Caught("BID", "IllegalBid")) = "ILG"
      /\ U!Sent("BID", "ACC") = "ACC"
    BY DEF U!handleBid, U!BidResponse
<1>2. /\ U!Sent("CLS", U!Caught("CLS", "InvalidCredentials")) = "ERR packet"
      /\ U!Sent("CLS", U!Caught("CLS", "UserNotLoggedIn")) = "NLG"
      /\ U!Sent("CLS", U!Caught("CLS", "AuctionNotFound")) = "EAU"
      /\ U!Sent("CLS", U!Caught("CLS", "IncorrectAuctionOwner")) = "EOW"
      /\ U!Sent("CLS", U!Caught("CLS", "NonActiveAuction")) = "END"
      /\ U!Sent("CLS", "OK") = "OK"
    BY DEF U!handleCloseAuction, U!CloseAuctionResponse
<1>3. /\ U!Sent("SRC", U!Caught("SRC", "AuctionNotFound")) = "NOK"
      /\ U!Sent("SRC", "OK") = "OK"
      /\ U!Sent("SAS", U!Caught("SAS", "AuctionNotFound")) = "NOK"
      /\ U!Sent("SAS", "OK") = "OK"
    BY DEF U!handleShowRecord, U!ShowRecordResponse, U!handleShowAsset, U!ShowAssetResponse
<1>4. \A op \in ListOps : U!Sent(op, "OK") = "OK"
    BY DEF ListOps, U!ListUserAuctionsResponse, U!ListUserBidsResponse, U!ListAuctionsResponse
<1>5. /\ \A op \in {"LMA", "LMB"} : U!Sent(op, U!Caught(op, "UserNotLoggedIn")) = "NLG"
      /\ \A op \in {"LST", "LMA"} : U!Sent(op, U!Caught(op, "NoAuctions")) = "NOK"
      /\ U!Sent("LMB", U!Caught("LMB", "NoOngoingBids")) = "NOK"
    BY DEF U!handleListAuctions, U!handleListUserAuctions, U!handleListUserBids,
           U!ListUserAuctionsResponse, U!ListUserBidsResponse, U!ListAuctionsResponse
<1> QED  BY <1>1, <1>2, <1>3, <1>4, <1>5

(* What is left to show of a step that sets the status of a request. *)
LEMMA Answers ==
    ASSUME HouseInv, HouseInv', NEW t \in Threads, Calls(t), pc[t] \notin {"idle", "send"},
           pc'[t] = "send", req'[t] = req[t], seen'[t] = seen[t],
           UNCHANGED <<houseBids, houseOver, houseDue>>,
           \A u \in Threads \ {t} : SameView(u),
           House!Truthful(t, reply'[t], houseTold'[t])
    PROVE  House!Answer(t)
<1>0. /\ ThreadServes(t) /\ ThreadServes(t)' /\ ThreadsTyped' /\ LocalsTyped' /\ ThreadRecord(t)'
      /\ ThreadAtAuction(t)'
    BY DEF HouseInv, RecordInv, EndInv, FlowInv, TypeInv, AtAuction
<1>1. /\ houseCall[t] # U!NoRequest /\ houseAnswer[t] = "none"
      /\ houseCall'[t] = houseCall[t] /\ houseFound'[t] = houseFound[t] /\ houseAnswer'[t] = reply'[t]
    <2>1. req[t] # U!NoRequest /\ Calls(t)'
        BY DEF Calls, U!NoRequest, AuctionOps, ListOps
    <2> QED
        BY <1>0, <2>1 DEF ThreadServes, houseCall, houseFound, houseAnswer
<1>2. reply'[t] \in Statuses
    BY <1>0 DEF ThreadServes, ThreadsTyped
<1>3. houseTold'[t] \in [bids : SUBSET Values, over : SUBSET Auctions]
    <2>1. houseTold'[t] = Told(t)'
        BY DEF houseTold
    <2>2. CASE Answered(t, "SRC", "OK")'
        <3>1. req'[t].aid \in Auctions
            BY <1>0, <2>2 DEF ThreadRecord, ThreadAtAuction, Answered, AuctionOps
        <3> QED  BY <1>0, <2>1, <2>2, <3>1 DEF Told, LocalsTyped
    <2>3. CASE ~Answered(t, "SRC", "OK")'
        BY <1>0, <2>1, <2>3 DEF Told, LocalsTyped
    <2> QED  BY <2>2, <2>3
<1>4. houseCall' = houseCall /\ houseFound' = houseFound
    <2>1. /\ houseCall = [u \in Threads |-> houseCall[u]]
          /\ houseCall' = [u \in Threads |-> houseCall'[u]]
          /\ houseFound = [u \in Threads |-> houseFound[u]]
          /\ houseFound' = [u \in Threads |-> houseFound'[u]]
        BY DEF houseCall, houseFound
    <2> QED  BY <1>1, <2>1 DEF SameView
<1>5. /\ houseAnswer' = [houseAnswer EXCEPT ![t] = reply'[t]]
      /\ houseTold' = [houseTold EXCEPT ![t] = houseTold'[t]]
    BY <1>1, HouseMoves
<1>6. House!Statuses = Statuses
    BY DEF House!Statuses, Statuses, House!ErrorPacket, ErrorPacket
<1> QED  BY <1>1, <1>2, <1>3, <1>4, <1>5, <1>6 DEF House!Answer

(* The authentication of a request of the house answers it with an exception. *)
LEMMA AuthenticationAnswers ==
    ASSUME HouseInv, NEW t \in Threads, Authenticate(t), Calls(t), pc'[t] = "send", pc[t] # "send"
    PROVE  /\ req[t].op \in {"BID", "CLS", "LMA", "LMB"}
           /\ reply'[t] \in {"ERR", "ERR packet", "NLG"}
           /\ req[t].op \in {"LMA", "LMB"} => reply'[t] = "NLG"
<1>0. ThreadServes(t) /\ ThreadsTyped
    BY DEF HouseInv, BidInv, RecordInv, EndInv, FlowInv, TypeInv
<1>1. /\ pc[t] \in {"userExists", "getUserPassword", "isUserLoggedIn"}
      /\ pc[t] \in {"userExists", "getUserPassword"} => req[t].op \in {"BID", "CLS"}
      /\ req[t].op \in {"BID", "CLS", "LMA", "LMB"}
    BY <1>0
    DEF Authenticate, U!Authenticate, U!UserExists, U!GetUserPassword, U!IsUserLoggedIn, U!At,
        ThreadServes, ServedAt, U!AccountOps, CloseLabels, U!UdpLabels, Calls, AuctionOps, ListOps
<1>2. \E e \in {"InvalidCredentials", "UserNotLoggedIn"} :
         /\ Throw(t, e)
         /\ req[t].op \in {"LMA", "LMB"} => e = "UserNotLoggedIn"
    BY <1>0, <1>1
    DEF Authenticate, U!Authenticate, U!UserExists, U!GetUserPassword, U!IsUserLoggedIn, U!At,
        U!Goto, Throw, ThreadsTyped, U!AccountOps, U!Op
<1>3. PICK e \in {"InvalidCredentials", "UserNotLoggedIn"} :
         /\ reply'[t] = U!Sent(req[t].op, U!Caught(req[t].op, e))
         /\ req[t].op \in {"LMA", "LMB"} => e = "UserNotLoggedIn"
    BY <1>0, <1>2 DEF Throw, U!Throw, U!Answer, U!Op, ThreadsTyped
<1>4. CASE req[t].op \in {"BID", "CLS"}
    <2>1. reply'[t] \in {"ERR", "ERR packet", "NLG"}
        BY <1>3, <1>4, HouseStatuses, Zenon
    <2> QED  BY <1>4, <2>1
<1>5. CASE req[t].op \in {"LMA", "LMB"}
    <2>1. reply'[t] = "NLG"
        BY <1>3, <1>5, HouseStatuses, Zenon
    <2> QED  BY <1>5, <2>1
<1> QED  BY <1>1, <1>4, <1>5

LEMMA ThrowReplies ==
    ASSUME ThreadsTyped, NEW t \in Threads, NEW e, Throw(t, e)
    PROVE  reply'[t] = U!Sent(req[t].op, U!Caught(req[t].op, e))
    BY DEF Throw, U!Throw, U!Answer, U!Op, ThreadsTyped

LEMMA AnswerReplies ==
    ASSUME ThreadsTyped, NEW t \in Threads, NEW s, Answer(t, s)
    PROVE  reply'[t] = U!Sent(req[t].op, s)
    BY DEF Answer, U!Answer, U!Op, ThreadsTyped

LEMMA GotoNotSend ==
    ASSUME ThreadsTyped, NEW t \in Threads, NEW label, Goto(t, label), label # "send"
    PROVE  pc'[t] # "send"
    BY DEF Goto, U!Goto, ThreadsTyped

(* What a bid is told is true. *)
LEMMA BidAnswers ==
    ASSUME HouseInv, [Next]_vars, NEW t \in Threads, Step(t), req[t].op = "BID", Calls(t),
           pc[t] \notin {"idle", "send"}, pc'[t] = "send"
    PROVE  House!Truthful(t, reply'[t], houseTold'[t])
<1>0. /\ ThreadServes(t) /\ ThreadsTyped /\ AuctionsTyped /\ ThreadAtAuction(t) /\ ThreadEnds(t)
      /\ ThreadBids(t) /\ BidFiled(t) /\ req[t].op \in ServedAt(pc[t])
    BY DEF HouseInv, BidInv, RecordInv, EndInv, FlowInv, TypeInv, AtAuction, ThreadServes
<1>1. cur[t] = req[t].aid /\ req[t].val \in Values /\ req[t].val \in Nat
    BY <1>0, RequestFields, NumbersAssumption DEF ThreadAtAuction, AuctionOps, HouseInv, BidInv
<1>2. /\ houseCall[t] = req[t]
      /\ houseFound[t].bids = seen[t].bids /\ houseFound[t].over = seen[t].over
    BY DEF houseCall, houseFound
<1>3. \A a \in Auctions : houseBids[a] = BidsOn(a)
    BY DEF houseBids
<1>4. SUFFICES House!BidStatus(t, reply'[t])
    BY <1>2 DEF House!Truthful
<1> USE DEF House!BidStatus, House!Known, House!Unauthenticated
<1>5. CASE Authenticate(t)
    BY <1>5, AuthenticationAnswers
<1>6. ASSUME Throw(t, "NonActiveAuction"), cur[t] \in Auctions, Exists(endFile[cur[t]])
      PROVE  House!BidStatus(t, reply'[t])
    BY <1>0, <1>1, <1>2, <1>6, ThrowReplies, HouseStatuses DEF houseOver
<1>7. CASE BidEndExists(t)
    BY <1>0, <1>6, <1>7, GotoNotSend DEF BidEndExists
<1>8. CASE CheckAuctionValidity(t) \/ CloseCheck(t) \/ CloseCreate(t) \/ CloseWrite(t)
    <2>1. ~CheckAuctionValidity(t) /\ ~CloseCreate(t)
        BY <1>0 DEF CheckAuctionValidity, CloseCreate, Proceed, ListOps, Goto, U!Goto, Fault,
                    ThreadsTyped
    <2>2. Throw(t, "NonActiveAuction") /\ pc[t] \in {"closeCheck", "closeWrite"}
        BY <1>0, <1>8, <2>1, GotoNotSend
        DEF CloseCheck, CloseWrite, Closed, Proceed, ListOps, At, U!At
    <2>3. cur[t] \in Auctions
        BY <1>0, <2>2 DEF ThreadAtAuction, Labels, CloseLabels
    <2>4. Exists(endFile[cur[t]])
        BY <1>0, <1>8, <2>1, <2>2, GotoNotSend DEF CloseCheck, CloseWrite, At, U!At, ThreadEnds,
                                                   ClosesForReason
    <2> QED  BY <1>6, <2>2, <2>3, <2>4
<1>9. CASE GetAuctionOwner(t)
    <2>1. pc[t] = "getAuctionOwner"
        BY <1>9 DEF GetAuctionOwner, At, U!At
    <2>2. cur[t] \in Auctions
        BY <1>0, <2>1 DEF ThreadAtAuction, Labels
    <2>3. Owner(cur[t]) = req[t].uid /\ Throw(t, "IllegalBid")
        BY <1>0, <1>9, GotoNotSend DEF GetAuctionOwner
    <2> QED  BY <1>0, <1>1, <1>2, <2>2, <2>3, ThrowReplies, HouseStatuses DEF Owner
<1>10. CASE GetLargestBid(t)
    <2>1. pc[t] = "getLargestBid"
        BY <1>10 DEF GetLargestBid, At, U!At
    <2>2. cur[t] \in Auctions
        BY <1>0, <2>1 DEF ThreadAtAuction, Labels
    <2>3. TooLow(cur[t], req[t].val) /\ Throw(t, "BidRefused")
        BY <1>0, <1>10, GotoNotSend DEF GetLargestBid
    <2>4. \E b \in BidsOn(cur[t]) \union {StartFile[cur[t]].startValue} : req[t].val <= b
        BY <2>3 DEF TooLow
    <2>5. reply'[t] = "REF"
        BY <1>0, <2>3, ThrowReplies, HouseStatuses
    <2> QED  BY <1>1, <1>2, <1>3, <2>2, <2>4, <2>5
<1>11. CASE WriteBid(t)
    <2>1. pc[t] = "writeBid"
        BY <1>11 DEF WriteBid, At, U!At
    <2>2. cur[t] \in Auctions /\ Exists(bidFile[cur[t]][req[t].val])
        BY <1>0, <2>1 DEF ThreadAtAuction, Labels, BidFiled
    <2>3. cur[t] \notin seen[t].over
        BY <1>0, <2>1 DEF ThreadEnds, BidComesLate
    <2>4. /\ req[t].uid # Owner(cur[t]) /\ req[t].val > StartFile[cur[t]].startValue
          /\ \A v \in seen[t].bids : req[t].val > v
        BY <1>0, <2>1 DEF ThreadBids
    <2>5. House!MayBid(t)
        BY <1>1, <1>2, <2>2, <2>3, <2>4 DEF House!MayBid, Owner
    <2>6. reply'[t] = "ACC"
        BY <1>0, <1>11, AnswerReplies, HouseStatuses DEF WriteBid
    <2> QED  BY <1>1, <1>2, <1>3, <2>2, <2>5, <2>6 DEF BidsOn
<1>12. ~(\/ ManageAccount(t) \/ Send(t) \/ DirectoryExists(t) \/ CreateBid(t) \/ GetAuctionAsset(t)
         \/ GetAuctionBids(t) \/ GetAuctionEndInfo(t) \/ ListAuction(t) \/ GetAuctionInfo(t)
         \/ GetAuctionBidders(t))
    <2>1. pc[t] \notin U!UdpLabels \union {"getAuctionAsset", "getAuctionBids", "getAuctionEndInfo",
                       "nextAuction", "getAuctionInfo", "getAuctionBidders"}
        BY <1>0 DEF ServedAt, U!UdpLabels, U!AccountOps, CloseLabels, ListOps
    <2>2. ~ManageAccount(t)
        BY <2>1
        DEF ManageAccount, U!ManageAccount, U!At, U!CreatePass, U!WritePass, U!Login, U!CreateLogin,
            U!Logout, U!DeleteLogin, U!UnregisterUser, U!DeletePass, U!UdpLabels
    <2>3. ~CreateBid(t)
        BY <1>0, GotoNotSend DEF CreateBid
    <2> QED
        BY <2>1, <2>2, <2>3
        DEF Send, U!Send, U!At, DirectoryExists, GetAuctionAsset, GetAuctionBids, GetAuctionEndInfo,
            ListAuction, GetAuctionInfo, GetAuctionBidders, Authorized, At, ListOps
<1> QED  BY <1>5, <1>7, <1>8, <1>9, <1>10, <1>11, <1>12 DEF Step

(* What a close is told is true. *)
LEMMA CloseAnswers ==
    ASSUME HouseInv, [Next]_vars, NEW t \in Threads, Step(t), req[t].op = "CLS", Calls(t),
           pc[t] \notin {"idle", "send"}, pc'[t] = "send"
    PROVE  House!Truthful(t, reply'[t], houseTold'[t])
<1>0. /\ ThreadServes(t) /\ ThreadsTyped /\ AuctionsTyped /\ ThreadAtAuction(t) /\ ThreadEnds(t)
      /\ req[t].op \in ServedAt(pc[t])
    BY DEF HouseInv, BidInv, RecordInv, EndInv, FlowInv, TypeInv, AtAuction, ThreadServes
<1>1. cur[t] = req[t].aid
    BY <1>0 DEF ThreadAtAuction, AuctionOps
<1>2. houseCall[t] = req[t] /\ houseFound[t].over = seen[t].over
    BY DEF houseCall, houseFound
<1>3. SUFFICES House!CloseStatus(t, reply'[t])
    BY <1>2 DEF House!Truthful
<1> USE DEF House!CloseStatus, House!Known, House!Unauthenticated
<1>4. CASE Authenticate(t)
    BY <1>4, AuthenticationAnswers
<1>5. CASE DirectoryExists(t)
    <2>1. cur[t] \notin Auctions /\ Throw(t, "AuctionNotFound")
        BY <1>0, <1>5, GotoNotSend DEF DirectoryExists
    <2> QED  BY <1>0, <1>1, <1>2, <2>1, ThrowReplies, HouseStatuses
<1>6. CASE GetAuctionOwner(t)
    <2>1. pc[t] = "getAuctionOwner"
        BY <1>6 DEF GetAuctionOwner, At, U!At
    <2>2. cur[t] \in Auctions
        BY <1>0, <2>1 DEF ThreadAtAuction, Labels
    <2>3. Owner(cur[t]) # req[t].uid /\ Throw(t, "IncorrectAuctionOwner")
        BY <1>0, <1>6, GotoNotSend DEF GetAuctionOwner
    <2> QED  BY <1>0, <1>1, <1>2, <2>2, <2>3, ThrowReplies, HouseStatuses DEF Owner
<1>7. CASE CheckAuctionValidity(t) \/ CloseCheck(t) \/ CloseCreate(t) \/ CloseWrite(t)
    <2>1. ~CheckAuctionValidity(t) /\ ~CloseCreate(t)
        BY <1>0 DEF CheckAuctionValidity, CloseCreate, Proceed, ListOps, Goto, U!Goto, Fault,
                    ThreadsTyped
    <2>2. pc[t] \in {"closeCheck", "closeWrite"}
        BY <1>7, <2>1 DEF CloseCheck, CloseWrite, At, U!At
    <2>3. cur[t] \in Auctions
        BY <1>0, <2>2 DEF ThreadAtAuction, Labels, CloseLabels
    <2>4. Exists(endFile[cur[t]])
        BY <1>0, <1>7, <2>1, GotoNotSend DEF CloseCheck, CloseWrite, At, U!At, ThreadEnds,
                                             ClosesForReason
    <2>5. cur[t] \in houseOver
        BY <2>3, <2>4 DEF houseOver
    <2>6. CASE Throw(t, "NonActiveAuction")
        BY <1>0, <1>1, <1>2, <2>5, <2>6, ThrowReplies, HouseStatuses
    <2>7. CASE Answer(t, "OK") /\ early[t] /\ CloseWrite(t)
        <3>1. pc[t] = "closeWrite"
            BY <2>7 DEF CloseWrite, At, U!At
        <3>2. req[t].uid = Owner(cur[t]) /\ cur[t] \notin seen[t].over
            BY <1>0, <2>7, <3>1 DEF ThreadEnds, ClosesForReason, CloseComesLate, CloseLabels
        <3>3. House!MayClose(t)
            BY <1>1, <1>2, <2>3, <3>2 DEF House!MayClose, Owner
        <3>4. reply'[t] = U!Sent("CLS", "OK")
            BY <1>0, <2>7, AnswerReplies
        <3>5. reply'[t] = "OK"
            BY <3>4, HouseStatuses
        <3> QED  BY <1>1, <1>2, <2>5, <3>3, <3>5
    <2> QED
        BY <1>0, <1>7, <2>1, <2>6, <2>7, GotoNotSend DEF CloseCheck, CloseWrite, Closed
<1>8. ~(\/ ManageAccount(t) \/ Send(t) \/ BidEndExists(t) \/ GetLargestBid(t) \/ CreateBid(t)
        \/ WriteBid(t) \/ GetAuctionAsset(t) \/ GetAuctionBids(t) \/ GetAuctionEndInfo(t)
        \/ ListAuction(t) \/ GetAuctionInfo(t) \/ GetAuctionBidders(t))
    <2>1. pc[t] \notin U!UdpLabels \union {"getLargestBid", "createBid", "writeBid",
                       "getAuctionAsset", "getAuctionBids", "getAuctionEndInfo",
                       "nextAuction", "getAuctionInfo", "getAuctionBidders"}
        BY <1>0 DEF ServedAt, U!UdpLabels, U!AccountOps, CloseLabels, ListOps
    <2>2. ~ManageAccount(t)
        BY <2>1
        DEF ManageAccount, U!ManageAccount, U!At, U!CreatePass, U!WritePass, U!Login, U!CreateLogin,
            U!Logout, U!DeleteLogin, U!UnregisterUser, U!DeletePass, U!UdpLabels
    <2> QED
        BY <2>1, <2>2
        DEF Send, U!Send, U!At, BidEndExists, GetLargestBid, CreateBid, WriteBid, GetAuctionAsset,
            GetAuctionBids, GetAuctionEndInfo, ListAuction, GetAuctionInfo, GetAuctionBidders,
            Authorized, At, ListOps
<1> QED  BY <1>4, <1>5, <1>6, <1>7, <1>8 DEF Step

(* What a record and an asset request are told is true. *)
LEMMA ShowAnswers ==
    ASSUME HouseInv, HouseInv', [Next]_vars, NEW t \in Threads, Step(t), req[t].op \in {"SRC", "SAS"},
           Calls(t), pc[t] \notin {"idle", "send"}, pc'[t] = "send"
    PROVE  House!Truthful(t, reply'[t], houseTold'[t])
<1>0. /\ ThreadServes(t) /\ ThreadsTyped /\ ThreadAtAuction(t) /\ req[t].op \in ServedAt(pc[t])
      /\ ThreadRecord(t)' /\ LocalsTyped' /\ LocalsTyped
    BY DEF HouseInv, BidInv, RecordInv, EndInv, FlowInv, TypeInv, AtAuction, ThreadServes
<1>1. cur[t] = req[t].aid
    BY <1>0 DEF ThreadAtAuction, AuctionOps
<1>2. /\ houseCall[t] = req[t]
      /\ houseFound[t].bids = seen[t].bids /\ houseFound[t].over = seen[t].over
    BY DEF houseCall, houseFound
<1>3. CASE DirectoryExists(t)
    <2>1. cur[t] \notin Auctions /\ Throw(t, "AuctionNotFound")
        BY <1>0, <1>3, GotoNotSend DEF DirectoryExists
    <2>2. reply'[t] = "NOK"
        BY <1>0, <2>1, ThrowReplies, HouseStatuses
    <2> QED
        BY <1>1, <1>2, <2>1, <2>2 DEF House!Truthful, House!RecordStatus, House!AssetStatus, House!Known
<1>4. CASE GetAuctionAsset(t)
    <2>1. pc[t] = "getAuctionAsset"
        BY <1>4 DEF GetAuctionAsset, At, U!At
    <2>2. cur[t] \in Auctions /\ req[t].op = "SAS"
        BY <1>0, <2>1 DEF ThreadAtAuction, Labels, ServedAt, U!UdpLabels, CloseLabels
    <2>3. reply'[t] = "OK"
        BY <1>0, <1>4, <2>2, AnswerReplies, HouseStatuses DEF GetAuctionAsset
    <2> QED  BY <1>1, <1>2, <2>2, <2>3 DEF House!Truthful, House!AssetStatus, House!Known
<1>5. CASE GetAuctionEndInfo(t)
    <2>1. pc[t] = "getAuctionEndInfo"
        BY <1>5 DEF GetAuctionEndInfo, At, U!At
    <2>2. cur[t] \in Auctions /\ req[t].op = "SRC"
        BY <1>0, <2>1 DEF ThreadAtAuction, Labels, ServedAt, U!UdpLabels, CloseLabels
    <2>3. Answer(t, "OK") /\ cur' = cur /\ UNCHANGED <<bidFile, endFile, seen>>
        BY <1>0, <1>5 DEF GetAuctionEndInfo, Fault, At, fileVars
    <2>4. reply'[t] = "OK" /\ req'[t] = req[t]
        BY <1>0, <2>2, <2>3, AnswerReplies, HouseStatuses DEF Answer, U!Answer
    <2>5. Answered(t, "SRC", "OK")'
        BY <2>2, <2>4 DEF Answered
    <2>6. /\ shown'[t].bids \subseteq BidsOn(cur[t])
          /\ \A v \in seen[t].bids \ shown'[t].bids :
                Cardinality({w \in shown'[t].bids : w > v}) = TopBids
          /\ cur[t] \in seen[t].over => shown'[t].over
          /\ shown'[t].over => Exists(endFile[cur[t]])
        BY <1>0, <2>2, <2>3, <2>4, <2>5 DEF ThreadRecord, BidsOn
    <2>7. houseTold'[t] = [bids |-> shown'[t].bids, over |-> IF shown'[t].over THEN {cur[t]} ELSE {}]
        <3>1. Told(t)' = [bids |-> shown'[t].bids,
                          over |-> IF shown'[t].over THEN {req'[t].aid} ELSE {}]
            BY <2>2, <2>4, <2>5 DEF Told, ListOps
        <3>2. houseTold'[t] = Told(t)'
            BY DEF houseTold
        <3> QED  BY <1>1, <2>4, <3>1, <3>2
    <2>8. houseTold'[t].bids = shown'[t].bids /\ houseTold'[t].over = IF shown'[t].over THEN {cur[t]} ELSE {}
        BY <2>7
    <2>9. houseBids[cur[t]] = BidsOn(cur[t]) /\ (Exists(endFile[cur[t]]) => cur[t] \in houseOver)
        BY <2>2 DEF houseBids, houseOver
    <2>10. ASSUME NEW S  PROVE House!Cardinality(S) = Cardinality(S)
        BY Zenon DEF House!Cardinality, Cardinality
    <2>11. House!RecordStatus(t, "OK", houseTold'[t])
        BY <1>1, <1>2, <2>2, <2>6, <2>8, <2>9, <2>10 DEF House!RecordStatus, House!Known
    <2> QED  BY <1>2, <2>2, <2>4, <2>11 DEF House!Truthful
<1>6. ~(\/ CheckAuctionValidity(t) \/ CloseCheck(t) \/ CloseCreate(t) \/ CloseWrite(t) \/ GetAuctionBids(t))
    <2>1. ASSUME NEW over \in BOOLEAN  PROVE ~Proceed(t, over)
        BY <1>0 DEF Proceed, ListOps, Goto, U!Goto, ThreadsTyped
    <2> QED
        BY <1>0, <2>1
        DEF CheckAuctionValidity, CloseCheck, CloseCreate, CloseWrite, Closed, GetAuctionBids, Goto,
            U!Goto, Fault, ThreadsTyped
<1>7. ~(\/ Authenticate(t) \/ ManageAccount(t) \/ Send(t) \/ BidEndExists(t) \/ GetAuctionOwner(t)
        \/ GetLargestBid(t) \/ CreateBid(t) \/ WriteBid(t)
        \/ ListAuction(t) \/ GetAuctionInfo(t) \/ GetAuctionBidders(t))
    <2>1. pc[t] \notin U!UdpLabels \union {"getAuctionOwner", "getLargestBid", "createBid", "writeBid",
                       "nextAuction", "getAuctionInfo", "getAuctionBidders"}
        BY <1>0 DEF ServedAt, U!UdpLabels, U!AccountOps, CloseLabels, ListOps
    <2>2. ~ManageAccount(t)
        BY <2>1
        DEF ManageAccount, U!ManageAccount, U!At, U!CreatePass, U!WritePass, U!Login, U!CreateLogin,
            U!Logout, U!DeleteLogin, U!UnregisterUser, U!DeletePass, U!UdpLabels
    <2> QED
        BY <2>1, <2>2, AuthenticationAnswers
        DEF Send, U!Send, U!At, BidEndExists, GetAuctionOwner, GetLargestBid, CreateBid, WriteBid,
            ListAuction, GetAuctionInfo, GetAuctionBidders, Authorized, At, ListOps
<1> QED  BY <1>3, <1>4, <1>5, <1>6, <1>7 DEF Step

(* What a listing is told is true. *)
LEMMA ListAnswers ==
    ASSUME HouseInv, HouseInv', [Next]_vars, NEW t \in Threads, Step(t), req[t].op \in ListOps,
           Calls(t), pc[t] \notin {"idle", "send"}, pc'[t] = "send",
           UNCHANGED houseOver
    PROVE  House!Truthful(t, reply'[t], houseTold'[t])
<1>0. /\ ThreadServes(t) /\ ThreadsTyped /\ TypeInv /\ ThreadListing(t)' /\ LocalsTyped'
      /\ req[t].op \in ServedAt(pc[t])
    BY DEF HouseInv, BidInv, RecordInv, ListInv, EndInv, FlowInv, TypeInv, ThreadServes
<1>1. houseCall[t] = req[t] /\ houseFound[t].over = seen[t].over
    BY DEF houseCall, houseFound
<1>2. req'[t] = req[t] /\ seen'[t] = seen[t]
    BY <1>0, RequestStays
<1>3. houseTold'[t].over = ended'[t]
    BY <1>2 DEF houseTold, Told, Answered, ListOps
<1>4. ended'[t] \subseteq houseOver
    BY <1>0 DEF ThreadListing, LocalsTyped, houseOver
<1>5. reply'[t] = "OK" => seen[t].over \subseteq ended'[t]
    BY <1>0, <1>2 DEF ThreadListing
<1>6. CASE Authenticate(t)
    <2>1. reply'[t] = "NLG" /\ req[t].op \in {"LMA", "LMB"}
        BY <1>6, AuthenticationAnswers DEF ListOps
    <2> QED  BY <1>1, <2>1 DEF House!Truthful, House!ListStatus
<1>7. CASE reply'[t] \in {"OK", "NOK"}
    <2>1. House!ListStatus(t, reply'[t], houseTold'[t])
        BY <1>1, <1>3, <1>4, <1>5, <1>7 DEF House!ListStatus
    <2> QED  BY <1>1, <2>1 DEF House!Truthful, ListOps
<1>8. ASSUME NEW s, Answer(t, s) /\ s = "OK"  PROVE reply'[t] = "OK"
    BY <1>0, <1>8, AnswerReplies, HouseStatuses
<1>9. ASSUME NEW over \in BOOLEAN, Listed(t, over)  PROVE reply'[t] = "OK"
    BY <1>0, <1>8, <1>9, GotoNotSend DEF Listed
<1>10. CASE CheckAuctionValidity(t) \/ CloseCheck(t) \/ CloseCreate(t) \/ CloseWrite(t)
    <2>1. ASSUME NEW over \in BOOLEAN, Proceed(t, over)  PROVE reply'[t] = "OK"
        BY <1>9, <2>1 DEF Proceed, ListOps
    <2> QED
        BY <1>0, <1>7, <1>10, <2>1, GotoNotSend
        DEF CheckAuctionValidity, CloseCheck, CloseCreate, CloseWrite, Closed, Fault, ListOps
<1>11. CASE ListAuction(t) \/ GetAuctionInfo(t) \/ GetAuctionBidders(t)
    <2>1. ASSUME NEW e \in {"NoAuctions", "NoOngoingBids"}, Throw(t, e),
                 IF req[t].op = "LMB" THEN e = "NoOngoingBids" ELSE e = "NoAuctions"
          PROVE  reply'[t] = "NOK"
        <3>1. reply'[t] = U!Sent(req[t].op, U!Caught(req[t].op, e))
            BY <1>0, <2>1, ThrowReplies
        <3>2. CASE req[t].op = "LMB"
            BY <2>1, <3>1, <3>2, HouseStatuses
        <3>3. CASE req[t].op \in {"LST", "LMA"}
            BY <2>1, <3>1, <3>3, HouseStatuses
        <3> QED  BY <3>2, <3>3 DEF ListOps
    <2>2. pc[t] = "getAuctionInfo" => req[t].op = "LMA"
        BY <1>0 DEF ServedAt, U!UdpLabels, CloseLabels
    <2>3. pc[t] = "getAuctionBidders" => req[t].op = "LMB"
        BY <1>0 DEF ServedAt, U!UdpLabels, CloseLabels
    <2> QED
        BY <1>0, <1>7, <1>8, <1>9, <1>11, <2>1, <2>2, <2>3, GotoNotSend
        DEF ListAuction, GetAuctionInfo, GetAuctionBidders, At, U!At
<1>12. ~(\/ ManageAccount(t) \/ Send(t) \/ BidEndExists(t) \/ DirectoryExists(t) \/ GetAuctionOwner(t)
         \/ GetLargestBid(t) \/ CreateBid(t) \/ WriteBid(t) \/ GetAuctionAsset(t)
         \/ GetAuctionBids(t) \/ GetAuctionEndInfo(t))
    <2>1. pc[t] \notin U!UdpLabels \union {"getAuctionOwner", "getLargestBid", "createBid", "writeBid",
                       "getAuctionAsset", "getAuctionBids", "getAuctionEndInfo"}
        BY <1>0 DEF ServedAt, U!UdpLabels, U!AccountOps, CloseLabels, ListOps
    <2>2. ~ManageAccount(t)
        BY <2>1
        DEF ManageAccount, U!ManageAccount, U!At, U!CreatePass, U!WritePass, U!Login, U!CreateLogin,
            U!Logout, U!DeleteLogin, U!UnregisterUser, U!DeletePass, U!UdpLabels
    <2> QED
        BY <2>1, <2>2
        DEF Send, U!Send, U!At, BidEndExists, DirectoryExists, GetAuctionOwner, GetLargestBid,
            CreateBid, WriteBid, GetAuctionAsset, GetAuctionBids, GetAuctionEndInfo, Authorized, At,
            ListOps
<1> QED  BY <1>6, <1>10, <1>11, <1>12 DEF Step

(* Of the operations on files only the first writes of a bid and of an END
   file change anything for the house. *)
LEMMA HouseFiles ==
    ASSUME HouseInv, NEW t \in Threads, Step(t), ~CreateBid(t), ~CloseCreate(t)
    PROVE  UNCHANGED <<houseBids, houseOver, houseDue>>
<1>0. TypeInv /\ AuctionsTyped /\ ThreadAtAuction(t) /\ BidFiled(t) /\ ThreadEnds(t) /\ LocalsTyped
    BY DEF HouseInv, BidInv, RecordInv, EndInv, FlowInv, TypeInv, AtAuction
<1>1. CASE WriteBid(t)
    <2>1. pc[t] = "writeBid" /\ UNCHANGED <<clock, endFile>>
        BY <1>1 DEF WriteBid, At, U!At
    <2>2. /\ cur[t] \in Auctions /\ req[t].val \in Values /\ req[t].uid \in Users
          /\ Exists(bidFile[cur[t]][req[t].val])
        BY <1>0, <2>1, RequestFields DEF ThreadAtAuction, Labels, BidFiled
    <2>3. \A a \in Auctions, v \in Values : Exists(bidFile'[a][v]) = Exists(bidFile[a][v])
        BY <1>0, <1>1, <2>2, FileContentsAssumption DEF WriteBid, AuctionsTyped, Exists
    <2>4. houseBids' = houseBids
        BY <2>3 DEF houseBids, BidsOn
    <2> QED  BY <2>1, <2>4 DEF houseOver, houseDue, Expired, Deadline
<1>2. CASE CloseWrite(t)
    <2>1. pc[t] = "closeWrite" /\ UNCHANGED <<clock, bidFile>>
        BY <1>2 DEF CloseWrite, At, U!At
    <2>2. cur[t] \in Auctions /\ Exists(endFile[cur[t]])
        BY <1>0, <2>1 DEF ThreadAtAuction, Labels, CloseLabels, ThreadEnds, ClosesForReason
    <2> DEFINE end == [early |-> early[t],
                       seconds |-> IF early[t] THEN clock - StartFile[cur[t]].start
                                               ELSE StartFile[cur[t]].timeActive]
    <2>3. endFile' = [endFile EXCEPT ![cur[t]] = end]
        BY <1>2 DEF CloseWrite
    <2>4. end \in Ends
        <3>1. clock - StartFile[cur[t]].start \in Nat
            BY <1>0, <2>2, NumbersAssumption, StartAssumption DEF AuctionsTyped, Auctions
        <3> QED  BY <1>0, <2>2, <3>1, StartAssumption DEF Ends, LocalsTyped
    <2> HIDE DEF end
    <2>5. \A a \in Auctions : Exists(endFile'[a]) = Exists(endFile[a])
        BY <1>0, <2>2, <2>3, <2>4, FileContentsAssumption DEF AuctionsTyped, Exists
    <2>6. houseOver' = houseOver
        BY <2>5 DEF houseOver
    <2> QED  BY <2>1, <2>6 DEF houseBids, BidsOn, houseDue, Expired, Deadline
<1>3. CASE ~WriteBid(t) /\ ~CloseWrite(t)
    <2>1. UNCHANGED <<clock, endFile, bidFile>>
        BY <1>3
        DEF Step, Authenticate, ManageAccount, Send, CheckAuctionValidity, CloseCheck,
            BidEndExists, DirectoryExists, GetAuctionOwner, GetLargestBid, GetAuctionAsset,
            GetAuctionBids, GetAuctionEndInfo, ListAuction, GetAuctionInfo, GetAuctionBidders,
            Authorized, At, fileVars
    <2> QED  BY <2>1, SameFiles
<1> QED  BY <1>1, <1>2, <1>3

LEMMA CreateBidHouse ==
    ASSUME HouseInv, NEW t \in Threads, CreateBid(t), \A u \in Threads : SameView(u)
    PROVE  House!FileBid(t)
<1>0. /\ TypeInv /\ AuctionsTyped /\ ThreadAtAuction(t) /\ ThreadBids(t) /\ ThreadEnds(t)
      /\ ThreadServes(t)
    BY DEF HouseInv, BidInv, RecordInv, EndInv, FlowInv, TypeInv, AtAuction
<1>1. pc[t] = "createBid" /\ UNCHANGED <<clock, endFile>>
    BY DEF CreateBid, At, U!At
<1>2. cur[t] \in Auctions /\ cur[t] = req[t].aid /\ req[t].val \in Values /\ req[t].op = "BID"
    BY <1>0, <1>1, RequestFields DEF ThreadAtAuction, Labels, AuctionOps
<1>3. /\ houseCall[t] = req[t] /\ houseAnswer[t] = "none"
      /\ houseFound[t].bids = seen[t].bids /\ houseFound[t].over = seen[t].over
    <2>1. Calls(t) /\ reply[t] = "none"
        BY <1>0, <1>1, <1>2 DEF Calls, AuctionOps, ThreadServes
    <2> QED  BY <2>1 DEF houseCall, houseAnswer, houseFound
<1>4. House!MayBid(t)
    BY <1>0, <1>1, <1>2, <1>3
    DEF House!MayBid, House!Known, ThreadBids, ThreadEnds, BidComesLate, Owner
<1>5. House!Serving(t, "BID")
    BY <1>2, <1>3 DEF House!Serving, U!NoRequest
<1>6. \A a \in Auctions, v \in Values :
         Exists(bidFile'[a][v]) <=> Exists(bidFile[a][v]) \/ (a = cur[t] /\ v = req[t].val)
    BY <1>0, <1>2, FileContentsAssumption DEF CreateBid, AuctionsTyped, Exists
<1>7. houseBids' = [houseBids EXCEPT ![req[t].aid] = @ \union {req[t].val}]
    <2>1. \A a \in Auctions : BidsOn(a)' = BidsOn(a) \union (IF a = cur[t] THEN {req[t].val} ELSE {})
        BY <1>2, <1>6 DEF BidsOn
    <2>2. \A a \in Auctions : BidsOn(a)' = IF a = cur[t] THEN BidsOn(a) \union {req[t].val} ELSE BidsOn(a)
        BY <2>1
    <2>3. houseBids' = [a \in Auctions |-> BidsOn(a)']
        BY DEF houseBids
    <2> QED  BY <1>2, <2>2, <2>3 DEF houseBids
<1>8. UNCHANGED <<houseOver, houseDue>>
    BY <1>1 DEF houseOver, houseDue, Expired, Deadline
<1>9. UNCHANGED <<houseCall, houseFound, houseAnswer, houseTold>>
    BY SameThreads
<1> QED  BY <1>3, <1>4, <1>5, <1>7, <1>8, <1>9 DEF House!FileBid

(* The first write of an END file: the close of the owner, or the notice that
   the time is up. *)
LEMMA CloseCreateHouse ==
    ASSUME HouseInv, NEW t \in Threads, CloseCreate(t), \A u \in Threads : SameView(u), Calls(t)
    PROVE  UNCHANGED House!vars \/ House!Close(t) \/ House!Notice
<1>0. TypeInv /\ AuctionsTyped /\ ThreadAtAuction(t) /\ ThreadEnds(t) /\ ThreadServes(t)
    BY DEF HouseInv, BidInv, RecordInv, EndInv, FlowInv, TypeInv, AtAuction
<1>1. pc[t] = "closeCreate" /\ UNCHANGED <<clock, bidFile>>
    BY DEF CloseCreate, At, U!At
<1>2. cur[t] \in Auctions
    BY <1>0, <1>1 DEF ThreadAtAuction, Labels, CloseLabels
<1>3. houseCall[t] = req[t] /\ houseAnswer[t] = "none" /\ houseFound[t].over = seen[t].over
    BY <1>0, <1>1 DEF ThreadServes, houseCall, houseAnswer, houseFound
<1>4. houseOver' = houseOver \union {cur[t]}
    <2>1. \A a \in Auctions : Exists(endFile'[a]) <=> Exists(endFile[a]) \/ a = cur[t]
        BY <1>0, <1>2, FileContentsAssumption DEF CloseCreate, AuctionsTyped, Exists
    <2> QED  BY <1>2, <2>1 DEF houseOver
<1>5. UNCHANGED <<houseBids, houseDue>>
    BY <1>1 DEF houseBids, BidsOn, houseDue, Expired, Deadline
<1>6. UNCHANGED <<houseCall, houseFound, houseAnswer, houseTold>>
    BY SameThreads
<1>7. House!End(cur[t])
    BY <1>4, <1>5, <1>6 DEF House!End
<1>8. CASE early[t]
    <2>1. req[t].op = "CLS" /\ req[t].uid = Owner(cur[t]) /\ cur[t] \notin seen[t].over
        BY <1>0, <1>1, <1>8 DEF ThreadEnds, ClosesForReason, CloseComesLate, CloseLabels
    <2>2. cur[t] = req[t].aid
        BY <1>0, <1>1, <2>1 DEF ThreadAtAuction, AuctionOps
    <2>3. House!MayClose(t)
        BY <1>2, <1>3, <2>1, <2>2 DEF House!MayClose, House!Known, Owner
    <2>4. House!Serving(t, "CLS")
        BY <1>3, <2>1 DEF House!Serving, U!NoRequest
    <2> QED  BY <1>3, <1>7, <2>2, <2>3, <2>4 DEF House!Close
<1>9. CASE ~early[t]
    <2>1. cur[t] \in houseDue
        BY <1>0, <1>1, <1>2, <1>9 DEF ThreadEnds, ClosesForReason, CloseLabels, houseDue
    <2> QED  BY <1>7, <2>1 DEF House!Notice
<1> QED  BY <1>8, <1>9

(* A fault comes with the loss of what the threads had in memory. *)
LEMMA FaultsLose ==
    ASSUME TypeInv, NEW t \in Threads, Step(t), NEW what, Fault(what), server = "up"
    PROVE  LocalsLost
<1>0. ThreadsTyped
    BY DEF TypeInv
<1>1. server' = "down"
    BY DEF Fault
<1> USE DEF Goto, U!Goto, Answer, U!Answer, Throw, U!Throw
<1>2. ~(Authenticate(t) \/ ManageAccount(t) \/ Send(t))
    BY <1>1
    DEF Authenticate, ManageAccount, Send, U!Authenticate, U!ManageAccount, U!Send, U!UserExists,
        U!GetUserPassword, U!IsUserLoggedIn, U!CreatePass, U!WritePass, U!Login,
        U!CreateLogin, U!Logout, U!DeleteLogin, U!UnregisterUser, U!DeletePass
<1>3. ~(\E over \in BOOLEAN : Proceed(t, over) \/ Listed(t, over))
    BY <1>1 DEF Proceed, Listed
<1>4. CASE CheckAuctionValidity(t) \/ CloseCheck(t) \/ CloseCreate(t) \/ CloseWrite(t)
    BY <1>1, <1>3, <1>4 DEF CheckAuctionValidity, CloseCheck, CloseCreate, CloseWrite, Closed
<1>5. CASE GetAuctionBids(t) \/ GetAuctionEndInfo(t)
    BY <1>1, <1>5 DEF GetAuctionBids, GetAuctionEndInfo
<1>6. ~(\/ BidEndExists(t) \/ DirectoryExists(t) \/ GetAuctionOwner(t)
        \/ GetLargestBid(t) \/ CreateBid(t) \/ WriteBid(t) \/ GetAuctionAsset(t))
    BY <1>1
    DEF BidEndExists, DirectoryExists, GetAuctionOwner, GetLargestBid, CreateBid, WriteBid,
        GetAuctionAsset
<1>7. ~(ListAuction(t) \/ GetAuctionInfo(t) \/ GetAuctionBidders(t))
    BY <1>1, <1>3 DEF ListAuction, GetAuctionInfo, GetAuctionBidders
<1> QED  BY <1>2, <1>4, <1>5, <1>6, <1>7 DEF Step

(* A thread that has set a status sends it, and only an up server takes steps. *)
LEMMA OnlySends ==
    ASSUME TypeInv, NEW t \in Threads, Step(t)
    PROVE  (pc[t] = "send" => Send(t)) /\ server = "up"
    BY DEF Step, Authenticate, ManageAccount, Send, CheckAuctionValidity, CloseCheck, CloseCreate,
           CloseWrite, BidEndExists, DirectoryExists, GetAuctionOwner, GetLargestBid, CreateBid,
           WriteBid, GetAuctionAsset, GetAuctionBids, GetAuctionEndInfo, ListAuction,
           GetAuctionInfo, GetAuctionBidders, At, Authorized, U!At, U!Authenticate,
           U!ManageAccount, U!UserExists, U!GetUserPassword, U!IsUserLoggedIn, U!CreatePass,
           U!WritePass, U!Login, U!CreateLogin, U!Logout, U!DeleteLogin, U!UnregisterUser,
           U!DeletePass, U!Send

LEMMA StepHouse ==
    ASSUME HouseInv, HouseInv', [Next]_vars, NEW t \in Threads, Step(t)
    PROVE  [House!Next]_House!vars
<1>0. /\ TypeInv /\ FlowInv /\ EndInv /\ ThreadsTyped /\ ThreadServes(t) /\ ThreadServes(t)' /\ AuctionsTyped
    BY DEF HouseInv, BidInv, RecordInv, EndInv, FlowInv, TypeInv
<1>1. CASE \E what : Fault(what) /\ LocalsLost
    <2>1. \A u \in Threads : BlankView(u)
        BY <1>1, IdleView DEF Fault
    <2>2. /\ houseCall' = [u \in Threads |-> houseCall'[u]]
          /\ houseFound' = [u \in Threads |-> houseFound'[u]]
          /\ houseAnswer' = [u \in Threads |-> houseAnswer'[u]]
          /\ houseTold' = [u \in Threads |-> houseTold'[u]]
        BY DEF houseCall, houseFound, houseAnswer, houseTold
    <2>3. ~CreateBid(t) /\ ~CloseCreate(t)
        BY <1>0, <1>1
        DEF CreateBid, CloseCreate, Goto, U!Goto, Fault, ThreadsTyped
    <2>4. UNCHANGED <<houseBids, houseOver, houseDue>>
        BY <2>3, HouseFiles
    <2>5. House!Killed
        BY <2>1, <2>2, <2>4 DEF House!Killed, BlankView, House!Nothing
    <2> QED  BY <2>5 DEF House!Next
<1>2. CASE ~\E what : Fault(what) /\ LocalsLost
    <2>1. \A u \in Threads \ {t} : SameView(u)
        <3>1. ~\E what : Fault(what)
            BY <1>0, <1>2, FaultsLose, OnlySends
        <3> QED  BY <1>0, <3>1, OthersUntouched, UntouchedView
    <2>2. CASE Send(t)
        <3>1. req'[t] = U!NoRequest /\ pc[t] = "send" /\ ~CreateBid(t) /\ ~CloseCreate(t)
            BY <1>0, <2>2 DEF Send, U!Send, U!At, CreateBid, CloseCreate, At, ThreadsTyped
        <3>2. BlankView(t)
            BY <3>1, IdleView
        <3>3. UNCHANGED <<houseBids, houseOver, houseDue>>
            BY <3>1, HouseFiles
        <3>4. CASE Calls(t)
            <4>1. houseAnswer[t] # "none"
                BY <1>0, <3>1, <3>4 DEF houseAnswer, ThreadServes
            <4>2. House!Return(t)
                BY <2>1, <3>2, <3>3, <4>1, HouseMoves DEF House!Return, House!Nothing, BlankView
            <4> QED  BY <4>2 DEF House!Next
        <3>5. CASE ~Calls(t)
            <4>1. ~Calls(t)'
                BY <3>1 DEF Calls, U!NoRequest, AuctionOps, ListOps
            <4>2. \A u \in Threads : SameView(u)
                BY <2>1, <3>5, <4>1, AccountView
            <4> QED  BY <3>3, <4>2, SameThreads DEF House!vars
        <3> QED  BY <3>4, <3>5
    <2>3. CASE ~Send(t)
        <3>1. pc'[t] # "idle"
            BY <1>0, <1>2, <2>3, BecomesIdle
        <3>2. pc[t] # "idle" /\ req'[t] = req[t] /\ seen'[t] = seen[t]
            BY <1>0, <3>1, StepOverStays
        <3>3. pc[t] # "send"
            BY <1>0, <2>3, OnlySends
        <3>4. CASE ~Calls(t)
            <4>1. ~Calls(t)'
                BY <3>2, <3>4 DEF Calls
            <4>2. ~CreateBid(t) /\ ~CloseCreate(t)
                BY <1>0, <3>2, <3>4
                DEF CreateBid, CloseCreate, At, U!At, ThreadServes, ServedAt, U!UdpLabels, CloseLabels,
                    Calls, AuctionOps
            <4>3. \A u \in Threads : SameView(u)
                BY <2>1, <3>4, <4>1, AccountView
            <4> QED  BY <4>2, <4>3, HouseFiles, SameThreads DEF House!vars
        <3>5. CASE Calls(t) /\ pc'[t] # "send"
            <4>1. reply'[t] = reply[t]
                BY <1>0, <3>3, <3>5 DEF ThreadServes
            <4>2. \A u \in Threads : SameView(u)
                BY <2>1, <3>2, <3>3, <3>5, <4>1, BusyView
            <4>3. CASE CreateBid(t)
                BY <4>2, <4>3, CreateBidHouse DEF House!Next
            <4>4. CASE CloseCreate(t)
                BY <3>5, <4>2, <4>4, CloseCreateHouse DEF House!Next
            <4>5. CASE ~CreateBid(t) /\ ~CloseCreate(t)
                BY <4>2, <4>5, HouseFiles, SameThreads DEF House!vars
            <4> QED  BY <4>3, <4>4, <4>5
        <3>6. CASE Calls(t) /\ pc'[t] = "send"
            <4>1. ~CreateBid(t) /\ ~CloseCreate(t)
                BY <1>0, <3>6, GotoNotSend DEF CreateBid, CloseCreate
            <4>2. UNCHANGED <<houseBids, houseOver, houseDue>>
                BY <4>1, HouseFiles
            <4>3. req[t].op \in {"BID", "CLS", "SRC", "SAS"} \union ListOps
                BY <3>6 DEF Calls, AuctionOps
            <4>4. House!Truthful(t, reply'[t], houseTold'[t])
                BY <3>2, <3>3, <3>6, <4>2, <4>3, BidAnswers, CloseAnswers, ShowAnswers, ListAnswers
            <4>5. House!Answer(t)
                BY <2>1, <3>2, <3>3, <3>6, <4>2, <4>4, Answers
            <4> QED  BY <4>5 DEF House!Next
        <3> QED  BY <3>4, <3>5, <3>6
    <2> QED  BY <2>2, <2>3
<1> QED  BY <1>1, <1>2

LEMMA ReceiveHouse ==
    ASSUME HouseInv, NEW t \in Threads, Receive(t)
    PROVE  [House!Next]_House!vars
<1>0. TypeInv /\ ThreadsTyped /\ LocalsTyped /\ ThreadServes(t)
    BY DEF HouseInv, BidInv, RecordInv, EndInv, FlowInv, TypeInv
<1>1. PICK r \in Requests : U!Receive(t, r) /\ seen' = [seen EXCEPT ![t] = OnFile(r)]
    BY DEF Receive
<1>2. /\ pc[t] = "idle" /\ req[t] = U!NoRequest /\ reply[t] = "none" /\ reply'[t] = "none"
      /\ req'[t] = r /\ seen'[t] = OnFile(r) /\ pc'[t] # "send"
    BY <1>0, <1>1
    DEF U!Receive, U!At, U!FirstStep, ThreadServes, ThreadsTyped, LocalsTyped
<1>3. UNCHANGED <<houseBids, houseOver, houseDue>>
    BY SameFiles DEF Receive, fileVars
<1>4. \A u \in Threads \ {t} : SameView(u)
    <2>1. \A u \in Threads \ {t} : Untouched(u)
        BY <1>0, <1>1 DEF Receive, U!Receive, Untouched, ThreadsTyped, LocalsTyped
    <2> QED  BY <2>1, UntouchedView
<1>5. ~Calls(t)
    BY <1>2 DEF Calls, U!NoRequest, AuctionOps, ListOps
<1>6. CASE r.op \in AuctionOps \union ListOps
    <2>1. Calls(t)'
        BY <1>2, <1>6 DEF Calls
    <2>2. houseCall'[t] = r /\ houseAnswer'[t] = houseAnswer[t] /\ houseCall[t] = U!NoRequest
        BY <1>2, <1>5, <2>1 DEF houseCall, houseAnswer
    <2>3. houseFound'[t] = [bids |-> House!BidsFor(r), over |-> houseOver \union houseDue]
        <3>1. houseFound'[t] = [bids |-> OnFile(r).bids, over |-> OnFile(r).over]
            BY <1>2, <2>1 DEF houseFound
        <3>2. OnFile(r).bids = House!BidsFor(r)
            BY DEF OnFile, House!BidsFor, House!Names, House!Known, AuctionOps, houseBids
        <3>3. OnFile(r).over = houseOver \union houseDue
            BY DEF OnFile, houseOver, houseDue
        <3> QED  BY <3>1, <3>2, <3>3
    <2>4. houseTold'[t] = houseTold[t]
        BY <1>2, <1>5, <1>6 DEF houseTold, Told, Answered
    <2>5. UNCHANGED <<houseAnswer, houseTold>>
        <3>1.
              /\ houseAnswer = [u \in Threads |-> houseAnswer[u]] /\ houseAnswer' = [u \in Threads |-> houseAnswer'[u]]
             
              /\ houseTold = [u \in Threads |-> houseTold[u]] /\ houseTold' = [u \in Threads |-> houseTold'[u]]
            BY DEF houseAnswer, houseTold
        <3> QED  BY <1>4, <2>2, <2>4, <3>1 DEF SameView
    <2>6. House!Call(t)
        <3>1. /\ houseCall' = [houseCall EXCEPT ![t] = houseCall'[t]]
              /\ houseFound' = [houseFound EXCEPT ![t] = houseFound'[t]]
            BY <1>4, HouseMoves
        <3> QED  BY <1>3, <1>6, <2>2, <2>3, <2>5, <3>1 DEF House!Call
    <2> QED  BY <2>6 DEF House!Next
<1>7. CASE r.op \notin AuctionOps \union ListOps
    <2>1. ~Calls(t)'
        BY <1>2, <1>7 DEF Calls
    <2>2. \A u \in Threads : SameView(u)
        BY <1>4, <1>5, <2>1, AccountView
    <2> QED  BY <1>3, <2>2, SameThreads DEF House!vars
<1> QED  BY <1>6, <1>7

LEMMA NextHouse == HouseInv /\ [Next]_vars => [House!Next]_House!vars
<1> SUFFICES ASSUME HouseInv, [Next]_vars  PROVE [House!Next]_House!vars
    OBVIOUS
<1>0. HouseInv' /\ ThreadsTyped /\ AuctionsTyped /\ \A u \in Threads : ThreadServes(u)
    BY NextHouseInv DEF HouseInv, BidInv, RecordInv, EndInv, FlowInv, TypeInv
<1>1. CASE Crash
    <2>1. U!Threads = Threads
        BY DEF U!Threads, Threads
    <2>2. \A u \in Threads : BlankView(u)
        BY <1>1, <2>1, IdleView DEF Crash, U!Crash
    <2>3. /\ houseCall' = [u \in Threads |-> houseCall'[u]]
          /\ houseFound' = [u \in Threads |-> houseFound'[u]]
          /\ houseAnswer' = [u \in Threads |-> houseAnswer'[u]]
          /\ houseTold' = [u \in Threads |-> houseTold'[u]]
        BY DEF houseCall, houseFound, houseAnswer, houseTold
    <2>4. UNCHANGED <<houseBids, houseOver, houseDue>>
        BY <1>1, SameFiles DEF Crash, fileVars
    <2>5. House!Killed
        BY <2>2, <2>3, <2>4 DEF House!Killed, BlankView, House!Nothing
    <2> QED  BY <2>5 DEF House!Next
<1>2. CASE Restart
    <2>1. \A u \in Threads : ~Calls(u) /\ ~Calls(u)'
        BY <1>0, <1>2
        DEF Restart, U!Restart, ThreadServes, Calls, U!NoRequest, AuctionOps, ListOps
    <2>2. UNCHANGED <<houseBids, houseOver, houseDue>>
        BY <1>2, SameFiles DEF Restart, fileVars
    <2> QED  BY <2>1, <2>2, AccountView, SameThreads DEF House!vars
<1>3. CASE Tick
    <2>1. \A u \in Threads : SameView(u)
        BY <1>3, UntouchedView DEF Tick, userVars, localVars, Untouched
    <2>2. houseDue \subseteq houseDue' /\ houseDue' \subseteq Auctions
        BY FilesStay DEF houseDue, HouseInv, BidInv
    <2>3. houseDue' \in {houseDue \union late : late \in SUBSET Auctions}
        <3>1. houseDue' = houseDue \union houseDue'
            BY <2>2
        <3> QED  BY <2>2, <3>1
    <2>4. UNCHANGED <<houseBids, houseOver>>
        BY <1>3 DEF Tick, fileVars, houseBids, houseOver, BidsOn
    <2> QED  BY <2>1, <2>3, <2>4, SameThreads DEF House!TimePasses, House!Next
<1>4. CASE UNCHANGED vars
    <2>1. \A u \in Threads : SameView(u)
        BY <1>4, UntouchedView DEF vars, userVars, localVars, Untouched
    <2>2. UNCHANGED <<houseBids, houseOver, houseDue>>
        BY <1>4, SameFiles DEF vars, fileVars
    <2> QED  BY <2>1, <2>2, SameThreads DEF House!vars
<1>5. ASSUME NEW t \in Threads, Receive(t) \/ Step(t)  PROVE [House!Next]_House!vars
    BY <1>0, <1>5, ReceiveHouse, StepHouse
<1> QED  BY <1>1, <1>2, <1>3, <1>4, <1>5 DEF Next

LEMMA InitHouse == Init => House!Init
<1> SUFFICES ASSUME Init  PROVE House!Init
    OBVIOUS
<1>1. \A t \in Threads : ~Calls(t) /\ Told(t) = [bids |-> {}, over |-> {}]
    BY DEF Init, Calls, Told, Answered, U!NoRequest, AuctionOps, ListOps
<1>2. /\ houseBids = [a \in Auctions |-> {}] /\ houseOver = {} /\ houseDue \subseteq Auctions
    BY DEF Init, houseBids, houseOver, houseDue, BidsOn, Exists
<1>3. /\ houseCall = [t \in Threads |-> U!NoRequest]
      /\ houseFound = [t \in Threads |-> [bids |-> {}, over |-> {}]]
      /\ houseAnswer = [t \in Threads |-> "none"]
      /\ houseTold = [t \in Threads |-> [bids |-> {}, over |-> {}]]
    BY <1>1 DEF houseCall, houseFound, houseAnswer, houseTold
<1> QED  BY <1>2, <1>3 DEF House!Init, House!Nothing

(* The file operations of every request add up to what AuctionHouse promises:
   a bid and a close take effect in one step, and what a request is told was
   true at some moment after it arrived, for any number of workers, auctions and
   requests, and across faults, kills and restarts. *)
THEOREM HouseImplemented == Spec => ImplementsAuctions
<1>1. Init => House!Init
    BY InitHouse
<1>2. HouseInv /\ [Next]_vars => [House!Next]_House!vars
    BY NextHouse
<1> QED  BY <1>1, <1>2, InitHouseInv, NextHouseInv, PTL DEF Spec, ImplementsAuctions, House!Spec

=============================================================================

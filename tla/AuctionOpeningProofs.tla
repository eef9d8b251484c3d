------------------------ MODULE AuctionOpeningProofs ------------------------
(***************************************************************************)
(* Proofs about AuctionOpening, for any workers and open requests, any     *)
(* limit of the numbers, and a server that is killed at any moment.        *)
(***************************************************************************)
EXTENDS AuctionOpening, FiniteSetTheorems, TLAPS

(* The labels of a worker that has a number of its own, and of one that has
   made each part of its auction. *)
NumberLabels == {"mkdir", "createStart", "writeStart", "mkdirAsset", "mkdirBids", "moveAsset",
                 "deleteUpload", "answer"}
DirectoryLabels == NumberLabels \ {"mkdir"}
StartLabels == DirectoryLabels \ {"createStart", "writeStart"}
BidsLabels == {"moveAsset", "deleteUpload", "answer"}

ControlInv ==
    \A w \in Workers :
        /\ pc[w] = "idle" <=> request[w] = None
        /\ pc[w] \in NumberLabels \union {"write"} => auctionID[w] \in AuctionIDs
        /\ pc[w] \in {"saveAsset", "loggedIn", "lock", "read"} => auctionID[w] = 0
        /\ pc[w] = "unlock" => unlocks[w] # 0

MutexInv == fileMutex = "unlocked" <=> holder = None

TypeInv == TypeOK /\ ControlInv /\ MutexInv /\ listing <= numAuctions

-----------------------------------------------------------------------------
(* Numbers, and the directories there are. *)

(* A set of numbers that is not empty has a least one: the finite sets of
   those up to one of its members are well-founded. *)
LEMMA NatMin ==
    ASSUME NEW T \in SUBSET Nat, T # {}
    PROVE  \E m \in T : \A k \in T : m <= k
<1> DEFINE upTo(k) == T \intersect (0..k)
           F == {upTo(k) : k \in T}
<1>1. F # {}
    OBVIOUS
<1>2. F \subseteq FiniteSubsetsOf(Nat)
    <2>1. \A k \in T : IsFiniteSet(0..k)
        BY FS_Interval
    <2>2. \A k \in T : IsFiniteSet(upTo(k))
        BY <2>1, FS_Intersection
    <2>3. \A k \in T : upTo(k) \in SUBSET Nat
        OBVIOUS
    <2> QED  BY <2>2, <2>3 DEF FiniteSubsetsOf
<1> HIDE DEF F
<1>3. PICK X \in F : \A Y \in F : ~ (<<Y, X>> \in StrictSubsetOrdering(Nat))
    BY <1>1, <1>2, FS_StrictSubsetOrderingWellFounded, WFMin, Zenon
<1>4. PICK m \in T : X = upTo(m)
    BY DEF F
<1>5. ASSUME NEW k \in T, k < m  PROVE FALSE
    <2>1. upTo(k) \in F
        BY DEF F
    <2>2. m \in X /\ m \notin upTo(k)
        BY <1>4, <1>5
    <2>3. /\ upTo(k) \subseteq X /\ upTo(k) # X
          /\ upTo(k) \in SUBSET Nat /\ X \in SUBSET Nat
        BY <2>2, <1>4, <1>5
    <2>4. <<upTo(k), X>> \in StrictSubsetOrdering(Nat)
        BY <2>3 DEF StrictSubsetOrdering
    <2> QED  BY <1>3, <2>1, <2>4
<1> QED  BY <1>5

LEMMA IDs == AuctionIDs \subseteq Nat \ {0} /\ MaxID \in Nat \ {0}
    BY OpeningAssumption DEF AuctionIDs

(* setupDB's counter is one of those openAuction may write. *)
LEMMA SetupDBType ==
    ASSUME NEW dirs
    PROVE  SetupDB(dirs) \in [number : 1..MaxID + 1, newline : BOOLEAN]
<1> DEFINE D == {a \in AuctionIDs : "AUCTION" \in dirs[a]}
<1>1. IsFiniteSet(AuctionIDs) /\ Cardinality(AuctionIDs) = MaxID
    BY FS_Interval, OpeningAssumption DEF AuctionIDs
<1>2. IsFiniteSet(D) /\ Cardinality(D) <= MaxID
    BY <1>1, FS_Subset
<1>3. Cardinality(D) \in Nat
    BY <1>2, FS_CardinalityType
<1> QED  BY <1>2, <1>3, OpeningAssumption DEF SetupDB

-----------------------------------------------------------------------------
(* Types. *)

LEMMA InitTypeInv == Init => TypeInv
<1> SUFFICES ASSUME Init  PROVE TypeInv
    OBVIOUS
<1>1. next_auction \in [number : 1..MaxID + 1, newline : BOOLEAN]
    BY SetupDBType DEF Init
<1>2. TypeOK
    <2>1. /\ pc \in [Workers -> Labels]
          /\ request \in [Workers -> Opens \union {None}]
          /\ auctionID \in [Workers -> AuctionIDs \union {0}]
          /\ unlocks \in [Workers -> 0..3]
        BY DEF Init, Labels
    <2>2. /\ directories \in [AuctionIDs -> SUBSET Parts]
          /\ start \in [AuctionIDs -> Opens \union {NoFile, EmptyFile}]
          /\ assets \in [AuctionIDs -> SUBSET Opens]
          /\ uploads \in SUBSET Opens
        BY DEF Init
    <2>3. /\ fileMutex \in {"locked", "unlocked"} /\ holder \in Workers \union {None}
          /\ stolen \in BOOLEAN
        BY DEF Init
    <2>4. listing \in 0..MaxID /\ numAuctions \in 0..MaxID
        BY OpeningAssumption DEF Init
    <2>5. known \in SUBSET AuctionIDs /\ answered \in SUBSET (Opens \X AuctionIDs)
        <3>1. known = {} /\ answered = {}
            BY DEF Init
        <3> QED  BY <3>1
    <2> QED  BY <1>1, <2>1, <2>2, <2>3, <2>4, <2>5 DEF TypeOK
<1>3. ControlInv /\ MutexInv /\ listing <= numAuctions
    BY OpeningAssumption DEF Init, ControlInv, MutexInv, NumberLabels
<1> QED  BY <1>2, <1>3 DEF TypeInv

LEMMA RequestTypeInv ==
    ASSUME TypeInv, NEW w \in Workers,
           \/ \E r \in Opens : Receive(w, r)
           \/ SaveAsset(w) \/ LoggedIn(w) \/ Answer(w) \/ Finish(w)
    PROVE  TypeInv'
<1> USE OpeningAssumption
    DEF TypeInv, TypeOK, ControlInv, MutexInv, Labels, NumberLabels, At, Goto, workerVars, mutexVars,
        auctionVars, listVars
<1>1. ASSUME NEW r \in Opens, Receive(w, r)  PROVE TypeInv'
    BY <1>1 DEF Receive
<1>2. CASE SaveAsset(w)
    BY <1>2 DEF SaveAsset
<1>3. CASE LoggedIn(w)
    BY <1>3 DEF LoggedIn
<1>4. CASE Answer(w)
    BY <1>4 DEF Answer, Building
<1>5. CASE Finish(w)
    BY <1>5 DEF Finish
<1> QED  BY <1>1, <1>2, <1>3, <1>4, <1>5

LEMMA CounterTypeInv ==
    ASSUME TypeInv, NEW w \in Workers,
           Lock(w) \/ ReadNext(w) \/ WriteNext(w) \/ Unlock(w)
    PROVE  TypeInv'
<1> USE OpeningAssumption
    DEF TypeInv, TypeOK, ControlInv, MutexInv, Labels, NumberLabels, At, Goto, workerVars, mutexVars,
        auctionVars, listVars
<1>1. CASE Lock(w)
    BY <1>1 DEF Lock
<1>2. CASE ReadNext(w)
    <2>1. CASE TooLong(next_auction)
        BY <1>2, <2>1 DEF ReadNext
    <2>2. CASE ~TooLong(next_auction)
        <3>1. next_auction.number \in AuctionIDs
            BY <2>2 DEF TooLong, AuctionIDs
        <3> QED  BY <1>2, <2>2, <3>1 DEF ReadNext
    <2> QED  BY <2>1, <2>2
<1>3. CASE WriteNext(w)
    <2>1. next_auction' \in [number : 1..MaxID + 1, newline : BOOLEAN]
        BY <1>3 DEF WriteNext, AuctionIDs
    <2> QED  BY <1>3, <2>1 DEF WriteNext
<1>4. CASE Unlock(w)
    BY <1>4 DEF Unlock
<1> QED  BY <1>1, <1>2, <1>3, <1>4

LEMMA FilesTypeInv ==
    ASSUME TypeInv, NEW w \in Workers,
           \/ CreateDirectory(w, "AUCTION", "mkdir", "createStart")
           \/ CreateStart(w) \/ WriteStart(w)
           \/ CreateDirectory(w, "ASSET", "mkdirAsset", "mkdirBids")
           \/ CreateDirectory(w, "BIDS", "mkdirBids", "moveAsset")
           \/ MoveAsset(w)
           \/ DeleteUpload(w, "deleteUpload", "answer")
           \/ DeleteUpload(w, "refuse", "done")
    PROVE  TypeInv'
<1> USE OpeningAssumption
    DEF TypeInv, TypeOK, ControlInv, MutexInv, Labels, NumberLabels, Parts, At, Goto, Building,
        workerVars, mutexVars, auctionVars, listVars
<1>1. CASE CreateDirectory(w, "AUCTION", "mkdir", "createStart")
    BY <1>1 DEF CreateDirectory
<1>2. CASE CreateStart(w)
    BY <1>2 DEF CreateStart
<1>3. CASE WriteStart(w)
    BY <1>3 DEF WriteStart
<1>4. CASE CreateDirectory(w, "ASSET", "mkdirAsset", "mkdirBids")
    BY <1>4 DEF CreateDirectory
<1>5. CASE CreateDirectory(w, "BIDS", "mkdirBids", "moveAsset")
    BY <1>5 DEF CreateDirectory
<1>6. CASE MoveAsset(w)
    BY <1>6 DEF MoveAsset
<1>7. CASE DeleteUpload(w, "deleteUpload", "answer")
    BY <1>7 DEF DeleteUpload
<1>8. CASE DeleteUpload(w, "refuse", "done")
    BY <1>8 DEF DeleteUpload
<1> QED  BY <1>1, <1>2, <1>3, <1>4, <1>5, <1>6, <1>7, <1>8

LEMMA ListTypeInv ==
    ASSUME TypeInv, BeginList \/ ListNext
    PROVE  TypeInv'
<1> USE OpeningAssumption, IDs
    DEF TypeInv, TypeOK, ControlInv, MutexInv, workerVars, mutexVars, auctionVars
<1>1. CASE BeginList
    BY <1>1 DEF BeginList
<1>2. CASE ListNext
    <2>1. CASE NoListing
        BY <1>2, <2>1 DEF ListNext, NoListing
    <2>2. CASE ~NoListing
        <3>1. listing' = listing + 1 /\ listing < numAuctions /\ UNCHANGED <<numAuctions, known>>
            BY <1>2, <2>2 DEF ListNext, Listing
        <3> QED  BY <1>2, <3>1 DEF ListNext
    <2> QED  BY <2>1, <2>2
<1> QED  BY <1>1, <1>2

LEMMA CrashTypeInv ==
    ASSUME TypeInv, Crash
    PROVE  TypeInv'
<1>1. next_auction' \in [number : 1..MaxID + 1, newline : BOOLEAN]
    BY SetupDBType DEF Crash
<1> QED  BY <1>1, OpeningAssumption
         DEF TypeInv, TypeOK, ControlInv, MutexInv, Crash, NoListing, auctionVars, Labels, NumberLabels

LEMMA NextTypeInv == TypeInv /\ [Next]_vars => TypeInv'
<1> SUFFICES ASSUME TypeInv, [Next]_vars  PROVE TypeInv'
    OBVIOUS
<1>1. CASE UNCHANGED vars
    BY <1>1 DEF vars, workerVars, mutexVars, auctionVars, listVars, TypeInv, TypeOK, ControlInv, MutexInv
<1>2. ASSUME NEW w \in Workers, OpenAuction(w)  PROVE TypeInv'
    BY <1>2, RequestTypeInv, CounterTypeInv, FilesTypeInv DEF OpenAuction
<1>3. CASE BeginList \/ ListNext
    BY <1>3, ListTypeInv
<1>4. CASE Crash
    BY <1>4, CrashTypeInv
<1> QED  BY <1>1, <1>2, <1>3, <1>4 DEF Next

(* Every variable has its type: the counter, read from a file another thread
   may have truncated or setupDB has written, never leaves the numbers, and
   no worker handles an auction outside them. *)
THEOREM TypeCorrect == Spec => []TypeOK
<1>1. TypeInv => TypeOK
    BY DEF TypeInv
<1> QED  BY InitTypeInv, NextTypeInv, <1>1, PTL DEF Spec
-----------------------------------------------------------------------------
(* What openAuction has answered is there. *)

(* No two workers handle the same request. *)
OwnRequests == \A v, w \in Workers : request[v] = request[w] => v = w \/ request[v] = None

(* A worker that has not moved the asset of its request yet is the first to. *)
AssetsAreNew ==
    \A w \in Workers :
        pc[w] \notin {"idle", "deleteUpload", "answer", "done"} =>
            \A a \in AuctionIDs : request[w] \notin assets[a]

(* What a worker has made of its auction is still there. *)
Built(w) ==
    /\ pc[w] \in DirectoryLabels => "AUCTION" \in directories[auctionID[w]]
    /\ pc[w] \in StartLabels => start[auctionID[w]] \in Opens
    /\ pc[w] \in StartLabels \ {"mkdirAsset"} => "ASSET" \in directories[auctionID[w]]
    /\ pc[w] \in BidsLabels => "BIDS" \in directories[auctionID[w]]
    /\ pc[w] \in {"deleteUpload", "answer"} => request[w] \in assets[auctionID[w]]
    /\ pc[w] = "answer" => request[w] \notin uploads

BuildInv == OwnRequests /\ AssetsAreNew /\ (\A w \in Workers : Built(w)) /\ OpenedIsComplete

(* The parts of an auction stay once they are there. *)
Grows ==
    \A a \in AuctionIDs :
        /\ directories[a] \subseteq directories'[a] /\ assets[a] \subseteq assets'[a]
        /\ start[a] \in Opens => start'[a] \in Opens

(* What a step of w has to show of its own worker and of its own request, and
   what it must not touch. *)
LEMMA StepBuildInv ==
    ASSUME TypeInv, TypeInv', BuildInv, NEW w \in Workers,
           Grows, Built(w)', OwnRequests',
           \A u \in Workers \ {w} :
               pc'[u] = pc[u] /\ request'[u] = request[u] /\ auctionID'[u] = auctionID[u],
           \A a \in AuctionIDs : assets'[a] \subseteq assets[a] \union {request[w]},
           pc'[w] \notin {"idle", "deleteUpload", "answer", "done"} =>
               \A a \in AuctionIDs : request'[w] \notin assets'[a],
           uploads' \subseteq uploads \union {request[w]},
           uploads' \subseteq uploads \/ pc[w] = "saveAsset",
           \A p \in answered' \ answered : pc[w] = "answer" /\ p = <<request[w], auctionID[w]>>
    PROVE  BuildInv'
<1> USE DEF BuildInv
<1>1. AssetsAreNew'
    <2> SUFFICES ASSUME NEW u \in Workers \ {w}, NEW a \in AuctionIDs,
                        pc[u] \notin {"idle", "deleteUpload", "answer", "done"}
                 PROVE  request[u] \notin assets'[a]
        BY DEF AssetsAreNew
    <2>1. request[u] # request[w]
        BY DEF OwnRequests, TypeInv, ControlInv
    <2> QED  BY <2>1 DEF AssetsAreNew
<1>2. ASSUME NEW u \in Workers \ {w}  PROVE Built(u)'
    <2>1. pc'[u] = pc[u] /\ request'[u] = request[u] /\ auctionID'[u] = auctionID[u] /\ Built(u)
        OBVIOUS
    <2>2. pc[u] \in NumberLabels => auctionID[u] \in AuctionIDs
        BY DEF TypeInv, ControlInv
    <2>3. ASSUME pc[u] = "answer"  PROVE request[u] \notin uploads'
        <3>1. request[u] # request[w]
            BY <2>3 DEF OwnRequests, TypeInv, ControlInv
        <3> QED  BY <2>3, <2>1, <3>1 DEF Built
    <2>4. /\ pc[u] \in DirectoryLabels => "AUCTION" \in directories'[auctionID[u]]
          /\ pc[u] \in StartLabels => start'[auctionID[u]] \in Opens
          /\ pc[u] \in StartLabels \ {"mkdirAsset"} => "ASSET" \in directories'[auctionID[u]]
          /\ pc[u] \in BidsLabels => "BIDS" \in directories'[auctionID[u]]
          /\ pc[u] \in {"deleteUpload", "answer"} => request[u] \in assets'[auctionID[u]]
        BY <2>1, <2>2 DEF Built, Grows, NumberLabels, DirectoryLabels, StartLabels, BidsLabels
    <2> QED  BY <2>1, <2>3, <2>4 DEF Built
<1>3. OpenedIsComplete'
    <2> SUFFICES ASSUME NEW p \in answered'
                 PROVE  /\ directories'[p[2]] = Parts /\ start'[p[2]] \in Opens
                        /\ p[1] \in assets'[p[2]] /\ p[1] \notin uploads'
        BY DEF OpenedIsComplete
    <2>1. p[1] \in Opens /\ p[2] \in AuctionIDs
        BY DEF TypeInv, TypeOK
    <2>2. directories'[p[2]] \subseteq Parts
        BY <2>1 DEF TypeInv, TypeOK
    <2>3. CASE p \in answered
        <3>1. /\ directories[p[2]] = Parts /\ start[p[2]] \in Opens
              /\ p[1] \in assets[p[2]] /\ p[1] \notin uploads
            BY <2>3 DEF OpenedIsComplete
        <3>2. p[1] \notin uploads'
            BY <3>1, <2>1 DEF AssetsAreNew
        <3> QED  BY <3>1, <3>2, <2>1, <2>2 DEF Grows
    <2>4. CASE p \notin answered
        <3>1. pc[w] = "answer" /\ p[1] = request[w] /\ p[2] = auctionID[w]
            BY <2>4
        <3>2. /\ directories[p[2]] = Parts /\ start[p[2]] \in Opens
              /\ p[1] \in assets[p[2]] /\ p[1] \notin uploads
            <4>1. directories[p[2]] \subseteq Parts
                BY <2>1 DEF TypeInv, TypeOK
            <4> QED  BY <4>1, <3>1 DEF Built, DirectoryLabels, StartLabels, NumberLabels, BidsLabels, Parts
        <3> QED  BY <3>1, <3>2, <2>1, <2>2 DEF Grows
    <2> QED  BY <2>3, <2>4
<1>4. \A u \in Workers : Built(u)'
    BY <1>2
<1> QED  BY <1>1, <1>3, <1>4

LEMMA RequestBuildInv ==
    ASSUME TypeInv, TypeInv', BuildInv, NEW w \in Workers,
           \/ \E r \in Opens : Receive(w, r)
           \/ SaveAsset(w) \/ LoggedIn(w) \/ Answer(w) \/ Finish(w)
    PROVE  BuildInv'
<1> USE DEF auctionVars, NumberLabels, DirectoryLabels, StartLabels, BidsLabels
<1>1. /\ pc \in [Workers -> Labels] /\ request \in [Workers -> Opens \union {None}]
      /\ auctionID \in [Workers -> AuctionIDs \union {0}]
    BY DEF TypeInv, TypeOK
<1>2. OwnRequests /\ AssetsAreNew /\ Built(w)
    BY DEF BuildInv
<1>3. ASSUME NEW r \in Opens, Receive(w, r)  PROVE BuildInv'
    <2>1. OwnRequests'
        BY <1>1, <1>2, <1>3 DEF Receive, OwnRequests
    <2>2. Built(w)'
        BY <1>1, <1>3 DEF Receive, At, Goto, Built
    <2> QED  BY <1>1, <1>3, <2>1, <2>2, StepBuildInv DEF Receive, At, Goto, Grows
<1>4. CASE SaveAsset(w)
    <2>1. OwnRequests' /\ Built(w)'
        BY <1>1, <1>2, <1>4 DEF SaveAsset, OwnRequests, At, Goto, Built
    <2> QED  BY <1>1, <1>2, <1>4, <2>1, StepBuildInv DEF SaveAsset, At, Goto, Grows, AssetsAreNew
<1>5. CASE LoggedIn(w)
    <2>1. OwnRequests' /\ Built(w)'
        BY <1>1, <1>2, <1>5 DEF LoggedIn, OwnRequests, At, Goto, Built
    <2> QED  BY <1>1, <1>2, <1>5, <2>1, StepBuildInv DEF LoggedIn, At, Goto, Grows, AssetsAreNew
<1>6. CASE Answer(w)
    <2>1. OwnRequests' /\ Built(w)'
        BY <1>1, <1>2, <1>6 DEF Answer, Building, OwnRequests, At, Goto, Built
    <2> QED  BY <1>1, <1>2, <1>6, <2>1, StepBuildInv DEF Answer, Building, At, Goto, Grows
<1>7. CASE Finish(w)
    <2>1. OwnRequests' /\ Built(w)'
        BY <1>1, <1>2, <1>7 DEF Finish, OwnRequests, At, Goto, Built
    <2> QED  BY <1>1, <1>2, <1>7, <2>1, StepBuildInv DEF Finish, At, Goto, Grows
<1> QED  BY <1>3, <1>4, <1>5, <1>6, <1>7

LEMMA CounterBuildInv ==
    ASSUME TypeInv, TypeInv', BuildInv, NEW w \in Workers,
           Lock(w) \/ ReadNext(w) \/ WriteNext(w) \/ Unlock(w)
    PROVE  BuildInv'
<1>1. /\ pc \in [Workers -> Labels] /\ request \in [Workers -> Opens \union {None}]
      /\ auctionID \in [Workers -> AuctionIDs \union {0}]
    BY DEF TypeInv, TypeOK
<1>2. /\ pc[w] \in {"lock", "read", "write", "unlock"}
      /\ \E label \in {"read", "write", "unlock", "mkdir", "refuse"} : Goto(w, label)
      /\ \A u \in Workers \ {w} : auctionID'[u] = auctionID[u]
      /\ UNCHANGED <<request, auctionVars, answered>>
    BY <1>1 DEF Lock, ReadNext, WriteNext, Unlock, At
<1>3. OwnRequests /\ AssetsAreNew
    BY DEF BuildInv
<1>4. OwnRequests'
    BY <1>2, <1>3 DEF OwnRequests
<1>5. Built(w)'
    BY <1>1, <1>2 DEF Goto, Built, NumberLabels, DirectoryLabels, StartLabels, BidsLabels
<1> QED  BY <1>1, <1>2, <1>3, <1>4, <1>5, StepBuildInv DEF Goto, Grows, auctionVars, AssetsAreNew

LEMMA FilesBuildInv ==
    ASSUME TypeInv, TypeInv', BuildInv, NEW w \in Workers,
           \/ CreateDirectory(w, "AUCTION", "mkdir", "createStart")
           \/ CreateStart(w) \/ WriteStart(w)
           \/ CreateDirectory(w, "ASSET", "mkdirAsset", "mkdirBids")
           \/ CreateDirectory(w, "BIDS", "mkdirBids", "moveAsset")
           \/ MoveAsset(w)
           \/ DeleteUpload(w, "deleteUpload", "answer")
           \/ DeleteUpload(w, "refuse", "done")
    PROVE  BuildInv'
<1> USE DEF Building, At, Goto, NumberLabels, DirectoryLabels, StartLabels, BidsLabels
<1>1. /\ pc \in [Workers -> Labels] /\ request \in [Workers -> Opens \union {None}]
      /\ auctionID \in [Workers -> AuctionIDs \union {0}]
      /\ directories \in [AuctionIDs -> SUBSET Parts]
      /\ start \in [AuctionIDs -> Opens \union {NoFile, EmptyFile}]
      /\ assets \in [AuctionIDs -> SUBSET Opens]
    BY DEF TypeInv, TypeOK
<1>2. /\ UNCHANGED <<request, auctionID>>
      /\ pc[w] \notin {"idle", "done", "saveAsset"}
      /\ pc[w] # "refuse" => auctionID[w] \in AuctionIDs
      /\ request[w] \in Opens
      /\ \A u \in Workers \ {w} : pc'[u] = pc[u]
    BY <1>1 DEF CreateDirectory, CreateStart, WriteStart, MoveAsset, DeleteUpload, TypeInv, ControlInv
<1>3. OwnRequests /\ AssetsAreNew /\ Built(w)
    BY DEF BuildInv
<1>4. OwnRequests'
    BY <1>2, <1>3 DEF OwnRequests
<1>5. ASSUME NEW part \in Parts,
             \/ CreateDirectory(w, part, "mkdir", "createStart") /\ part = "AUCTION"
             \/ CreateDirectory(w, part, "mkdirAsset", "mkdirBids") /\ part = "ASSET"
             \/ CreateDirectory(w, part, "mkdirBids", "moveAsset") /\ part = "BIDS"
      PROVE  BuildInv'
    <2>1. Built(w)'
        BY <1>1, <1>2, <1>3, <1>5 DEF CreateDirectory, Built
    <2>2. Grows
        BY <1>1, <1>2, <1>5 DEF CreateDirectory, Grows
    <2> QED  BY <1>1, <1>2, <1>3, <1>4, <1>5, <2>1, <2>2, StepBuildInv
             DEF CreateDirectory, AssetsAreNew
<1>6. CASE CreateStart(w) \/ WriteStart(w)
    <2>1. Built(w)'
        BY <1>1, <1>2, <1>3, <1>6 DEF CreateStart, WriteStart, Built
    <2>2. Grows
        BY <1>1, <1>2, <1>6, OpeningAssumption DEF CreateStart, WriteStart, Grows
    <2> QED  BY <1>1, <1>2, <1>3, <1>4, <1>6, <2>1, <2>2, StepBuildInv
             DEF CreateStart, WriteStart, AssetsAreNew
<1>7. CASE MoveAsset(w)
    <2>1. Built(w)'
        BY <1>1, <1>2, <1>3, <1>7 DEF MoveAsset, Built
    <2>2. Grows
        BY <1>1, <1>2, <1>7 DEF MoveAsset, Grows
    <2> QED  BY <1>1, <1>2, <1>3, <1>4, <1>7, <2>1, <2>2, StepBuildInv DEF MoveAsset
<1>8. CASE DeleteUpload(w, "deleteUpload", "answer") \/ DeleteUpload(w, "refuse", "done")
    <2>1. Built(w)'
        BY <1>1, <1>2, <1>3, <1>8 DEF DeleteUpload, Built
    <2>2. Grows
        BY <1>1, <1>2, <1>8 DEF DeleteUpload, Grows
    <2> QED  BY <1>1, <1>2, <1>3, <1>4, <1>8, <2>1, <2>2, StepBuildInv DEF DeleteUpload
<1> QED  BY <1>5, <1>6, <1>7, <1>8 DEF Parts

LEMMA NextBuildInv == TypeInv /\ TypeInv' /\ BuildInv /\ [Next]_vars => BuildInv'
<1> SUFFICES ASSUME TypeInv, TypeInv', BuildInv, [Next]_vars  PROVE BuildInv'
    OBVIOUS
<1> USE DEF BuildInv, OwnRequests, AssetsAreNew, Built, OpenedIsComplete
<1>1. CASE UNCHANGED vars \/ BeginList \/ ListNext
    <2>1. UNCHANGED <<pc, request, auctionID, directories, start, assets, uploads, answered>>
        BY <1>1 DEF vars, workerVars, auctionVars, BeginList, ListNext
    <2> QED  BY <2>1
<1>2. ASSUME NEW w \in Workers, OpenAuction(w)  PROVE BuildInv'
    BY <1>2, RequestBuildInv, CounterBuildInv, FilesBuildInv DEF OpenAuction
<1>3. CASE Crash
    BY <1>3 DEF Crash, auctionVars, NumberLabels, DirectoryLabels, StartLabels, BidsLabels
<1> QED  BY <1>1, <1>2, <1>3 DEF Next

(* Whatever openAuction answers OK to stays complete: other workers build
   other requests, and the worker that answered had made every part. *)
THEOREM OpenedAreComplete == Spec => []OpenedIsComplete
<1>1. Init => BuildInv
    BY OpeningAssumption
    DEF Init, BuildInv, OwnRequests, AssetsAreNew, Built, OpenedIsComplete, NumberLabels,
        DirectoryLabels, StartLabels, BidsLabels
<1>2. BuildInv => OpenedIsComplete
    BY DEF BuildInv
<1> QED  BY InitTypeInv, NextTypeInv, NextBuildInv, <1>1, <1>2, PTL DEF Spec

-----------------------------------------------------------------------------
(* Numbers are given once. *)

Opened(a) == "AUCTION" \in directories[a]

(* Worker w has taken number a from the counter, or is about to write the
   counter that no longer gives it away. *)
Holds(w, a) == auctionID[w] = a /\ pc[w] \in NumberLabels \union {"unlock"}

(* As long as nobody unlocked the mutex of somebody else, it guards the counter
   from the moment a worker reads it until it has written it. *)
CounterInv ==
    ~stolen => \A w \in Workers :
        /\ pc[w] \in {"read", "write"} => holder = w
        /\ pc[w] = "write" => auctionID[w] = next_auction.number

(* Number a is the first without a directory, a number above it has one, the
   counter has passed it and no worker is going to make it: a kill lost it, and
   no later open will ever get it. *)
Lost(a) ==
    /\ ~Opened(a) /\ a < next_auction.number
    /\ \A b \in 1..a - 1 : Opened(b)
    /\ \E b \in AuctionIDs : b > a /\ Opened(b)
    /\ \A w \in Workers : ~Holds(w, a)

(* The numbers the counter has passed are those of the auctions there are and
   those of workers. *)
AllAccountedFor ==
    \A a \in AuctionIDs : a < next_auction.number <=> Opened(a) \/ \E w \in Workers : Holds(w, a)

(* No two workers, and no two auctions, have the same number. *)
OwnNumbers ==
    /\ \A v, w \in Workers : \A a \in AuctionIDs : Holds(v, a) /\ Holds(w, a) => v = w
    /\ \A p \in answered : \A w \in Workers : ~Holds(w, p[2])
    /\ \A w \in Workers : pc[w] \in StartLabels => start[auctionID[w]] = request[w]
    /\ \A p, q \in answered : p[2] = q[2] => p = q
    /\ \A p \in answered : start[p[2]] = p[1]

NumberInv == ~stolen => (\E a \in AuctionIDs : Lost(a)) \/ (AllAccountedFor /\ OwnNumbers)

(* setupDB counts the directories there are.  It finds the counter they were
   made with again, or a number is lost. *)
LEMMA SetupDBCounts ==
    ASSUME NEW dirs
    PROVE  \/ \A a \in AuctionIDs : a < SetupDB(dirs).number <=> "AUCTION" \in dirs[a]
           \/ \E a \in AuctionIDs :
                 /\ a < SetupDB(dirs).number /\ "AUCTION" \notin dirs[a]
                 /\ \A b \in 1..a - 1 : "AUCTION" \in dirs[b]
                 /\ \E b \in AuctionIDs : b > a /\ "AUCTION" \in dirs[b]
<1> DEFINE D == {a \in AuctionIDs : "AUCTION" \in dirs[a]}
           T == {k \in Nat \ {0} : k \notin D}
<1> USE OpeningAssumption, IDs
<1>1. IsFiniteSet(D) /\ Cardinality(D) \in Nat
    <2>1. IsFiniteSet(AuctionIDs)
        BY FS_Interval DEF AuctionIDs
    <2> QED  BY <2>1, FS_Subset, FS_CardinalityType
<1>2. SetupDB(dirs).number = Cardinality(D) + 1
    BY DEF SetupDB
<1>3. PICK m \in T : \A k \in T : m <= k
    <2>1. MaxID + 1 \in T
        BY DEF AuctionIDs
    <2> QED  BY <2>1, NatMin
<1>4. m \in Nat \ {0} /\ m \notin D /\ m <= MaxID + 1
    BY <1>3 DEF AuctionIDs
<1>5. \A b \in 1..m - 1 : b \in D
    BY <1>3, <1>4
<1>6. IsFiniteSet(1..m - 1) /\ Cardinality(1..m - 1) = m - 1
    BY <1>4, FS_Interval
<1> HIDE DEF D, T
<1>7. CASE \E b \in D : b > m
    <2>1. PICK b \in D : b > m
        BY <1>7
    <2>2. b \in AuctionIDs /\ m \in AuctionIDs
        BY <1>4, <2>1 DEF D, AuctionIDs
    <2>3. Cardinality((1..m - 1) \union {b}) = m
        <3>1. b \notin 1..m - 1
            BY <1>4, <2>1, <2>2
        <3>2. Cardinality((1..m - 1) \union {b}) = Cardinality(1..m - 1) + 1
            BY <1>6, <3>1, FS_AddElement
        <3> QED  BY <1>4, <1>6, <3>2
    <2>4. (1..m - 1) \union {b} \subseteq D
        BY <1>5, <2>1
    <2>5. m <= Cardinality(D)
        BY <1>1, <2>3, <2>4, FS_Subset
    <2>6. m < SetupDB(dirs).number
        BY <1>1, <1>2, <1>4, <2>5
    <2>7. /\ "AUCTION" \notin dirs[m] /\ "AUCTION" \in dirs[b]
          /\ \A c \in 1..m - 1 : "AUCTION" \in dirs[c]
        BY <1>4, <1>5, <2>2 DEF D
    <2> QED  BY <2>1, <2>2, <2>6, <2>7
<1>8. CASE \A b \in D : ~(b > m)
    <2>1. D = 1..m - 1
        <3>1. D \subseteq AuctionIDs
            BY DEF D
        <3>2. ASSUME NEW b \in D  PROVE b \in 1..m - 1
            <4>1. b \in Nat \ {0} /\ ~(b > m) /\ b # m
                BY <1>4, <1>8, <3>1
            <4> QED  BY <1>4, <4>1
        <3> QED  BY <1>5, <3>2
    <2>2. SetupDB(dirs).number = m
        BY <1>2, <1>4, <1>6, <2>1
    <2>3. \A a \in AuctionIDs : a < m <=> a \in D
        BY <2>1, <1>4
    <2> QED  BY <2>2, <2>3 DEF D
<1> QED  BY <1>7, <1>8

LEMMA NextCounterInv == TypeInv /\ CounterInv /\ [Next]_vars => CounterInv'
<1> SUFFICES ASSUME TypeInv, CounterInv, [Next]_vars  PROVE CounterInv'
    OBVIOUS
<1>1. /\ pc \in [Workers -> Labels] /\ auctionID \in [Workers -> AuctionIDs \union {0}]
    BY DEF TypeInv, TypeOK
<1> USE DEF CounterInv
<1>2. CASE UNCHANGED vars \/ BeginList \/ ListNext
    <2>1. UNCHANGED <<pc, auctionID, next_auction, holder, stolen>>
        BY <1>2 DEF vars, workerVars, mutexVars, BeginList, ListNext
    <2> QED  BY <2>1
<1>3. CASE Crash
    BY <1>3 DEF Crash
<1>4. ASSUME NEW w \in Workers, OpenAuction(w)  PROVE CounterInv'
    <2> USE DEF At, Goto, mutexVars
    <2>1. CASE Lock(w)
        <3> SUFFICES ASSUME ~stolen
                     PROVE  \A u \in Workers :
                               /\ pc'[u] \in {"read", "write"} => holder' = u
                               /\ pc'[u] = "write" => auctionID'[u] = next_auction'.number
            BY <2>1 DEF Lock
        <3>1. \A u \in Workers : pc[u] \notin {"read", "write"}
            <4>1. holder = None
                BY <2>1 DEF Lock, TypeInv, MutexInv
            <4>2. \A u \in Workers : u # None
                BY OpeningAssumption
            <4>3. \A u \in Workers : pc[u] \in {"read", "write"} => holder = u
                OBVIOUS
            <4> QED  BY <4>1, <4>2, <4>3
        <3> QED  BY <1>1, <2>1, <3>1 DEF Lock
    <2>2. CASE ReadNext(w)
        BY <1>1, <2>2 DEF ReadNext
    <2>3. CASE WriteNext(w)
        BY <1>1, <2>3 DEF WriteNext
    <2>4. CASE Unlock(w)
        BY <1>1, <2>4, OpeningAssumption DEF Unlock
    <2>5. CASE ~(Lock(w) \/ ReadNext(w) \/ WriteNext(w) \/ Unlock(w))
        <3>1. /\ UNCHANGED <<next_auction, mutexVars>>
              /\ \A u \in Workers \ {w} : pc'[u] = pc[u] /\ auctionID'[u] = auctionID[u]
              /\ pc'[w] \notin {"read", "write"}
            BY <1>1, <1>4, <2>5
            DEF OpenAuction, Receive, SaveAsset, LoggedIn, CreateDirectory, CreateStart, WriteStart,
                MoveAsset, DeleteUpload, Answer, Finish, Building
        <3> QED  BY <3>1
    <2> QED  BY <2>1, <2>2, <2>3, <2>4, <2>5
<1> QED  BY <1>2, <1>3, <1>4 DEF Next

(* A step that touches neither the counter nor who holds a number, nor the
   directories and START files. *)
SameNumbers ==
    /\ UNCHANGED <<next_auction, start, answered>>
    /\ \A a \in AuctionIDs :
          /\ "AUCTION" \in directories'[a] <=> "AUCTION" \in directories[a]
          /\ \A u \in Workers : Holds(u, a)' <=> Holds(u, a)
    /\ \A u \in Workers : pc'[u] \in StartLabels =>
          pc[u] \in StartLabels /\ auctionID'[u] = auctionID[u] /\ request'[u] = request[u]
    /\ stolen => stolen'

LEMMA SameNumberInv ==
    ASSUME TypeInv, NumberInv, SameNumbers
    PROVE  NumberInv'
<1> SUFFICES ASSUME ~stolen'
             PROVE  (\E a \in AuctionIDs : Lost(a)') \/ (AllAccountedFor' /\ OwnNumbers')
    BY DEF NumberInv
<1> USE DEF SameNumbers
<1>1. CASE \E a \in AuctionIDs : Lost(a)
    <2>1. PICK a \in AuctionIDs : Lost(a)
        BY <1>1
    <2>2. \A b \in 1..a - 1 : b \in AuctionIDs
        BY OpeningAssumption DEF AuctionIDs
    <2>3. Lost(a)'
        BY <2>1, <2>2 DEF Lost, Opened
    <2> QED  BY <2>3
<1>2. CASE AllAccountedFor /\ OwnNumbers
    <2>1. AllAccountedFor'
        BY <1>2 DEF AllAccountedFor, Opened
    <2>2. \A p \in answered : p[2] \in AuctionIDs
        BY DEF TypeInv, TypeOK
    <2>3. OwnNumbers'
        BY <1>2, <2>2 DEF OwnNumbers
    <2> QED  BY <2>1, <2>3
<1> QED  BY <1>1, <1>2 DEF NumberInv

LEMMA QuietNumberInv ==
    ASSUME TypeInv, TypeInv', NumberInv, NEW w \in Workers,
           \/ \E r \in Opens : Receive(w, r)
           \/ SaveAsset(w) \/ LoggedIn(w) \/ Lock(w) \/ ReadNext(w) \/ Unlock(w)
           \/ CreateDirectory(w, "ASSET", "mkdirAsset", "mkdirBids")
           \/ CreateDirectory(w, "BIDS", "mkdirBids", "moveAsset")
           \/ MoveAsset(w)
           \/ DeleteUpload(w, "deleteUpload", "answer")
           \/ DeleteUpload(w, "refuse", "done")
           \/ Finish(w)
    PROVE  NumberInv'
<1> USE DEF At, Goto, Building, auctionVars, mutexVars, NumberLabels, DirectoryLabels, StartLabels,
            BidsLabels
<1>1. /\ pc \in [Workers -> Labels] /\ request \in [Workers -> Opens \union {None}]
      /\ auctionID \in [Workers -> AuctionIDs \union {0}]
      /\ directories \in [AuctionIDs -> SUBSET Parts]
    BY DEF TypeInv, TypeOK
<1>2. /\ pc[w] = "unlock" => unlocks[w] \in 1..3
      /\ pc[w] \in {"idle", "saveAsset", "loggedIn", "lock", "read"} => \A a \in AuctionIDs : ~Holds(w, a)
    BY IDs DEF TypeInv, TypeOK, ControlInv, Holds
<1>3. ASSUME UNCHANGED <<next_auction, start, answered, directories>>, stolen => stolen',
             \A u \in Workers \ {w} :
                 pc'[u] = pc[u] /\ request'[u] = request[u] /\ auctionID'[u] = auctionID[u],
             \A a \in AuctionIDs : Holds(w, a)' <=> Holds(w, a),
             pc'[w] \in StartLabels =>
                 pc[w] \in StartLabels /\ auctionID'[w] = auctionID[w] /\ request'[w] = request[w]
      PROVE  NumberInv'
    <2>1. \A u \in Workers, a \in AuctionIDs : Holds(u, a)' <=> Holds(u, a)
        BY <1>3 DEF Holds
    <2>2. SameNumbers
        BY <1>3, <2>1 DEF SameNumbers
    <2> QED  BY <2>2, SameNumberInv
<1>4. CASE \/ \E r \in Opens : Receive(w, r)
           \/ SaveAsset(w) \/ LoggedIn(w) \/ Lock(w) \/ Finish(w)
    BY <1>1, <1>3, <1>4, IDs DEF Receive, SaveAsset, LoggedIn, Lock, Finish, Holds
<1>5. CASE ReadNext(w)
    <2>1. \A a \in AuctionIDs : Holds(w, a)' <=> Holds(w, a)
        BY <1>1, <1>2, <1>5, IDs DEF ReadNext, Holds, TypeInv, ControlInv
    <2> QED  BY <1>1, <1>3, <1>5, <2>1 DEF ReadNext
<1>6. CASE Unlock(w)
    <2>1. \A a \in AuctionIDs : Holds(w, a)' <=> Holds(w, a)
        BY <1>1, <1>2, <1>6, IDs DEF Unlock, Holds
    <2> QED  BY <1>1, <1>3, <1>6, <2>1 DEF Unlock
<1>7. ASSUME NEW part \in Parts,
             \/ CreateDirectory(w, part, "mkdirAsset", "mkdirBids") /\ part = "ASSET"
             \/ CreateDirectory(w, part, "mkdirBids", "moveAsset") /\ part = "BIDS"
      PROVE  NumberInv'
    <2>1. \A a \in AuctionIDs : "AUCTION" \in directories'[a] <=> "AUCTION" \in directories[a]
        BY <1>1, <1>7 DEF CreateDirectory
    <2>2. SameNumbers
        BY <1>1, <1>7, <2>1 DEF CreateDirectory, SameNumbers, Holds
    <2> QED  BY <2>2, SameNumberInv
<1>8. CASE MoveAsset(w)
    BY <1>1, <1>3, <1>8 DEF MoveAsset, Holds
<1>9. CASE DeleteUpload(w, "deleteUpload", "answer") \/ DeleteUpload(w, "refuse", "done")
    BY <1>1, <1>3, <1>9 DEF DeleteUpload, Holds
<1> QED  BY <1>4, <1>5, <1>6, <1>7, <1>8, <1>9 DEF Parts

(* The counter goes on by one: the worker that wrote it holds the number it
   read, which nobody held and no directory has. *)
LEMMA WriteNextNumberInv ==
    ASSUME TypeInv, BuildInv, CounterInv, NumberInv, NEW w \in Workers, WriteNext(w)
    PROVE  NumberInv'
<1> SUFFICES ASSUME ~stolen
             PROVE  (\E a \in AuctionIDs : Lost(a)') \/ (AllAccountedFor' /\ OwnNumbers')
    BY DEF NumberInv, WriteNext, mutexVars
<1> DEFINE n == auctionID[w]
<1>1. /\ pc \in [Workers -> Labels] /\ pc[w] = "write" /\ n \in AuctionIDs
      /\ n = next_auction.number /\ next_auction'.number = n + 1
      /\ pc' = [pc EXCEPT ![w] = "unlock"]
      /\ UNCHANGED <<request, auctionID, directories, start, answered>>
    BY DEF TypeInv, TypeOK, ControlInv, CounterInv, WriteNext, At, Goto, auctionVars
<1>2. \A u \in Workers, a \in AuctionIDs : Holds(u, a)' <=> Holds(u, a) \/ (u = w /\ a = n)
    BY <1>1 DEF Holds, NumberLabels
<1>3. AuctionIDs \subseteq Nat
    BY IDs
<1> HIDE DEF n
<1>4. CASE \E a \in AuctionIDs : Lost(a)
    <2>1. PICK a \in AuctionIDs : Lost(a)
        BY <1>4
    <2>2. a < n /\ a < next_auction'.number
        BY <1>1, <1>3, <2>1 DEF Lost
    <2>3. Lost(a)'
        BY <1>1, <1>2, <1>3, <2>1, <2>2 DEF Lost, Opened
    <2> QED  BY <2>3
<1>5. CASE AllAccountedFor /\ OwnNumbers
    <2>1. ~Opened(n) /\ \A u \in Workers : ~Holds(u, n)
        BY <1>1, <1>3, <1>5 DEF AllAccountedFor
    <2>2. \A p \in answered : p[2] # n
        BY <2>1 DEF BuildInv, OpenedIsComplete, Opened, Parts
    <2>3. AllAccountedFor'
        <3>1. \A a \in AuctionIDs : a < n + 1 <=> a < n \/ a = n
            BY <1>1, <1>3
        <3>2. \A a \in AuctionIDs : Opened(a)' <=> Opened(a)
            BY <1>1 DEF Opened
        <3> QED  BY <1>1, <1>2, <1>5, <3>1, <3>2 DEF AllAccountedFor
    <2>4. OwnNumbers'
        <3>1. \A v, u \in Workers : \A a \in AuctionIDs : Holds(v, a)' /\ Holds(u, a)' => v = u
            BY <1>2, <1>5, <2>1 DEF OwnNumbers
        <3>2. \A p \in answered : p[2] \in AuctionIDs
            BY DEF TypeInv, TypeOK
        <3>3. \A p \in answered : \A u \in Workers : ~Holds(u, p[2])'
            BY <1>2, <1>5, <2>2, <3>2 DEF OwnNumbers
        <3>4. \A u \in Workers : pc'[u] \in StartLabels => pc[u] \in StartLabels
            BY <1>1 DEF StartLabels, DirectoryLabels, NumberLabels
        <3> QED  BY <1>1, <1>5, <3>1, <3>3, <3>4 DEF OwnNumbers
    <2> QED  BY <2>3, <2>4
<1> QED  BY <1>4, <1>5 DEF NumberInv

(* The directory of a number that its worker holds. *)
LEMMA MkdirNumberInv ==
    ASSUME TypeInv, NumberInv, NEW w \in Workers,
           CreateDirectory(w, "AUCTION", "mkdir", "createStart")
    PROVE  NumberInv'
<1> SUFFICES ASSUME ~stolen
             PROVE  (\E a \in AuctionIDs : Lost(a)') \/ (AllAccountedFor' /\ OwnNumbers')
    BY DEF NumberInv, CreateDirectory, Building, mutexVars
<1>1. /\ pc \in [Workers -> Labels] /\ pc[w] = "mkdir" /\ auctionID[w] \in AuctionIDs
      /\ pc' = [pc EXCEPT ![w] = "createStart"]
      /\ UNCHANGED <<request, auctionID, next_auction, start, answered>>
    BY DEF TypeInv, TypeOK, ControlInv, CreateDirectory, Building, At, Goto, NumberLabels
<1>2. \A a \in AuctionIDs : Opened(a)' <=> Opened(a) \/ a = auctionID[w]
    BY <1>1 DEF TypeInv, TypeOK, CreateDirectory, Opened
<1>3. \A u \in Workers : \A a : Holds(u, a)' <=> Holds(u, a)
    BY <1>1 DEF Holds, NumberLabels
<1>4. Holds(w, auctionID[w])
    BY <1>1 DEF Holds, NumberLabels
<1>5. CASE \E a \in AuctionIDs : Lost(a)
    <2>1. PICK a \in AuctionIDs : Lost(a)
        BY <1>5
    <2>2. a # auctionID[w] /\ \A b \in 1..a - 1 : b \in AuctionIDs
        BY <1>4, <2>1, OpeningAssumption DEF Lost, AuctionIDs
    <2>3. Lost(a)'
        BY <1>1, <1>2, <1>3, <2>1, <2>2 DEF Lost
    <2> QED  BY <2>3
<1>6. CASE AllAccountedFor /\ OwnNumbers
    <2>1. AllAccountedFor'
        BY <1>1, <1>2, <1>3, <1>4, <1>6 DEF AllAccountedFor
    <2>2. OwnNumbers'
        BY <1>1, <1>3, <1>6 DEF OwnNumbers, StartLabels, DirectoryLabels, NumberLabels
    <2> QED  BY <2>1, <2>2
<1> QED  BY <1>5, <1>6 DEF NumberInv

(* A START file is written by the worker that holds its number alone. *)
LEMMA StartNumberInv ==
    ASSUME TypeInv, NumberInv, NEW w \in Workers, CreateStart(w) \/ WriteStart(w)
    PROVE  NumberInv'
<1> SUFFICES ASSUME ~stolen
             PROVE  (\E a \in AuctionIDs : Lost(a)') \/ (AllAccountedFor' /\ OwnNumbers')
    BY DEF NumberInv, CreateStart, WriteStart, Building, mutexVars
<1>1. /\ pc \in [Workers -> Labels] /\ auctionID[w] \in AuctionIDs
      /\ \/ pc[w] = "createStart" /\ pc' = [pc EXCEPT ![w] = "writeStart"]
         \/ pc[w] = "writeStart" /\ pc' = [pc EXCEPT ![w] = "mkdirAsset"]
      /\ UNCHANGED <<request, auctionID, next_auction, directories, answered>>
    BY DEF TypeInv, TypeOK, ControlInv, CreateStart, WriteStart, Building, At, Goto, NumberLabels
<1>2. \A u \in Workers : \A a : Holds(u, a)' <=> Holds(u, a)
    BY <1>1 DEF Holds, NumberLabels
<1>3. /\ \A a \in AuctionIDs \ {auctionID[w]} : start'[a] = start[a]
      /\ pc'[w] = "mkdirAsset" => start'[auctionID[w]] = request[w]
    BY <1>1 DEF TypeInv, TypeOK, CreateStart, WriteStart, Building, At, Goto
<1>4. CASE \E a \in AuctionIDs : Lost(a)
    <2>1. PICK a \in AuctionIDs : Lost(a)
        BY <1>4
    <2>2. Lost(a)'
        BY <1>1, <1>2, <2>1 DEF Lost, Opened
    <2> QED  BY <2>2
<1>5. CASE AllAccountedFor /\ OwnNumbers
    <2>1. AllAccountedFor'
        BY <1>1, <1>2, <1>5 DEF AllAccountedFor, Opened
    <2>2. ASSUME NEW u \in Workers, pc'[u] \in StartLabels  PROVE start'[auctionID[u]] = request[u]
        <3>1. CASE u = w
            BY <1>1, <1>3, <2>2, <3>1 DEF StartLabels, DirectoryLabels, NumberLabels
        <3>2. CASE u # w
            <4>1. pc[u] \in StartLabels /\ start[auctionID[u]] = request[u]
                BY <1>1, <1>5, <2>2, <3>2 DEF OwnNumbers
            <4>2. auctionID[u] \in AuctionIDs /\ auctionID[u] # auctionID[w]
                <5>1. Holds(u, auctionID[u]) /\ Holds(w, auctionID[w]) /\ auctionID[u] \in AuctionIDs
                    BY <1>1, <4>1
                    DEF Holds, StartLabels, DirectoryLabels, NumberLabels, TypeInv, ControlInv
                <5> QED  BY <1>5, <3>2, <5>1 DEF OwnNumbers
            <4> QED  BY <1>3, <4>1, <4>2
        <3> QED  BY <3>1, <3>2
    <2>3. ASSUME NEW p \in answered  PROVE start'[p[2]] = p[1]
        <3>1. Holds(w, auctionID[w])
            BY <1>1 DEF Holds, NumberLabels
        <3>2. p[2] \in AuctionIDs /\ p[2] # auctionID[w]
            BY <1>5, <3>1 DEF OwnNumbers, TypeInv, TypeOK
        <3> QED  BY <1>3, <1>5, <3>2 DEF OwnNumbers
    <2>4. OwnNumbers'
        BY <1>1, <1>2, <1>5, <2>2, <2>3 DEF OwnNumbers
    <2> QED  BY <2>1, <2>4
<1> QED  BY <1>4, <1>5 DEF NumberInv

(* The number of a worker becomes that of an auction. *)
LEMMA AnswerNumberInv ==
    ASSUME TypeInv, BuildInv, NumberInv, NEW w \in Workers, Answer(w)
    PROVE  NumberInv'
<1> SUFFICES ASSUME ~stolen
             PROVE  (\E a \in AuctionIDs : Lost(a)') \/ (AllAccountedFor' /\ OwnNumbers')
    BY DEF NumberInv, Answer, Building, mutexVars
<1>1. /\ pc \in [Workers -> Labels] /\ pc[w] = "answer" /\ auctionID[w] \in AuctionIDs
      /\ pc' = [pc EXCEPT ![w] = "done"]
      /\ answered' = answered \union {<<request[w], auctionID[w]>>}
      /\ UNCHANGED <<request, auctionID, next_auction, directories, start>>
    BY DEF TypeInv, TypeOK, ControlInv, Answer, Building, At, Goto, NumberLabels, auctionVars
<1>2. \A u \in Workers : \A a : Holds(u, a)' <=> Holds(u, a) /\ u # w
    BY <1>1 DEF Holds, NumberLabels
<1>3. Opened(auctionID[w]) /\ Holds(w, auctionID[w])
    BY <1>1 DEF BuildInv, Built, Opened, Holds, NumberLabels, DirectoryLabels
<1>4. CASE \E a \in AuctionIDs : Lost(a)
    <2>1. PICK a \in AuctionIDs : Lost(a)
        BY <1>4
    <2>2. Lost(a)'
        BY <1>1, <1>2, <2>1 DEF Lost, Opened
    <2> QED  BY <2>2
<1>5. CASE AllAccountedFor /\ OwnNumbers
    <2>1. AllAccountedFor'
        <3>1. \A a \in AuctionIDs : Holds(w, a) => a = auctionID[w]
            BY DEF Holds
        <3>2. \A a \in AuctionIDs : Opened(a)' <=> Opened(a)
            BY <1>1 DEF Opened
        <3> QED  BY <1>1, <1>2, <1>3, <1>5, <3>1, <3>2 DEF AllAccountedFor
    <2>2. \A p \in answered : p[2] # auctionID[w]
        BY <1>3, <1>5 DEF OwnNumbers
    <2>3. start[auctionID[w]] = request[w]
        BY <1>1, <1>5 DEF OwnNumbers, StartLabels, DirectoryLabels, NumberLabels
    <2>4. \A u \in Workers \ {w} : ~Holds(u, auctionID[w])
        BY <1>1, <1>3, <1>5 DEF OwnNumbers
    <2>5. \A p \in answered' : p \in answered \/ (p[1] = request[w] /\ p[2] = auctionID[w]
                                                 /\ p = <<request[w], auctionID[w]>>)
        BY <1>1
    <2>6. /\ \A v, u \in Workers : \A a \in AuctionIDs : Holds(v, a)' /\ Holds(u, a)' => v = u
          /\ \A p \in answered' : \A u \in Workers : ~Holds(u, p[2])'
        BY <1>2, <1>5, <2>4, <2>5 DEF OwnNumbers
    <2>7. /\ \A p, q \in answered' : p[2] = q[2] => p = q
          /\ \A p \in answered' : start[p[2]] = p[1]
        BY <1>5, <2>2, <2>3, <2>5 DEF OwnNumbers
    <2>8. \A u \in Workers : pc'[u] \in StartLabels => pc[u] \in StartLabels
        BY <1>1 DEF StartLabels, DirectoryLabels, NumberLabels
    <2> QED  BY <1>1, <1>5, <2>1, <2>6, <2>7, <2>8 DEF OwnNumbers
<1> QED  BY <1>4, <1>5 DEF NumberInv

(* The workers are gone.  Either the directories are those of the first
   numbers, or one of the numbers is lost. *)
LEMMA CrashNumberInv ==
    ASSUME TypeInv, NumberInv, Crash
    PROVE  NumberInv'
<1> SUFFICES ASSUME ~stolen
             PROVE  (\E a \in AuctionIDs : Lost(a)') \/ (AllAccountedFor' /\ OwnNumbers')
    BY DEF NumberInv, Crash
<1>1. /\ next_auction' = SetupDB(directories)
      /\ pc' = [w \in Workers |-> "idle"] /\ auctionID' = [w \in Workers |-> 0]
      /\ UNCHANGED <<directories, start, answered>>
    BY DEF Crash, auctionVars
<1>2. \A u \in Workers : \A a : ~Holds(u, a)'
    BY <1>1 DEF Holds, NumberLabels
<1>3. ASSUME NEW a \in AuctionIDs,
             a < SetupDB(directories).number, "AUCTION" \notin directories[a],
             \A b \in 1..a - 1 : "AUCTION" \in directories[b],
             \E b \in AuctionIDs : b > a /\ "AUCTION" \in directories[b]
      PROVE  Lost(a)'
    BY <1>1, <1>2, <1>3 DEF Lost, Opened
<1>4. ASSUME \A a \in AuctionIDs : a < SetupDB(directories).number <=> "AUCTION" \in directories[a]
      PROVE  AllAccountedFor' /\ OwnNumbers'
    <2>1. AllAccountedFor'
        BY <1>1, <1>2, <1>4 DEF AllAccountedFor, Opened
    <2>2. ASSUME NEW a \in AuctionIDs, Lost(a)  PROVE FALSE
        <3>1. PICK b \in AuctionIDs : b > a /\ Opened(b)
            BY <2>2 DEF Lost
        <3>2. a \in Nat /\ b \in Nat /\ SetupDB(directories).number \in Nat
            BY IDs, SetupDBType
        <3>3. a < SetupDB(directories).number
            BY <1>4, <3>1, <3>2 DEF Opened
        <3> QED  BY <1>4, <2>2, <3>3 DEF Lost, Opened
    <2>3. OwnNumbers
        BY <2>2 DEF NumberInv
    <2>4. \A p \in answered : p[2] \in AuctionIDs
        BY DEF TypeInv, TypeOK
    <2>5. \A u \in Workers : pc'[u] \notin StartLabels
        BY <1>1 DEF StartLabels, DirectoryLabels, NumberLabels
    <2>6. OwnNumbers'
        BY <1>1, <1>2, <2>3, <2>4, <2>5 DEF OwnNumbers
    <2> QED  BY <2>1, <2>6
<1> QED  BY <1>3, <1>4, SetupDBCounts

LEMMA NextNumberInv ==
    TypeInv /\ TypeInv' /\ BuildInv /\ CounterInv /\ NumberInv /\ [Next]_vars => NumberInv'
<1> SUFFICES ASSUME TypeInv, TypeInv', BuildInv, CounterInv, NumberInv, [Next]_vars
             PROVE  NumberInv'
    OBVIOUS
<1>1. CASE UNCHANGED vars \/ BeginList \/ ListNext
    <2>1. /\ UNCHANGED <<pc, request, auctionID, next_auction, directories, start, answered, stolen>>
        BY <1>1 DEF vars, workerVars, mutexVars, auctionVars, BeginList, ListNext
    <2> QED  BY <2>1, SameNumberInv DEF SameNumbers, Holds
<1>2. ASSUME NEW w \in Workers, OpenAuction(w)  PROVE NumberInv'
    BY <1>2, QuietNumberInv, WriteNextNumberInv, MkdirNumberInv, StartNumberInv, AnswerNumberInv
    DEF OpenAuction
<1>3. CASE Crash
    BY <1>3, CrashNumberInv
<1> QED  BY <1>1, <1>2, <1>3 DEF Next

LEMMA InitNumbers == Init => BuildInv /\ CounterInv /\ NumberInv
<1> SUFFICES ASSUME Init  PROVE BuildInv /\ CounterInv /\ NumberInv
    OBVIOUS
<1>1. /\ pc = [w \in Workers |-> "idle"] /\ request = [w \in Workers |-> None]
      /\ directories = [a \in AuctionIDs |-> {}] /\ answered = {}
      /\ next_auction = SetupDB(directories)
    BY DEF Init
<1>2. BuildInv
    BY <1>1, OpeningAssumption
    DEF BuildInv, OwnRequests, AssetsAreNew, Built, OpenedIsComplete, NumberLabels, DirectoryLabels,
        StartLabels, BidsLabels
<1>3. CounterInv
    BY <1>1 DEF CounterInv
<1>4. \A u \in Workers : \A a : ~Holds(u, a)
    BY <1>1 DEF Holds, NumberLabels
<1>5. AllAccountedFor
    BY <1>1, <1>4, SetupDBCounts DEF AllAccountedFor, Opened
<1>6. OwnNumbers
    BY <1>1, <1>4 DEF OwnNumbers, StartLabels, DirectoryLabels, NumberLabels
<1> QED  BY <1>2, <1>3, <1>5, <1>6 DEF NumberInv

(* No two opens have the same number, and none overwrites another's START
   file, unless the second unlock of getNextAuctionID freed fileMutex under
   somebody else or a kill left a hole in the numbers. *)
THEOREM NumbersUnique == Spec => []NumbersAreUnique
<1>1. TypeInv /\ NumberInv => NumbersAreUnique
    <2> SUFFICES ASSUME TypeInv, NumberInv, ~stolen, \A a \in AuctionIDs : ~Missing(a)
                 PROVE  OwnNumbers
        BY DEF NumbersAreUnique, OwnNumbers
    <2>1. \A a \in AuctionIDs : ~Lost(a)
        BY DEF Missing, Lost, Opened
    <2> QED  BY <2>1 DEF NumberInv
<1> QED  BY InitTypeInv, InitNumbers, NextTypeInv, NextBuildInv, NextCounterInv, NextNumberInv, <1>1,
            PTL DEF Spec

-----------------------------------------------------------------------------
(* A listing. *)

(* What was answered before the listing began lies before its end, or the
   listing has a lost number before it and will not get there. *)
ListInv ==
    ~stolen =>
        \/ known \subseteq 1..numAuctions
        \/ \E a \in AuctionIDs : Lost(a) /\ listing < a /\ a <= numAuctions

(* A lost number stays lost. *)
LEMMA LostStays ==
    ASSUME TypeInv, CounterInv, ~stolen', [Next]_vars, NEW a \in AuctionIDs, Lost(a)
    PROVE  Lost(a)'
<1> USE IDs DEF At, Goto, Building, mutexVars, auctionVars, NumberLabels
<1>1. /\ pc \in [Workers -> Labels] /\ auctionID \in [Workers -> AuctionIDs \union {0}]
      /\ directories \in [AuctionIDs -> SUBSET Parts]
      /\ \A b \in 1..a - 1 : b \in AuctionIDs
    BY OpeningAssumption DEF TypeInv, TypeOK, AuctionIDs
<1>2. CASE UNCHANGED vars \/ BeginList \/ ListNext
    <2>1. UNCHANGED <<pc, auctionID, next_auction, directories>>
        BY <1>2 DEF vars, workerVars, BeginList, ListNext
    <2> QED  BY <2>1 DEF Lost, Opened, Holds
<1>3. CASE Crash
    <2>1. /\ next_auction' = SetupDB(directories) /\ directories' = directories
          /\ \A u \in Workers : ~Holds(u, a)'
        BY <1>3 DEF Crash, Holds
    <2>2. a < SetupDB(directories).number
        <3>1. PICK b \in AuctionIDs : b > a /\ Opened(b)
            BY DEF Lost
        <3>2. a \in Nat /\ b \in Nat /\ SetupDB(directories).number \in Nat
            BY SetupDBType
        <3>3. CASE \A c \in AuctionIDs : c < SetupDB(directories).number <=> "AUCTION" \in directories[c]
            BY <3>1, <3>2, <3>3 DEF Opened
        <3>4. ASSUME NEW c \in AuctionIDs, c < SetupDB(directories).number,
                     "AUCTION" \notin directories[c], \A d \in 1..c - 1 : "AUCTION" \in directories[d]
              PROVE  a < SetupDB(directories).number
            <4>1. ~(a < c)
                BY <3>2, <3>4 DEF Lost, Opened
            <4>2. ~(c < a)
                BY <3>2, <3>4 DEF Lost, Opened
            <4> QED  BY <3>2, <3>4, <4>1, <4>2
        <3> QED  BY <3>3, <3>4, SetupDBCounts
    <2> QED  BY <2>1, <2>2 DEF Lost, Opened
<1>4. ASSUME NEW w \in Workers, OpenAuction(w)  PROVE Lost(a)'
    <2>1. CASE WriteNext(w)
        <3>1. ~stolen /\ pc[w] = "write" /\ auctionID[w] = next_auction.number
            BY <2>1 DEF WriteNext, CounterInv
        <3>2. a < auctionID[w] /\ next_auction'.number = auctionID[w] + 1
            BY <2>1, <3>1 DEF Lost, WriteNext
        <3>3. auctionID[w] \in AuctionIDs
            BY <3>1 DEF TypeInv, ControlInv
        <3>4. a < next_auction'.number
            <4>1. a \in Nat /\ auctionID[w] \in Nat
                BY <3>3
            <4>2. \A m, n \in Nat : m < n => m < n + 1
                OBVIOUS
            <4> QED  BY <3>2, <4>1, <4>2, Zenon
        <3>5. \A u \in Workers : ~Holds(u, a)'
            BY <1>1, <2>1, <3>2, <3>3 DEF Lost, WriteNext, Holds
        <3> QED  BY <2>1, <3>4, <3>5 DEF Lost, Opened, WriteNext
    <2>2. ASSUME NEW part \in Parts, NEW from, NEW to, from \in NumberLabels,
                 to \in NumberLabels, CreateDirectory(w, part, from, to)
          PROVE  Lost(a)'
        <3>1. \A u \in Workers : Holds(u, a)' <=> Holds(u, a)
            BY <1>1, <2>2 DEF CreateDirectory, Holds
        <3>2. auctionID[w] # a
            BY <2>2 DEF CreateDirectory, Lost, Holds
        <3>3. /\ directories'[a] = directories[a]
              /\ \A b \in AuctionIDs : directories[b] \subseteq directories'[b]
            BY <1>1, <2>2, <3>2 DEF CreateDirectory
        <3> QED  BY <1>1, <2>2, <3>1, <3>3 DEF CreateDirectory, Lost, Opened
    <2>3. ASSUME ~WriteNext(w), UNCHANGED <<next_auction, directories>>
          PROVE  Lost(a)'
        <3>1. \A u \in Workers \ {w} : Holds(u, a)' <=> Holds(u, a)
            BY <1>1, <1>4, <2>3
            DEF OpenAuction, Receive, SaveAsset, LoggedIn, Lock, ReadNext, Unlock, CreateDirectory,
                CreateStart, WriteStart, MoveAsset, DeleteUpload, Answer, Finish, Holds
        <3>2. Holds(w, a)' => Holds(w, a)
            BY <1>1, <1>4, <2>3
            DEF OpenAuction, Receive, SaveAsset, LoggedIn, Lock, ReadNext, Unlock, CreateDirectory,
                CreateStart, WriteStart, MoveAsset, DeleteUpload, Answer, Finish, Holds, TypeInv,
                ControlInv
        <3> QED  BY <2>3, <3>1, <3>2 DEF Lost, Opened
    <2>4. \/ WriteNext(w)
          \/ CreateDirectory(w, "AUCTION", "mkdir", "createStart")
          \/ CreateDirectory(w, "ASSET", "mkdirAsset", "mkdirBids")
          \/ CreateDirectory(w, "BIDS", "mkdirBids", "moveAsset")
          \/ UNCHANGED <<next_auction, directories>>
        BY <1>4
        DEF OpenAuction, Receive, SaveAsset, LoggedIn, Lock, ReadNext, Unlock,
            CreateStart, WriteStart, MoveAsset, DeleteUpload, Answer, Finish
    <2> QED  BY <2>1, <2>2, <2>3, <2>4 DEF Parts
<1> QED  BY <1>2, <1>3, <1>4 DEF Next

LEMMA NextListInv ==
    TypeInv /\ TypeInv' /\ BuildInv /\ CounterInv /\ NumberInv /\ ListInv /\ [Next]_vars => ListInv'
<1> SUFFICES ASSUME TypeInv, TypeInv', BuildInv, CounterInv, NumberInv, ListInv, [Next]_vars, ~stolen'
             PROVE  \/ known' \subseteq 1..numAuctions'
                    \/ \E a \in AuctionIDs : Lost(a)' /\ listing' < a /\ a <= numAuctions'
    BY DEF ListInv
<1>1. CASE UNCHANGED listVars
    <2>1. ~stolen
        BY <1>1 DEF Next, vars, OpenAuction, Receive, SaveAsset, LoggedIn, Lock, ReadNext, WriteNext,
                    Unlock, CreateDirectory, CreateStart, WriteStart, MoveAsset, DeleteUpload, Answer,
                    Finish, BeginList, ListNext, Crash, Building, mutexVars
    <2> QED  BY <1>1, <2>1, LostStays DEF ListInv, listVars
<1>2. CASE BeginList
    <2>1. /\ ~stolen /\ listing' = 0 /\ numAuctions' = next_auction.number - 1
          /\ known' = {p[2] : p \in answered}
        BY <1>2 DEF BeginList, mutexVars
    <2>2. next_auction.number \in Nat \ {0}
        BY OpeningAssumption DEF TypeInv, TypeOK
    <2>3. CASE \E a \in AuctionIDs : Lost(a)
        <3>1. PICK a \in AuctionIDs : Lost(a)
            BY <2>3
        <3>2. a \in Nat \ {0} /\ a < next_auction.number
            BY <3>1, IDs DEF Lost
        <3> QED  BY <2>1, <2>2, <3>1, <3>2, LostStays
    <2>4. CASE AllAccountedFor
        <3>1. ASSUME NEW p \in answered  PROVE p[2] \in 1..next_auction.number - 1
            <4>1. p[2] \in AuctionIDs /\ Opened(p[2])
                BY DEF TypeInv, TypeOK, BuildInv, OpenedIsComplete, Opened, Parts
            <4>2. p[2] < next_auction.number
                BY <2>4, <4>1 DEF AllAccountedFor
            <4>3. \A a \in AuctionIDs : a \in Nat \ {0}
                BY IDs
            <4> HIDE DEF Opened
            <4> QED  BY <2>2, <4>1, <4>2, <4>3
        <3> QED  BY <2>1, <3>1
    <2> QED  BY <2>1, <2>3, <2>4 DEF NumberInv
<1>3. CASE ListNext
    <2>1. CASE NoListing
        BY <2>1 DEF NoListing
    <2>2. CASE ~NoListing
        <3>1. /\ ~stolen /\ Opened(listing + 1) /\ listing' = listing + 1
              /\ UNCHANGED <<numAuctions, known>>
            BY <1>3, <2>2 DEF ListNext, mutexVars, Opened
        <3>2. ASSUME NEW a \in AuctionIDs, Lost(a), listing < a  PROVE listing' < a
            <4>1. a # listing + 1 /\ a \in Nat /\ listing \in Nat
                BY <3>1, <3>2, IDs DEF Lost, TypeInv, TypeOK
            <4> QED  BY <3>1, <3>2, <4>1
        <3> QED  BY <3>1, <3>2, LostStays DEF ListInv
    <2> QED  BY <2>1, <2>2
<1>4. CASE Crash
    BY <1>4 DEF Crash, NoListing
<1>5. ASSUME NEW w \in Workers, OpenAuction(w)  PROVE UNCHANGED listVars
    BY <1>5 DEF OpenAuction, Receive, SaveAsset, LoggedIn, Lock, ReadNext, WriteNext, Unlock,
                CreateDirectory, CreateStart, WriteStart, MoveAsset, DeleteUpload, Answer, Finish,
                Building
<1>6. UNCHANGED vars => UNCHANGED listVars
    BY DEF vars
<1> QED  BY <1>1, <1>2, <1>3, <1>4, <1>5, <1>6 DEF Next

(* A listing that is answered shows every auction answered before it began,
   unless the second unlock freed fileMutex under somebody else: a kill that
   loses a number makes every later listing fail, it never makes one short. *)
THEOREM ListingComplete == Spec => []ListingIsComplete
<1>1. Init => ListInv
    BY DEF Init, ListInv
<1>2. TypeInv /\ ListInv => ListingIsComplete
    <2> SUFFICES ASSUME TypeInv, ListInv, ~Listing, ~stolen  PROVE known \subseteq 1..listing
        BY DEF ListingIsComplete
    <2>1. listing = numAuctions /\ numAuctions \in Nat
        BY OpeningAssumption DEF TypeInv, TypeOK, Listing
    <2> QED  BY <2>1, IDs DEF ListInv
<1> QED  BY InitTypeInv, InitNumbers, NextTypeInv, NextBuildInv, NextCounterInv, NextNumberInv,
            NextListInv, <1>1, <1>2, PTL DEF Spec
=============================================================================

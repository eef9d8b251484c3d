---------------------------- MODULE AuctionOpening ----------------------------
(***************************************************************************)
(* How auctions come into being: the workers that handle OPA requests      *)
(* (handleOpenAuction, openAuction, getNextAuctionID), the kill of the     *)
(* server between any two of their file operations, the count setupDB      *)
(* takes of the directories at the next start, and the main thread that    *)
(* lists the auctions meanwhile.                                           *)
(*                                                                         *)
(* fileMutex guards the counter file.  getNextAuctionID unlocks it by hand *)
(* and leaves a lock_guard that unlocks it again; the mutex of the C       *)
(* library keeps no owner, so that the unlock that comes too late frees it *)
(* for whoever holds it then.                                              *)
(*                                                                         *)
(* An open request stands for its owner, its values and its asset at once. *)
(***************************************************************************)
EXTENDS Naturals, FiniteSets

CONSTANTS
    Workers,
    Opens,              \* the open requests clients send
    MaxID,              \* the greatest number of AUCTION_ID_LENGTH digits
    MaxIDWithBreak,     \* and of one digit less, which leaves room for a line break
    Crashes,            \* whether the server may be killed
    NoFile, EmptyFile,
    None

ASSUME OpeningAssumption ==
    /\ MaxID \in Nat \ {0} /\ MaxIDWithBreak \in 0..MaxID
    /\ {NoFile, EmptyFile, None} \intersect Opens = {}
    /\ NoFile # EmptyFile /\ None \notin Workers
    /\ Crashes \in BOOLEAN

AuctionIDs == 1..MaxID

VARIABLES
    pc, request,        \* where each worker is, and the request it handles
    auctionID,          \* the number it has read from the counter file
    unlocks,            \* how often it is still going to unlock fileMutex
    fileMutex,
    next_auction,       \* the counter file: a number, and a line break or not
    directories, start, assets, \* what there is of each auction
    uploads,            \* the temporary directories of assets
    listing,            \* the number of the last auction listAuctions has seen
    numAuctions,        \* and of those it wants to see
    known,              \* history: the auctions answered before the listing began
    answered,           \* history: the requests answered OK, with their number
    holder, stolen      \* history: who locked fileMutex, whether another freed it

workerVars == <<pc, request, auctionID, unlocks>>
mutexVars == <<fileMutex, holder, stolen>>
auctionVars == <<directories, start, assets, uploads>>
listVars == <<listing, numAuctions, known>>
vars == <<workerVars, mutexVars, next_auction, auctionVars, listVars, answered>>

Parts == {"AUCTION", "ASSET", "BIDS"}

At(w, label) == pc[w] = label
Goto(w, label) == pc' = [pc EXCEPT ![w] = label]

(* The step of a worker that changes nothing but the files of an auction, and
   what it leaves alone. *)
Building(w, from, to) ==
    /\ At(w, from) /\ Goto(w, to)
    /\ UNCHANGED <<request, auctionID, unlocks, mutexVars, next_auction, listVars>>

-----------------------------------------------------------------------------
(* The counter file. *)

(* The contents of the file are longer than AUCTION_ID_LENGTH characters. *)
TooLong(file) == file.number > IF file.newline THEN MaxIDWithBreak ELSE MaxID

(* Mutant: the next number is not counted. *)
SetupDBForgetsNext(dirs) ==
    [number |-> Cardinality({a \in AuctionIDs : "AUCTION" \in dirs[a]}), newline |-> TRUE]

SetupDB(dirs) ==
    [number |-> Cardinality({a \in AuctionIDs : "AUCTION" \in dirs[a]}) + 1, newline |-> TRUE]

(* Mutant: nobody waits for the mutex. *)
LockUnguarded(w) ==
    /\ At(w, "lock") /\ Goto(w, "read")
    /\ fileMutex' = "locked" /\ holder' = w
    /\ UNCHANGED <<request, auctionID, unlocks, stolen, next_auction, auctionVars, listVars,
                   answered>>

Lock(w) ==
    /\ At(w, "lock") /\ Goto(w, "read")
    /\ fileMutex = "unlocked" /\ fileMutex' = "locked" /\ holder' = w
    /\ UNCHANGED <<request, auctionID, unlocks, stolen, next_auction, auctionVars, listVars,
                   answered>>

(* Mutant: the counter may outgrow the numbers. *)
ReadNextUnlimited(w) ==
    /\ At(w, "read")
    /\ auctionID' = [auctionID EXCEPT ![w] = next_auction.number]
    /\ Goto(w, "write") /\ UNCHANGED unlocks
    /\ UNCHANGED <<request, mutexVars, next_auction, auctionVars, listVars, answered>>

(* When the file is longer than a number may be, the mutex is unlocked by hand,
   by the guard and by the handler of the exception. *)
ReadNext(w) ==
    /\ At(w, "read")
    /\ IF TooLong(next_auction)
       THEN Goto(w, "unlock") /\ unlocks' = [unlocks EXCEPT ![w] = 3] /\ UNCHANGED auctionID
       ELSE /\ auctionID' = [auctionID EXCEPT ![w] = next_auction.number]
            /\ Goto(w, "write") /\ UNCHANGED unlocks
    /\ UNCHANGED <<request, mutexVars, next_auction, auctionVars, listVars, answered>>

WriteNext(w) ==
    /\ At(w, "write") /\ Goto(w, "unlock")
    /\ next_auction' = [number |-> auctionID[w] + 1, newline |-> FALSE]
    /\ unlocks' = [unlocks EXCEPT ![w] = 2]
    /\ UNCHANGED <<request, auctionID, mutexVars, auctionVars, listVars, answered>>

Unlock(w) ==
    /\ At(w, "unlock")
    /\ fileMutex' = "unlocked" /\ holder' = None
    /\ stolen' = (stolen \/ holder \notin {w, None})
    /\ unlocks' = [unlocks EXCEPT ![w] = @ - 1]
    /\ Goto(w, CASE unlocks[w] > 1 -> "unlock"
                 [] unlocks[w] = 1 /\ auctionID[w] # 0 -> "mkdir"
                 [] OTHER -> "refuse")
    /\ UNCHANGED <<request, auctionID, next_auction, auctionVars, listVars, answered>>

-----------------------------------------------------------------------------
(* The rest of an OPA request. *)

(* The password is right, or the worker answers at once. *)
Receive(w, r) ==
    /\ At(w, "idle") /\ request' = [request EXCEPT ![w] = r]
    /\ \A v \in Workers : request[v] # r
    /\ r \notin uploads /\ \A a \in AuctionIDs : r \notin assets[a]
    /\ Goto(w, "saveAsset") \/ Goto(w, "done")
    /\ auctionID' = [auctionID EXCEPT ![w] = 0]
    /\ UNCHANGED <<unlocks, mutexVars, next_auction, auctionVars, listVars, answered>>

(* The asset arrives, or what has arrived of it stays behind. *)
SaveAsset(w) ==
    /\ At(w, "saveAsset")
    /\ uploads' = uploads \union {request[w]}
    /\ Goto(w, "loggedIn") \/ Goto(w, "done")
    /\ UNCHANGED <<request, auctionID, unlocks, mutexVars, next_auction, directories, start,
                   assets, listVars, answered>>

(* isUserLoggedIn, whose answer is the business of UserManager. *)
LoggedIn(w) ==
    /\ At(w, "loggedIn")
    /\ Goto(w, "lock") \/ Goto(w, "done")
    /\ UNCHANGED <<request, auctionID, unlocks, mutexVars, next_auction, auctionVars, listVars,
                   answered>>

CreateDirectory(w, part, from, to) ==
    /\ Building(w, from, to)
    /\ directories' = [directories EXCEPT ![auctionID[w]] = @ \union {part}]
    /\ UNCHANGED <<start, assets, uploads, answered>>

CreateStart(w) ==
    /\ Building(w, "createStart", "writeStart")
    /\ start' = [start EXCEPT ![auctionID[w]] = IF @ = NoFile THEN EmptyFile ELSE @]
    /\ UNCHANGED <<directories, assets, uploads, answered>>

WriteStart(w) ==
    /\ Building(w, "writeStart", "mkdirAsset")
    /\ start' = [start EXCEPT ![auctionID[w]] = request[w]]
    /\ UNCHANGED <<directories, assets, uploads, answered>>

(* Mutant: the temporary directory is deleted first. *)
MoveAssetTooLate(w) ==
    /\ Building(w, "moveAsset", "deleteUpload")
    /\ uploads' = uploads \ {request[w]}
    /\ UNCHANGED <<directories, start, assets, answered>>

MoveAsset(w) ==
    /\ Building(w, "moveAsset", "deleteUpload")
    /\ assets' = [assets EXCEPT ![auctionID[w]] = @ \union {request[w]}]
    /\ UNCHANGED <<directories, start, uploads, answered>>

DeleteUpload(w, from, to) ==
    /\ Building(w, from, to)
    /\ uploads' = uploads \ {request[w]}
    /\ UNCHANGED <<directories, start, assets, answered>>

Answer(w) ==
    /\ Building(w, "answer", "done")
    /\ answered' = answered \union {<<request[w], auctionID[w]>>}
    /\ UNCHANGED auctionVars

Finish(w) ==
    /\ At(w, "done") /\ Goto(w, "idle")
    /\ request' = [request EXCEPT ![w] = None]
    /\ UNCHANGED <<auctionID, unlocks, mutexVars, next_auction, auctionVars, listVars, answered>>

OpenAuction(w) ==
    \/ \E r \in Opens : Receive(w, r)
    \/ SaveAsset(w) \/ LoggedIn(w) \/ Lock(w) \/ ReadNext(w) \/ WriteNext(w) \/ Unlock(w)
    \/ CreateDirectory(w, "AUCTION", "mkdir", "createStart")
    \/ CreateStart(w) \/ WriteStart(w)
    \/ CreateDirectory(w, "ASSET", "mkdirAsset", "mkdirBids")
    \/ CreateDirectory(w, "BIDS", "mkdirBids", "moveAsset")
    \/ MoveAsset(w)
    \/ DeleteUpload(w, "deleteUpload", "answer")
    \/ DeleteUpload(w, "refuse", "done")
    \/ Answer(w) \/ Finish(w)

-----------------------------------------------------------------------------
(* listAuctions, in the main thread. *)

Listing == listing < numAuctions
NoListing == listing' = 0 /\ numAuctions' = 0 /\ known' = {}

(* Mutant: the counter is taken for the number of auctions less two. *)
BeginListShort ==
    /\ ~Listing
    /\ listing' = 0 /\ numAuctions' = IF next_auction.number > 1 THEN next_auction.number - 2 ELSE 0
    /\ known' = {p[2] : p \in answered}
    /\ UNCHANGED <<workerVars, mutexVars, next_auction, auctionVars, answered>>

BeginList ==
    /\ ~Listing
    /\ listing' = 0 /\ numAuctions' = next_auction.number - 1
    /\ known' = {p[2] : p \in answered}
    /\ UNCHANGED <<workerVars, mutexVars, next_auction, auctionVars, answered>>

(* An auction without its directory ends the listing with an exception, and so
   does, at best, one without the contents of its START file. *)
ListNext ==
    /\ Listing
    /\ IF "AUCTION" \in directories[listing + 1] /\ start[listing + 1] \in Opens
       THEN listing' = listing + 1 /\ UNCHANGED <<numAuctions, known>>
       ELSE NoListing
    /\ UNCHANGED <<workerVars, mutexVars, next_auction, auctionVars, answered>>

-----------------------------------------------------------------------------
(* The kill of the server, and its next start. *)

Crash ==
    /\ Crashes
    /\ pc' = [w \in Workers |-> "idle"]
    /\ request' = [w \in Workers |-> None]
    /\ auctionID' = [w \in Workers |-> 0]
    /\ unlocks' = [w \in Workers |-> 0]
    /\ fileMutex' = "unlocked" /\ holder' = None
    /\ next_auction' = SetupDB(directories)
    /\ NoListing
    /\ UNCHANGED <<auctionVars, answered, stolen>>

Init ==
    /\ directories = [a \in AuctionIDs |-> {}]
    /\ start = [a \in AuctionIDs |-> NoFile]
    /\ assets = [a \in AuctionIDs |-> {}]
    /\ uploads = {}
    /\ pc = [w \in Workers |-> "idle"]
    /\ request = [w \in Workers |-> None]
    /\ auctionID = [w \in Workers |-> 0]
    /\ unlocks = [w \in Workers |-> 0]
    /\ fileMutex = "unlocked" /\ holder = None /\ stolen = FALSE
    /\ next_auction = SetupDB(directories)
    /\ listing = 0 /\ numAuctions = 0 /\ known = {}
    /\ answered = {}

Next ==
    \/ \E w \in Workers : OpenAuction(w)
    \/ BeginList \/ ListNext \/ Crash

Spec == Init /\ [][Next]_vars

-----------------------------------------------------------------------------
(* Properties. *)

Labels == {"idle", "saveAsset", "loggedIn", "lock", "read", "write", "unlock", "refuse", "mkdir",
           "createStart", "writeStart", "mkdirAsset", "mkdirBids", "moveAsset", "deleteUpload", "answer", "done"}

TypeOK ==
    /\ pc \in [Workers -> Labels]
    /\ request \in [Workers -> Opens \union {None}]
    /\ auctionID \in [Workers -> AuctionIDs \union {0}]
    /\ unlocks \in [Workers -> 0..3]
    /\ fileMutex \in {"locked", "unlocked"}
    /\ next_auction \in [number : 1..MaxID + 1, newline : BOOLEAN]
    /\ directories \in [AuctionIDs -> SUBSET Parts]
    /\ start \in [AuctionIDs -> Opens \union {NoFile, EmptyFile}]
    /\ assets \in [AuctionIDs -> SUBSET Opens]
    /\ uploads \in SUBSET Opens
    /\ listing \in 0..MaxID /\ numAuctions \in 0..MaxID
    /\ known \in SUBSET AuctionIDs
    /\ answered \in SUBSET (Opens \X AuctionIDs)
    /\ holder \in Workers \union {None} /\ stolen \in BOOLEAN

(* What openAuction answers OK to is there in full, through every later open
   and every kill: its directories, a START file with contents, its asset. *)
OpenedIsComplete ==
    \A p \in answered :
        /\ directories[p[2]] = Parts
        /\ start[p[2]] \in Opens
        /\ p[1] \in assets[p[2]] /\ p[1] \notin uploads

Missing(a) == "AUCTION" \notin directories[a] /\ \E b \in AuctionIDs :
                  b > a /\ "AUCTION" \in directories[b]

(* Two opens get the same number, and one overwrites the auction of the other,
   only after the second unlock of getNextAuctionID freed fileMutex under
   somebody else, or after a kill that left a number without a directory below
   one that has it. *)
NumbersAreUnique ==
    ~stolen /\ (\A a \in AuctionIDs : ~Missing(a)) =>
        /\ \A p, q \in answered : p[2] = q[2] => p = q
        /\ \A p \in answered : start[p[2]] = p[1]

(* A listing that is answered shows every auction whose open was answered
   before the listing began, unless the second unlock freed fileMutex under
   somebody else: the counter may then fall behind. *)
ListingIsComplete ==
    ~Listing /\ ~stolen => known \subseteq 1..listing

(* "to lock the next auction ID counter file" (server_auction.cpp:4): no two
   auctions that were opened have the same number. *)
NumbersAreNeverShared ==
    \A p, q \in answered : p[2] = q[2] => p = q
=============================================================================

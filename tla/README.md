# The auction system in TLA+

Specifications, model-checking runs and machine-checked proofs for RC-Project:
an auction server (AS) and its user application, in C++. All paths below are
relative to the repository's own `src/` directory unless they begin with `src/`.

## The system

### Components, their state and their operations

| Component | Code | State it keeps | Operations |
|---|---|---|---|
| Accounts | `server/server_user.cpp`, `server/handlers.cpp` | `USERS/<uid>/<uid>_pass.txt` and `_login.txt` | LIN (login or register), LOU, UNR |
| Authentication | `server/server_auction.cpp`, `server/handlers.cpp` | none, it reads the account files | the checks at the start of BID, CLS, OPA, LMA, LMB |
| Auctions | `server/server_auction.cpp` | per auction a directory with a START file, an END file once it is over, a file per bid | BID, CLS, SAS, SRC, LST, LMA, LMB |
| Opening | `openAuction`, `getNextAuctionID`, `OpenAuctionRequest::receive` | the counter file, temporary upload directories | OPA |
| Start of the server | `setupDB` in `server/server.cpp` | writes the counter file from a count of directories | at every start |
| UDP side of the server | `server/server.cpp`, `server/server_state.cpp` | none | one datagram at a time, in the main thread |
| TCP side of the server | `server/tcp_worker_pool.cpp`, `tcpMainThread` | the pool: busy marks, a mutex and a condition variable per worker, the exception count | accept, hand over, serve, shut down |
| Protocol | `utils/protocol.cpp` | none | packets, statuses, asset transfer, send and wait |
| File operations | `utils/utils.cpp` | a map from paths to mutexes | create, read, write, move, delete; each under the mutex of its path |
| User application | `client/` | the user and password of its session | twelve commands; UDP with retries, TCP without |

### How they interact

The main thread of the server serves UDP, a second thread accepts TCP
connections and gives each to one of 50 workers. All of them work on the same
directory tree. Nothing is kept in memory between two requests, and no lock is
held from one file operation to the next, except `fileMutex` around the counter
file. So every sequence "look, then act" of a handler is open to all the other
threads, and a kill between any two file operations leaves the files as they
are for the next start. The client learns of the server's state only through
replies; over UDP it repeats a command that got none, and packets carry nothing
that tells one command from another.

### What is hard, and what makes each component correct

* Accounts: several file operations per command, kills between them. A command
  must look indivisible to the next; nobody is logged in without a password on
  file; a password goes only with the unregister that gave it.
* Auctions: workers and the main thread interleave inside every check; nobody
  closes an auction when its time is up, the first request that notices does.
  An END file must never be ahead of the clock or written for the wrong reason;
  late requests are refused; a bid beats the bids that were there when it came;
  listings and records show what was there when they were asked for.
* Opening: one number per auction across workers, restarts and half-made
  directories; what was answered OK stays complete.
* Worker pool: locks taken in both orders, a notification that may come before
  the wait, a full pool, shutdown in the middle of everything.
* The server process: its main thread owns what all threads use, and either
  side, or a signal, ends both through one flag. Nothing may outlive `main`, and
  everything must end.
* UDP exchange: lost, late, copied and overtaken datagrams, errors of the socket in
  the wait, a retry of what was already done, replies taken for those of another
  command, readings that are old.
* TCP exchange: either end of a connection gives up on its own, at any call. What
  a user is told must be true, and nothing may take effect on half a request.

`PROJECT.json` lists these as hazards, each at its line.

## The modules

| Module | Models | Notes |
|---|---|---|
| `Protocol` | the statuses: what each handler sets for which exception, what each response can send, what the client can read | constant operators, used by all the others |
| `UserManager` | account commands and authentication, one file operation per step | `pc[t]` names the operation thread `t` is about to do |
| `Accounts` | the abstract registry: each account command takes effect in one step, with its status; what a kill may leave of it | implemented by `UserManager` |
| `CredentialHistory` | `UserManager` with a history of what was true of a request's credentials while it was served | |
| `AuctionHouse` | the abstract auctions: a bid or a close takes effect in one step, an end may be noticed, and which answers are true | implemented by `AuctionManager` |
| `AuctionManager` | every other request except OPA, on top of `UserManager` (instance `U`), with clock, faults, kills | labels are the functions of `server_auction.cpp` |
| `AuctionOpening` | OPA, the counter file and its mutex, `setupDB` after a kill, `listAuctions` meanwhile | |
| `WorkerPool` | `execute`, `giveConnection`, `freeWorker`, the accept loop, shutdown and destructors | |
| `ConnectionSlots` | the abstract pool: a number of slots, and connections that are served, refused, leaked before they get a slot or, at shutdown, lost | implemented by `WorkerPool` |
| `ServerProcess` | `main`, `wait_for_udp_packet`, `handle_packet` and the signals, beside the TCP side | extends `WorkerPool`, and is shown to leave it as it is |
| `UdpRetries` | the retry loop of the client and the network | extended by the next two |
| `UdpExchange` | login, logout, unregister, exit; the server is `Accounts` | |
| `UdpReadings` | list, myauctions, mybids, show_record; the server reads one auction after the other while files change | |
| `TcpExchange` | open, close, show_asset, bid: connection, request, transfer of the asset, reply | |
| `MC...` | requests, values and symmetry of the runs | |
| `ProtocolProofs`, `UserManagerProofs`, `AuctionManagerProofs`, `AuctionOpeningProofs`, `ServerProcessProofs`, `UdpExchangeProofs`, `UdpReadingsProofs`, `TcpExchangeProofs` | theorems about the module they are named for | `UserManagerProofs` is also about `CredentialHistory`, `ServerProcessProofs` about `WorkerPool` |

`AuctionManager` composes `UserManager` (it is an instance with the same
variables, and its authentication steps are those of `UserManager`).
`UdpExchange` composes the client with `Accounts`, which `UserManager` is shown
to implement: the exchange is therefore about the real account commands without
their file operations. `UdpReadings` has a server of its own, which
knows of an auction only how often its files have changed: which bids a reply shows is
settled in `AuctionManager` (`RecordIsCurrent`, `ListingIsCurrent`), when they were read
is settled here. `TcpExchange` takes from `Protocol` which statuses a handler may answer,
and lets the rest of the server choose among them.

### State and actions against the code

*Files.* `passFile[u]`, `endFile[a]`, `bidFile[a][v]` and `start[a]` hold
`NoFile`, `EmptyFile` or what the file says: `create_new_file` and
`write_to_file` are separate steps, so a file exists empty in between. Files
whose contents nobody reads (login files) are Booleans. Reading an empty START,
END or bid file indexes a vector past its end; the build turns that into a fault
that kills the process, and the model into `Fault`. A read of a directory is one
step.

*Threads.* A step is one file operation with the computation up to the next.
`Worker` threads serve TCP requests, `Udp`, the main thread, serves UDP
requests. A thread that finishes sends its reply and is idle again.

*Kills.* `Crash` may come at any moment when `Crashes` is set: threads are lost,
files stay, `Restart` does what `setupDB` does.

*The mutex of the counter.* `getNextAuctionID` unlocks `fileMutex` by hand and
its `lock_guard` unlocks it once more (three times on the path of the
exception). That is undefined; glibc's default mutex does not check who unlocks
it, so in the model the surplus unlock frees the mutex for whoever holds it.

*The pool.* The mutex of worker `w` is not a variable: it is held exactly at the
labels `Locked(w)`; `busy_workers_lock` is held between two steps only at the
label `handover`. `ServerProcess` adds the main thread; `is_exiting` is the flag
they share. `datagram[d]` tells what became of each datagram. `AcceptFails` is an
`accept` that takes nothing; `SetTimeoutFails` is a `setsockopt` that fails after it: the
connection is `"leaked"`, not closed, while the loop goes on. A handler that faults
(`Fault` in `AuctionManager`) ends the process, from any thread that is in a handler:
`HandlerFaults`.

*The network.* Datagrams are sets. One that is lost is one that is never received, and
any two may overtake each other. One that is received may be received again, as the network
may copy it, or the client send it again: the same element of the set, since nothing in it
tells the tries apart. The serial is not in the packets either: the properties need it to
tell commands apart, the actions do not read it. A wait ends with a datagram, the timeout
of `select`, or an error of `select` or `recvfrom` (`WaitForPacketFails`), which ends the
command at once. `leftover[c]` remembers that a datagram of `c` may outlive the command it
belongs to: the client stopped waiting without a reply, or a datagram was received and
a copy remained. A client that exits closes its socket, and what is on its way to it
reaches nobody.

In `UdpReadings`, `version[a]` counts the changes of the files of an auction, an
overwritten bid included, and `read[a]` is the version the handler that runs has begun to
read; in `TcpExchange` a request or a reply is a count of parts, and `worker[k]` is
where the worker that serves connection `k` is.

## The runs

| Run | Question | Instance |
|---|---|---|
| `accounts` | Does `UserManager` implement `Accounts`, answers, fairness and what kills leave included? Is nobody logged in without an account, was every accepted request right about its credentials, and who makes a password go? | 2 users, 2 passwords, main thread and 1 worker, kills |
| `bidding` | What do the answers to bids and closes guarantee, in every interleaving of two workers? | 2 workers, 1 auction, 3 values, 2 bidders and the owner, 2 moments |
| `listing` | Do lists show what was over when they were asked for, and every bid that nobody was about to overwrite? | main thread (lists) and 2 workers, 2 auctions, bids of the same value on one, a bid and a close on the other |
| `auctions_crash` | Does `AuctionManager` implement `AuctionHouse`, under kills, with every kind of TCP request, wrong credentials and unknown auctions? Are records up to date, who ends an auction early, and is every request answered? | main thread (records, lists, a login) and 1 worker, 1 auction, a record shows 1 bid, 2 moments |
| `bid_after_end` | (violation) Is no bid filed on an auction that has an END file? | 2 workers, 1 auction |
| `opening` | Is what was opened complete, its number its own, and listed? | 2 workers, 4 opens, numbers 1 to 3, kills |
| `shared_number` | (violation) Are numbers never shared? | 2 workers, 3 opens, no kills |
| `pool` | Do the two lock orders stay apart, has each connection one worker, does the pool implement its slots? | 2 workers, 3 connections, 2 exceptions |
| `server` | Does the pool stay what it is beside the main thread; is each connection and datagram settled, service finished; do both sides end, and nothing outlive `main`? | 1 worker, 2 connections, 1 datagram, 2 exceptions, signals, faults |
| `exchange` | Are sessions granted, retries harmless, and does each command end? | 1 client, 2 users, 2 passwords, 2 tries, 2 commands |
| `readings` | Is what is shown about the right auction and read after the command was given, and when can replies be mixed up? | 1 client, 2 auctions that change once, list and show_record, 2 tries, 2 commands |
| `tcp` | Is what a client is told true, is nothing done by halves, does each end come to its end? | 1 client, 2 commands, an asset in 2 parts, kills |

### What they show

* The account commands are indivisible: only the main thread writes the account
  files, and `UserManager` implements `Accounts` under the mapping in the module
  (an account being registered does not exist yet, one being unregistered is
  still there and logged in). What a kill leaves is a command that was done, or
  was not, or one of three half-done states: an account with an unreadable
  password, one that is not logged in yet, one that is only logged out
  (`HalfDone`). `LoginNeedsAccount` and `PasswordRemovedByHolder` hold through
  kills, thanks to the order in which unregistering deletes the two files.
* `CredentialsWereRight`: a request that is let through gave a right password at
  some moment and was logged in at some moment, while it was served. The stronger
  "both at once" is false: unregister and register may come in between.
* The file operations of bids, closes, records and lists add up to
  `AuctionHouse`: a bid or a close takes effect at one moment, an auction is over
  once the owner or the clock made it so and somebody filed it, and every answer
  was true at some moment after the request came. The house says as plainly what
  is not promised: a bid must beat, and be in time for, only what was there when
  its request *arrived*.
* Bids are not serialised: two workers can both pass `getLargestBid`, so a lower
  bid may be filed after a higher one. What holds is `OutbidsEarlierBids` and
  `BidsAreLegal`. A request that *arrives* after the end is always refused
  (`LateRequestsRefused`), although a bid whose check came before the close is
  filed after it (`bid_after_end`).
* A bid that was accepted may be gone: two workers that bid the same value can both pass
  `getLargestBid`, and then write the same file. What holds (`ListingIsCurrent`) is that a
  bid is listed once no worker is left that has passed it with the same value (`Stands`).
* An END file of the expired kind is never ahead of the clock, whoever
  overwrites it, and only the owner's close creates one early.
* `NumbersAreUnique` says exactly when two auctions can share a number: after
  the surplus unlock of `getNextAuctionID` freed the mutex under another worker,
  or after a kill left a number without a directory below one that has it, since
  `setupDB` counts directories. `shared_number` finds the first.
* In the pool, `giveConnection` and `freeWorker` take the same two locks in
  opposite orders. They never meet because the chosen worker has already given
  its mark back: `LockOrdersDoNotMeet`.
* A client that believes in a session it was not granted has taken a late reply
  for another command's (`SessionWasGranted`). Replies are mixed up only when a datagram outlives its command:
  after a timeout, after an error of the socket in the wait, or because the network made a
  copy (`MixedOnlyWithLeftovers`). Executing a command twice changes the account once.
* What a user is shown is about the auction asked for, and was read from its files after
  the command was given, so the user's own bids of before were there to be read. The
  exception is a late reply to an earlier command of the same kind, which show_record
  cannot tell from its own (`ReadingsAreFresh`). That a bid is read does not mean it is
  shown: a record stops at 50, and a bid that was overwritten is in no file.
* A connection that was accepted is served, refused, or lost to a server that goes down,
  unless setting its timeout failed: then it is leaked, and the slots do not notice
  (`ImplementsSlots`, `ConnectionsSettled`).
* Over TCP a status the user is told is the truth, and stays it
  (`AnswersAreTrue`); an exception tells nothing: the command may have taken effect
  or may still do so, even after later ones (`OvertakenOnlyIfGivenUp`). No auction is
  opened with part of its asset, and a download reported as done is whole, although a
  failed one destroys the copy there was (`DownloadIsWhole`).
* A signal, three exceptions in a row on either socket, or a failing `listen` end
  both sides of the server; connections being served are brought to their end, and
  when `main` returns no thread is left (`StopsAltogether`, `ServingIsFinished`,
  `StateOutlivesThreads`).

### Bounds, and why they are enough

* One or two workers: the properties relate at most two requests and a moment;
  the races named above all appear with two threads. 50 workers behave as two
  do, as workers differ only in their number; the theorems about the pool
  do not depend on it.
* `NumAuctions` is one where the races inside an auction are studied, two where
  loops over auctions are. Values 1 to 3: one that is not above the start value,
  two that are.
* `MaxTime` bounds the clock, so that an auction, which lasts one second, is active,
  then over; nothing depends on how long it has been over.
* `TopBids` 1 stands for the 50 bids of a record: with two bids on file one is
  left out.
* Closing, and reading under kills, is studied with one auction, as a request other
  than a list touches one auction only; lists with two.
* `MaxID` 3 stands for 999, the last number of three digits, and `MaxIDWithBreak` 1
  for 99, the last that fits with the line break `setupDB` adds: the limit with and
  without the line break are both reached with four opens.
* `EXCEPTION_RETRY_MAX_TRIALS` 2 and `UDP_RESEND_TRIES` 2 instead of 3: one that
  is tolerated, one that is the last. So in `server`, too, an exception may be followed by
  more service: a connection is leaked, or refused, while the server goes on.
* One worker in `server`: whether workers get into each other's way is the question of
  `pool`, which has two, and of the theorems, which have any number; here the threads that
  matter are the main one, the accepting one, and one they wait for.
* `MaxCommands` 2 in the exchanges: a command whose reply comes late and another, for
  another user, that takes it. Nothing is kept from one command to the next but the
  session, datagrams left over, unfinished work and the downloaded file, and two commands
  show each of them. The safety properties of the UDP exchanges are theorems for any number.
* `MaxVersion` 1: a reading of before and one of after the change.
* `Lists` {"LST"}: the three commands that list differ in nothing here but their name, by
  which the client tells their replies apart; show_record is the other name in the run.
* `AssetParts` 2: an upload or download that is over, half way, and not begun.
* One client in the exchanges: clients share nothing but the server, whose answers
  are as free as several clients could make them. (In `exchange` no other client uses the
  accounts; two that share one are not studied.)
* `CHECK_DEADLOCK` is off in `exchange`, `readings` and `tcp`: a client that has
  exited, or given all its commands, really stops.

### Fairness

* `AuctionManager` and `UserManager`: weak fairness of each thread's steps. The
  code waits for nothing but short mutexes there. Nothing is assumed of arrivals,
  of the clock, of kills. A process that faults or is killed answers nobody;
  `RequestsAnswered` counts that as the end of the request.
* `ServerProcess`: weak fairness of the main thread, of the accepting thread and of
  each worker; strong fairness only for the steps of the accepting thread that wait
  for the mutex of a worker, which that worker takes again and again (`Handover`,
  `Destroy`): threads waiting for a mutex get it in the end. A handler ends because
  its socket has a read timeout (`server/server.cpp:265`) and a write timeout,
  which it inherits from the listening socket. "Served" means brought to its end;
  whether the reply arrived is the subject of `TcpExchange`.
* `UdpRetries`: weak fairness of sending and of the wait, which ends with a
  datagram or the timeout of `select`. Nothing is assumed of network or server.
* `TcpExchange`: weak fairness of each client and of each worker; every call they
  wait in has a timeout. Nothing is assumed of what they wait for.

## The proofs

They hold for every value of the constants that satisfies the named assumptions
of the modules: any users, passwords, auctions, requests, workers, connections,
clients, tries and parts of an asset, through kills and restarts wherever the module
has them. The assumptions say that file contents, thread names and the values for
"none" differ from each other, that requests are requests, and that limits are
numbers; `NumbersAssumption` of `AuctionManager` also that the bid values are finitely many
(they have six digits), without which "the `TopBids` largest" means nothing.

### Accounts: `UserManagerProofs`

* `TypeCorrect`. `LoginsHaveAccounts` and the action property `PasswordsKept` come from
  `AccountInv`, which adds what the main thread knows at each of its labels
  (`MainThreadInv`): `LoginNeedsAccount` alone does not say that a login file is made over
  a password, or that the password goes last.
* `CredentialsRight`, of `CredentialHistory`: the file under a worker changes between its
  reads, so the invariant `PastInv` is about the history, which only grows
  (`PastGrows`), not about the files.
* `RegistryImplemented`: the safety part of `ImplementsAccounts`, step by step
  (`RegistryStep`). Each account command has one step that takes effect on the registry and
  one that sends its status; every other step of any thread leaves the registry as it is
  (`AccountKept`); a kill maps to `Killed`, where `AccountInv` and `CommandInv` exclude all
  but the half-done states `HalfDone` names. The fairness part is TLC's.

### Auctions: `AuctionManagerProofs`

Each invariant is a statement about one thread at each of its labels. One lemma says
that it survives the steps of all the others, one per action that it survives the
thread's own.

* `TypeCorrect`: `TypeInv` adds which auction a thread is at (`AtAuction`).
* `BidsLegal`, `EarlierBidsOutbid`: `BidInv` adds what a thread knows of its bid between
  the checks and the answer. Bids are only ever added: what was on file when the request
  came is still there at `getLargestBid`, whatever the others do.
* `ExpiredEndsAreLate`, `LateOnesRefused`, `OnlyOwnersEndEarly`: `FlowInv` (which requests
  get to which label) and `EndInv`: a thread about to write an expired END file has seen
  the deadline pass, and the clock only goes forward; a request that came late is at no
  label from which it can still be accepted, since an auction that is over stays over.
* `RecordsAreCurrent`: `RecordInv`, what a half-made record has read is at least what was
  there when it was asked for. That the cut at `TopBids` leaves out only smaller bids is a
  fact about finite sets of numbers, used through `Cardinality` and not by induction.
* `ListingsAreCurrent`: `ListInv`, about the auctions the walk has passed. It needs
  `Stands` ("nobody is about to overwrite it"): with "it was on file" it is false with two
  workers, which the proof showed first and TLC then confirmed.
* `HouseImplemented`: all of `ImplementsAuctions`, initial states and every step, with
  the mapping in `AuctionManager` (`houseBids` ... `houseTold`). `HouseInv` is the
  conjunction of the above and of what a bidder knows after filing (`BidFiled`). A bid takes
  effect at `CreateBid`, a close when its END file is made, and each answer is shown to be
  one `AuctionHouse` calls true.

### Opening: `AuctionOpeningProofs`

* `TypeCorrect`: that the counter never leaves the numbers, though a restart counts
  directories and another worker may write behind the back of one.
* `OpenedAreComplete`: `BuildInv`, what a worker has made of its auction at each label is
  still there, since other workers only add (`Grows`) and delete their own upload.
* `NumbersUnique`: as long as no unlock freed the mutex of somebody else, `CounterInv` (the mutex guards the counter)
  holds, and either a number is lost, or `AllAccountedFor`: the
  numbers the counter has passed are exactly those of the directories there are and of
  the workers that hold one. With that, `setupDB`'s count of directories is the right next
  number unless a worker died holding one below another's; then the number is `Lost`, for
  good, which is the excuse `NumbersAreUnique` makes.
* `ListingComplete`: a lost number stops every later listing, it never makes one short.

### Pool and process: `ServerProcessProofs`

* `TypeCorrect`, `MarksAreRight`, `LocksNeverCross` and `TasksHaveOneWorker` from
  `PoolInv`: `Marks` (a worker is marked exactly from the handover to `freeWorker`, and the
  target of a handover is not) and `Tasks` (connections and tasks correspond one to
  one). `LockOrdersDoNotMeet` is not inductive: it needs that `busy_workers_lock` is kept
  from the scan to the handover, which is `TargetIsIdle`.
* `SlotsImplemented`: all of `ImplementsSlots`, with the connection that is leaked while
  the server goes on (`Leak`) apart from those a server that goes down loses (`Lose`). The
  step that takes counting is
  `freeWorker`: that a slot is over then, neither free nor taken, follows from an
  injection of the connections handed over into the workers that have a task
  (`GivenFit`), none of which is the worker at `freeWorker` (`SlotIsOver`).
* `NoWorkerIsLeft`: when the accepting thread is gone every worker is done.
* `ServerImplementsPool`: every step of the main thread, a signal included, is to the TCP
  side a step `WorkerPool` allows, or none. From it the theorems about the pool are
  theorems about the process (`LocksNeverCrossInServer`, `ServerImplementsSlots`), and
  with `NoWorkerIsLeft` comes `StateIsUsedByNobody`.

### Exchanges: `UdpExchangeProofs`, `UdpReadingsProofs`, `TcpExchangeProofs`

* `SessionsWereGranted`: `SessionInv`, a reply on its way that grants a login to a command
  that still runs was granted to that command.
* `RepetitionsAreHarmless`: `RetryInv`, the last command executed on an account is
  `Settled`, executing it again would change nothing, wherever copies of its
  datagram still are. (`ExchangeAssumption` says that None is no command's name.)
* `ReadingsFresh`: `FreshInv`, everything that is on its way for the command that runs is
  no older than it: its datagram was sent, its handler began to read and its reply was
  made after the command was given, and versions only grow. What an earlier command left
  over is told from it by the serial.
* `NotMixedWithoutLeftovers`: `OrderInv`, a client with nothing left over has at most one
  datagram anywhere, of the command that runs (`OneDatagram`).
* `RequestsAreComplete` and `ClientsAreToldTheTruth`: `RequestInv`, a worker never reads
  more than was sent, nor a client sends more than the request, and a worker executes only
  when all is read; `AnswerInv`, the status is decided with the effect (no exception a
  handler catches is answered as a success, `ExceptionsAreNotSuccess`) and neither changes
  once a reply has begun; `ClientInv`, a client at work is on a connection no other has.
* `OrderKept`: `OutcomeInv`, every command but the last has an outcome; so one that was
  overtaken and was not given up has a status, and with `AnswerInv` its effect is settled.
* `DownloadsAreWhole`: `WholeInv`, about the newest download that has begun to write.

`ProtocolProofs` has the lemmas about statuses the others rest on.

TLC checked each inductive invariant on a small instance first.

### Only model-checked

* Liveness under fairness: `RequestsAnswered`, `ConnectionsSettled`, `ServingIsFinished`,
  `DatagramsHandled`, `StopsAltogether`, `CommandsEnd`, `BothEndsEnd`, and the fairness
  part of `ImplementsAccounts`. The prover does not reason about ENABLED.
* That the runs' operators on finite sets compute what the code's loops compute: a loop is
  one step in the models, or one step per turn; nothing is proved by induction on data.

## Known defects

Two have a run that exhibits them (`findings` in `PROJECT.json`). The others are
behaviours of the models, or were met in reading, that no document of the
repository contradicts:

* a bid on an auction that does not exist faults (`server/server_auction.cpp:448`);
* of two accepted bids of the same value the second overwrites the file of the first, which
  no list or record shows any more (`server/server_auction.cpp:465`, `utils/utils.cpp:201`);
* a list of the user's bids is NOK as soon as one auction has none (`:242`);
* CLS with wrong credentials sets a status that cannot be sent, and is answered
  with the error packet (`server/handlers.cpp:414`);
* a kill between making and writing a file leaves it empty: an account that can
  neither log in nor register, an auction whose record faults the server;
* after a restart with 99 auctions none can be opened (`server/server.cpp:128`);
* three connections refused in a row end the server (`server/server.cpp:233`);
* a logout whose reply is lost is answered NOK when it is repeated, and the
  client, still logged in by its own account, refuses to exit;
* a connection whose read timeout cannot be set is neither served nor closed: its client
  waits for its own timeout, and the descriptor is gone until the server ends
  (`server/server.cpp:265`);
* a second login of a client leaves its first user logged in at the server;
* the branch of `readAndSaveToFile` that lets a user cancel a transfer at the console
  is never taken: `stdin` is not in the set `select` is given
  (`utils/protocol.cpp:718`);
* a download that fails destroys the copy the client had (`:674`), an upload that
  fails leaves its directory (`:670`);
* the answer ERR of show_asset is not understood by the client (`:783`);
* a command over TCP that ended with an exception may still take effect, and a
  connection that was handed to a worker just before a shutdown is never answered;
* a second signal calls `exit` under running threads (`utils/utils.cpp:77`).

## Not modelled

* The bytes of packets and assets, parsing, validation, the console, the options,
  the tables of the client: sequential, without effect on the state above. A
  packet that does not parse changes nothing.
* The race on the map of path mutexes in `utils/utils.cpp`, and exceptions of the
  file system: no outcome is bounded by the code.
* What the data race on the plain fields of a worker (`server/tcp_worker_pool.cpp:17`) may
  do beyond interleaving: the models are sequentially consistent.
* The headers: declarations, and the bodies of exceptions, which have no behaviour of
  their own.

## Plan

Done, in this order: `Protocol`, `UserManager` and `Accounts`, `AuctionManager`,
`WorkerPool` and `ConnectionSlots`, `AuctionOpening`, `UdpExchange`, `ServerProcess`,
`TcpExchange`, `AuctionHouse`, `UdpRetries` and `UdpReadings`; then the proofs: of every
safety property the runs check, and of the refinements.

Next:

1. What the refinements give for free: the properties of `AuctionHouse` and `Accounts` that
   can be stated and proved on the abstract level alone, and carried over.
2. Simpler proofs: lemmas shared by `BidInv`, `EndInv`, `RecordInv` and `ListInv` about
   what a step of another thread may do to files and clock.
3. Two clients that share an account in `UdpExchange`, and the invariants for them, which the proofs
   already allow: only the run is bounded to one.

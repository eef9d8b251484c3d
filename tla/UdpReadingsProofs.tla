--------------------------- MODULE UdpReadingsProofs ---------------------------
(***************************************************************************)
(* Proofs about UdpReadings, for any clients and auctions, any number of   *)
(* tries, whatever is filed meanwhile, and datagrams that are lost,        *)
(* copied, overtaken or late.                                              *)
(***************************************************************************)
EXTENDS UdpReadings, TLAPS

ReadOps == {"LMA", "LMB", "LST", "SRC"}
Readings == {r \in [op : ReadOps, aid : Auctions \union {None}] : r.op = "SRC" => r.aid \in Auctions}
Counts == [Auctions -> Nat]

Asking(c) == at[c] \in {"send", "wait"}

(* A datagram asks what its client asked then, and asks still if it has given
   no command since. *)
Asked(d) ==
    /\ d.from \in Clients /\ d.request \in Readings
    /\ d.serial \in Nat /\ d.serial <= serial[d.from]
    /\ d.serial = serial[d.from] /\ Asking(d.from) => d.request = running[d.from]

TypeInv ==
    /\ at \in [Clients -> {"idle", "send", "wait"}]
    /\ running \in [Clients -> Readings \union {None}]
    /\ serial \in [Clients -> Nat]
    /\ mixed \in [Clients -> BOOLEAN] /\ leftover \in [Clients -> BOOLEAN]
    /\ version \in Counts /\ since \in [Clients -> Counts]
    /\ DOMAIN read \subseteq Auctions /\ \A a \in DOMAIN read : read[a] \in Nat
    /\ source = None => DOMAIN read = {}
    /\ DOMAIN shown = Clients
    /\ \A c \in Clients : Asking(c) => running[c] \in Readings
    /\ \A d \in requests : Asked(d)
    /\ source # None => Asked(source)
    /\ \A d \in replies : d.to \in Clients /\ d.serial \in Nat /\ d.serial <= serial[d.to]

LEMMA InitTypeInv == Init => TypeInv
    BY DEF Init, UdpInit, TypeInv, Counts, Asking, Nothing

(* What a datagram that arrives leaves behind. *)
LEMMA ArriveKeeps ==
    ASSUME NEW d, Arrive(d)
    PROVE  requests' \subseteq requests /\ UNCHANGED <<at, running, serial, mixed, replies>>
    BY DEF Arrive

LEMMA CommandTypeInv ==
    ASSUME TypeInv, NEW c \in Clients, Command(c)
    PROVE  TypeInv' /\ \E r \in Readings : Begin(c, r) /\ since' = [since EXCEPT ![c] = version]
                          /\ shown' = [shown EXCEPT ![c] = None] /\ UNCHANGED serverVars
<1>1. PICK r \in Readings : /\ Begin(c, r) /\ since' = [since EXCEPT ![c] = version]
                            /\ shown' = [shown EXCEPT ![c] = None] /\ UNCHANGED serverVars
    BY ReadingsAssumption
    DEF Command, ListCommand, ShowRecordCommand, Ask, Readings, ReadOps
<1>2. TypeInv'
    BY <1>1 DEF TypeInv, Asked, Asking, Begin, Goto, serverVars
<1> QED  BY <1>1, <1>2

LEMMA ExchangeTypeInv ==
    ASSUME TypeInv, NEW c \in Clients, Exchange(c)
    PROVE  TypeInv'
<1> USE DEF TypeInv, Asked, Asking, serverVars
<1>1. CASE SendUdpPacket(c) /\ UNCHANGED <<serverVars, since, shown>>
    BY <1>1 DEF SendUdpPacket, Goto, Datagram
<1>2. CASE SendUdpPacketFails(c) /\ UNCHANGED <<serverVars, since, shown>>
    BY <1>2 DEF SendUdpPacketFails, Prompt, End, Goto
<1>3. CASE (Timeout(c) \/ WaitForPacketFails(c)) /\ UNCHANGED <<serverVars, since, shown>>
    <2>1. UNCHANGED <<serial, mixed, requests, replies, version, source, read, since, shown>>
        BY <1>3 DEF Timeout, WaitForPacketFails
    <2>2. leftover' \in [Clients -> BOOLEAN]
        BY <1>3 DEF Timeout, WaitForPacketFails, LeavesOver
    <2>3. /\ at' \in [Clients -> {"idle", "send", "wait"}]
          /\ running' \in [Clients -> Readings \union {None}]
          /\ \A u \in Clients : Asking(u)' => Asking(u) /\ running'[u] = running[u]
        BY <1>3 DEF Timeout, WaitForPacketFails, Prompt, End, Goto
    <2> QED  BY <2>1, <2>2, <2>3
<1>4. ASSUME NEW d \in replies, Take(c, d)  PROVE TypeInv'
    BY <1>4 DEF Take, WaitForPacket, LeavesOver, Prompt, End, Goto
<1> QED  BY <1>1, <1>2, <1>3, <1>4 DEF Exchange

LEMMA ServerTypeInv ==
    ASSUME TypeInv,
           \/ \E a \in Auctions : FileChanges(a) \/ ReadAuction(a)
           \/ \E d \in requests : ReceivePacket(d)
           \/ \E s \in Statuses : HandlePacket(s)
    PROVE  TypeInv'
<1> USE DEF TypeInv, Asked, Asking
<1>1. ASSUME NEW a \in Auctions, FileChanges(a)  PROVE TypeInv'
    <2>1. version' \in Counts
        BY <1>1 DEF FileChanges, Counts
    <2> QED  BY <1>1, <2>1 DEF FileChanges, udpVars
<1>2. ASSUME NEW d \in requests, ReceivePacket(d)  PROVE TypeInv'
    BY <1>2, ArriveKeeps DEF ReceivePacket, Arrive, LeavesOver
<1>3. ASSUME NEW s, HandlePacket(s)  PROVE TypeInv'
    <2>1. PICK status, told : source # None /\ Answer(status, told)
        BY <1>3 DEF HandlePacket
    <2>2. \A d \in replies' : d \in replies \/ (d.to = source.from /\ d.serial = source.serial)
        BY <2>1 DEF Answer, ReplyTo
    <2> QED  BY <2>1, <2>2 DEF Answer, Nothing
<1>4. ASSUME NEW a \in Auctions, ReadAuction(a)  PROVE TypeInv'
    <2>1. version[a] \in Nat
        BY DEF Counts
    <2> QED  BY <1>4, <2>1 DEF ReadAuction, udpVars
<1> QED  BY <1>1, <1>2, <1>3, <1>4

LEMMA NextTypeInv == TypeInv /\ [Next]_vars => TypeInv'
<1> SUFFICES ASSUME TypeInv, [Next]_vars  PROVE TypeInv'
    OBVIOUS
<1>1. CASE UNCHANGED vars
    BY <1>1 DEF TypeInv, Asked, Asking, vars, udpVars, serverVars
<1> QED  BY <1>1, CommandTypeInv, ExchangeTypeInv, ServerTypeInv DEF Next

-----------------------------------------------------------------------------
(* What is shown is not older than the command. *)

(* told was read from every topic of r in a version that is not before counts. *)
Covers(told, r, counts) == \A a \in Topics(r) : a \in DOMAIN told /\ told[a] >= counts[a]

(* A reply to a command that still runs. *)
FreshReply(d) ==
    d.status = "OK" /\ d.serial = serial[d.to] /\ Asking(d.to) =>
        Covers(d.told, running[d.to], since[d.to])

FreshInv ==
    /\ \A c \in Clients : \A a \in Auctions : since[c][a] <= version[a]
    /\ source # None /\ source.serial = serial[source.from] =>
          \A a \in DOMAIN read : since[source.from][a] <= read[a]
    /\ \A d \in replies : FreshReply(d)
    /\ ReadingsAreFresh

LEMMA CommandFreshInv ==
    ASSUME TypeInv, FreshInv, NEW c \in Clients, Command(c)
    PROVE  FreshInv'
<1>1. PICK r \in Readings : /\ Begin(c, r) /\ since' = [since EXCEPT ![c] = version]
                            /\ shown' = [shown EXCEPT ![c] = None] /\ UNCHANGED serverVars
    BY CommandTypeInv
<1>2. /\ serial' = [serial EXCEPT ![c] = @ + 1] /\ UNCHANGED <<replies, version, source, read>>
      /\ \A u \in Clients \ {c} : at'[u] = at[u] /\ running'[u] = running[u]
    BY <1>1 DEF Begin, Goto, serverVars, TypeInv
<1>3. \A a \in Auctions : version[a] <= version[a]
    BY DEF TypeInv, Counts
<1>4. \A u \in Clients : \A a \in Auctions : since'[u][a] <= version'[a]
    BY <1>1, <1>2, <1>3 DEF TypeInv, FreshInv
<1>5. ASSUME source # None, source.serial = serial'[source.from], NEW a \in DOMAIN read
      PROVE  since'[source.from][a] <= read[a]
    <2>1. source.from \in Clients \ {c} /\ source.serial = serial[source.from]
        BY <1>2, <1>5 DEF TypeInv, Asked
    <2> QED  BY <1>1, <1>5, <2>1 DEF FreshInv, TypeInv
<1>6. ASSUME NEW d \in replies  PROVE FreshReply(d)'
    <2>1. CASE d.to = c
        BY <1>2, <2>1 DEF FreshReply, TypeInv
    <2>2. CASE d.to # c
        BY <1>1, <1>2, <2>2 DEF FreshReply, FreshInv, TypeInv, Covers, Topics, Asking
    <2> QED  BY <2>1, <2>2
<1>7. ReadingsAreFresh'
    BY <1>1 DEF FreshInv, ReadingsAreFresh, TypeInv, Topics
<1> QED  BY <1>2, <1>4, <1>5, <1>6, <1>7 DEF FreshInv

LEMMA ExchangeFreshInv ==
    ASSUME TypeInv, FreshInv, NEW c \in Clients, Exchange(c)
    PROVE  FreshInv'
<1> USE DEF FreshInv, Asking, serverVars
<1>1. CASE /\ SendUdpPacket(c) \/ SendUdpPacketFails(c) \/ Timeout(c) \/ WaitForPacketFails(c)
           /\ UNCHANGED <<serverVars, since, shown>>
    <2>1. /\ UNCHANGED <<replies, serial, since, shown, version, read, source>>
          /\ \A u \in Clients : Asking(u)' => Asking(u) /\ running'[u] = running[u]
        BY <1>1 DEF SendUdpPacket, SendUdpPacketFails, Timeout, WaitForPacketFails, Prompt, End,
                    Goto, TypeInv
    <2>2. \A d \in replies : FreshReply(d)'
        BY <2>1 DEF FreshReply, TypeInv, Covers, Topics
    <2>3. ReadingsAreFresh'
        BY <2>1 DEF ReadingsAreFresh, Topics
    <2> QED  BY <2>1, <2>2, <2>3
<1>2. ASSUME NEW d \in replies, Take(c, d)  PROVE FreshInv'
    <2>1. /\ at[c] = "wait" /\ d.to = c /\ replies' \subseteq replies
          /\ UNCHANGED <<serial, since, version, read, source>>
          /\ at' = [at EXCEPT ![c] = "idle"] /\ running' = [running EXCEPT ![c] = None]
        BY <1>2 DEF Take, WaitForPacket, Prompt, End, Goto
    <2>2. \A u \in Clients : Asking(u)' => Asking(u) /\ running'[u] = running[u]
        BY <2>1 DEF TypeInv
    <2>3. \A e \in replies' : FreshReply(e)'
        BY <2>1, <2>2 DEF FreshReply, TypeInv, Covers, Topics
    <2>4. \A u \in Clients \ {c} : shown'[u] = shown[u]
        BY <1>2 DEF Take, TypeInv
    <2>5. ASSUME shown'[c] # None, ~shown'[c].late
          PROVE  Covers(shown'[c].told, shown'[c].asked, since[c])
        <3>1. /\ d.op = running[c].op /\ d.status = "OK"
              /\ shown'[c] = [asked |-> running[c], told |-> d.told, late |-> d.serial # serial[c]]
            BY <1>2, <2>5 DEF Take, TypeInv
        <3>2. shown'[c].asked = running[c] /\ shown'[c].told = d.told
            BY <3>1
        <3>3. \A r, l : shown'[c] = [asked |-> r, told |-> d.told, late |-> l] => shown'[c].late = l
            OBVIOUS
        <3>4. ASSUME d.serial # serial[c]  PROVE FALSE
            <4>1. shown'[c] = [asked |-> running[c], told |-> d.told, late |-> TRUE]
                BY <3>1, <3>4
            <4> QED  BY <2>5, <3>3, <4>1
        <3> QED  BY <2>1, <3>1, <3>2, <3>4 DEF FreshReply
    <2>6. ReadingsAreFresh'
        BY <2>1, <2>4, <2>5 DEF ReadingsAreFresh, Covers, Topics
    <2> QED  BY <2>1, <2>3, <2>6
<1> QED  BY <1>1, <1>2 DEF Exchange

LEMMA ServerFreshInv ==
    ASSUME TypeInv, FreshInv,
           \/ \E a \in Auctions : FileChanges(a) \/ ReadAuction(a)
           \/ \E d \in requests : ReceivePacket(d)
           \/ \E s \in Statuses : HandlePacket(s)
    PROVE  FreshInv'
<1> USE DEF FreshInv
<1>0. \A c \in Clients : \A a \in Auctions : since[c][a] \in Nat /\ version[a] \in Nat
    BY DEF TypeInv, Counts
<1>1. ASSUME NEW b \in Auctions, FileChanges(b)  PROVE FreshInv'
    <2>1. UNCHANGED <<at, running, serial, replies, source, read, since, shown>>
        BY <1>1 DEF FileChanges, udpVars
    <2>2. \A a \in Auctions : version'[a] = version[a] \/ version'[a] = version[a] + 1
        BY <1>1 DEF FileChanges, TypeInv, Counts
    <2>3. \A c \in Clients : \A a \in Auctions : since[c][a] <= version'[a]
        BY <1>0, <2>2
    <2> QED  BY <2>1, <2>3 DEF FreshReply, Asking, Covers, Topics, ReadingsAreFresh
<1>2. ASSUME NEW d \in requests, ReceivePacket(d)  PROVE FreshInv'
    <2>1. /\ UNCHANGED <<at, running, serial, replies, version, read, since, shown>>
          /\ DOMAIN read = {}
        BY <1>2, ArriveKeeps DEF ReceivePacket, TypeInv
    <2> QED  BY <2>1 DEF FreshReply, Asking, Covers, Topics, ReadingsAreFresh
<1>3. ASSUME NEW s \in Statuses, HandlePacket(s)  PROVE FreshInv'
    <2>1. PICK status, told :
              /\ source # None /\ Answer(status, told)
              /\ status = "OK" => /\ Topics(source.request) \subseteq DOMAIN read
                                 /\ told = [a \in Topics(source.request) |-> read[a]]
        BY <1>3 DEF HandlePacket
    <2>2. /\ UNCHANGED <<at, running, serial, version, since, shown>>
          /\ source' = None /\ Asked(source)
          /\ replies' = replies \union {ReplyTo(source, status, told)}
        BY <2>1 DEF Answer, TypeInv
    <2>3. ASSUME NEW d, d = ReplyTo(source, status, told)  PROVE FreshReply(d)'
        <3> SUFFICES ASSUME d.status = "OK", d.serial = serial[d.to], Asking(d.to)
                     PROVE  Covers(d.told, running[d.to], since[d.to])
            BY <2>2 DEF FreshReply, Asking, Covers, Topics
        <3>1. /\ d.to = source.from /\ d.serial = source.serial /\ d.told = told
              /\ Sent(source.request.op, status) = "OK"
            BY <2>3 DEF ReplyTo
        <3>2. status = "OK"
            BY <3>1 DEF Sent, ErrorPacket
        <3>3. running[d.to] = source.request
            BY <2>2, <3>1 DEF Asked
        <3>4. \A a \in DOMAIN read : since[d.to][a] <= read[a] /\ since[d.to][a] \in Nat /\ read[a] \in Nat
            BY <1>0, <2>1, <2>2, <3>1 DEF Asked, TypeInv
        <3>5. \A a \in Topics(source.request) : a \in DOMAIN told /\ told[a] >= since[d.to][a]
            BY <2>1, <3>2, <3>4
        <3> QED  BY <3>1, <3>3, <3>5 DEF Covers
    <2>4. \A d \in replies : FreshReply(d)'
        BY <2>2 DEF FreshReply, Asking, Covers, Topics
    <2>5. ReadingsAreFresh'
        BY <2>2 DEF ReadingsAreFresh, Topics
    <2> QED  BY <2>2, <2>3, <2>4, <2>5
<1>4. ASSUME NEW b \in Auctions, ReadAuction(b)  PROVE FreshInv'
    <2>1. UNCHANGED <<at, running, serial, replies, source, version, since, shown>>
        BY <1>4 DEF ReadAuction, udpVars
    <2>2. \A a \in DOMAIN read' :
              \/ a \in DOMAIN read /\ read'[a] = read[a]
              \/ a = b /\ read'[a] = version[a]
        BY <1>4 DEF ReadAuction
    <2>3. source # None => source.from \in Clients
        BY DEF TypeInv, Asked
    <2>4. ASSUME source # None, source.serial = serial[source.from], NEW a \in DOMAIN read'
          PROVE  since[source.from][a] <= read'[a]
        BY <2>2, <2>3, <2>4
    <2>5. \A d \in replies : FreshReply(d)'
        BY <2>1 DEF FreshReply, Asking, Covers, Topics
    <2>6. ReadingsAreFresh'
        BY <2>1 DEF ReadingsAreFresh, Topics
    <2> QED  BY <2>1, <2>4, <2>5, <2>6
<1> QED  BY <1>1, <1>2, <1>3, <1>4

LEMMA NextFreshInv == TypeInv /\ FreshInv /\ [Next]_vars => FreshInv'
<1> SUFFICES ASSUME TypeInv, FreshInv, [Next]_vars  PROVE FreshInv'
    OBVIOUS
<1>1. CASE UNCHANGED vars
    BY <1>1 DEF vars, udpVars, serverVars, FreshInv, FreshReply, Asking, Covers, Topics, ReadingsAreFresh
<1> QED  BY <1>1, CommandFreshInv, ExchangeFreshInv, ServerFreshInv DEF Next

(* A reading that is not taken from the reply to another command was read from
   the files of the auctions asked for, no earlier than the command was given. *)
THEOREM ReadingsFresh == Spec => []ReadingsAreFresh
<1>1. Init => FreshInv
    BY DEF Init, UdpInit, FreshInv, ReadingsAreFresh
<1>2. FreshInv => ReadingsAreFresh
    BY DEF FreshInv
<1> QED  BY InitTypeInv, NextTypeInv, NextFreshInv, <1>1, <1>2, PTL DEF Spec

-----------------------------------------------------------------------------
(* Replies and commands are not mixed up while no datagram is left over. *)

Requested(c) == {d \in requests : d.from = c}
Replied(c) == {d \in replies : d.to = c}
Handling(c) == source # None /\ source.from = c

(* While nothing can be left over a client has at most one datagram somewhere,
   on its way to the server, there, or on its way back; none unless it waits; and
   the datagram belongs to the command that runs. *)
OneDatagram(c) ==
    /\ ~mixed[c]
    /\ Requested(c) # {} \/ Handling(c) \/ Replied(c) # {} => at[c] = "wait"
    /\ \A d, e \in Requested(c) : d = e
    /\ \A d, e \in Replied(c) : d = e
    /\ Requested(c) # {} => ~Handling(c) /\ Replied(c) = {}
    /\ Handling(c) => Replied(c) = {} /\ source.serial = serial[c]
    /\ \A d \in Requested(c) \union Replied(c) : d.serial = serial[c]

OrderInv == \A c \in Clients : ~leftover[c] => OneDatagram(c)

(* What concerns no datagram of a client leaves its datagrams alone. *)
LEMMA OthersKeepOrder ==
    ASSUME NEW c, OneDatagram(c),
           mixed'[c] = mixed[c], at'[c] = at[c], serial'[c] = serial[c],
           Requested(c)' = Requested(c), Replied(c)' = Replied(c),
           Handling(c)' = Handling(c), Handling(c) => source' = source
    PROVE  OneDatagram(c)'
    BY DEF OneDatagram

LEMMA CommandOrderInv ==
    ASSUME TypeInv, OrderInv, NEW c \in Clients, Command(c)
    PROVE  OrderInv'
<1>1. PICK r \in Readings : Begin(c, r) /\ UNCHANGED serverVars
    BY CommandTypeInv
<1>2. /\ at[c] = "idle" /\ UNCHANGED <<mixed, leftover, requests, replies, source>>
      /\ \A u \in Clients \ {c} : at'[u] = at[u] /\ serial'[u] = serial[u]
    BY <1>1 DEF Begin, Goto, serverVars, TypeInv
<1>3. \A u \in Clients : /\ Requested(u)' = Requested(u) /\ Replied(u)' = Replied(u)
                         /\ Handling(u)' = Handling(u)
    BY <1>2 DEF Requested, Replied, Handling
<1>4. ASSUME NEW u \in Clients, OneDatagram(u)  PROVE OneDatagram(u)'
    <2>1. CASE u = c
        <3>1. Requested(c) = {} /\ Replied(c) = {} /\ ~Handling(c) /\ ~mixed[c]
            BY <1>2, <1>4, <2>1 DEF OneDatagram
        <3> QED  BY <1>2, <1>3, <2>1, <3>1 DEF OneDatagram
    <2>2. CASE u # c
        BY <1>2, <1>3, <1>4, <2>2, OthersKeepOrder
    <2> QED  BY <2>1, <2>2
<1> QED  BY <1>2, <1>4 DEF OrderInv

LEMMA ExchangeOrderInv ==
    ASSUME TypeInv, OrderInv, NEW c \in Clients, Exchange(c)
    PROVE  OrderInv'
<1>0. /\ source' = source /\ serial' = serial
      /\ \A u \in Clients \ {c} : at'[u] = at[u] /\ mixed'[u] = mixed[u] /\ leftover'[u] = leftover[u]
      /\ \A u \in Clients \ {c} : Requested(u)' = Requested(u) /\ Replied(u)' = Replied(u)
    BY DEF Exchange, SendUdpPacket, SendUdpPacketFails, Timeout, WaitForPacketFails, Take,
           WaitForPacket, LeavesOver, Prompt, End, Goto, Datagram, serverVars, TypeInv, Requested,
           Replied
<1>1. ASSUME NEW u \in Clients \ {c}, OneDatagram(u)  PROVE OneDatagram(u)'
    BY <1>0, <1>1, OthersKeepOrder DEF Handling
<1>2. ASSUME ~leftover'[c]  PROVE OneDatagram(c)'
    <2>1. CASE SendUdpPacket(c)
        <3>1. OneDatagram(c) /\ at[c] = "send"
            BY <1>2, <2>1 DEF SendUdpPacket, OrderInv
        <3>2. Requested(c) = {} /\ Replied(c) = {} /\ ~Handling(c) /\ ~mixed[c]
            BY <3>1 DEF OneDatagram
        <3>3. /\ Requested(c)' = {Datagram(c)} /\ Replied(c)' = {} /\ ~Handling(c)' /\ ~mixed'[c]
              /\ at'[c] = "wait" /\ Datagram(c).serial = serial'[c]
            BY <1>0, <2>1, <3>2
            DEF SendUdpPacket, Goto, Datagram, TypeInv, Requested, Replied, Handling
        <3> QED  BY <3>3 DEF OneDatagram
    <2>2. CASE SendUdpPacketFails(c)
        <3>1. OneDatagram(c) /\ at[c] = "send"
            BY <1>2, <2>2 DEF SendUdpPacketFails, OrderInv
        <3>2. Requested(c) = {} /\ Replied(c) = {} /\ ~Handling(c) /\ ~mixed[c]
            BY <3>1 DEF OneDatagram
        <3>3. Requested(c)' = {} /\ Replied(c)' = {} /\ ~Handling(c)' /\ ~mixed'[c]
            BY <1>0, <2>2, <3>2 DEF SendUdpPacketFails, Requested, Replied, Handling
        <3> QED  BY <3>3 DEF OneDatagram
    <2>3. ~Timeout(c) /\ ~WaitForPacketFails(c)
        BY <1>2 DEF Timeout, WaitForPacketFails, LeavesOver, TypeInv
    <2>4. ASSUME NEW d \in replies, Take(c, d)  PROVE OneDatagram(c)'
        <3>1. replies' = replies \ {d} /\ leftover' = leftover
            BY <1>2, <2>4 DEF Take, WaitForPacket, LeavesOver, TypeInv
        <3>6. OneDatagram(c) /\ d \in Replied(c)
            BY <1>2, <2>4, <3>1 DEF Take, WaitForPacket, OrderInv, Replied
        <3>2. /\ Replied(c) = {d} /\ Requested(c) = {} /\ ~Handling(c)
              /\ ~mixed[c] /\ d.serial = serial[c]
            BY <3>6 DEF OneDatagram
        <3>3. Requested(c)' = {} /\ Replied(c)' = {} /\ ~Handling(c)'
            BY <1>0, <2>4, <3>1, <3>2 DEF Take, WaitForPacket, Requested, Replied, Handling
        <3>4. mixed' = [mixed EXCEPT ![c] = @ \/ d.serial # serial[c]]
            BY <2>4 DEF Take, WaitForPacket
        <3>5. ~mixed'[c]
            BY <3>2, <3>4 DEF TypeInv
        <3> QED  BY <3>3, <3>5 DEF OneDatagram
    <2> QED  BY <2>1, <2>2, <2>3, <2>4 DEF Exchange
<1> QED  BY <1>0, <1>1, <1>2 DEF OrderInv

LEMMA ServerOrderInv ==
    ASSUME TypeInv, OrderInv,
           \/ \E a \in Auctions : FileChanges(a) \/ ReadAuction(a)
           \/ \E d \in requests : ReceivePacket(d)
           \/ \E s \in Statuses : HandlePacket(s)
    PROVE  OrderInv'
<1>1. UNCHANGED <<at, serial, mixed>>
    BY ArriveKeeps DEF FileChanges, ReadAuction, ReceivePacket, HandlePacket, Answer, udpVars
<1>2. ASSUME NEW c \in Clients, OneDatagram(c), NEW a, FileChanges(a) \/ ReadAuction(a)
      PROVE  OneDatagram(c)'
    BY <1>1, <1>2, OthersKeepOrder DEF FileChanges, ReadAuction, udpVars, Requested, Replied, Handling
<1>3. ASSUME NEW c \in Clients, OneDatagram(c), ~leftover'[c],
             NEW d \in requests, ReceivePacket(d)
      PROVE  OneDatagram(c)'
    <2>1. source = None /\ source' = d /\ replies' = replies
        BY <1>3, ArriveKeeps DEF ReceivePacket
    <2>2. CASE d.from = c
        <3>1. d \in Requested(c) /\ requests' = requests \ {d}
            BY <1>3, <2>2 DEF Requested, ReceivePacket, Arrive, LeavesOver, TypeInv
        <3>2. /\ Requested(c) = {d} /\ Replied(c) = {} /\ d.serial = serial[c]
              /\ at[c] = "wait" /\ ~mixed[c]
            BY <1>3, <3>1 DEF OneDatagram
        <3>3. Requested(c)' = {} /\ Replied(c)' = {}
            BY <2>1, <3>1, <3>2 DEF Requested, Replied
        <3> QED  BY <1>1, <2>1, <3>2, <3>3 DEF OneDatagram
    <2>3. CASE d.from # c
        <3>1. Requested(c)' = Requested(c)
            BY <1>3, <2>3 DEF Requested, ReceivePacket, Arrive
        <3> QED  BY <1>1, <1>3, <2>1, <2>3, <3>1, OthersKeepOrder DEF Replied, Handling
    <2> QED  BY <2>2, <2>3
<1>4. ASSUME NEW c \in Clients, OneDatagram(c), NEW s, HandlePacket(s)
      PROVE  OneDatagram(c)'
    <2>1. PICK status, told : source # None /\ Answer(status, told)
        BY <1>4 DEF HandlePacket
    <2>2. /\ source' = None /\ requests' = requests
          /\ replies' = replies \union {ReplyTo(source, status, told)}
        BY <2>1 DEF Answer
    <2>3. /\ ReplyTo(source, status, told).to = source.from
          /\ ReplyTo(source, status, told).serial = source.serial
        BY DEF ReplyTo
    <2>4. CASE source.from = c
        <3>1. /\ Requested(c) = {} /\ Replied(c) = {} /\ source.serial = serial[c]
              /\ at[c] = "wait" /\ ~mixed[c]
            BY <1>4, <2>1, <2>4 DEF OneDatagram, Handling
        <3>2. /\ Requested(c)' = {} /\ Replied(c)' = {ReplyTo(source, status, told)}
              /\ ~Handling(c)'
            BY <2>2, <2>3, <2>4, <3>1 DEF Requested, Replied, Handling
        <3> QED  BY <1>1, <2>3, <3>1, <3>2 DEF OneDatagram
    <2>5. CASE source.from # c
        BY <1>1, <1>4, <2>2, <2>3, <2>5, OthersKeepOrder DEF Requested, Replied, Handling
    <2> QED  BY <2>4, <2>5
<1>5. ASSUME NEW c \in Clients, ~leftover'[c]  PROVE ~leftover[c]
    BY <1>5 DEF FileChanges, ReadAuction, ReceivePacket, Arrive, LeavesOver, HandlePacket, Answer,
                udpVars, TypeInv
<1> QED  BY <1>2, <1>3, <1>4, <1>5 DEF OrderInv

LEMMA NextOrderInv == TypeInv /\ OrderInv /\ [Next]_vars => OrderInv'
<1> SUFFICES ASSUME TypeInv, OrderInv, [Next]_vars  PROVE OrderInv'
    OBVIOUS
<1>1. CASE UNCHANGED vars
    BY <1>1 DEF vars, udpVars, serverVars, OrderInv, OneDatagram, Requested, Replied, Handling
<1> QED  BY <1>1, CommandOrderInv, ExchangeOrderInv, ServerOrderInv DEF Next

(* A client that has never stopped waiting for a reply, neither after a timeout
   nor after an error, and none of whose datagrams was copied, takes no reply for
   that of another command. *)
THEOREM NotMixedWithoutLeftovers == Spec => []MixedOnlyWithLeftovers
<1>1. Init => OrderInv
    BY DEF Init, UdpInit, OrderInv, OneDatagram, Requested, Replied, Handling
<1>2. TypeInv /\ OrderInv => MixedOnlyWithLeftovers
    BY DEF TypeInv, OrderInv, OneDatagram, MixedOnlyWithLeftovers
<1> QED  BY InitTypeInv, NextTypeInv, NextOrderInv, <1>1, <1>2, PTL DEF Spec
=============================================================================

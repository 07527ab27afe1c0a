------------------------- MODULE SelectServerProofs -------------------------
(***************************************************************************)
(* select/tcpservselect01.c: for any number of clients, descriptors and    *)
(* slots the tables of the server agree, nready is exact, and the server   *)
(* never sleeps in a call for a single client.                             *)
(***************************************************************************)
EXTENDS SelectServer, FiniteSetTheorems, WellFoundedInduction, TLAPS

USE ClientsAssumption, LimitsAssumption, BufAssumption

(* A client opens one connection, which is in one place, and has sent what *)
(* is there to be read.                                                    *)
Owners ==
  /\ \A c \in Clients : rq[c] = 0 \/ rq[c] < sent[c]
  /\ \A k \in 1 .. Len(backlog) : sent[backlog[k]] > 0
  /\ \A fd \in ConnFds : conn[fd] # Nobody => sent[conn[fd]] > 0
  /\ \A j, k \in 1 .. Len(backlog) : backlog[j] = backlog[k] => j = k
  /\ \A fd \in ConnFds, k \in 1 .. Len(backlog) : conn[fd] # backlog[k]
  /\ \A fd, gd \in ConnFds : conn[fd] = conn[gd] /\ conn[fd] # Nobody => fd = gd

(* What select reported, and has not been handled, is still so.            *)
InRound == pc \in {"accept", "scan", "write"}
RoundInv ==
  /\ pc = "accept" => i = 0 /\ backlog # <<>> /\ listenfd \in rset /\ rset \subseteq allset
  /\ InRound => \A s \in Slots : i <= s /\ client[s] \in rset => Readable(conn[client[s]])
  /\ pc = "write" => n > 0 /\ sockfd \in ConnFds /\ conn[sockfd] \in Clients

IInv == TypeOK /\ TablesAgree /\ Owners /\ RoundInv /\ NreadyExact

-----------------------------------------------------------------------------
LEMMA LeastFacts ==
  ASSUME NEW S \in SUBSET Nat, S # {}
  PROVE  Least(S) \in S /\ \A y \in S : Least(S) <= y
  <1> DEFINE T == {0 .. x : x \in S}
             R == StrictSubsetOrdering(Nat)
  <1>1. T # {} /\ T \subseteq FiniteSubsetsOf(Nat)
    <2>1. ASSUME NEW x \in S PROVE 0 .. x \in SUBSET Nat /\ IsFiniteSet(0 .. x)
      BY FS_Interval, x \in Nat, 0 .. x \in SUBSET Nat
    <2> QED
      BY <2>1 DEF FiniteSubsetsOf
  <1>2. \E A \in T : \A B \in T : ~ (<<B, A>> \in R)
    BY <1>1, FS_StrictSubsetOrderingWellFounded, WFMin
  <1>3. PICK x \in S : \A y \in S : ~ (<<0 .. y, 0 .. x>> \in R)
    BY <1>2
  <1>4. ASSUME NEW y \in S PROVE x <= y
    <2> SUFFICES ASSUME y < x PROVE FALSE
      OBVIOUS
    <2>1. 0 .. y \subseteq 0 .. x /\ x \in 0 .. x /\ x \notin 0 .. y
      OBVIOUS
    <2>2. 0 .. y \in SUBSET Nat /\ 0 .. x \in SUBSET Nat /\ 0 .. y # 0 .. x
      BY <2>1
    <2>3. <<0 .. y, 0 .. x>> \in StrictSubsetOrdering(Nat)
      BY <2>1, <2>2 DEF StrictSubsetOrdering
    <2> QED
      BY <1>3, <2>3
  <1> QED
    BY <1>4 DEF Least

(* The descriptors of a set and the slots that hold them are as many.      *)
LEMMA CountSlots ==
  ASSUME TypeOK, TablesAgree, Running, NEW R, R \subseteq allset \ {listenfd}
  PROVE  LET U == {s \in Slots : client[s] \in R}
         IN  IsFiniteSet(R) /\ IsFiniteSet(U) /\ Cardinality(U) = Cardinality(R)
  <1> DEFINE U == {s \in Slots : client[s] \in R}
             f == [s \in U |-> client[s]]
  <1>1. IsFiniteSet(U)
    <2>1. IsFiniteSet(Slots)
      BY FS_Interval DEF Slots
    <2> QED
      BY <2>1, FS_Subset
  <1>2. f \in Surjection(U, R)
    BY DEF Surjection, TablesAgree, UsedSlots, TypeOK
  <1>3. f \in Injection(U, R)
    <2>1. f \in [U -> R]
      OBVIOUS
    <2>2. \A s \in U : s \in UsedSlots
      <3>1. \A x \in R : \E t \in UsedSlots : x = client[t]
        BY DEF TablesAgree
      <3> QED
        BY <3>1 DEF UsedSlots
    <2>3. \A s, t \in U : client[s] = client[t] => s = t
      BY <2>2 DEF TablesAgree
    <2>4. IsInjective(f)
      BY <2>3 DEF IsInjective
    <2> QED
      BY <2>1, <2>4 DEF Injection
  <1>4. IsFiniteSet(R) /\ Cardinality(R) = Cardinality(U)
    BY <1>1, <1>2, <1>3, FS_Surjection
  <1> QED
    BY <1>1, <1>4

(* More slots than descriptors.                                            *)
LEMMA SlotsLast == TypeOK /\ TablesAgree /\ Running => FreeSlots # {}
  <1> SUFFICES ASSUME TypeOK, TablesAgree, Running, FreeSlots = {} PROVE FALSE
    OBVIOUS
  <1>1. client \in [Slots -> ConnFds]
    BY DEF TypeOK, FreeSlots, ConnFds
  <1>2. /\ IsFiniteSet(Slots) /\ Cardinality(Slots) = FD_SETSIZE
        /\ IsFiniteSet(ConnFds) /\ Cardinality(ConnFds) = Nofile - 4
    BY FS_Interval DEF Slots, ConnFds
  <1>3. \E s, t \in Slots : s # t /\ client[s] = client[t]
    BY <1>1, <1>2, FS_PigeonHole
  <1> QED
    BY <1>1, <1>3 DEF TablesAgree, UsedSlots, ConnFds

LEMMA UnhandledFinite == IsFiniteSet(Unhandled) /\ Cardinality(Unhandled) \in Nat
  <1>1. IsFiniteSet(Slots) /\ Unhandled \subseteq Slots
    BY FS_Interval DEF Slots, Unhandled
  <1> QED
    BY <1>1, FS_Subset, FS_CardinalityType

(* A slot in rset is in use.                                               *)
LEMMA SlotInRset ==
  ASSUME TypeOK, TablesAgree, Running, NEW s \in Slots, client[s] \in rset
  PROVE  s \in UsedSlots /\ client[s] \in ConnFds /\ conn[client[s]] \in Clients
  <1>1. client[s] \in ConnFds
    BY DEF TypeOK, listenfd, ConnFds
  <1> QED
    BY <1>1 DEF TypeOK, TablesAgree, UsedSlots, ConnFds

(* --nready <= 0 leaves the count right.                                   *)
LEMMA HandledCount ==
  ASSUME nready \in Int, Handled("scan"), Cardinality(Unhandled)' = nready - 1
  PROVE  NreadyExact' /\ pc' \in {"select", "scan"} /\ nready' \in Int
  BY DEF Handled, NreadyExact

-----------------------------------------------------------------------------
LEMMA InitIInv == Init => IInv
  <1> SUFFICES ASSUME Init PROVE IInv
    OBVIOUS
  <1> USE DEF Init, listenfd
  <1>1. TypeOK
    BY DEF TypeOK, ConnFds
  <1>2. TablesAgree
    BY DEF TablesAgree, UsedSlots, Slots, ConnFds
  <1>3. Owners
    BY DEF Owners
  <1>4. RoundInv /\ NreadyExact
    BY DEF RoundInv, NreadyExact, InRound
  <1> QED
    BY <1>1, <1>2, <1>3, <1>4 DEF IInv

(* The clients and the network.                                            *)
LEMMA NetworkStep == ASSUME IInv, NEW c \in Clients, Network(c) PROVE IInv'
  <1> USE DEF IInv
  <1>1. UNCHANGED <<serverVars, conn>>
    BY DEF Network, Connect, SendUnit, Fin, Reset, ClientReads
  <1>2. TypeOK'
    <2> USE DEF TypeOK, serverVars, peerVars
    <2>1. CASE Connect(c)
      BY <2>1 DEF Connect
    <2>2. CASE SendUnit(c)
      <3>1. rq[c] + 1 \in 0 .. MaxUnits /\ sent[c] + 1 \in 0 .. MaxUnits + 1
        <4>1. rq[c] \in Nat /\ sent[c] \in 1 .. MaxUnits /\ (rq[c] = 0 \/ rq[c] < sent[c])
          BY <2>2 DEF SendUnit, Owners
        <4> QED
          BY ONLY <4>1, BufAssumption
      <3> QED
        BY <2>2, <3>1 DEF SendUnit
    <2>3. CASE Fin(c)
      BY <2>3 DEF Fin
    <2>4. CASE Reset(c)
      BY <2>4 DEF Reset
    <2>5. CASE ClientReads(c)
      BY <2>5 DEF ClientReads
    <2> QED
      BY <2>1, <2>2, <2>3, <2>4, <2>5 DEF Network
  <1>3. TablesAgree'
    BY <1>1 DEF TablesAgree, serverVars, Running, UsedSlots
  <1>4. Owners'
    <2>1. CASE Connect(c)
      <3>1. /\ sent' = [sent EXCEPT ![c] = 1] /\ sent[c] = 0
            /\ backlog' = Append(backlog, c) /\ UNCHANGED <<conn, rq>>
        BY <2>1 DEF Connect
      <3>2. /\ \A k \in 1 .. Len(backlog) : backlog[k] \in Clients /\ backlog[k] # c
            /\ \A fd \in ConnFds : conn[fd] # c
        <4>1. \A k \in 1 .. Len(backlog) : backlog[k] \in Clients /\ sent[backlog[k]] > 0
          BY DEF Owners, TypeOK
        <4>2. \A fd \in ConnFds : conn[fd] = Nobody \/ sent[conn[fd]] > 0
          BY DEF Owners
        <4>3. c # Nobody
          BY DEF Nobody
        <4> QED
          BY <3>1, <4>1, <4>2, <4>3
      <3>3. /\ Len(backlog') = Len(backlog) + 1 /\ backlog'[Len(backlog) + 1] = c
            /\ \A k \in 1 .. Len(backlog) : backlog'[k] = backlog[k]
        BY <3>1 DEF TypeOK
      <3>4. \A k \in 1 .. Len(backlog') : k \in 1 .. Len(backlog) \/ k = Len(backlog) + 1
        BY <3>3 DEF TypeOK
      <3>5. \A d \in Clients : d # c => sent'[d] = sent[d]
        BY <3>1 DEF TypeOK
      <3>6. sent'[c] = 1
        BY <3>1 DEF TypeOK
      <3>7. /\ \A d \in Clients : rq'[d] = 0 \/ rq'[d] < sent'[d]
            /\ \A fd \in ConnFds : conn'[fd] # Nobody => sent'[conn'[fd]] > 0
            /\ \A fd, gd \in ConnFds : conn'[fd] = conn'[gd] /\ conn'[fd] # Nobody => fd = gd
        BY <3>1, <3>2, <3>5, <3>6 DEF Owners, TypeOK
      <3>8. /\ \A k \in 1 .. Len(backlog') : sent'[backlog'[k]] > 0
            /\ \A fd \in ConnFds, k \in 1 .. Len(backlog') : conn'[fd] # backlog'[k]
        BY <3>1, <3>2, <3>3, <3>4, <3>5, <3>6 DEF Owners
      <3>9. \A j, k \in 1 .. Len(backlog') : backlog'[j] = backlog'[k] => j = k
        BY <3>2, <3>3, <3>4 DEF Owners
      <3> QED
        BY <3>7, <3>8, <3>9 DEF Owners
    <2>2. CASE SendUnit(c)
      <3>1. /\ UNCHANGED <<backlog, conn>> /\ sent[c] > 0
            /\ sent' = [sent EXCEPT ![c] = @ + 1] /\ rq' = [rq EXCEPT ![c] = @ + 1]
        BY <2>2 DEF SendUnit
      <3>2. \A d \in Clients : sent[d] \in Nat /\ rq[d] \in Nat
        BY DEF TypeOK
      <3>3. \A d \in Clients : /\ sent[d] > 0 => sent'[d] > 0
                               /\ rq'[d] = 0 \/ rq'[d] < sent'[d]
        BY <3>1, <3>2 DEF Owners, TypeOK
      <3>4. /\ \A k \in 1 .. Len(backlog) : backlog[k] \in Clients
            /\ \A fd \in ConnFds : conn[fd] \in Clients \cup {Nobody}
        BY DEF TypeOK
      <3> QED
        BY <3>1, <3>3, <3>4 DEF Owners
    <2>3. CASE Fin(c) \/ Reset(c) \/ ClientReads(c)
      BY <2>3 DEF Fin, Reset, ClientReads, peerVars, Owners
    <2> QED
      BY <2>1, <2>2, <2>3 DEF Network
  <1>5. RoundInv'
    <2>1. \A d \in Clients : Readable(d) => Readable(d)'
      <3> SUFFICES ASSUME NEW d \in Clients, Readable(d) PROVE Readable(d)'
        OBVIOUS
      <3>1. rq[d] > 0 => rq'[d] > 0
        <4>1. rq' = rq \/ rq' = [rq EXCEPT ![c] = @ + 1]
          BY DEF Network, Connect, SendUnit, Fin, Reset, ClientReads, peerVars
        <4>2. rq \in [Clients -> Nat]
          BY DEF TypeOK
        <4> QED
          BY ONLY <4>1, <4>2, d \in Clients
      <3>2. fin[d] => fin'[d]
        <4>1. fin' = fin \/ fin' = [fin EXCEPT ![c] = TRUE]
          BY DEF Network, Connect, SendUnit, Fin, Reset, ClientReads, peerVars
        <4>2. fin \in [Clients -> BOOLEAN]
          BY DEF TypeOK
        <4> QED
          BY ONLY <4>1, <4>2, d \in Clients, Zenon
      <3>3. err[d] # "none" => err'[d] # "none"
        BY DEF Network, Connect, SendUnit, Fin, Reset, ClientReads, peerVars, TypeOK
      <3> QED
        BY <3>1, <3>2, <3>3 DEF Readable
    <2>2. backlog # <<>> => backlog' # <<>>
      BY DEF Network, Connect, SendUnit, Fin, Reset, ClientReads, TypeOK
    <2>3. InRound => \A s \in Slots : client[s] \in rset => conn[client[s]] \in Clients
      BY SlotInRset DEF InRound, Running
    <2> QED
      BY <1>1, <2>1, <2>2, <2>3 DEF RoundInv, InRound, serverVars
  <1>6. NreadyExact'
    BY <1>1 DEF NreadyExact, Unhandled, serverVars
  <1> QED
    BY <1>2, <1>3, <1>4, <1>5, <1>6

-----------------------------------------------------------------------------
LEMMA SelectStep == IInv /\ Select => IInv'
  <1> SUFFICES ASSUME IInv, Select PROVE IInv'
    OBVIOUS
  <1> USE DEF IInv
  <1> DEFINE ready == {fd \in allset : fd <= maxfd /\ Ready(fd)}
  <1>1. /\ pc = "select" /\ ready # {} /\ rset' = ready /\ nready' = Cardinality(ready)
        /\ pc' = (IF listenfd \in ready THEN "accept" ELSE "scan") /\ i' = 0
        /\ UNCHANGED <<maxi, maxfd, client, allset, sockfd, n, conn, backlog, peerVars, sndq>>
    BY DEF Select
  <1>2. Running /\ Running'
    BY <1>1 DEF Running
  <1>3. IsFiniteSet(ready) /\ Cardinality(ready) \in Nat /\ Cardinality(ready) > 0
    <2>1. IsFiniteSet(Fds)
      BY ONLY FS_Interval, 0 \in Int, Nofile - 1 \in Int DEF Fds
    <2>2. allset \subseteq Fds
      <3>1. 3 \in 0 .. Nofile - 1 /\ 4 .. Nofile - 1 \subseteq 0 .. Nofile - 1
        OBVIOUS
      <3> QED
        BY <3>1 DEF Fds, ConnFds, TypeOK, listenfd
    <2>3. ready \subseteq Fds
      BY <2>2
    <2> QED
      BY <1>1, <2>1, <2>3, FS_Subset, FS_CardinalityType, FS_EmptySet
  <1>4. TypeOK'
    BY <1>1, <1>3 DEF TypeOK, peerVars
  <1>5. TablesAgree' /\ Owners'
    BY <1>1, <1>2 DEF TablesAgree, Owners, UsedSlots, peerVars
  <1>6. RoundInv'
    <2>1. listenfd \in ready => backlog # <<>>
      BY DEF Ready
    <2>2. ASSUME NEW s \in Slots, client[s] \in ready PROVE Readable(conn[client[s]])
      BY <2>2 DEF Ready, TypeOK, ConnFds, listenfd
    <2> QED
      BY <1>1, <2>1, <2>2 DEF RoundInv, Readable, peerVars
  <1>7. NreadyExact'
    <2>1. CASE listenfd \in ready
      BY <1>1, <1>3, <2>1 DEF NreadyExact
    <2>2. CASE listenfd \notin ready
      <3>1. ready \subseteq allset \ {listenfd}
        BY <2>2
      <3>2. Cardinality({s \in Slots : client[s] \in ready}) = Cardinality(ready)
        BY <1>2, <3>1, CountSlots
      <3>3. Unhandled' = {s \in Slots : client[s] \in ready}
        BY <1>1 DEF Unhandled, Slots
      <3> QED
        BY <1>1, <1>3, <2>2, <3>2, <3>3 DEF NreadyExact
    <2> QED
      BY <2>1, <2>2
  <1> QED
    BY <1>4, <1>5, <1>6, <1>7

(* After select has reported listenfd, the other ready descriptors are as  *)
(* many as the slots that hold them.                                       *)
LEMMA AcceptCount ==
  ASSUME IInv, pc = "accept"
  PROVE  LET U == {s \in Slots : client[s] \in rset}
         IN  IsFiniteSet(U) /\ Cardinality(U) = nready - 1
  <1> DEFINE R == rset \ {listenfd}
             U == {s \in Slots : client[s] \in rset}
  <1>1. TypeOK /\ TablesAgree /\ Running /\ R \subseteq allset \ {listenfd}
        /\ listenfd \in rset /\ nready = Cardinality(rset)
    BY DEF IInv, RoundInv, NreadyExact, Running
  <1>2. U = {s \in Slots : client[s] \in R}
    <2>1. \A s \in Slots : client[s] # listenfd
      BY <1>1 DEF TypeOK, ConnFds, listenfd
    <2> QED
      BY <2>1
  <1>3. IsFiniteSet(R) /\ IsFiniteSet(U) /\ Cardinality(U) = Cardinality(R)
    BY <1>1, <1>2, CountSlots
  <1>4. rset = R \cup {listenfd} /\ listenfd \notin R
    BY <1>1
  <1>5. Cardinality(rset) = Cardinality(R) + 1 /\ Cardinality(R) \in Nat
    BY <1>3, <1>4, FS_AddElement, FS_CardinalityType
  <1> QED
    BY <1>1, <1>3, <1>5

(* Line 40: the descriptor that accept returns is new to every table.      *)
LEMMA NewDescriptor ==
  ASSUME IInv, pc = "accept", FreeFds # {}
  PROVE  LET connfd == Least(FreeFds)
         IN  /\ connfd \in ConnFds /\ conn[connfd] = Nobody
             /\ connfd \notin rset /\ connfd \notin allset
             /\ \A s \in Slots : client[s] # connfd
  <1> DEFINE connfd == Least(FreeFds)
  <1>1. connfd \in FreeFds
    <2>1. FreeFds \in SUBSET Nat
      BY DEF FreeFds, ConnFds
    <2> QED
      BY <2>1, LeastFacts
  <1>2. connfd \in ConnFds /\ conn[connfd] = Nobody
    BY <1>1 DEF FreeFds
  <1> HIDE DEF connfd
  <1>3. \A s \in Slots : client[s] # connfd
    BY <1>2 DEF IInv, TablesAgree, Running
  <1>4. connfd \notin allset
    <2>1. connfd # listenfd
      BY <1>2 DEF ConnFds, listenfd
    <2> QED
      BY <1>3, <2>1 DEF IInv, TablesAgree, Running, UsedSlots
  <1>5. connfd \notin rset
    BY <1>4 DEF IInv, RoundInv
  <1> QED
    BY <1>2, <1>3, <1>4, <1>5 DEF connfd

LEMMA FreeSlot ==
  ASSUME TypeOK, TablesAgree, Running
  PROVE  FreeSlots # {} /\ Least(FreeSlots) \in Slots /\ client[Least(FreeSlots)] = -1
  <1>1. FreeSlots # {}
    BY SlotsLast
  <1>2. FreeSlots \in SUBSET Nat
    BY DEF FreeSlots, Slots
  <1>3. Least(FreeSlots) \in FreeSlots
    BY <1>1, <1>2, LeastFacts
  <1> QED
    BY <1>1, <1>3 DEF FreeSlots, TypeOK, ConnFds

LEMMA AcceptStep == IInv /\ Accept => IInv'
  <1> SUFFICES ASSUME IInv, Accept PROVE IInv'
    OBVIOUS
  <1> DEFINE connfd == Least(FreeFds)
             t == Least(FreeSlots)
  <1>1. /\ pc = "accept" /\ Running /\ InRound /\ backlog # <<>> /\ i = 0
        /\ TypeOK /\ TablesAgree /\ Owners /\ RoundInv
    BY DEF IInv, Accept, RoundInv, Running, InRound
  <1>2. FreeSlots # {} /\ t \in Slots /\ client[t] = -1
    BY <1>1, FreeSlot
  <1>3. /\ connfd \in ConnFds /\ conn[connfd] = Nobody
        /\ connfd \notin rset /\ connfd \notin allset
        /\ \A s \in Slots : client[s] # connfd
    BY NewDescriptor DEF Accept
  <1>4. /\ conn' = [conn EXCEPT ![connfd] = Head(backlog)]
        /\ backlog' = Tail(backlog)
        /\ client' = [client EXCEPT ![t] = connfd]
        /\ allset' = allset \cup {connfd}
        /\ maxfd' = (IF connfd > maxfd THEN connfd ELSE maxfd)
        /\ maxi' = (IF t > maxi THEN t ELSE maxi)
        /\ Handled("scan")
        /\ UNCHANGED <<i, rset, sockfd, n, sent, rq, fin, err, sndq>>
    BY <1>2 DEF Accept, peerVars
  <1> HIDE DEF connfd, t
  <1>5. /\ client'[t] = connfd /\ \A s \in Slots : s # t => client'[s] = client[s]
        /\ conn'[connfd] = Head(backlog) /\ Head(backlog) \in Clients
        /\ \A fd \in ConnFds : fd # connfd => conn'[fd] = conn[fd]
    BY <1>1, <1>2, <1>3, <1>4 DEF TypeOK
  <1>6. \A s \in Slots : client'[s] \in rset <=> client[s] \in rset
    <2>1. -1 \notin rset
      BY <1>1 DEF TypeOK, ConnFds, listenfd
    <2> QED
      BY <1>2, <1>3, <1>5, <2>1
  <1>7. NreadyExact' /\ pc' \in {"select", "scan"} /\ nready' \in Int
    <2>1. Unhandled' = {s \in Slots : client[s] \in rset}
      BY <1>1, <1>4, <1>6 DEF Unhandled, Slots
    <2>2. Cardinality(Unhandled)' = nready - 1
      BY <1>1, <2>1, AcceptCount
    <2> QED
      BY <1>1, <1>4, <2>2, HandledCount DEF TypeOK
  <1>8. TypeOK'
    <2>1. client' \in [Slots -> {-1} \cup ConnFds] /\ conn' \in [ConnFds -> Clients \cup {Nobody}]
      BY <1>1, <1>2, <1>3, <1>4, <1>5 DEF TypeOK
    <2>2. maxi' \in -1 .. FD_SETSIZE - 1 /\ maxfd' \in {listenfd} \cup ConnFds
      BY <1>1, <1>2, <1>3, <1>4 DEF TypeOK, Slots
    <2>3. backlog' \in Seq(Clients)
      BY <1>1, <1>4 DEF TypeOK
    <2> QED
      BY <1>1, <1>3, <1>4, <1>7, <2>1, <2>2, <2>3 DEF TypeOK
  <1>9. TablesAgree'
    <2>1. UsedSlots' = UsedSlots \cup {t} /\ t \notin UsedSlots
      BY <1>2, <1>3, <1>5 DEF UsedSlots, ConnFds
    <2>2. allset' = {listenfd} \cup {client'[s] : s \in UsedSlots'}
      <3>1. {client'[s] : s \in UsedSlots'} = {client[s] : s \in UsedSlots} \cup {connfd}
        BY <1>5, <2>1 DEF UsedSlots
      <3> QED
        BY <1>1, <1>4, <3>1 DEF TablesAgree
    <2>3. \A s, u \in UsedSlots' : client'[s] = client'[u] => s = u
      BY <1>1, <1>3, <1>5, <2>1 DEF TablesAgree, UsedSlots
    <2>4. \A fd \in ConnFds : conn'[fd] # Nobody <=> \E s \in Slots : client'[s] = fd
      <3>2. ASSUME NEW fd \in ConnFds, fd # connfd
            PROVE  conn'[fd] # Nobody <=> \E s \in Slots : client'[s] = fd
        <4>1. \A s \in Slots : client'[s] = fd <=> client[s] = fd
          BY <1>2, <1>5, <3>2 DEF ConnFds
        <4> QED
          BY <1>1, <1>5, <3>2, <4>1 DEF TablesAgree
      <3>3. conn'[connfd] # Nobody /\ \E s \in Slots : client'[s] = connfd
        BY <1>2, <1>5 DEF Nobody
      <3> QED
        BY <3>2, <3>3
    <2>5. \A s \in UsedSlots' : s <= maxi' /\ client'[s] <= maxfd'
      <3>1. maxi <= maxi' /\ maxfd <= maxfd' /\ t <= maxi' /\ connfd <= maxfd'
            /\ {maxi, maxi', maxfd, maxfd', t, connfd} \subseteq Int
        BY <1>1, <1>2, <1>3, <1>4 DEF TypeOK, Slots, ConnFds, listenfd
      <3>2. ASSUME NEW s \in UsedSlots PROVE s <= maxi' /\ client'[s] <= maxfd'
        <4>1. s <= maxi /\ client[s] <= maxfd /\ s \in Int /\ client[s] \in Int
              /\ client'[s] = client[s]
          BY <1>1, <1>5, <2>1 DEF TablesAgree, UsedSlots, TypeOK, Slots, ConnFds
        <4> QED
          BY <3>1, <4>1
      <3> QED
        BY <1>5, <2>1, <3>1, <3>2
    <2> QED
      BY <2>2, <2>3, <2>4, <2>5 DEF TablesAgree
  <1>10. Owners'
    <2>1. /\ backlog \in Seq(Clients) /\ Head(backlog) = backlog[1]
          /\ 1 \in 1 .. Len(backlog)
          /\ \A k \in 1 .. Len(backlog') : k + 1 \in 1 .. Len(backlog)
                                          /\ backlog'[k] = backlog[k + 1] /\ k + 1 # 1
      BY <1>1, <1>4 DEF TypeOK
    <2>2. /\ \A c \in Clients : rq'[c] = 0 \/ rq'[c] < sent'[c]
          /\ \A k \in 1 .. Len(backlog') : sent'[backlog'[k]] > 0
          /\ \A j, k \in 1 .. Len(backlog') : backlog'[j] = backlog'[k] => j = k
      BY <1>1, <1>4, <2>1 DEF Owners
    <2>3. \A fd \in ConnFds : conn'[fd] # Nobody => sent'[conn'[fd]] > 0
      BY <1>1, <1>4, <1>5, <2>1 DEF Owners
    <2>4. \A fd \in ConnFds, k \in 1 .. Len(backlog') : conn'[fd] # backlog'[k]
      BY <1>1, <1>5, <2>1 DEF Owners
    <2>5. \A fd, gd \in ConnFds : conn'[fd] = conn'[gd] /\ conn'[fd] # Nobody => fd = gd
      BY <1>1, <1>5, <2>1 DEF Owners
    <2> QED
      BY <2>2, <2>3, <2>4, <2>5 DEF Owners
  <1>11. RoundInv'
    <2>1. ASSUME NEW s \in Slots, client'[s] \in rset
          PROVE  Readable(conn[client[s]])'
      <3>1. client[s] \in rset /\ client'[s] = client[s]
        BY <1>3, <1>5, <1>6, <2>1
      <3>2. client[s] \in ConnFds /\ client[s] # connfd
        BY <1>1, <1>3, <3>1, SlotInRset
      <3>3. conn'[client[s]] = conn[client[s]] /\ Readable(conn[client[s]])
        BY <1>1, <1>5, <3>1, <3>2 DEF RoundInv, Slots
      <3> QED
        BY <1>4, <3>1, <3>3 DEF Readable
    <2> QED
      BY <1>4, <1>7, <2>1 DEF RoundInv
  <1> QED
    BY <1>7, <1>8, <1>9, <1>10, <1>11 DEF IInv

(* EMFILE: the count and the tables are kept, whatever FD_SET(-1) does.    *)
LEMMA AcceptFailsStep == IInv /\ AcceptFails => IInv'
  <1> SUFFICES ASSUME IInv, AcceptFails PROVE IInv'
    OBVIOUS
  <1> DEFINE t == Least(FreeSlots)
  <1>1. /\ pc = "accept" /\ Running /\ InRound /\ i = 0
        /\ TypeOK /\ TablesAgree /\ Owners /\ RoundInv
    BY DEF IInv, AcceptFails, RoundInv, Running, InRound
  <1>2. t \in Slots
    BY <1>1, FreeSlot
  <1>3. /\ UNCHANGED <<i, maxfd, client, rset, allset, sockfd, n, conn, backlog, sent, rq,
                       fin, err, sndq>>
        /\ \/ pc' = "exit" /\ UNCHANGED <<maxi, nready>>
           \/ maxi' = (IF t > maxi THEN t ELSE maxi) /\ Handled("scan")
    BY DEF AcceptFails, peerVars
  <1> HIDE DEF t
  <1>4. maxi' \in -1 .. FD_SETSIZE - 1 /\ maxi <= maxi' /\ maxi \in Int
    BY <1>1, <1>2, <1>3 DEF TypeOK, Slots
  <1>5. NreadyExact' /\ pc' \in {"select", "scan", "exit"} /\ nready' \in Int
    <2>1. CASE pc' = "exit" /\ nready' = nready
      BY <1>1, <2>1 DEF NreadyExact, TypeOK
    <2>2. CASE Handled("scan")
      <3>1. Unhandled' = {s \in Slots : client[s] \in rset}
        BY <1>1, <1>3 DEF Unhandled, Slots
      <3>2. Cardinality(Unhandled)' = nready - 1
        BY <1>1, <3>1, AcceptCount
      <3> QED
        BY <1>1, <2>2, <3>2, HandledCount DEF TypeOK
    <2> QED
      BY <1>3, <2>1, <2>2
  <1>6. TypeOK'
    BY <1>1, <1>3, <1>4, <1>5 DEF TypeOK
  <1>7. TablesAgree'
    <2>1. \A s \in UsedSlots : s <= maxi' /\ s \in Int
      BY <1>1, <1>4 DEF TablesAgree, UsedSlots, Slots
    <2> QED
      BY <1>1, <1>3, <2>1 DEF TablesAgree, UsedSlots
  <1>8. Owners'
    BY <1>1, <1>3 DEF Owners
  <1>9. RoundInv'
    BY <1>1, <1>3, <1>5 DEF RoundInv, Readable
  <1> QED
    BY <1>5, <1>6, <1>7, <1>8, <1>9 DEF IInv

-----------------------------------------------------------------------------
(* The scan: the slots before the next hit have nothing to be handled.     *)
LEMMA HitFacts ==
  ASSUME IInv, pc = "scan", Hits # {}
  PROVE  /\ NextHit \in Slots /\ i <= NextHit /\ NextHit < maxi
         /\ client[NextHit] \in rset /\ client[NextHit] \in ConnFds
         /\ NextHit \in UsedSlots /\ Peer \in Clients /\ Readable(Peer)
         /\ {s \in Slots : NextHit + 1 <= s /\ client[s] \in rset} = Unhandled \ {NextHit}
         /\ Cardinality(Unhandled \ {NextHit}) = nready - 1
  <1>1. TypeOK /\ TablesAgree /\ Running /\ RoundInv /\ InRound /\ NreadyExact
    BY DEF IInv, Running, InRound
  <1>2. NextHit \in Hits /\ \A s \in Hits : NextHit <= s
    <2>1. Hits \in SUBSET Nat
      BY DEF Hits, Slots
    <2> QED
      BY <2>1, LeastFacts DEF NextHit
  <1>3. NextHit \in Slots /\ i <= NextHit /\ NextHit < maxi /\ client[NextHit] \in rset
    BY <1>2 DEF Hits
  <1>4. NextHit \in UsedSlots /\ client[NextHit] \in ConnFds /\ Peer \in Clients
    BY <1>1, <1>3, SlotInRset DEF Peer
  <1>5. Readable(Peer)
    BY <1>1, <1>3 DEF RoundInv, Peer
  <1>6. {s \in Slots : NextHit + 1 <= s /\ client[s] \in rset} = Unhandled \ {NextHit}
    <2>1. NextHit \in Int /\ i \in Int /\ maxi \in Int /\ Slots \subseteq Int
      BY <1>1, <1>3 DEF TypeOK, Slots
    <2>2. ASSUME NEW s \in Slots, client[s] \in rset
          PROVE  NextHit + 1 <= s <=> i <= s /\ s # NextHit
      <3>1. i <= s /\ s < NextHit => s \in Hits
        BY <1>3, <2>1, <2>2 DEF Hits
      <3> QED
        BY <1>2, <1>3, <2>1, <3>1
    <2> QED
      BY <2>2 DEF Unhandled
  <1>7. NextHit \in Unhandled /\ nready = Cardinality(Unhandled)
    BY <1>1, <1>3 DEF Unhandled, NreadyExact
  <1>8. Cardinality(Unhandled \ {NextHit}) = nready - 1
    BY <1>7, UnhandledFinite, FS_RemoveElement
  <1> QED
    BY <1>3, <1>4, <1>5, <1>6, <1>8

(* The clients whose turn is still to come are others.                     *)
LEMMA OtherPeers ==
  ASSUME IInv, pc = "scan", Hits # {},
         NEW s \in Slots, NextHit + 1 <= s, client[s] \in rset
  PROVE  /\ client[s] \in ConnFds /\ client[s] # client[NextHit]
         /\ conn[client[s]] \in Clients /\ conn[client[s]] # Peer
         /\ Readable(conn[client[s]])
  <1>1. TypeOK /\ TablesAgree /\ Owners /\ Running /\ RoundInv /\ InRound
    BY DEF IInv, Running, InRound
  <1>2. s \in UsedSlots /\ client[s] \in ConnFds /\ conn[client[s]] \in Clients
    BY <1>1, SlotInRset
  <1>3. NextHit \in UsedSlots /\ client[NextHit] \in ConnFds /\ Peer \in Clients
        /\ i <= NextHit
    BY HitFacts
  <1>4. NextHit \in Int /\ s \in Int /\ i \in Int
    BY <1>1, <1>3 DEF TypeOK, Slots, UsedSlots
  <1>5. client[s] # client[NextHit]
    BY <1>1, <1>2, <1>3, <1>4 DEF TablesAgree
  <1>6. conn[client[s]] # Peer
    BY <1>1, <1>2, <1>3, <1>5 DEF Owners, Peer, Nobody
  <1>7. Readable(conn[client[s]])
    BY <1>1, <1>3, <1>4 DEF RoundInv
  <1> QED
    BY <1>2, <1>5, <1>6, <1>7

LEMMA ReadDataStep == IInv /\ ReadData => IInv'
  <1> SUFFICES ASSUME IInv, ReadData PROVE IInv'
    OBVIOUS
  <1>1. pc = "scan" /\ Hits # {} /\ Running /\ TypeOK /\ TablesAgree /\ Owners
    BY DEF ReadData, IInv, Running
  <1>2. PICK k \in 1 .. MaxUnits : k <= rq[Peer] /\ n' = k
                                   /\ rq' = [rq EXCEPT ![Peer] = @ - k]
    BY DEF ReadData
  <1>3. /\ sockfd' = client[NextHit] /\ i' = NextHit + 1 /\ pc' = "write"
        /\ UNCHANGED <<maxi, maxfd, nready, client, rset, allset, conn, backlog, sent, fin,
                       err, sndq>>
    BY DEF ReadData
  <1>4. /\ NextHit \in Slots /\ client[NextHit] \in ConnFds /\ Peer \in Clients
        /\ conn[client[NextHit]] = Peer
    BY <1>1, HitFacts DEF Peer
  <1>5. rq[Peer] - k \in 0 .. MaxUnits /\ rq[Peer] \in Nat /\ rq[Peer] > 0
    BY <1>1, <1>2, <1>4 DEF TypeOK
  <1>6. TypeOK'
    BY <1>1, <1>2, <1>3, <1>4, <1>5 DEF TypeOK, Slots
  <1>7. TablesAgree'
    BY <1>1, <1>3 DEF TablesAgree, UsedSlots
  <1>8. Owners'
    <2>1. \A c \in Clients : rq'[c] = 0 \/ rq'[c] < sent'[c]
      BY <1>1, <1>2, <1>3, <1>4, <1>5 DEF Owners, TypeOK
    <2> QED
      BY <1>1, <1>3, <2>1 DEF Owners
  <1>9. RoundInv'
    <2>1. ASSUME NEW s \in Slots, NextHit + 1 <= s, client[s] \in rset
          PROVE  Readable(conn[client[s]])'
      <3>1. /\ conn[client[s]] \in Clients /\ conn[client[s]] # Peer
            /\ Readable(conn[client[s]])
        BY <1>1, <2>1, OtherPeers
      <3>2. rq'[conn[client[s]]] = rq[conn[client[s]]]
        BY <1>1, <1>2, <1>4, <3>1 DEF TypeOK
      <3> QED
        BY <1>3, <3>1, <3>2 DEF Readable
    <2> QED
      BY <1>2, <1>3, <1>4, <2>1 DEF RoundInv
  <1>10. NreadyExact'
    <2>1. Unhandled' = Unhandled \ {NextHit}
      BY <1>1, <1>3, HitFacts DEF Unhandled
    <2>2. Cardinality(Unhandled)' = nready - 1
      BY <1>1, <2>1, HitFacts
    <2> QED
      BY <1>1, <1>3, <2>2 DEF NreadyExact, TypeOK
  <1> QED
    BY <1>6, <1>7, <1>8, <1>9, <1>10 DEF IInv

LEMMA ReadErrorStep == IInv /\ ReadError => IInv'
  <1> SUFFICES ASSUME IInv, ReadError PROVE IInv'
    OBVIOUS
  <1>1. pc = "scan" /\ Hits # {} /\ Running /\ TypeOK /\ TablesAgree /\ Owners
    BY DEF ReadError, IInv, Running
  <1>2. /\ err' = [err EXCEPT ![Peer] = "spent"] /\ i' = NextHit + 1 /\ Handled("scan")
        /\ UNCHANGED <<maxi, maxfd, client, rset, allset, sockfd, n, conn, backlog, sent, rq,
                       fin, sndq>>
    BY DEF ReadError
  <1>3. NextHit \in Slots /\ Peer \in Clients
    BY <1>1, HitFacts
  <1>4. NreadyExact' /\ pc' \in {"select", "scan"} /\ nready' \in Int
    <2>1. Unhandled' = Unhandled \ {NextHit}
      BY <1>1, <1>2, HitFacts DEF Unhandled
    <2>2. Cardinality(Unhandled)' = nready - 1
      BY <1>1, <2>1, HitFacts
    <2> QED
      BY <1>1, <1>2, <2>2, HandledCount DEF TypeOK
  <1>5. TypeOK'
    BY <1>1, <1>2, <1>3, <1>4 DEF TypeOK, Slots
  <1>6. TablesAgree' /\ Owners'
    BY <1>1, <1>2 DEF TablesAgree, Owners, UsedSlots
  <1>7. RoundInv'
    <2>1. ASSUME NEW s \in Slots, NextHit + 1 <= s, client[s] \in rset
          PROVE  Readable(conn[client[s]])'
      <3>1. conn[client[s]] \in Clients /\ conn[client[s]] # Peer
            /\ Readable(conn[client[s]])
        BY <1>1, <2>1, OtherPeers
      <3>2. err'[conn[client[s]]] = err[conn[client[s]]]
        BY <1>1, <1>2, <1>3, <3>1 DEF TypeOK
      <3> QED
        BY <1>2, <3>1, <3>2 DEF Readable
    <2> QED
      BY <1>2, <1>4, <2>1 DEF RoundInv
  <1> QED
    BY <1>4, <1>5, <1>6, <1>7 DEF IInv

(* Lines 79 to 81: close, FD_CLR and client[i] = -1.                       *)
LEMMA ReadEOFStep == IInv /\ ReadEOF => IInv'
  <1> SUFFICES ASSUME IInv, ReadEOF PROVE IInv'
    OBVIOUS
  <1> DEFINE fd == client[NextHit]
             h == NextHit
  <1>1. pc = "scan" /\ Hits # {} /\ Running /\ TypeOK /\ TablesAgree /\ Owners
    BY DEF ReadEOF, IInv, Running
  <1>2. /\ conn' = [conn EXCEPT ![fd] = Nobody] /\ allset' = allset \ {fd}
        /\ client' = [client EXCEPT ![h] = -1] /\ i' = h + 1 /\ Handled("scan")
        /\ UNCHANGED <<maxi, maxfd, rset, sockfd, n, backlog, sent, rq, fin, err, sndq>>
    BY DEF ReadEOF, peerVars
  <1>3. h \in Slots /\ fd \in ConnFds /\ h \in UsedSlots /\ client[h] = fd
    BY <1>1, HitFacts
  <1>4. NreadyExact' /\ pc' \in {"select", "scan"} /\ nready' \in Int
    <2>1. \A s \in Slots : h + 1 <= s => client'[s] = client[s]
      BY <1>1, <1>2, <1>3 DEF TypeOK, Slots
    <2>2. Unhandled' = Unhandled \ {h}
      BY <1>1, <1>2, <2>1, HitFacts DEF Unhandled
    <2>3. Cardinality(Unhandled)' = nready - 1
      BY <1>1, <2>2, HitFacts
    <2> QED
      BY <1>1, <1>2, <2>3, HandledCount DEF TypeOK
  <1>9. RoundInv'
    <2>1. ASSUME NEW s \in Slots, h + 1 <= s, client'[s] \in rset
          PROVE  Readable(conn[client[s]])'
      <3>1. client'[s] = client[s]
        BY <1>1, <1>2, <1>3, <2>1 DEF TypeOK, Slots
      <3>2. client[s] \in ConnFds /\ client[s] # fd /\ Readable(conn[client[s]])
        BY <1>1, <2>1, <3>1, OtherPeers
      <3>3. conn'[client[s]] = conn[client[s]]
        BY <1>1, <1>2, <1>3, <3>2 DEF TypeOK
      <3> QED
        BY <1>2, <3>1, <3>2, <3>3 DEF Readable
    <2> QED
      BY <1>2, <1>4, <2>1 DEF RoundInv
  <1> HIDE DEF fd, h
  <1>5. /\ client'[h] = -1 /\ \A s \in Slots : s # h => client'[s] = client[s]
        /\ conn'[fd] = Nobody /\ \A gd \in ConnFds : gd # fd => conn'[gd] = conn[gd]
    BY <1>1, <1>2, <1>3 DEF TypeOK
  <1>6. TypeOK'
    BY <1>1, <1>2, <1>3, <1>4 DEF TypeOK, Slots
  <1>7. TablesAgree'
    <2>1. UsedSlots' = UsedSlots \ {h}
      BY <1>3, <1>5 DEF UsedSlots
    <2>2. \A s \in UsedSlots \ {h} : client'[s] = client[s] /\ client[s] # fd
      BY <1>1, <1>3, <1>5 DEF TablesAgree, UsedSlots
    <2>3. allset' = {listenfd} \cup {client'[s] : s \in UsedSlots'}
      <3>1. {client'[s] : s \in UsedSlots'} = {client[s] : s \in UsedSlots} \ {fd}
        BY <1>3, <2>1, <2>2
      <3>2. fd # listenfd
        BY <1>3 DEF ConnFds, listenfd
      <3> QED
        BY <1>1, <1>2, <3>1, <3>2 DEF TablesAgree
    <2>4. \A s, u \in UsedSlots' : client'[s] = client'[u] => s = u
      BY <1>1, <2>1, <2>2 DEF TablesAgree
    <2>5. \A gd \in ConnFds : conn'[gd] # Nobody <=> \E s \in Slots : client'[s] = gd
      <3>1. ASSUME NEW gd \in ConnFds, gd # fd
            PROVE  conn'[gd] # Nobody <=> \E s \in Slots : client'[s] = gd
        <4>1. \A s \in Slots : client'[s] = gd <=> client[s] = gd
          BY <1>3, <1>5, <3>1 DEF ConnFds
        <4> QED
          BY <1>1, <1>5, <3>1, <4>1 DEF TablesAgree
      <3>2. conn'[fd] = Nobody /\ \A s \in Slots : client'[s] # fd
        BY <1>3, <1>5, <2>2 DEF UsedSlots, ConnFds
      <3> QED
        BY <3>1, <3>2
    <2>6. \A s \in UsedSlots' : s <= maxi' /\ client'[s] <= maxfd'
      BY <1>1, <1>2, <2>1, <2>2 DEF TablesAgree
    <2> QED
      BY <2>3, <2>4, <2>5, <2>6 DEF TablesAgree
  <1>8. Owners'
    BY <1>1, <1>2, <1>5, <1>3 DEF Owners, Nobody, TypeOK
  <1> QED
    BY <1>4, <1>6, <1>7, <1>8, <1>9 DEF IInv

LEMMA ScanEndsStep == IInv /\ ScanEnds => IInv'
  <1> SUFFICES ASSUME IInv, ScanEnds PROVE IInv'
    OBVIOUS
  <1>1. /\ pc = "scan" /\ pc' = "select" /\ Running
        /\ UNCHANGED <<i, maxi, maxfd, nready, client, rset, allset, sockfd, n, conn, backlog,
                       sent, rq, fin, err, sndq>>
    BY DEF ScanEnds, Running, peerVars
  <1>2. TypeOK' /\ TablesAgree' /\ Owners'
    BY <1>1 DEF IInv, TypeOK, TablesAgree, Owners, UsedSlots
  <1>3. RoundInv' /\ NreadyExact'
    BY <1>1 DEF RoundInv, NreadyExact, InRound
  <1> QED
    BY <1>2, <1>3 DEF IInv

-----------------------------------------------------------------------------
LEMMA WriteUnitStep == IInv /\ WriteUnit => IInv'
  <1> SUFFICES ASSUME IInv, WriteUnit PROVE IInv'
    OBVIOUS
  <1> DEFINE c == conn[sockfd]
  <1>1. /\ pc = "write" /\ Running /\ InRound
        /\ TypeOK /\ TablesAgree /\ Owners /\ RoundInv /\ NreadyExact
    BY DEF WriteUnit, IInv, Running, InRound
  <1>2. /\ sndq' = [sndq EXCEPT ![c] = @ + 1] /\ sndq[c] < SndBuf /\ n' = n - 1
        /\ n = 1 => Handled("scan")
        /\ n # 1 => UNCHANGED <<nready, pc>>
        /\ UNCHANGED <<i, maxi, maxfd, client, rset, allset, sockfd, conn, backlog, sent, rq,
                       fin, err>>
    BY DEF WriteUnit, peerVars
  <1>3. c \in Clients /\ sockfd \in ConnFds /\ n \in 1 .. MaxUnits
    BY <1>1 DEF RoundInv, TypeOK
  <1>4. sndq' \in [Clients -> 0 .. SndBuf] /\ n' \in 0 .. MaxUnits /\ (n # 1 => n' > 0)
    BY <1>1, <1>2, <1>3 DEF TypeOK
  <1>5. /\ NreadyExact' /\ nready' \in Int
        /\ pc' \in {"select", "scan"} \/ (pc' = "write" /\ n # 1)
    <2>1. Unhandled' = Unhandled
      BY <1>2 DEF Unhandled
    <2>2. CASE n = 1
      <3>1. Cardinality(Unhandled)' = nready - 1
        BY <1>1, <2>1, UnhandledFinite DEF NreadyExact
      <3> QED
        BY <1>1, <1>2, <2>2, <3>1, HandledCount DEF TypeOK
    <2>3. CASE n # 1
      BY <1>1, <1>2, <2>1, <2>3 DEF NreadyExact, TypeOK
    <2> QED
      BY <2>2, <2>3
  <1>6. TypeOK'
    BY <1>1, <1>2, <1>4, <1>5 DEF TypeOK
  <1>7. TablesAgree' /\ Owners'
    BY <1>1, <1>2 DEF TablesAgree, Owners, UsedSlots
  <1>8. RoundInv'
    BY <1>1, <1>2, <1>3, <1>4, <1>5 DEF RoundInv, Readable
  <1> QED
    BY <1>5, <1>6, <1>7, <1>8 DEF IInv

LEMMA WriteErrorStep == IInv /\ WriteError => IInv'
  <1> SUFFICES ASSUME IInv, WriteError PROVE IInv'
    OBVIOUS
  <1> DEFINE c == conn[sockfd]
  <1>1. /\ pc = "write" /\ Running /\ InRound
        /\ TypeOK /\ TablesAgree /\ Owners /\ RoundInv /\ NreadyExact
    BY DEF WriteError, IInv, Running, InRound
  <1>2. /\ err' = [err EXCEPT ![c] = "spent"] /\ n' = 0 /\ Handled("scan")
        /\ UNCHANGED <<i, maxi, maxfd, client, rset, allset, sockfd, conn, backlog, sent, rq,
                       fin, sndq>>
    BY DEF WriteError
  <1>3. c \in Clients
    BY <1>1 DEF RoundInv
  <1>4. NreadyExact' /\ pc' \in {"select", "scan"} /\ nready' \in Int
    <2>1. Cardinality(Unhandled)' = nready - 1
      BY <1>1, <1>2, UnhandledFinite DEF NreadyExact, Unhandled
    <2> QED
      BY <1>1, <1>2, <2>1, HandledCount DEF TypeOK
  <1>5. TypeOK'
    BY <1>1, <1>2, <1>3, <1>4 DEF TypeOK
  <1>6. TablesAgree' /\ Owners'
    BY <1>1, <1>2 DEF TablesAgree, Owners, UsedSlots
  <1>7. RoundInv'
    <2>1. ASSUME NEW s \in Slots, i <= s, client[s] \in rset
          PROVE  Readable(conn[client[s]])'
      <3>1. Readable(conn[client[s]]) /\ conn[client[s]] \in Clients
        BY <1>1, <2>1, SlotInRset DEF RoundInv
      <3>2. err[conn[client[s]]] # "none" => err'[conn[client[s]]] # "none"
        BY <1>1, <1>2, <1>3, <3>1 DEF TypeOK
      <3> QED
        BY <1>2, <3>1, <3>2 DEF Readable
    <2> QED
      BY <1>2, <1>4, <2>1 DEF RoundInv
  <1> QED
    BY <1>4, <1>5, <1>6, <1>7 DEF IInv

LEMMA BrokenPipeStep == IInv /\ BrokenPipe => IInv'
  <1> SUFFICES ASSUME IInv, BrokenPipe PROVE IInv'
    OBVIOUS
  <1>1. /\ pc' = "killed"
        /\ UNCHANGED <<i, maxi, maxfd, nready, client, rset, allset, sockfd, n, conn, backlog,
                       sent, rq, fin, err, sndq>>
    BY DEF BrokenPipe, peerVars
  <1>2. TypeOK' /\ TablesAgree' /\ Owners'
    BY <1>1 DEF IInv, TypeOK, TablesAgree, Owners, Running
  <1>3. RoundInv' /\ NreadyExact'
    BY <1>1 DEF RoundInv, NreadyExact, InRound
  <1> QED
    BY <1>2, <1>3 DEF IInv

LEMMA NextIInv == IInv /\ [Next]_vars => IInv'
  <1> SUFFICES ASSUME IInv, [Next]_vars PROVE IInv'
    OBVIOUS
  <1>1. CASE Server
    BY <1>1, SelectStep, AcceptStep, AcceptFailsStep, ScanEndsStep, ReadDataStep,
       ReadErrorStep, ReadEOFStep, WriteUnitStep, WriteErrorStep, BrokenPipeStep DEF Server
  <1>2. CASE \E c \in Clients : Network(c)
    BY <1>2, NetworkStep
  <1>3. CASE UNCHANGED vars
    <2>1. TypeOK' /\ TablesAgree' /\ Owners'
      BY <1>3 DEF vars, serverVars, peerVars, IInv, TypeOK, TablesAgree, Owners, Running, UsedSlots
    <2>2. RoundInv' /\ NreadyExact'
      BY <1>3 DEF vars, serverVars, peerVars, IInv, RoundInv, NreadyExact, InRound, Readable,
                  Unhandled
    <2> QED
      BY <2>1, <2>2 DEF IInv
  <1> QED
    BY <1>1, <1>2, <1>3 DEF Next

LEMMA Invariance == Spec => []IInv
  BY InitIInv, NextIInv, PTL DEF Spec

-----------------------------------------------------------------------------
(* Every variable keeps to its type: no slot, descriptor or count leaves   *)
(* the range its array or its descriptor table has.                        *)
THEOREM TypeCorrect == Spec => []TypeOK
  <1>1. IInv => TypeOK
    BY DEF IInv
  <1> QED
    BY <1>1, Invariance, PTL

(* Lines 42-62 and 79-81 keep client[], allset, maxi, maxfd and the        *)
(* kernel's descriptors equal, for any number of clients.                  *)
THEOREM TablesStayEqual == Spec => []TablesAgree
  <1>1. IInv => TablesAgree
    BY DEF IInv
  <1> QED
    BY <1>1, Invariance, PTL

(* Lines 64 and 88 stop the scan exactly when all that select reported has *)
(* been handled.                                                           *)
THEOREM NreadyCounts == Spec => []NreadyExact
  <1>1. IInv => NreadyExact
    BY DEF IInv
  <1> QED
    BY <1>1, Invariance, PTL

(* accept at line 40 and read at line 76 find what select reported.        *)
THEOREM NeverSleeps == Spec => []NeverSleepsInRead
  <1>1. IInv => NeverSleepsInRead
    <2> SUFFICES ASSUME IInv PROVE NeverSleepsInRead
      OBVIOUS
    <2>1. pc = "accept" => backlog # <<>>
      BY DEF IInv, RoundInv
    <2>2. pc = "scan" /\ Hits # {} => Peer \in Clients /\ Readable(Peer)
      BY HitFacts
    <2> QED
      BY <2>1, <2>2 DEF NeverSleepsInRead, Nobody
  <1> QED
    BY <1>1, Invariance, PTL

(* "too many clients" at line 51 is never reached while the process may    *)
(* not have more descriptors than client[] has slots.                      *)
THEOREM SlotsOutlast == Spec => []AlwaysASlot
  <1>1. IInv => AlwaysASlot
    BY SlotsLast DEF IInv, AlwaysASlot, Running
  <1> QED
    BY <1>1, Invariance, PTL

(* The descriptor that line 40 reuses is not in the rset of this round, so *)
(* that line 74 does not take the newcomer for its predecessor.            *)
THEOREM NoStale == Spec => NoStaleReadiness
  <1>1. IInv /\ [Next]_vars => [Accept => Least(FreeFds) \notin rset]_vars
    BY NewDescriptor DEF Accept
  <1> QED
    BY <1>1, Invariance, PTL DEF Spec, NoStaleReadiness
=============================================================================

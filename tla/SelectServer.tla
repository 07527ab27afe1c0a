---------------------------- MODULE SelectServer ----------------------------
(***************************************************************************)
(* select/tcpservselect01.c: a TCP echo server in one process, which waits *)
(* for the listening socket and for every client with select().            *)
(*                                                                         *)
(*   select -> accept -> scan -> write -> scan -> ... -> select            *)
(*                                                                         *)
(* A connection is named by the client that opened it.  Data are counted   *)
(* in units; the kernel's table from descriptors to connections is conn.   *)
(* The kernel is Linux: a connection that is reset before accept stays in  *)
(* the queue, and a reset socket reports its error once (see Reset).       *)
(***************************************************************************)
EXTENDS Integers, Sequences, FiniteSets

CONSTANTS Clients,       \* each opens at most one connection
          FD_SETSIZE,    \* slots of client[]
          Nofile,        \* descriptors the process may have: 0 .. Nofile - 1
          MaxUnits,      \* bound: units a client sends
          SndBuf         \* units a connection holds for a client to read

ASSUME ClientsAssumption == IsFiniteSet(Clients) /\ "nobody" \notin Clients
ASSUME LimitsAssumption == /\ FD_SETSIZE \in Nat /\ Nofile \in Nat
                           /\ 4 <= Nofile /\ Nofile <= FD_SETSIZE
ASSUME BufAssumption == MaxUnits \in Nat /\ SndBuf \in Nat \ {0}

listenfd == 3                       \* after stdin, stdout and stderr
Fds == 0 .. Nofile - 1
ConnFds == 4 .. Nofile - 1
Slots == 0 .. FD_SETSIZE - 1
Nobody == "nobody"                  \* conn[fd] of a descriptor that is not open

VARIABLES pc, i, maxi, maxfd, nready, client, rset, allset,
          sockfd, n,                \* the client being served, units to write
          conn, backlog,            \* kernel: open descriptors; not accepted yet
          sent, rq, fin, err,       \* kernel: what a client sent, read queue, FIN, RST
          sndq                      \* kernel: units the client has not read yet

serverVars == <<pc, i, maxi, maxfd, nready, client, rset, allset, sockfd, n>>
peerVars == <<sent, rq, fin, err>>
vars == <<serverVars, conn, backlog, peerVars, sndq>>

Least(S) == CHOOSE x \in S : \A y \in S : x <= y

FreeFds == {fd \in ConnFds : conn[fd] = Nobody}
MutFreeSlotsNoReuse == {s \in Slots : client[s] < 0 /\ s > maxi}
FreeSlots == {s \in Slots : client[s] < 0}
Connected == {conn[fd] : fd \in ConnFds} \ {Nobody}
Backlogged == {backlog[k] : k \in 1 .. Len(backlog)}

Readable(c) == rq[c] > 0 \/ fin[c] \/ err[c] # "none"
Ready(fd) == IF fd = listenfd THEN backlog # <<>>
                              ELSE conn[fd] # Nobody /\ Readable(conn[fd])

Init ==
  /\ pc = "select" /\ i = 0
  /\ maxi = -1 /\ maxfd = listenfd /\ nready = 0
  /\ client = [s \in Slots |-> -1]
  /\ rset = {} /\ allset = {listenfd}
  /\ sockfd = -1 /\ n = 0
  /\ conn = [fd \in ConnFds |-> Nobody]
  /\ backlog = <<>>
  /\ sent = [c \in Clients |-> 0] /\ rq = [c \in Clients |-> 0]
  /\ fin = [c \in Clients |-> FALSE] /\ err = [c \in Clients |-> "none"]
  /\ sndq = [c \in Clients |-> 0]

-----------------------------------------------------------------------------
(* The clients and the network.  In "sent" the connection request counts   *)
(* as one unit, as it does in a TCP sequence number.                       *)
Connect(c) ==
  /\ sent[c] = 0
  /\ sent' = [sent EXCEPT ![c] = 1]
  /\ backlog' = Append(backlog, c)
  /\ UNCHANGED <<serverVars, conn, rq, fin, err, sndq>>

SendUnit(c) ==
  /\ sent[c] \in 1 .. MaxUnits /\ ~fin[c] /\ err[c] = "none"
  /\ sent' = [sent EXCEPT ![c] = @ + 1]
  /\ rq' = [rq EXCEPT ![c] = @ + 1]
  /\ UNCHANGED <<serverVars, conn, backlog, fin, err, sndq>>

Fin(c) ==
  /\ sent[c] > 0 /\ ~fin[c] /\ err[c] = "none"
  /\ fin' = [fin EXCEPT ![c] = TRUE]
  /\ UNCHANGED <<serverVars, conn, backlog, sent, rq, err, sndq>>

(* The client resets the connection: what it sent can still be read, what  *)
(* the server sent is gone, and the error is pending.  "spent" is a reset  *)
(* whose error has been reported.                                          *)
Reset(c) ==
  /\ sent[c] > 0 /\ err[c] = "none"
  /\ err' = [err EXCEPT ![c] = "pending"]
  /\ sndq' = [sndq EXCEPT ![c] = 0]
  /\ UNCHANGED <<serverVars, conn, backlog, sent, rq, fin>>

ClientReads(c) ==
  /\ sndq[c] > 0
  /\ sndq' = [sndq EXCEPT ![c] = @ - 1]
  /\ UNCHANGED <<serverVars, conn, backlog, peerVars>>

-----------------------------------------------------------------------------
MutSelectKeepsRset ==                 \* rset=allset only before the loop
  /\ pc = "select"
  /\ LET ready == {fd \in allset : fd <= maxfd /\ Ready(fd)}
     IN  /\ ready # {}
         /\ rset' = rset \cup ready
         /\ nready' = Cardinality(ready)
         /\ pc' = IF listenfd \in ready THEN "accept" ELSE "scan"
         /\ i' = 0
  /\ UNCHANGED <<maxi, maxfd, client, allset, sockfd, n, conn, backlog,
                 peerVars, sndq>>

(* The server.  Select blocks until a descriptor of allset is ready.       *)
Select ==
  /\ pc = "select"
  /\ LET ready == {fd \in allset : fd <= maxfd /\ Ready(fd)}
     IN  /\ ready # {}
         /\ rset' = ready
         /\ nready' = Cardinality(ready)
         /\ pc' = IF listenfd \in ready THEN "accept" ELSE "scan"
         /\ i' = 0
  /\ UNCHANGED <<maxi, maxfd, client, allset, sockfd, n, conn, backlog,
                 peerVars, sndq>>

MutHandledNotCounted(next) ==         \* tests nready, decrements too late
  /\ nready' = nready
  /\ pc' = IF nready - 1 <= 0 THEN "select" ELSE next

(* --nready <= 0 ends a round (lines 64 and 88).                           *)
Handled(next) ==
  /\ nready' = nready - 1
  /\ pc' = IF nready - 1 <= 0 THEN "select" ELSE next

(* accept returns the lowest free descriptor, which goes to the lowest     *)
(* free slot.                                                              *)
Accept ==
  /\ pc = "accept" /\ FreeFds # {}
  /\ LET connfd == Least(FreeFds)
         s == Least(FreeSlots)
     IN  /\ conn' = [conn EXCEPT ![connfd] = Head(backlog)]
         /\ backlog' = Tail(backlog)
         /\ IF FreeSlots = {}
              THEN /\ pc' = "exit"                    \* "too many clients"
                   /\ UNCHANGED <<client, allset, maxfd, maxi, nready>>
              ELSE /\ client' = [client EXCEPT ![s] = connfd]
                   /\ allset' = allset \cup {connfd}
                   /\ maxfd' = IF connfd > maxfd THEN connfd ELSE maxfd
                   /\ maxi' = IF s > maxi THEN s ELSE maxi
                   /\ Handled("scan")
  /\ UNCHANGED <<i, rset, sockfd, n, peerVars, sndq>>

(* accept fails when the descriptors are used up (EMFILE), and nobody      *)
(* looks: client[s] = -1, and FD_SET(-1) is undefined.  A fortified build  *)
(* aborts in it; elsewhere it sets bit 63, a descriptor that is open (and  *)
(* in allset) or above maxfd: no effect.                                   *)
AcceptFails ==
  /\ pc = "accept" /\ FreeFds = {}
  /\ \/ /\ pc' = "exit"
        /\ UNCHANGED <<maxi, nready>>
     \/ /\ LET s == Least(FreeSlots) IN maxi' = IF s > maxi THEN s ELSE maxi
        /\ Handled("scan")
  /\ UNCHANGED <<i, maxfd, client, rset, allset, sockfd, n, conn, backlog,
                 peerVars, sndq>>

(* The slots the scan of line 68 still has to serve.                       *)
MutHitsAllset == {s \in Slots : i <= s /\ s < maxi /\ client[s] \in allset}
MutHitsFromOne == {s \in Slots : i < s /\ s < maxi /\ client[s] \in rset}
Hits == {s \in Slots : i <= s /\ s < maxi /\ client[s] \in rset}

ScanEnds ==
  /\ pc = "scan" /\ Hits = {}
  /\ pc' = "select"
  /\ UNCHANGED <<i, maxi, maxfd, nready, client, rset, allset, sockfd, n, conn,
                 backlog, peerVars, sndq>>

(* read() of line 76, on the next ready client.                            *)
NextHit == Least(Hits)
Peer == conn[client[NextHit]]

ReadData ==
  /\ pc = "scan" /\ Hits # {}
  /\ \E k \in 1 .. MaxUnits :
       /\ k <= rq[Peer]
       /\ n' = k
       /\ rq' = [rq EXCEPT ![Peer] = @ - k]
  /\ sockfd' = client[NextHit]
  /\ i' = NextHit + 1
  /\ pc' = "write"
  /\ UNCHANGED <<maxi, maxfd, nready, client, rset, allset, conn, backlog,
                 sent, fin, err, sndq>>

(* n = -1 goes to written() as a size, which write() refuses (EFAULT).     *)
ReadError ==
  /\ pc = "scan" /\ Hits # {}
  /\ rq[Peer] = 0 /\ err[Peer] = "pending"
  /\ err' = [err EXCEPT ![Peer] = "spent"]
  /\ i' = NextHit + 1
  /\ Handled("scan")
  /\ UNCHANGED <<maxi, maxfd, client, rset, allset, sockfd, n, conn, backlog,
                 sent, rq, fin, sndq>>

MutReadEOFNoClr ==                    \* line 90 forgotten
  /\ pc = "scan" /\ Hits # {}
  /\ rq[Peer] = 0 /\ err[Peer] # "pending" /\ (fin[Peer] \/ err[Peer] = "spent")
  /\ conn' = [conn EXCEPT ![client[NextHit]] = Nobody]
  /\ client' = [client EXCEPT ![NextHit] = -1]
  /\ i' = NextHit + 1
  /\ Handled("scan")
  /\ UNCHANGED <<allset, maxi, maxfd, rset, sockfd, n, backlog, peerVars, sndq>>

ReadEOF ==
  /\ pc = "scan" /\ Hits # {}
  /\ rq[Peer] = 0 /\ err[Peer] # "pending" /\ (fin[Peer] \/ err[Peer] = "spent")
  /\ conn' = [conn EXCEPT ![client[NextHit]] = Nobody]
  /\ allset' = allset \ {client[NextHit]}
  /\ client' = [client EXCEPT ![NextHit] = -1]
  /\ i' = NextHit + 1
  /\ Handled("scan")
  /\ UNCHANGED <<maxi, maxfd, rset, sockfd, n, backlog, peerVars, sndq>>

(* written(): one write() per step.  It waits while the client's buffer is *)
(* full, and is cut short by the error of a reset.                         *)
WriteUnit ==
  /\ pc = "write" /\ err[conn[sockfd]] = "none"
  /\ sndq[conn[sockfd]] < SndBuf
  /\ sndq' = [sndq EXCEPT ![conn[sockfd]] = @ + 1]
  /\ n' = n - 1
  /\ IF n = 1 THEN Handled("scan") ELSE UNCHANGED <<nready, pc>>
  /\ UNCHANGED <<i, maxi, maxfd, client, rset, allset, sockfd, conn, backlog, peerVars>>

WriteError ==
  /\ pc = "write" /\ err[conn[sockfd]] = "pending" /\ ~fin[conn[sockfd]]
  /\ err' = [err EXCEPT ![conn[sockfd]] = "spent"]
  /\ n' = 0
  /\ Handled("scan")
  /\ UNCHANGED <<i, maxi, maxfd, client, rset, allset, sockfd, conn, backlog,
                 sent, rq, fin, sndq>>

(* EPIPE comes with SIGPIPE, which nobody catches.                         *)
BrokenPipe ==
  /\ pc = "write"
  /\ err[conn[sockfd]] = "spent" \/ (err[conn[sockfd]] = "pending" /\ fin[conn[sockfd]])
  /\ pc' = "killed"
  /\ UNCHANGED <<i, maxi, maxfd, nready, client, rset, allset, sockfd, n, conn,
                 backlog, peerVars, sndq>>

Server == Select \/ Accept \/ AcceptFails \/ ScanEnds \/ ReadData \/ ReadError
          \/ ReadEOF \/ WriteUnit \/ WriteError \/ BrokenPipe
Network(c) == Connect(c) \/ SendUnit(c) \/ Fin(c) \/ Reset(c) \/ ClientReads(c)

Next == Server \/ \E c \in Clients : Network(c)

Spec == Init /\ [][Next]_vars
FairSpec == Spec /\ WF_vars(Server) /\ \A c \in Clients : WF_vars(ClientReads(c))

-----------------------------------------------------------------------------
UsedSlots == {s \in Slots : client[s] >= 0}
Running == pc \notin {"exit", "killed"}

TypeOK ==
  /\ pc \in {"select", "accept", "scan", "write", "exit", "killed"}
  /\ i \in 0 .. FD_SETSIZE
  /\ maxi \in -1 .. FD_SETSIZE - 1
  /\ maxfd \in {listenfd} \cup ConnFds
  /\ nready \in Int
  /\ client \in [Slots -> {-1} \cup ConnFds]
  /\ allset \subseteq {listenfd} \cup ConnFds
  /\ rset \subseteq {listenfd} \cup ConnFds
  /\ sockfd \in {-1} \cup ConnFds
  /\ n \in 0 .. MaxUnits
  /\ conn \in [ConnFds -> Clients \cup {Nobody}]
  /\ backlog \in Seq(Clients)
  /\ sent \in [Clients -> 0 .. MaxUnits + 1]
  /\ rq \in [Clients -> 0 .. MaxUnits]
  /\ fin \in [Clients -> BOOLEAN]
  /\ err \in [Clients -> {"none", "pending", "spent"}]
  /\ sndq \in [Clients -> 0 .. SndBuf]

(* client[], allset, maxi, maxfd and the kernel's descriptors are four     *)
(* views of one set of clients, and stay so through accept, close and the  *)
(* reuse of slots and descriptors (lines 42-62 and 76-82).                 *)
TablesAgree ==
  Running =>
    /\ allset = {listenfd} \cup {client[s] : s \in UsedSlots}
    /\ \A s, t \in UsedSlots : client[s] = client[t] => s = t
    /\ \A fd \in ConnFds : conn[fd] # Nobody <=> \E s \in Slots : client[s] = fd
    /\ \A s \in UsedSlots : s <= maxi /\ client[s] <= maxfd

(* nready counts the ready descriptors that no step of this round has      *)
(* handled, so stopping at nready <= 0 skips nobody (lines 64 and 88).     *)
Unhandled == {s \in Slots : i <= s /\ client[s] \in rset}
NreadyExact ==
  /\ pc = "accept" => nready = Cardinality(rset) /\ nready > 0
  /\ pc = "scan"   => nready = Cardinality(Unhandled) /\ nready > 0
  /\ pc = "write"  => nready = Cardinality(Unhandled) + 1

(* A client that select reported is still readable when its turn comes, so *)
(* neither read nor accept puts the whole server to sleep for one client.  *)
NeverSleepsInRead ==
  /\ pc = "accept" => backlog # <<>>
  /\ pc = "scan" /\ Hits # {} => Peer # Nobody /\ Readable(Peer)

(* The slots outlast the descriptors: "too many clients" (line 51) is      *)
(* never the answer.                                                       *)
AlwaysASlot == pc = "accept" => FreeSlots # {}

(* A descriptor that accept reuses is not in the set select reported for   *)
(* its previous owner: the scan of the same round leaves the newcomer be.  *)
NoStaleReadiness == [][Accept => Least(FreeFds) \notin rset]_vars

(* Every client below the last slot in use has its data read, whatever the *)
(* others do, as long as clients read their echoes and nobody's death      *)
(* kills the server.                                                       *)
InSlot(c, s) == client[s] >= 0 /\ conn[client[s]] = c
ServedBelowMaxi ==
  \A c \in Clients, s \in Slots :
    (InSlot(c, s) /\ s < maxi /\ Readable(c))
      ~> (~Readable(c) \/ ~InSlot(c, s) \/ ~Running)

(* The comment of line 70, "check all clients for data": a connected       *)
(* client that has sent data has it read.  (The scan stops before maxi.)   *)
AllClientsChecked ==
  \A c \in Clients : (c \in Connected /\ rq[c] > 0) ~> (rq[c] = 0 \/ ~Running)
=============================================================================

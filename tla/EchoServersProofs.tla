-------------------------- MODULE EchoServersProofs --------------------------
(***************************************************************************)
(* Proofs about the servers with a process or a thread per connection: a   *)
(* connection has one server, no session costs another its lines, and the  *)
(* slot of a dead child comes back.                                        *)
(***************************************************************************)
EXTENDS EchoServers, TLAPS

Fds == Clients \cup {NoConn}
States == {"free", "born", "reading", "writing", "zombie"}
Conns == [st : {"new", "open", "closed"}, sent : Nat, inq : Nat, back : Nat, unread : Nat,
          eof : BOOLEAN, rst : BOOLEAN]

TypeInv ==
  /\ limit \subseteq Workers
  /\ connfd \in Fds
  /\ conn \in [Clients -> Conns]
  /\ worker \in [Workers -> [st : States, fd : Fds, n : Nat]]
  /\ backlog \in Seq(Clients)

(* The queue holds connections that are open, each once.                   *)
QueueInv ==
  /\ \A k \in 1 .. Len(backlog) : conn[backlog[k]].st = "open"
  /\ \A j, k \in 1 .. Len(backlog) : backlog[j] = backlog[k] => j = k

(* Worker w serves c or, a new thread, will when it has read its argument. *)
Claims(w, c) ==
  IF ~Forks /\ worker[w].st = "born" THEN Pending(w) = c ELSE Serves(w, c)

(* One claim, and none on what is queued or closed; main has handed a      *)
(* connection over only after fork or pthread_create.                      *)
ClaimInv(c) ==
  /\ \A v, w \in Workers : Claims(v, c) /\ Claims(w, c) => v = w
  /\ Handing(c) \/ (\E w \in Workers : Claims(w, c)) =>
       conn[c].st = "open" /\ c \notin Waiting
  /\ Handing(c) /\ pc # "close" => \A w \in Workers : ~Claims(w, c)

ForkInv ==
  /\ pc \in {"select", "accept", "fork", "close", "recvfrom", "stopped"}
  /\ pc \notin {"fork", "close"} => connfd = NoConn
  /\ sig \in {"no", "handling", "interrupting"}
  /\ sig = "interrupting" => pc = "accept"

(* A cell belongs to main or to one new thread.                            *)
Born(w) == worker[w].st = "born"
CellInv ==
  /\ iptr # Null => iptr \in DOMAIN cell
  /\ pc = "create" => iptr # Null /\ cell[iptr] = connfd
  /\ \A w \in Workers : Born(w) => arg[w] \in DOMAIN cell \ {iptr, Null}
  /\ \A v, w \in Workers : Born(v) /\ Born(w) /\ arg[v] = arg[w] => v = w

ThreadInv ==
  /\ pc \in {"accept", "create", "killed"}
  /\ DOMAIN arg = Workers
  /\ \A w \in Workers : Born(w) => worker[w].fd = NoConn /\ Pending(w) \in Fds
  /\ \A w \in Workers : worker[w].st # "zombie"
  /\ ByPointer => CellInv

(* Lines are in the queue of the server, in the hands of its worker, or    *)
(* written back to the client.                                             *)
LinesInv(c) ==
  conn[c].st # "closed" /\ ~conn[c].rst =>
    /\ \A w \in Workers : Writes(w, c) => conn[c].sent = conn[c].inq + conn[c].back + worker[w].n
    /\ (\A w \in Workers : ~Writes(w, c)) => conn[c].sent = conn[c].inq + conn[c].back

(* A session is over: for its own end, or for one of the excuses.          *)
Over(c) ==
  \/ conn[c].rst
  \/ conn[c].eof /\ conn[c].back = conn[c].sent
  \/ c \in refused
DoneInv(c) ==
  /\ conn[c].st = "closed" =>
       Over(c) \/ (pc = "killed" /\ ~Forks /\ \E d \in Clients : conn[d].rst)
  /\ Forks /\ pc = "close" /\ connfd = c => Over(c) \/ \E w \in Workers : Serves(w, c)

WriterInv == \A w \in Workers : worker[w].st = "writing" => worker[w].fd \in Clients

ProcessInv == (Forks => ForkInv) /\ (~Forks => ThreadInv)
SessionInv == \A c \in Clients : ClaimInv(c) /\ LinesInv(c) /\ DoneInv(c)
IInv == TypeInv /\ QueueInv /\ WriterInv /\ ProcessInv /\ SessionInv /\ SlotsComeBack

-----------------------------------------------------------------------------
LEMMA Initially == ServersInit => IInv
<1> SUFFICES ASSUME ServersInit PROVE IInv
  OBVIOUS
<1> USE DEF ServersInit, Init
<1>1. limit \subseteq Workers
  BY DeploymentsAssumption
<1>2. TypeInv
  BY <1>1 DEF TypeInv, Fds, Conns, States, Free
<1>3. QueueInv /\ WriterInv /\ SlotsComeBack
  BY DEF QueueInv, WriterInv, SlotsComeBack, Zombies, Free
<1>4. ProcessInv
  BY DEF ProcessInv, ForkInv, ThreadInv, CellInv, Born, Free, ForkInit, ThreadInit, Top
<1>5. SessionInv
  BY ClientsAssumption DEF SessionInv, ClaimInv, LinesInv, DoneInv, Claims, Serves, Working, Handing,
     Writes, Over, Free, NoConn, Top
<1> QED
  BY <1>2, <1>3, <1>4, <1>5 DEF IInv

-----------------------------------------------------------------------------
(* What does not change while the workers and the main program stand still.*)
MainAndWorkers ==
  <<variant, limit, pc, connfd, worker, failures, refused, forkVars, threadVars>>

LEMMA Frame ==
  ASSUME IInv, UNCHANGED MainAndWorkers
  PROVE  /\ WriterInv' /\ ProcessInv' /\ SlotsComeBack'
         /\ \A w, c : /\ Claims(w, c)' <=> Claims(w, c)
                      /\ Serves(w, c)' <=> Serves(w, c)
                      /\ Writes(w, c)' <=> Writes(w, c)
         /\ \A c : Handing(c)' <=> Handing(c)
<1> USE DEF IInv, MainAndWorkers, forkVars, threadVars
<1>1. WriterInv' /\ SlotsComeBack'
  BY DEF WriterInv, SlotsComeBack, Zombies, Forks
<1>2. ProcessInv'
  BY DEF ProcessInv, ForkInv, ThreadInv, CellInv, Born, Forks, Pending, ByPointer
<1>3. \A w, c : Serves(w, c)' <=> Serves(w, c)
  BY DEF Serves, Working
<1>4. \A w, c : Claims(w, c)' <=> Claims(w, c)
  BY <1>3 DEF Claims, Forks, Pending, ByPointer
<1>5. \A w, c : Writes(w, c)' <=> Writes(w, c)
  BY DEF Writes
<1>6. \A c : Handing(c)' <=> Handing(c)
  BY DEF Handing
<1> QED
  BY <1>1, <1>2, <1>3, <1>4, <1>5, <1>6

LEMMA ConnectStep ==
  ASSUME IInv, NEW c \in Clients, Connect(c), UNCHANGED <<forkVars, threadVars>>
  PROVE  IInv'
<1>0. UNCHANGED MainAndWorkers
  BY DEF Connect, Quiet, MainAndWorkers
<1>1. /\ conn[c].st = "new"
      /\ conn' = [conn EXCEPT ![c].st = "open"]
      /\ backlog' = Append(backlog, c)
  BY DEF Connect
<1>2. TypeInv'
  <2>1. conn' \in [Clients -> Conns]
    BY <1>1 DEF IInv, TypeInv, Conns
  <2>2. backlog' \in Seq(Clients)
    BY <1>1 DEF IInv, TypeInv
  <2> QED
    BY <1>0, <2>1, <2>2 DEF IInv, TypeInv, MainAndWorkers
<1>3. QueueInv' /\ Waiting' = Waiting \cup {c}
  BY <1>1 DEF IInv, TypeInv, QueueInv, Waiting
<1>4. ASSUME NEW d \in Clients PROVE (ClaimInv(d) /\ LinesInv(d) /\ DoneInv(d))'
  <2>1. ClaimInv(d)'
    BY <1>0, <1>1, <1>3, Frame DEF IInv, TypeInv, MainAndWorkers, SessionInv, ClaimInv
  <2>2. LinesInv(d)'
    BY <1>0, <1>1, Frame DEF IInv, TypeInv, MainAndWorkers, SessionInv, LinesInv
  <2>3. DoneInv(d)'
    BY <1>0, <1>1, Frame DEF IInv, TypeInv, MainAndWorkers, SessionInv, DoneInv, Over, Forks
  <2> QED
    BY <2>1, <2>2, <2>3
<1> QED
  BY <1>0, <1>2, <1>3, <1>4, Frame DEF IInv, SessionInv

(* A client sends a line, or half closes: only its own connection changes. *)
LEMMA SendStep ==
  ASSUME IInv, NEW c \in Clients, SendLine(c) \/ Shutdown(c), UNCHANGED <<forkVars, threadVars>>
  PROVE  IInv'
<1>0. UNCHANGED MainAndWorkers /\ backlog' = backlog
  BY DEF SendLine, Shutdown, Quiet, MainAndWorkers
<1>1. /\ conn' \in [Clients -> Conns]
      /\ \A d \in Clients \ {c} : conn'[d] = conn[d]
      /\ ~conn[c].eof /\ ~conn[c].rst /\ conn[c].st = "open"
      /\ conn'[c].st = "open" /\ ~conn'[c].rst /\ conn'[c].back = conn[c].back
      /\ conn'[c].sent - conn'[c].inq = conn[c].sent - conn[c].inq
  <2>1. conn[c].sent \in Nat /\ conn[c].inq \in Nat
    BY DEF IInv, TypeInv, Conns
  <2>2. CASE SendLine(c)
    <3>1. conn[c] \in Conns /\ conn \in [Clients -> Conns]
      BY DEF IInv, TypeInv
    <3>2. /\ conn' = [conn EXCEPT ![c] = [conn[c] EXCEPT !.sent = @ + 1, !.inq = @ + 1]]
          /\ ~conn[c].eof /\ ~conn[c].rst /\ conn[c].st = "open"
      BY <2>1, <2>2, <3>1 DEF SendLine, Active, Conns
    <3>3. conn[c].sent + 1 \in Nat /\ conn[c].inq + 1 \in Nat
      BY <2>1
    <3>4. [conn[c] EXCEPT !.sent = @ + 1, !.inq = @ + 1] \in Conns
      BY <3>1, <3>3 DEF Conns
    <3> QED
      BY <2>1, <3>1, <3>2, <3>4 DEF Conns
  <2>3. CASE Shutdown(c)
    BY <2>1, <2>3 DEF IInv, TypeInv, Conns, Shutdown, Active
  <2> QED
    BY <2>2, <2>3
<1>2. TypeInv'
  BY <1>0, <1>1 DEF IInv, TypeInv, MainAndWorkers
<1>3. QueueInv' /\ Waiting' = Waiting
  BY <1>0, <1>1 DEF IInv, TypeInv, QueueInv, Waiting
<1>4. ASSUME NEW d \in Clients PROVE (ClaimInv(d) /\ LinesInv(d) /\ DoneInv(d))'
  <2>1. ClaimInv(d)'
    BY <1>0, <1>1, <1>3, Frame DEF IInv, MainAndWorkers, SessionInv, ClaimInv
  <2>2. LinesInv(d)'
    <3>1. CASE d = c
      <4>1. /\ conn[c].sent \in Int /\ conn[c].inq \in Int /\ conn[c].back \in Int
            /\ conn'[c].sent \in Int /\ conn'[c].inq \in Int /\ \A w \in Workers : worker[w].n \in Int
        <5>1. conn[c] \in Conns /\ conn'[c] \in Conns
          BY <1>1 DEF IInv, TypeInv
        <5> QED
          BY <5>1 DEF IInv, TypeInv, Conns
      <4>2. /\ \A w \in Workers : Writes(w, c) => conn[c].sent = conn[c].inq + conn[c].back + worker[w].n
            /\ (\A w \in Workers : ~Writes(w, c)) => conn[c].sent = conn[c].inq + conn[c].back
        BY <1>1 DEF IInv, SessionInv, LinesInv
      <4> QED
        BY <1>0, <1>1, <3>1, <4>1, <4>2, Frame DEF MainAndWorkers, LinesInv
    <3>2. CASE d # c
      BY <1>0, <1>1, <3>2, Frame DEF IInv, MainAndWorkers, SessionInv, LinesInv
    <3> QED
      BY <3>1, <3>2
  <2>3. DoneInv(d)'
    <3>1. CASE d = c
      BY <1>0, <1>1, <3>1, Frame DEF IInv, MainAndWorkers, SessionInv, DoneInv, Over, Forks
    <3>2. CASE d # c
      BY <1>0, <1>1, <3>2, Frame DEF IInv, MainAndWorkers, SessionInv, DoneInv, Over, Forks
    <3> QED
      BY <3>1, <3>2
  <2> QED
    BY <2>1, <2>2, <2>3
<1> QED
  BY <1>0, <1>2, <1>3, <1>4, Frame DEF IInv, SessionInv

(* A client reads: nothing but its room depends on that.                   *)
LEMMA ReadStep ==
  ASSUME IInv, NEW c \in Clients, ReadLine(c), UNCHANGED <<forkVars, threadVars>>
  PROVE  IInv'
<1>0. UNCHANGED MainAndWorkers /\ backlog' = backlog
  BY DEF ReadLine, Quiet, MainAndWorkers
<1>1. /\ conn' \in [Clients -> Conns]
      /\ \A d \in Clients :
           /\ conn'[d].st = conn[d].st /\ conn'[d].sent = conn[d].sent
           /\ conn'[d].inq = conn[d].inq /\ conn'[d].back = conn[d].back
           /\ conn'[d].eof = conn[d].eof /\ conn'[d].rst = conn[d].rst
  <2>1. conn[c] \in Conns /\ conn \in [Clients -> Conns] /\ conn[c].unread - 1 \in Nat
    <3>1. conn[c].unread = Room
      BY DEF ReadLine, Blocked
    <3>2. Room \in Nat /\ Room # 0
      BY BoundsAssumption
    <3>3. conn[c].unread - 1 \in Nat
      BY <3>1, <3>2
    <3> QED
      BY <3>3 DEF IInv, TypeInv
  <2>2. conn' = [conn EXCEPT ![c] = [conn[c] EXCEPT !.unread = @ - 1]]
    BY <2>1 DEF ReadLine
  <2>3. [conn[c] EXCEPT !.unread = @ - 1] \in Conns
    BY <2>1 DEF Conns
  <2> QED
    BY <2>1, <2>2, <2>3 DEF Conns
<1>2. TypeInv'
  BY <1>0, <1>1 DEF IInv, TypeInv, MainAndWorkers
<1>3. QueueInv' /\ Waiting' = Waiting
  BY <1>0, <1>1 DEF IInv, TypeInv, QueueInv, Waiting
<1>4. ASSUME NEW d \in Clients PROVE (ClaimInv(d) /\ LinesInv(d) /\ DoneInv(d))'
  <2>1. ClaimInv(d)'
    BY <1>0, <1>1, <1>3, Frame DEF IInv, MainAndWorkers, SessionInv, ClaimInv
  <2>2. LinesInv(d)'
    BY <1>0, <1>1, Frame DEF IInv, MainAndWorkers, SessionInv, LinesInv
  <2>3. DoneInv(d)'
    BY <1>0, <1>1, Frame DEF IInv, MainAndWorkers, SessionInv, DoneInv, Over, Forks
  <2> QED
    BY <2>1, <2>2, <2>3
<1> QED
  BY <1>0, <1>2, <1>3, <1>4, Frame DEF IInv, SessionInv

(* A reset may take the connection out of the queue, never from a worker.  *)
LEMMA ResetStep ==
  ASSUME IInv, NEW c \in Clients, Reset(c), UNCHANGED <<forkVars, threadVars>>
  PROVE  IInv'
<1>0. UNCHANGED MainAndWorkers
  BY DEF Reset, Quiet, MainAndWorkers
<1>1. /\ conn' \in [Clients -> Conns]
      /\ \A d \in Clients \ {c} : conn'[d] = conn[d]
      /\ conn[c].st = "open" /\ conn'[c].rst
      /\ \A d \in Clients : conn[d].rst => conn'[d].rst
  <2>1. /\ conn[c].st = "open"
        /\ \/ conn' = [conn EXCEPT ![c].rst = TRUE, ![c].unread = 0]
           \/ conn' = [conn EXCEPT ![c].rst = TRUE, ![c].st = "closed"]
    BY DEF Reset, Active
  <2>2. CASE conn' = [conn EXCEPT ![c].rst = TRUE, ![c].unread = 0]
    <3>1. conn[c] \in Conns /\ conn \in [Clients -> Conns]
      BY DEF IInv, TypeInv
    <3>2. [conn[c] EXCEPT !.rst = TRUE, !.unread = 0] \in Conns
      BY <3>1 DEF Conns
    <3>3. conn' = [conn EXCEPT ![c] = [conn[c] EXCEPT !.rst = TRUE, !.unread = 0]]
      BY <2>2, <3>1 DEF Conns
    <3> QED
      BY <2>1, <3>1, <3>2, <3>3 DEF Conns
  <2>3. CASE conn' = [conn EXCEPT ![c].rst = TRUE, ![c].st = "closed"]
    BY <2>1, <2>3 DEF IInv, TypeInv, Conns
  <2> QED
    BY <2>1, <2>2, <2>3
<1>2. /\ backlog' \in Seq(Clients) /\ QueueInv' /\ Waiting' \subseteq Waiting
      /\ conn'[c].st = "open" \/ (c \in Waiting /\ c \notin Waiting')
  <2>1. CASE backlog' = backlog /\ conn' = [conn EXCEPT ![c].rst = TRUE, ![c].unread = 0]
    <3>1. conn \in [Clients -> Conns] /\ backlog \in Seq(Clients) /\ conn[c].st = "open"
      BY <1>1 DEF IInv, TypeInv
    <3>2. conn[c] \in Conns
      BY <3>1
    <3>3. \A d \in Clients : conn'[d].st = conn[d].st
      BY <2>1, <3>1, <3>2 DEF Conns
    <3>4. \A k \in 1 .. Len(backlog) : backlog[k] \in Clients
      BY <3>1
    <3>5. QueueInv'
      BY <2>1, <3>3, <3>4 DEF IInv, QueueInv
    <3> QED
      BY <2>1, <3>1, <3>3, <3>5 DEF Waiting
  <2>2. ASSUME NEW k \in 1 .. Len(backlog), backlog[k] = c,
               backlog' = [i \in 1 .. Len(backlog) - 1 |-> backlog[IF i < k THEN i ELSE i + 1]]
        PROVE  /\ backlog' \in Seq(Clients) /\ QueueInv' /\ Waiting' \subseteq Waiting
               /\ c \in Waiting /\ c \notin Waiting'
    <3>1. /\ Len(backlog) \in Nat /\ Len(backlog) - 1 \in Nat
          /\ \A i \in 1 .. Len(backlog) : backlog[i] \in Clients
      BY <2>2 DEF IInv, TypeInv
    <3>2. \A i \in 1 .. Len(backlog) - 1 :
            /\ (IF i < k THEN i ELSE i + 1) \in 1 .. Len(backlog)
            /\ (IF i < k THEN i ELSE i + 1) # k
      BY <2>2, <3>1
    <3>3. backlog' \in Seq(Clients) /\ Len(backlog') = Len(backlog) - 1
      <4>1. backlog' \in [1 .. Len(backlog) - 1 -> Clients]
        BY <2>2, <3>1, <3>2
      <4> QED
        BY <3>1, <4>1
    <3>7. \A i \in 1 .. Len(backlog') :
            \E j \in 1 .. Len(backlog) : j # k /\ backlog'[i] = backlog[j]
      BY <2>2, <3>2, <3>3
    <3>4. \A i \in 1 .. Len(backlog') : backlog'[i] # c /\ backlog'[i] \in Waiting
      BY <2>2, <3>7 DEF IInv, QueueInv, Waiting
    <3>5. \A i, j \in 1 .. Len(backlog') : backlog'[i] = backlog'[j] => i = j
      BY <2>2, <3>1, <3>2, <3>3 DEF IInv, QueueInv
    <3>6. \A i \in 1 .. Len(backlog') : conn'[backlog'[i]].st = "open"
      <4> TAKE i \in 1 .. Len(backlog')
      <4>1. PICK j \in 1 .. Len(backlog) : backlog'[i] = backlog[j]
        BY <3>7
      <4>2. backlog[j] \in Clients \ {c} /\ conn[backlog[j]].st = "open"
        BY <3>1, <3>4, <4>1 DEF IInv, QueueInv
      <4> QED
        BY <1>1, <4>1, <4>2
    <3> QED
      BY <2>2, <3>3, <3>4, <3>5, <3>6 DEF QueueInv, Waiting
  <2> QED
    BY <2>1, <2>2 DEF Reset
<1>3. TypeInv'
  BY <1>0, <1>1, <1>2 DEF IInv, TypeInv, MainAndWorkers
<1>4. ASSUME NEW d \in Clients PROVE (ClaimInv(d) /\ LinesInv(d) /\ DoneInv(d))'
  <2>1. ClaimInv(d)'
    BY <1>0, <1>1, <1>2, Frame DEF IInv, MainAndWorkers, SessionInv, ClaimInv
  <2>2. LinesInv(d)'
    BY <1>0, <1>1, Frame DEF IInv, MainAndWorkers, SessionInv, LinesInv
  <2>3. DoneInv(d)'
    BY <1>0, <1>1, Frame DEF IInv, MainAndWorkers, SessionInv, DoneInv, Over, Forks
  <2> QED
    BY <2>1, <2>2, <2>3
<1> QED
  BY <1>0, <1>2, <1>3, <1>4, Frame DEF IInv, SessionInv

LEMMA ResetQueueStep ==
  ASSUME IInv, ResetQueue, UNCHANGED <<forkVars, threadVars>>
  PROVE  IInv'
<1>0. UNCHANGED MainAndWorkers
  BY DEF ResetQueue, Quiet, MainAndWorkers
<1>1. /\ conn' \in [Clients -> Conns] /\ backlog' = <<>>
      /\ \A d \in Clients \ Waiting : conn'[d] = conn[d]
      /\ \A d \in Waiting : conn'[d].rst
      /\ \A d \in Clients : conn[d].rst => conn'[d].rst
  <2>1. backlog' = <<>> /\ conn' = [c \in Clients |-> IF c \in Waiting
                             THEN [conn[c] EXCEPT !.rst = TRUE, !.st = "closed"] ELSE conn[c]]
    BY DEF ResetQueue
  <2>2. \A c \in Clients : [conn[c] EXCEPT !.rst = TRUE, !.st = "closed"] \in Conns
    BY DEF IInv, TypeInv, Conns
  <2>3. Waiting \subseteq Clients
    BY DEF IInv, TypeInv, Waiting
  <2>4. conn' \in [Clients -> Conns]
    BY <2>1, <2>2 DEF IInv, TypeInv
  <2>5. ASSUME NEW d \in Clients \ Waiting PROVE conn'[d] = conn[d]
    BY <2>1
  <2>6. ASSUME NEW d \in Waiting PROVE conn'[d].rst
    <3>1. conn[d] \in Conns /\ d \in Clients
      BY <2>3 DEF IInv, TypeInv
    <3>2. conn'[d] = [conn[d] EXCEPT !.rst = TRUE, !.st = "closed"]
      BY <2>1, <3>1
    <3> QED
      BY <3>1, <3>2 DEF Conns
  <2>7. ASSUME NEW d \in Clients, conn[d].rst PROVE conn'[d].rst
    BY <2>5, <2>6, <2>7
  <2> QED
    BY <2>1, <2>4, <2>5, <2>6, <2>7
<1>2. TypeInv' /\ QueueInv' /\ Waiting' = {}
  BY <1>0, <1>1 DEF IInv, TypeInv, MainAndWorkers, QueueInv, Waiting
<1>4. ASSUME NEW d \in Clients PROVE (ClaimInv(d) /\ LinesInv(d) /\ DoneInv(d))'
  <2>1. ClaimInv(d)'
    BY <1>0, <1>1, <1>2, Frame DEF IInv, MainAndWorkers, SessionInv, ClaimInv
  <2>2. LinesInv(d)'
    BY <1>0, <1>1, Frame DEF IInv, MainAndWorkers, SessionInv, LinesInv
  <2>3. DoneInv(d)'
    BY <1>0, <1>1, Frame DEF IInv, MainAndWorkers, SessionInv, DoneInv, Over, Forks
  <2> QED
    BY <2>1, <2>2, <2>3
<1> QED
  BY <1>0, <1>2, <1>4, Frame DEF IInv, SessionInv

LEMMA PeerStep ==
  ASSUME IInv, Peer \/ ResetQueue, UNCHANGED <<forkVars, threadVars>>
  PROVE  IInv'
BY ConnectStep, SendStep, ReadStep, ResetStep, ResetQueueStep DEF Peer

-----------------------------------------------------------------------------
(* accept, of either kind of server.  The claims of the workers stand.     *)
LEMMA AcceptStep ==
  ASSUME IInv, NEW next \in {"fork", "create"}, Accept(next), pc = "accept",
         UNCHANGED <<variant, limit>>,
         \A w \in Workers, c \in Clients : Claims(w, c)' <=> Claims(w, c)
  PROVE  TypeInv' /\ QueueInv' /\ WriterInv' /\ SessionInv' /\ Zombies' = Zombies
<1>1. /\ backlog # <<>> /\ connfd' = Head(backlog) /\ backlog' = Tail(backlog) /\ pc' = next
      /\ UNCHANGED <<worker, conn, refused>>
  BY DEF Accept
<1>2. /\ Len(backlog) \in Nat \ {0} /\ connfd' = backlog[1] /\ connfd' \in Clients
      /\ backlog' \in Seq(Clients) /\ Len(backlog') = Len(backlog) - 1
      /\ \A k \in 1 .. Len(backlog') : backlog'[k] = backlog[k + 1]
  BY <1>1 DEF IInv, TypeInv
<1>3. TypeInv' /\ WriterInv' /\ Zombies' = Zombies
  BY <1>1, <1>2 DEF IInv, TypeInv, WriterInv, Fds, Zombies
<1>4. QueueInv' /\ Waiting' \subseteq Waiting /\ connfd' \in Waiting /\ connfd' \notin Waiting'
  <2>1. \A k \in 1 .. Len(backlog') : k + 1 \in 1 .. Len(backlog) /\ k + 1 # 1
    BY <1>2
  <2>2. 1 \in 1 .. Len(backlog)
    BY <1>2
  <2> QED
    BY <1>1, <1>2, <2>1, <2>2 DEF IInv, QueueInv, Waiting
<1>5. conn[connfd'].st = "open"
  BY <1>2 DEF IInv, QueueInv
<1>6. ASSUME NEW c \in Clients PROVE (ClaimInv(c) /\ LinesInv(c) /\ DoneInv(c))'
  <2>1. Handing(c)' <=> connfd' = c
    BY <1>1 DEF Handing
  <2>2. ClaimInv(c) /\ LinesInv(c) /\ DoneInv(c)
    BY DEF IInv, SessionInv
  <2>3. ClaimInv(c)'
    BY <1>1, <1>2, <1>4, <1>5, <2>1, <2>2 DEF ClaimInv
  <2>4. (LinesInv(c) /\ DoneInv(c))'
    BY <1>1, <2>2 DEF LinesInv, Writes, DoneInv, Over, Forks
  <2> QED
    BY <2>3, <2>4
<1> QED
  BY <1>3, <1>4, <1>6 DEF SessionInv

LEMMA AcceptFailsStep ==
  ASSUME IInv, NEW next \in {"fork", "create", "stopped"}, AcceptFails(next), pc = "accept",
         UNCHANGED <<variant, limit>>,
         \A w \in Workers, c \in Clients : Claims(w, c)' <=> Claims(w, c)
  PROVE  TypeInv' /\ QueueInv' /\ WriterInv' /\ SessionInv' /\ Zombies' = Zombies
<1>1. /\ backlog # <<>> /\ connfd' = NoConn /\ pc' = next /\ UNCHANGED <<worker, refused>>
      /\ \/ UNCHANGED <<conn, backlog>>
         \/ /\ conn[Head(backlog)].rst /\ backlog' = Tail(backlog)
            /\ conn' = [conn EXCEPT ![Head(backlog)].st = "closed"]
  BY DEF AcceptFails
<1>2. WriterInv' /\ Zombies' = Zombies
  BY <1>1 DEF IInv, WriterInv, Zombies
<1>3. ASSUME NEW c \in Clients PROVE ~Handing(c)'
  BY <1>1, ClientsAssumption DEF Handing
<1>4. CASE UNCHANGED <<conn, backlog>>
  <2>1. TypeInv' /\ QueueInv' /\ Waiting' = Waiting
    BY <1>1, <1>4 DEF IInv, TypeInv, QueueInv, Fds, Waiting
  <2>2. ASSUME NEW c \in Clients PROVE (ClaimInv(c) /\ LinesInv(c) /\ DoneInv(c))'
    <3>1. ClaimInv(c) /\ LinesInv(c) /\ DoneInv(c)
      BY DEF IInv, SessionInv
    <3>2. ClaimInv(c)'
      BY <1>3, <1>4, <2>1, <3>1 DEF ClaimInv
    <3>3. LinesInv(c)'
      BY <1>1, <1>4, <3>1 DEF LinesInv, Writes
    <3>4. DoneInv(c)'
      BY <1>1, <1>4, <3>1 DEF DoneInv, Over, Forks
    <3> QED
      BY <3>2, <3>3, <3>4
  <2> QED
    BY <1>2, <2>1, <2>2 DEF SessionInv
<1>5. ASSUME NEW h, h = Head(backlog), conn[h].rst, backlog' = Tail(backlog),
             conn' = [conn EXCEPT ![h].st = "closed"]
      PROVE  TypeInv' /\ QueueInv' /\ SessionInv'
  <2>1. /\ Len(backlog) \in Nat \ {0} /\ h = backlog[1] /\ h \in Clients
        /\ backlog' \in Seq(Clients) /\ Len(backlog') = Len(backlog) - 1
        /\ \A k \in 1 .. Len(backlog') : backlog'[k] = backlog[k + 1]
    BY <1>1, <1>5 DEF IInv, TypeInv
  <2>2. /\ conn' \in [Clients -> Conns] /\ conn'[h].rst
        /\ \A d \in Clients \ {h} : conn'[d] = conn[d]
        /\ \A d \in Clients : conn[d].rst => conn'[d].rst
    <3>1. conn[h] \in Conns /\ conn \in [Clients -> Conns]
      BY <2>1 DEF IInv, TypeInv
    <3>2. [conn[h] EXCEPT !.st = "closed"] \in Conns
      BY <3>1 DEF Conns
    <3>3. conn' \in [Clients -> Conns]
      BY <1>5, <2>1, <3>1, <3>2
    <3>4. conn'[h].rst /\ \A d \in Clients \ {h} : conn'[d] = conn[d]
      BY <1>5, <2>1, <3>1 DEF Conns
    <3> QED
      BY <3>3, <3>4
  <2>3. TypeInv'
    BY <1>1, <2>1, <2>2 DEF IInv, TypeInv, Fds
  <2>4. \A k \in 1 .. Len(backlog') : k + 1 \in 1 .. Len(backlog) /\ k + 1 # 1
    BY <2>1
  <2>5. 1 \in 1 .. Len(backlog)
    BY <2>1
  <2>6. Waiting' \subseteq Waiting /\ h \in Waiting /\ h \notin Waiting'
    BY <2>1, <2>4, <2>5 DEF IInv, QueueInv, Waiting
  <2>7. QueueInv'
    <3>1. \A k \in 1 .. Len(backlog') : backlog'[k] \in Clients \ {h}
      BY <2>1, <2>6 DEF Waiting
    <3>2. \A k \in 1 .. Len(backlog) : conn[backlog[k]].st = "open"
      BY DEF IInv, QueueInv
    <3>3. \A k \in 1 .. Len(backlog') : conn'[backlog'[k]].st = "open"
      BY <2>1, <2>2, <2>4, <3>1, <3>2
    <3>4. \A j, k \in 1 .. Len(backlog) : backlog[j] = backlog[k] => j = k
      BY DEF IInv, QueueInv
    <3>5. \A j, k \in 1 .. Len(backlog') : backlog'[j] = backlog'[k] => j = k
      <4>1. SUFFICES ASSUME NEW j \in 1 .. Len(backlog'), NEW k \in 1 .. Len(backlog'),
                            backlog'[j] = backlog'[k]
                     PROVE  j = k
        OBVIOUS
      <4>2. j + 1 = k + 1
        BY <2>1, <2>4, <3>4, <4>1
      <4> QED
        BY <2>1, <4>2
    <3> QED
      BY <3>3, <3>5 DEF QueueInv
  <2>8. ASSUME NEW c \in Clients PROVE (ClaimInv(c) /\ LinesInv(c) /\ DoneInv(c))'
    <3>1. ClaimInv(c) /\ LinesInv(c) /\ DoneInv(c)
      BY DEF IInv, SessionInv
    <3>2. ClaimInv(c)'
      BY <1>3, <2>2, <2>6, <3>1 DEF ClaimInv
    <3>3. LinesInv(c)'
      BY <1>1, <2>2, <3>1 DEF LinesInv, Writes
    <3>4. DoneInv(c)'
      BY <1>1, <2>2, <3>1 DEF DoneInv, Over, Forks
    <3> QED
      BY <3>2, <3>3, <3>4
  <2> QED
    BY <2>3, <2>7, <2>8 DEF SessionInv
<1> QED
  BY <1>1, <1>2, <1>4, <1>5

(* A step of main, or of the handler, that touches no connection; it may   *)
(* leave a zombie's slot free.                                             *)
LEMMA StandingStep ==
  ASSUME IInv, Forks, UNCHANGED <<variant, limit, connfd, conn, backlog, refused>>,
         pc' = pc \/ connfd = NoConn,
         worker' \in [Workers -> {Free} \cup {worker[w] : w \in Workers}],
         \A w \in Workers : worker'[w] = worker[w] \/ (worker[w].st = "zombie" /\ worker'[w] = Free)
  PROVE  TypeInv' /\ QueueInv' /\ WriterInv' /\ SessionInv'
<1>1. Forks' /\ Waiting' = Waiting
  BY DEF Forks, Waiting
<1>2. TypeInv'
  BY DEF IInv, TypeInv, Free, States, Fds
<1>3. QueueInv' /\ WriterInv'
  BY DEF IInv, QueueInv, WriterInv, Free
<1>4. ASSUME NEW c \in Clients PROVE (ClaimInv(c) /\ LinesInv(c) /\ DoneInv(c))'
  <2>1. ClaimInv(c) /\ LinesInv(c) /\ DoneInv(c)
    BY DEF IInv, SessionInv
  <2>2. Handing(c)' <=> Handing(c)
    BY ClientsAssumption DEF Handing
  <2>3. \A w \in Workers : Serves(w, c)' <=> Serves(w, c)
    BY DEF Serves, Working, Free
  <2>4. \A w \in Workers : (Claims(w, c)' <=> Claims(w, c)) /\ (Writes(w, c)' <=> Writes(w, c))
    BY <1>1, <2>3 DEF Claims, Writes, Free
  <2>5. ClaimInv(c)'
    BY <1>1, <2>1, <2>2, <2>4, ClientsAssumption DEF ClaimInv, Handing
  <2>6. LinesInv(c)'
    <3>1. \A w \in Workers : Writes(w, c) => worker'[w] = worker[w]
      BY DEF Writes
    <3> QED
      BY <2>1, <2>4, <3>1 DEF LinesInv
  <2>7. DoneInv(c)'
    BY <1>1, <2>1, <2>3, ClientsAssumption DEF DoneInv, Over
  <2> QED
    BY <2>5, <2>6, <2>7
<1> QED
  BY <1>2, <1>3, <1>4 DEF SessionInv

LEMMA ForkAcceptStep ==
  ASSUME IInv, Forks, ForkAccept, UNCHANGED <<variant, limit, threadVars>>
  PROVE  IInv'
<1>1. pc = "accept" /\ sig = "no" /\ UNCHANGED <<worker, chld, sig>> /\ (Forks' <=> Forks)
  BY DEF ForkAccept, At, Accept, AcceptFails, forkVars, Forks
<1>2. \A w \in Workers, c \in Clients : Claims(w, c)' <=> Claims(w, c)
  BY <1>1 DEF Claims, Serves, Working
<1>3. PICK next \in {"fork", "stopped"} : (next = "fork" /\ Accept(next)) \/ AcceptFails(next)
  BY DEF ForkAccept
<1>4. TypeInv' /\ QueueInv' /\ WriterInv' /\ SessionInv' /\ Zombies' = Zombies
  BY <1>1, <1>2, <1>3, AcceptStep, AcceptFailsStep
<1>5. ForkInv'
  BY <1>1, <1>3 DEF ForkInv, Accept, AcceptFails, IInv, ProcessInv
<1>6. SlotsComeBack'
  BY <1>1, <1>4 DEF IInv, SlotsComeBack, Forks
<1> QED
  BY <1>1, <1>4, <1>5, <1>6 DEF IInv, ProcessInv

(* fork copies the descriptor into the child, or fails.                    *)
LEMMA ForkStepKeeps ==
  ASSUME IInv, Forks, Fork, UNCHANGED <<variant, limit, threadVars>>
  PROVE  IInv'
<1>1. /\ pc = "fork" /\ pc' = "close" /\ sig = "no" /\ UNCHANGED <<connfd, conn, backlog, chld, sig>>
      /\ Forks' /\ Waiting' = Waiting
  BY DEF Fork, At, forkVars, Forks, Waiting
<1>2. ForkInv' /\ ProcessInv'
  BY <1>1 DEF IInv, ForkInv, ProcessInv
<1>3. ASSUME NEW c \in Clients
      PROVE  /\ \A v \in Workers : (Claims(v, c) <=> Serves(v, c)) /\ (Claims(v, c)' <=> Serves(v, c)')
             /\ ClaimInv(c) /\ LinesInv(c) /\ DoneInv(c)
             /\ (Handing(c)' <=> Handing(c)) /\ (Handing(c) <=> c = connfd)
  <2>1. Forks' /\ Forks
    BY <1>1
  <2>2. \A v \in Workers : (Claims(v, c) <=> Serves(v, c)) /\ (Claims(v, c)' <=> Serves(v, c)')
    BY <2>1 DEF Claims
  <2>3. (Handing(c)' <=> Handing(c)) /\ (Handing(c) <=> c = connfd)
    BY <1>1 DEF Handing
  <2> QED
    BY <2>2, <2>3 DEF IInv, SessionInv
<1>4. CASE FreeSlots # {}
  <2>1. PICK w \in FreeSlots : worker' = [worker EXCEPT ![w] = Worker("born", connfd)]
    BY <1>4 DEF Fork
  <2>2. /\ w \in Workers /\ worker[w].st = "free" /\ refused' = refused
        /\ worker'[w].st = "born" /\ worker'[w].fd = connfd
        /\ \A v \in Workers \ {w} : worker'[v] = worker[v]
    BY <1>4, <2>1 DEF IInv, TypeInv, FreeSlots, Free, Worker, Fork
  <2>3. worker' \in [Workers -> [st : States, fd : Fds, n : Nat]]
    <3>1. Worker("born", connfd) \in [st : States, fd : Fds, n : Nat]
      BY DEF IInv, TypeInv, Worker, States
    <3> QED
      BY <2>1, <3>1 DEF IInv, TypeInv
  <2>4. TypeInv' /\ QueueInv' /\ WriterInv' /\ Zombies' = Zombies
    <3>1. TypeInv'
      BY <1>1, <2>3 DEF IInv, TypeInv
    <3>2. QueueInv'
      BY <1>1 DEF IInv, QueueInv
    <3>3. WriterInv' /\ Zombies' = Zombies
      BY <2>2 DEF IInv, WriterInv, Zombies
    <3> QED
      BY <3>1, <3>2, <3>3
  <2>5. ASSUME NEW c \in Clients PROVE (ClaimInv(c) /\ LinesInv(c) /\ DoneInv(c))'
    <3>1. \A v \in Workers : /\ Serves(v, c)' <=> Serves(v, c) \/ (v = w /\ c = connfd)
                             /\ Writes(v, c)' <=> Writes(v, c)
                             /\ Writes(v, c) => worker'[v] = worker[v]
      BY <2>2 DEF Serves, Working, Writes
    <3>2. ClaimInv(c)'
      BY <1>1, <1>3, <2>2, <3>1 DEF ClaimInv
    <3>3. LinesInv(c)'
      BY <1>1, <1>3, <3>1 DEF LinesInv
    <3>4. DoneInv(c)'
      BY <1>1, <1>3, <2>2, <3>1 DEF DoneInv, Over
    <3> QED
      BY <3>2, <3>3, <3>4
  <2> QED
    BY <1>1, <1>2, <2>4, <2>5 DEF IInv, SessionInv, SlotsComeBack, Forks
<1>5. CASE FreeSlots = {}
  <2>1. worker' = worker /\ refused' = refused \cup ({connfd} \ {NoConn})
    BY <1>5 DEF Fork
  <2>2. TypeInv' /\ QueueInv' /\ WriterInv' /\ Zombies' = Zombies
    BY <1>1, <2>1 DEF IInv, TypeInv, QueueInv, WriterInv, Zombies
  <2>3. ASSUME NEW c \in Clients PROVE (ClaimInv(c) /\ LinesInv(c) /\ DoneInv(c))'
    <3>1. \A v \in Workers : (Serves(v, c)' <=> Serves(v, c)) /\ (Writes(v, c)' <=> Writes(v, c))
      BY <2>1 DEF Serves, Working, Writes
    <3>2. ClaimInv(c)'
      BY <1>1, <1>3, <3>1 DEF ClaimInv
    <3>3. LinesInv(c)'
      BY <1>1, <1>3, <2>1, <3>1 DEF LinesInv
    <3>4. DoneInv(c)'
      BY <1>1, <1>3, <2>1, <3>1, ClientsAssumption DEF DoneInv, Over
    <3> QED
      BY <3>2, <3>3, <3>4
  <2> QED
    BY <1>1, <1>2, <2>2, <2>3 DEF IInv, SessionInv, SlotsComeBack, Forks
<1> QED
  BY <1>4, <1>5

(* What close does when the descriptor is the last.                        *)
LEMMA ClosedFacts ==
  ASSUME TypeInv, NEW fd, NEW others \in BOOLEAN
  PROVE  /\ Closed(fd, others) \in [Clients -> Conns]
         /\ \A c \in Clients :
              /\ Closed(fd, others)[c].rst = conn[c].rst
              /\ Closed(fd, others)[c].eof = conn[c].eof
              /\ Closed(fd, others)[c].sent = conn[c].sent
              /\ Closed(fd, others)[c].inq = conn[c].inq
              /\ Closed(fd, others)[c].back = conn[c].back
              /\ (c # fd \/ others) => Closed(fd, others)[c].st = conn[c].st
              /\ (c = fd /\ ~others) => Closed(fd, others)[c].st = "closed"
<1>1. \A c \in Clients : conn[c] \in Conns /\ [conn[c] EXCEPT !.st = "closed"] \in Conns
  BY DEF TypeInv, Conns
<1>2. Closed(fd, others) \in [Clients -> Conns]
  BY <1>1 DEF Closed
<1> QED
  BY <1>1, <1>2 DEF Closed, Conns

LEMMA CloseStep ==
  ASSUME IInv, Forks, Close, UNCHANGED <<variant, limit, threadVars>>
  PROVE  IInv'
<1> DEFINE served == \E w \in Workers : Serves(w, connfd)
<1>1. /\ pc = "close" /\ pc' \in {"select", "accept", "recvfrom"} /\ sig = "no"
      /\ connfd' = NoConn /\ conn' = Closed(connfd, served)
      /\ UNCHANGED <<worker, backlog, refused, chld, sig>>
      /\ Forks' /\ Waiting' = Waiting /\ Zombies' = Zombies
  BY DEF Close, At, Top, Forks, Waiting, Zombies
<1>0. served \in BOOLEAN
  OBVIOUS
<1> HIDE DEF served
<1>2. ProcessInv' /\ SlotsComeBack'
  BY <1>1 DEF IInv, ForkInv, ProcessInv, SlotsComeBack, Forks
<1>3. /\ conn' \in [Clients -> Conns]
      /\ \A c \in Clients : /\ conn'[c].rst = conn[c].rst /\ conn'[c].eof = conn[c].eof
                            /\ conn'[c].sent = conn[c].sent /\ conn'[c].inq = conn[c].inq
                            /\ conn'[c].back = conn[c].back
                            /\ (c # connfd \/ served) => conn'[c].st = conn[c].st
                            /\ (c = connfd /\ ~served) => conn'[c].st = "closed"
  BY <1>0, <1>1, ClosedFacts DEF IInv
<1>4. connfd \notin Waiting
  <2>1. connfd \in Clients => Handing(connfd) /\ ClaimInv(connfd)
    BY <1>1 DEF Handing, IInv, SessionInv
  <2>2. Waiting \subseteq Clients
    BY DEF IInv, TypeInv, Waiting
  <2> QED
    BY <2>1, <2>2 DEF ClaimInv
<1>5. TypeInv' /\ WriterInv'
  BY <1>1, <1>3 DEF IInv, TypeInv, WriterInv, Fds
<1>6. QueueInv'
  <2>1. \A k \in 1 .. Len(backlog) : backlog[k] \in Clients \ {connfd}
    BY <1>4 DEF Waiting, IInv, TypeInv
  <2> QED
    BY <1>1, <1>3, <2>1 DEF IInv, QueueInv
<1>7. ASSUME NEW c \in Clients PROVE (ClaimInv(c) /\ LinesInv(c) /\ DoneInv(c))'
  <2>1. ClaimInv(c) /\ LinesInv(c) /\ DoneInv(c)
    BY DEF IInv, SessionInv
  <2>2. ~Handing(c)'
    BY <1>1 DEF Handing
  <2>3. \A w \in Workers : /\ Serves(w, c)' <=> Serves(w, c)
                           /\ Writes(w, c)' <=> Writes(w, c)
    BY <1>1 DEF Serves, Working, Writes
  <2>4. \A w \in Workers : (Claims(w, c) <=> Serves(w, c)) /\ (Claims(w, c)' <=> Serves(w, c)')
    BY <1>1 DEF Claims
  <2>5. ClaimInv(c)'
    <3>1. (\E w \in Workers : Serves(w, c)) => c # connfd \/ served
      BY DEF served
    <3> QED
      BY <1>1, <1>3, <2>1, <2>2, <2>3, <2>4, <3>1 DEF ClaimInv
  <2>6. LinesInv(c)'
    <3>1. conn'[c].st # "closed" => conn[c].st # "closed"
      BY <1>3
    <3> QED
      BY <1>1, <1>3, <2>1, <2>3, <3>1 DEF LinesInv
  <2>7. DoneInv(c)'
    <3>1. Over(c)' <=> Over(c)
      BY <1>1, <1>3 DEF Over
    <3>2. CASE c = connfd /\ ~served
      BY <1>1, <2>1, <3>1, <3>2 DEF DoneInv, served
    <3>3. CASE c # connfd \/ served
      BY <1>1, <1>3, <2>1, <3>1, <3>3 DEF DoneInv
    <3> QED
      BY <3>2, <3>3
  <2> QED
    BY <2>5, <2>6, <2>7
<1> QED
  BY <1>2, <1>5, <1>6, <1>7 DEF IInv, SessionInv

LEMMA ForkMainStep ==
  ASSUME IInv, Forks, ForkMain, UNCHANGED <<variant, limit, threadVars>>
  PROVE  IInv'
<1>1. CASE Select \/ Recvfrom
  <2>1. /\ connfd = NoConn /\ sig = "no" /\ pc \in {"select", "recvfrom"}
        /\ pc' \in {"select", "accept", "recvfrom"}
        /\ UNCHANGED <<connfd, worker, conn, backlog, refused, chld, sig>>
        /\ Forks' /\ Zombies' = Zombies
    BY <1>1 DEF Select, Recvfrom, At, sessionVars, IInv, ProcessInv, ForkInv, Forks, Zombies
  <2>2. worker' \in [Workers -> {Free} \cup {worker[w] : w \in Workers}]
    BY <2>1 DEF IInv, TypeInv
  <2>3. TypeInv' /\ QueueInv' /\ WriterInv' /\ SessionInv'
    BY <2>1, <2>2, StandingStep
  <2>4. ProcessInv' /\ SlotsComeBack'
    BY <2>1 DEF IInv, ProcessInv, ForkInv, SlotsComeBack, Forks
  <2> QED
    BY <2>3, <2>4 DEF IInv
<1> QED
  BY <1>1, ForkAcceptStep, ForkStepKeeps, CloseStep DEF ForkMain

LEMMA ForkSignalStep ==
  ASSUME IInv, Forks, ForkSignal, UNCHANGED <<variant, limit, threadVars>>
  PROVE  IInv'
<1>1. CASE SigChild
  <2>1. /\ UNCHANGED <<pc, connfd, worker, conn, backlog, refused>> /\ Forks'
        /\ sig' \in {"handling", "interrupting"}
        /\ sig' = "interrupting" => pc = "accept"
    BY <1>1 DEF SigChild, sessionVars, Forks, BlockedInAccept
  <2>2. worker' \in [Workers -> {Free} \cup {worker[w] : w \in Workers}]
    BY <2>1 DEF IInv, TypeInv
  <2>3. TypeInv' /\ QueueInv' /\ WriterInv' /\ SessionInv'
    BY <2>1, <2>2, StandingStep
  <2>4. ProcessInv' /\ SlotsComeBack'
    <3>1. ForkInv'
      BY <2>1 DEF IInv, ProcessInv, ForkInv
    <3> QED
      BY <2>1, <3>1 DEF IInv, ProcessInv, SlotsComeBack
  <2> QED
    BY <2>3, <2>4 DEF IInv
<1>2. CASE Waitpid
  <2>1. /\ UNCHANGED <<pc, connfd, conn, backlog, refused, chld, sig>> /\ Forks'
        /\ sig # "no" \/ pc = "stopped"
    BY <1>2 DEF Waitpid, forkVars, Forks
  <2>2. PICK z \in Zombies : worker' = [worker EXCEPT ![z] = Free]
    BY <1>2 DEF Waitpid
  <2>3. /\ worker' \in [Workers -> {Free} \cup {worker[w] : w \in Workers}]
        /\ \A w \in Workers : worker'[w] = worker[w] \/ (worker[w].st = "zombie" /\ worker'[w] = Free)
    BY <2>2 DEF IInv, TypeInv, Zombies
  <2>4. TypeInv' /\ QueueInv' /\ WriterInv' /\ SessionInv'
    BY <2>1, <2>3, StandingStep
  <2>5. ProcessInv' /\ SlotsComeBack'
    BY <2>1 DEF IInv, ProcessInv, ForkInv, SlotsComeBack
  <2> QED
    BY <2>4, <2>5 DEF IInv
<1>3. CASE SigReturns
  <2>1. /\ UNCHANGED <<connfd, worker, conn, backlog, refused, chld>> /\ Forks'
        /\ sig' = "no" /\ Zombies' = {}
        /\ pc' = pc \/ (pc = "accept" /\ pc' = "fork")
        /\ pc' = pc \/ connfd = NoConn
    BY <1>3 DEF SigReturns, sessionVars, Forks, Zombies, IInv, ProcessInv, ForkInv
  <2>2. worker' \in [Workers -> {Free} \cup {worker[w] : w \in Workers}]
    BY <2>1 DEF IInv, TypeInv
  <2>3. TypeInv' /\ QueueInv' /\ WriterInv' /\ SessionInv'
    BY <2>1, <2>2, StandingStep
  <2>4. ProcessInv' /\ SlotsComeBack'
    BY <2>1 DEF IInv, ProcessInv, ForkInv, SlotsComeBack
  <2> QED
    BY <2>3, <2>4 DEF IInv
<1> QED
  BY <1>1, <1>2, <1>3 DEF ForkSignal

-----------------------------------------------------------------------------
(* str_echo(), of a child or of a thread: the lines it reads are in its    *)
(* hands until they are written.                                           *)
LEMMA EchoEffect ==
  ASSUME IInv, NEW w \in Workers, EchoRead(w) \/ EchoWrite(w), NEW c, c = worker[w].fd
  PROVE  /\ c \in Clients
         /\ worker' \in [Workers -> [st : States, fd : Fds, n : Nat]]
         /\ conn' \in [Clients -> Conns]
         /\ \A v \in Workers \ {w} : worker'[v] = worker[v]
         /\ \A d \in Clients \ {c} : conn'[d] = conn[d]
         /\ worker'[w].fd = c
         /\ conn'[c].st = conn[c].st /\ conn'[c].sent = conn[c].sent
         /\ conn'[c].eof = conn[c].eof /\ conn'[c].rst = conn[c].rst
         /\ \/ /\ worker[w].st = "reading" /\ worker'[w].st = "writing"
               /\ conn'[c].inq + conn'[c].back + worker'[w].n = conn[c].inq + conn[c].back
            \/ /\ worker[w].st = "writing" /\ worker'[w].st = "writing"
               /\ conn'[c].inq + conn'[c].back + worker'[w].n = conn[c].inq + conn[c].back + worker[w].n
            \/ /\ worker[w].st = "writing" /\ worker'[w].st = "reading"
               /\ ~conn[c].rst => conn'[c].inq + conn'[c].back = conn[c].inq + conn[c].back + worker[w].n
<1>1. /\ conn \in [Clients -> Conns]
      /\ worker \in [Workers -> [st : States, fd : Fds, n : Nat]]
  BY DEF IInv, TypeInv
<1>2. worker[w] \in [st : States, fd : Fds, n : Nat] /\ worker[w].n \in Nat
  BY <1>1
<1>3. c \in Clients
  BY <1>2 DEF IInv, WriterInv, Fds, EchoRead, EchoWrite
<1>4. conn[c] \in Conns /\ conn[c].inq \in Nat /\ conn[c].back \in Nat /\ conn[c].unread \in Nat
  BY <1>1, <1>3 DEF Conns
<1>5. CASE EchoRead(w)
  <2>1. PICK k \in 1 .. conn[c].inq :
          /\ worker' = [worker EXCEPT ![w].st = "writing", ![w].n = k]
          /\ conn' = [conn EXCEPT ![c].inq = @ - k]
    BY <1>5 DEF EchoRead
  <2>2. k \in Nat /\ conn[c].inq - k \in Nat
    BY <1>4, <2>1
  <2>3. /\ worker[w].st = "reading"
        /\ worker' = [worker EXCEPT ![w] = [worker[w] EXCEPT !.st = "writing", !.n = k]]
        /\ conn' = [conn EXCEPT ![c] = [conn[c] EXCEPT !.inq = @ - k]]
    BY <1>5, <2>1 DEF EchoRead
  <2>4. [worker[w] EXCEPT !.st = "writing", !.n = k] \in [st : States, fd : Fds, n : Nat]
    BY <1>2, <2>2 DEF States
  <2>5. [conn[c] EXCEPT !.inq = @ - k] \in Conns
    BY <1>4, <2>2 DEF Conns
  <2>6. /\ worker' \in [Workers -> [st : States, fd : Fds, n : Nat]]
        /\ conn' \in [Clients -> Conns]
    BY <1>1, <2>3, <2>4, <2>5
  <2>7. conn'[c].inq = conn[c].inq - k /\ conn'[c].back = conn[c].back /\ worker'[w].n = k
    BY <1>1, <1>2, <1>3, <1>4, <2>3 DEF Conns
  <2>8. conn'[c].inq + conn'[c].back + worker'[w].n = conn[c].inq + conn[c].back
    BY <1>4, <2>2, <2>7
  <2> QED
    BY <1>1, <1>2, <1>3, <1>4, <2>3, <2>6, <2>8 DEF Conns
<1>6. CASE EchoWrite(w) /\ conn[c].rst
  <2>1. /\ worker[w].st = "writing" /\ conn' = conn
        /\ worker' = [worker EXCEPT ![w] = Worker("reading", c)]
    BY <1>6 DEF EchoWrite
  <2>2. Worker("reading", c) \in [st : States, fd : Fds, n : Nat]
    BY <1>3 DEF Worker, States, Fds
  <2> QED
    BY <1>1, <1>3, <1>6, <2>1, <2>2 DEF Worker
<1>7. CASE EchoWrite(w) /\ ~conn[c].rst
  <2> DEFINE next(k) == IF k = worker[w].n THEN "reading" ELSE "writing"
  <2>1. PICK k \in 1 .. worker[w].n :
          /\ conn' = [conn EXCEPT ![c].back = @ + k, ![c].unread = @ + k]
          /\ worker' = [worker EXCEPT ![w].n = @ - k, ![w].st = next(k)]
    BY <1>7 DEF EchoWrite
  <2>2. k \in Nat /\ worker[w].n - k \in Nat
    BY <1>2, <2>1
  <2>3. /\ worker[w].st = "writing"
        /\ worker' = [worker EXCEPT ![w] = [worker[w] EXCEPT !.n = @ - k, !.st = next(k)]]
        /\ conn' = [conn EXCEPT ![c] = [conn[c] EXCEPT !.back = @ + k, !.unread = @ + k]]
    BY <1>1, <1>2, <1>3, <1>4, <1>7, <2>1 DEF EchoWrite, Conns
  <2>4. [worker[w] EXCEPT !.n = @ - k, !.st = next(k)] \in [st : States, fd : Fds, n : Nat]
    BY <1>2, <2>2 DEF States
  <2>5. [conn[c] EXCEPT !.back = @ + k, !.unread = @ + k] \in Conns
    <3>1. conn[c].back + k \in Nat /\ conn[c].unread + k \in Nat
      BY <1>4, <2>2
    <3> QED
      BY <1>4, <3>1 DEF Conns
  <2>6. /\ worker' \in [Workers -> [st : States, fd : Fds, n : Nat]]
        /\ conn' \in [Clients -> Conns]
    BY <1>1, <2>3, <2>4, <2>5
  <2>7. /\ conn'[c].inq = conn[c].inq /\ conn'[c].back = conn[c].back + k
        /\ worker'[w].n = worker[w].n - k /\ worker'[w].st = next(k)
    BY <1>1, <1>2, <1>3, <1>4, <2>3 DEF Conns
  <2>8. /\ conn'[c].inq + conn'[c].back + worker'[w].n = conn[c].inq + conn[c].back + worker[w].n
        /\ k = worker[w].n => conn'[c].inq + conn'[c].back = conn[c].inq + conn[c].back + worker[w].n
    BY <1>2, <1>4, <2>2, <2>7
  <2>9. /\ \A v \in Workers \ {w} : worker'[v] = worker[v]
        /\ \A d \in Clients \ {c} : conn'[d] = conn[d]
        /\ worker'[w].fd = c /\ conn'[c].st = conn[c].st /\ conn'[c].sent = conn[c].sent
        /\ conn'[c].eof = conn[c].eof /\ conn'[c].rst = conn[c].rst
    BY <1>1, <1>2, <1>3, <1>4, <2>3 DEF Conns
  <2> QED
    BY <1>3, <2>3, <2>6, <2>7, <2>8, <2>9
<1> QED
  BY <1>5, <1>6, <1>7

LEMMA EchoStep ==
  ASSUME IInv, NEW w \in Workers, EchoRead(w) \/ EchoWrite(w),
         UNCHANGED <<variant, limit, forkVars, threadVars>>
  PROVE  IInv'
<1>0. PICK c : c = worker[w].fd
  OBVIOUS
<1>1. /\ UNCHANGED <<variant, limit, pc, connfd, backlog, refused, chld, sig, cell, iptr, arg>>
      /\ (Forks' <=> Forks) /\ (ByPointer' <=> ByPointer) /\ Waiting' = Waiting
  BY DEF EchoRead, EchoWrite, forkVars, threadVars, Forks, ByPointer, Waiting
<1>2. /\ c \in Clients
      /\ worker' \in [Workers -> [st : States, fd : Fds, n : Nat]]
      /\ conn' \in [Clients -> Conns]
      /\ \A v \in Workers \ {w} : worker'[v] = worker[v]
      /\ \A d \in Clients \ {c} : conn'[d] = conn[d]
      /\ worker'[w].fd = c
      /\ conn'[c].st = conn[c].st /\ conn'[c].sent = conn[c].sent
      /\ conn'[c].eof = conn[c].eof /\ conn'[c].rst = conn[c].rst
      /\ \/ /\ worker[w].st = "reading" /\ worker'[w].st = "writing"
            /\ conn'[c].inq + conn'[c].back + worker'[w].n = conn[c].inq + conn[c].back
         \/ /\ worker[w].st = "writing" /\ worker'[w].st = "writing"
            /\ conn'[c].inq + conn'[c].back + worker'[w].n = conn[c].inq + conn[c].back + worker[w].n
         \/ /\ worker[w].st = "writing" /\ worker'[w].st = "reading"
            /\ ~conn[c].rst => conn'[c].inq + conn'[c].back = conn[c].inq + conn[c].back + worker[w].n
  BY <1>0, EchoEffect
<1>3. TypeInv' /\ Zombies' = Zombies
  <2>1. TypeInv'
    BY <1>1, <1>2 DEF IInv, TypeInv
  <2>2. \A v \in Workers : worker'[v].st = "zombie" <=> worker[v].st = "zombie"
    BY <1>2
  <2> QED
    BY <2>1, <2>2 DEF Zombies
<1>4. QueueInv' /\ WriterInv' /\ SlotsComeBack'
  <2>1. QueueInv'
    <3>1. \A k \in 1 .. Len(backlog) : backlog[k] \in Clients
      BY DEF IInv, TypeInv
    <3> QED
      BY <1>1, <1>2, <3>1 DEF IInv, QueueInv
  <2>2. WriterInv' /\ SlotsComeBack'
    BY <1>1, <1>2, <1>3 DEF IInv, WriterInv, SlotsComeBack
  <2> QED
    BY <2>1, <2>2
<1>5. \A v \in Workers : /\ Born(v)' <=> Born(v)
                         /\ worker'[v].fd = worker[v].fd
                         /\ Pending(v)' = Pending(v)
                         /\ Born(v) => v # w
  BY <1>0, <1>1, <1>2 DEF Born, Pending, ByPointer
<1>6. ProcessInv'
  <2>1. Forks => ForkInv'
    BY <1>1 DEF IInv, ProcessInv, ForkInv
  <2>2. CellInv => CellInv'
    BY <1>1, <1>5 DEF CellInv
  <2>3. \A v \in Workers : worker[v].st # "zombie" => worker'[v].st # "zombie"
    BY <1>2
  <2>4. ~Forks => ThreadInv'
    BY <1>1, <1>5, <2>2, <2>3 DEF IInv, ProcessInv, ThreadInv
  <2> QED
    BY <1>1, <2>1, <2>4 DEF ProcessInv
<1>7. ASSUME NEW d \in Clients PROVE (ClaimInv(d) /\ LinesInv(d) /\ DoneInv(d))'
  <2>1. ClaimInv(d) /\ LinesInv(d) /\ DoneInv(d)
    BY DEF IInv, SessionInv
  <2>2. Handing(d)' <=> Handing(d)
    BY <1>1 DEF Handing
  <2>3. \A v \in Workers : Serves(v, d)' <=> Serves(v, d)
    BY <1>0, <1>2, <1>5 DEF Serves, Working
  <2>4. \A v \in Workers : Claims(v, d)' <=> Claims(v, d)
    BY <1>1, <1>5, <2>3 DEF Claims, Born
  <2>5. Serves(w, c) /\ Claims(w, c) /\ ClaimInv(c)
    BY <1>0, <1>2 DEF Serves, Claims, Working, IInv, SessionInv
  <2>6. conn[c].st = "open" /\ \A v \in Workers : Claims(v, c) => v = w
    BY <2>5 DEF ClaimInv
  <2>7. ClaimInv(d)'
    BY <1>1, <1>2, <2>1, <2>2, <2>4 DEF ClaimInv
  <2>8. DoneInv(d)'
    <3>1. d # c => (Over(d)' <=> Over(d)) /\ conn'[d].st = conn[d].st
      BY <1>1, <1>2 DEF Over
    <3>2. (\E e \in Clients : conn[e].rst) => \E e \in Clients : conn'[e].rst
      BY <1>2
    <3>3. CASE d # c
      BY <1>1, <2>1, <2>3, <3>1, <3>2, <3>3 DEF DoneInv
    <3>4. CASE d = c
      BY <1>1, <1>2, <2>3, <2>5, <2>6, <3>4 DEF DoneInv
    <3> QED
      BY <3>3, <3>4
  <2>9. LinesInv(d)'
    <3>1. CASE d # c
      <4>1. \A v \in Workers : /\ Writes(v, d)' <=> Writes(v, d)
                               /\ Writes(v, d) => worker'[v] = worker[v]
        BY <1>0, <1>2, <3>1 DEF Writes
      <4> QED
        BY <1>2, <2>1, <3>1, <4>1 DEF LinesInv
    <3>2. CASE d = c
      <4>1. \A v \in Workers : Writes(v, c) \/ Writes(v, c)' => v = w
        <5>1. \A v \in Workers : Writes(v, c) => Claims(v, c)
          BY DEF Writes, Claims, Serves, Working
        <5>2. \A v \in Workers \ {w} : Writes(v, c)' => Writes(v, c)
          BY <1>2 DEF Writes
        <5> QED
          BY <2>6, <5>1, <5>2
      <4>4. conn'[c].st # "closed" /\ conn[c].st # "closed"
        BY <1>2, <2>6
      <4>2. CASE worker[w].st = "reading"
        <5>1. Writes(w, c)' /\ ~Writes(w, c)
          BY <1>2, <4>2 DEF Writes
        <5>2. ~conn[c].rst => conn[c].sent = conn[c].inq + conn[c].back
          BY <2>1, <3>2, <4>1, <4>4, <5>1 DEF LinesInv
        <5>3. ~conn[c].rst => conn'[c].sent = conn'[c].inq + conn'[c].back + worker'[w].n
          BY <1>2, <4>2, <5>2
        <5> QED
          BY <1>2, <3>2, <4>1, <5>1, <5>3 DEF LinesInv
      <4>3. CASE worker[w].st = "writing" /\ worker'[w].st = "writing"
        <5>1. Writes(w, c) /\ Writes(w, c)'
          BY <1>0, <1>2, <4>3 DEF Writes
        <5>2. ~conn[c].rst => conn[c].sent = conn[c].inq + conn[c].back + worker[w].n
          BY <2>1, <3>2, <4>4, <5>1 DEF LinesInv
        <5>3. ~conn[c].rst => conn'[c].sent = conn'[c].inq + conn'[c].back + worker'[w].n
          BY <1>2, <4>3, <5>2
        <5> QED
          BY <1>2, <3>2, <4>1, <5>1, <5>3 DEF LinesInv
      <4>5. CASE worker[w].st = "writing" /\ worker'[w].st = "reading"
        <5>1. Writes(w, c) /\ ~Writes(w, c)'
          BY <1>0, <1>2, <4>5 DEF Writes
        <5>2. ~conn[c].rst => conn[c].sent = conn[c].inq + conn[c].back + worker[w].n
          BY <2>1, <3>2, <4>4, <5>1 DEF LinesInv
        <5>3. ~conn[c].rst => conn'[c].sent = conn'[c].inq + conn'[c].back
          BY <1>2, <4>5, <5>2
        <5> QED
          BY <1>2, <3>2, <4>1, <5>1, <5>3 DEF LinesInv
      <4> QED
        BY <1>2, <4>2, <4>3, <4>5
    <3> QED
      BY <3>1, <3>2
  <2> QED
    BY <2>1, <2>7, <2>8, <2>9
<1> QED
  BY <1>3, <1>4, <1>6, <1>7 DEF IInv, SessionInv

-----------------------------------------------------------------------------
(* A worker that ends has echoed every line, or lost its connection to a   *)
(* reset; the connection is closed with it unless main has it too.         *)
LEMMA LeaveStep ==
  ASSUME IInv, NEW w \in Workers, NEW c, c = worker[w].fd,
         EchoReturns(w) \/ Sigpipe(w),
         NEW others \in BOOLEAN, c \in Clients => (others <=> Handing(c)),
         conn' = Closed(c, others),
         NEW r \in {Free, Worker("zombie", NoConn)}, worker' = [worker EXCEPT ![w] = r],
         UNCHANGED <<variant, limit, pc, connfd, backlog, refused, threadVars>>
  PROVE  TypeInv' /\ QueueInv' /\ WriterInv' /\ SessionInv'
<1>1. /\ worker \in [Workers -> [st : States, fd : Fds, n : Nat]]
      /\ c \in Fds /\ worker[w].st \in {"reading", "writing"}
  BY DEF IInv, TypeInv, EchoReturns, Sigpipe
<1>2. /\ worker' \in [Workers -> [st : States, fd : Fds, n : Nat]]
      /\ \A v \in Workers \ {w} : worker'[v] = worker[v]
      /\ worker'[w].st \in {"free", "zombie"}
  <2>1. r \in [st : States, fd : Fds, n : Nat] /\ r.st \in {"free", "zombie"}
    BY DEF Free, Worker, States, Fds
  <2> QED
    BY <1>1, <2>1
<1>3. /\ conn' \in [Clients -> Conns]
      /\ \A d \in Clients :
           /\ conn'[d].rst = conn[d].rst /\ conn'[d].eof = conn[d].eof
           /\ conn'[d].sent = conn[d].sent /\ conn'[d].inq = conn[d].inq
           /\ conn'[d].back = conn[d].back
           /\ (d # c \/ others) => conn'[d].st = conn[d].st
           /\ (d = c /\ ~others) => conn'[d].st = "closed"
  BY ClosedFacts DEF IInv
<1>4. Waiting' = Waiting /\ (Forks' <=> Forks)
  BY DEF Waiting, Forks
<1>5. ASSUME c \in Clients
      PROVE  /\ Serves(w, c) /\ Claims(w, c) /\ conn[c].st = "open" /\ c \notin Waiting
             /\ \A v \in Workers : Claims(v, c) => v = w
  <2>1. Serves(w, c) /\ Claims(w, c) /\ ClaimInv(c)
    BY <1>1, <1>5 DEF Serves, Claims, Working, IInv, SessionInv
  <2> QED
    BY <2>1 DEF ClaimInv
<1>6. \A v \in Workers : \A d \in Clients : Writes(v, d) => Claims(v, d)
  BY DEF Writes, Claims, Serves, Working
<1>7. c \in Clients => Over(c)
  <2>1. SUFFICES ASSUME c \in Clients PROVE Over(c)
    OBVIOUS
  <2>2. CASE Sigpipe(w)
    BY <2>2 DEF Sigpipe, Over
  <2>3. CASE EchoReturns(w)
    <3>1. conn[c].inq = 0 /\ (conn[c].eof \/ conn[c].rst) /\ worker[w].st = "reading"
      BY <2>1, <2>3, ClientsAssumption DEF EchoReturns
    <3>2. \A v \in Workers : ~Writes(v, c)
      BY <1>5, <1>6, <2>1, <3>1 DEF Writes
    <3>3. ~conn[c].rst => conn[c].sent = conn[c].inq + conn[c].back
      BY <1>5, <2>1, <3>2 DEF IInv, SessionInv, LinesInv
    <3>4. conn[c].back \in Nat
      BY <2>1 DEF IInv, TypeInv, Conns
    <3> QED
      BY <3>1, <3>3, <3>4 DEF Over
  <2> QED
    BY <2>2, <2>3
<1>8. TypeInv' /\ WriterInv'
  BY <1>2, <1>3 DEF IInv, TypeInv, WriterInv
<1>9. QueueInv'
  <2>1. \A k \in 1 .. Len(backlog) : backlog[k] \in Clients /\ backlog[k] # c
    BY <1>5 DEF Waiting, IInv, TypeInv
  <2> QED
    BY <1>3, <2>1 DEF IInv, QueueInv
<1>10. ASSUME NEW d \in Clients PROVE (ClaimInv(d) /\ LinesInv(d) /\ DoneInv(d))'
  <2>1. ClaimInv(d) /\ LinesInv(d) /\ DoneInv(d)
    BY DEF IInv, SessionInv
  <2>2. Handing(d)' <=> Handing(d)
    BY DEF Handing
  <2>3. \A v \in Workers \ {w} : /\ Serves(v, d)' <=> Serves(v, d)
                                 /\ Claims(v, d)' <=> Claims(v, d)
                                 /\ Writes(v, d)' <=> Writes(v, d)
    BY <1>2, <1>4 DEF Serves, Working, Claims, Writes, Pending, ByPointer, threadVars
  <2>4. ~Serves(w, d)' /\ ~Claims(w, d)' /\ ~Writes(w, d)'
    BY <1>2 DEF Serves, Working, Claims, Writes
  <2>5. Over(d)' <=> Over(d)
    BY <1>3 DEF Over
  <2>6. CASE d # c
    <3>1. ~Serves(w, d) /\ ~Writes(w, d)
      BY <2>6 DEF Serves, Writes
    <3>2. conn'[d].st = conn[d].st
      BY <1>3, <2>6
    <3>3. ClaimInv(d)'
      BY <1>4, <2>1, <2>2, <2>3, <2>4, <3>2 DEF ClaimInv
    <3>4. LinesInv(d)'
      BY <1>2, <1>3, <2>1, <2>3, <2>4, <3>1, <3>2 DEF LinesInv
    <3>5. DoneInv(d)'
      <4>1. (\E e \in Clients : conn[e].rst) => \E e \in Clients : conn'[e].rst
        BY <1>3
      <4> QED
        BY <1>4, <2>1, <2>3, <2>5, <3>1, <3>2, <4>1 DEF DoneInv
    <3> QED
      BY <3>3, <3>4, <3>5
  <2>7. CASE d = c
    <3>1. \A v \in Workers : ~Claims(v, d)' /\ ~Writes(v, d)'
      BY <1>5, <1>6, <2>3, <2>4, <2>7
    <3>2. ClaimInv(d)'
      BY <1>3, <1>4, <1>5, <2>1, <2>2, <2>7, <3>1 DEF ClaimInv
    <3>3. LinesInv(d)'
      <4>1. CASE worker[w].st = "reading"
        <5>1. \A v \in Workers : ~Writes(v, d)
          BY <1>5, <1>6, <2>7, <4>1 DEF Writes
        <5> QED
          BY <1>3, <1>5, <2>1, <2>7, <3>1, <5>1 DEF LinesInv
      <4>2. CASE worker[w].st = "writing"
        <5>1. conn'[d].rst
          BY <1>3, <2>7, <4>2 DEF EchoReturns, Sigpipe
        <5> QED
          BY <5>1 DEF LinesInv
      <4> QED
        BY <1>1, <4>1, <4>2
    <3>4. DoneInv(d)'
      BY <1>7, <2>5, <2>7 DEF DoneInv
    <3> QED
      BY <3>2, <3>3, <3>4
  <2> QED
    BY <2>6, <2>7
<1> QED
  BY <1>8, <1>9, <1>10 DEF SessionInv

LEMMA ChildStep ==
  ASSUME IInv, Forks, NEW w \in Workers, Child(w), UNCHANGED <<variant, limit, threadVars>>
  PROVE  IInv'
<1>1. CASE ChildStarts(w)
  <2>1. /\ UNCHANGED <<variant, limit, pc, connfd, conn, backlog, refused, chld, sig>>
        /\ worker[w].st = "born" /\ worker' = [worker EXCEPT ![w].st = "reading"]
        /\ Forks' /\ Waiting' = Waiting
    BY <1>1 DEF ChildStarts, forkVars, Forks, Waiting
  <2>2. /\ worker' \in [Workers -> [st : States, fd : Fds, n : Nat]]
        /\ \A v \in Workers \ {w} : worker'[v] = worker[v]
        /\ worker'[w].st = "reading" /\ worker'[w].fd = worker[w].fd
    <3>1. /\ worker \in [Workers -> [st : States, fd : Fds, n : Nat]]
          /\ worker[w] \in [st : States, fd : Fds, n : Nat]
      BY DEF IInv, TypeInv
    <3>2. [worker[w] EXCEPT !.st = "reading"] \in [st : States, fd : Fds, n : Nat]
      BY <3>1 DEF States
    <3> QED
      BY <2>1, <3>1, <3>2
  <2>3. TypeInv' /\ WriterInv' /\ QueueInv'
    BY <2>1, <2>2 DEF IInv, TypeInv, WriterInv, QueueInv
  <2>4. \A v \in Workers : worker'[v].st = "zombie" <=> worker[v].st = "zombie"
    BY <2>1, <2>2
  <2>5. ProcessInv' /\ SlotsComeBack'
    <3>1. Zombies' = Zombies
      BY <2>4 DEF Zombies
    <3> QED
      BY <2>1, <3>1 DEF IInv, ProcessInv, ForkInv, SlotsComeBack
  <2>6. ASSUME NEW c \in Clients PROVE (ClaimInv(c) /\ LinesInv(c) /\ DoneInv(c))'
    <3>1. ClaimInv(c) /\ LinesInv(c) /\ DoneInv(c)
      BY DEF IInv, SessionInv
    <3>2. Handing(c)' <=> Handing(c)
      BY <2>1 DEF Handing
    <3>3. \A v \in Workers : /\ Serves(v, c)' <=> Serves(v, c)
                             /\ Writes(v, c)' <=> Writes(v, c)
                             /\ Writes(v, c) => worker'[v] = worker[v]
      BY <2>1, <2>2 DEF Serves, Working, Writes
    <3>4. \A v \in Workers : Claims(v, c)' <=> Claims(v, c)
      BY <2>1, <3>3 DEF Claims
    <3>5. ClaimInv(c)'
      BY <2>1, <3>1, <3>2, <3>4 DEF ClaimInv
    <3>6. LinesInv(c)'
      BY <2>1, <3>1, <3>3 DEF LinesInv
    <3>7. DoneInv(c)'
      BY <2>1, <3>1, <3>3 DEF DoneInv, Over
    <3> QED
      BY <3>5, <3>6, <3>7
  <2> QED
    BY <2>3, <2>5, <2>6 DEF IInv, SessionInv
<1>2. CASE (EchoRead(w) \/ EchoWrite(w)) /\ UNCHANGED forkVars
  BY <1>2, EchoStep
<1>3. CASE Exit(w)
  <2>1. PICK c : c = worker[w].fd
    OBVIOUS
  <2>2. PICK others \in BOOLEAN : others <=> Handing(c)
    OBVIOUS
  <2>3. PICK r \in {Free, Worker("zombie", NoConn)} :
          /\ worker' = [worker EXCEPT ![w] = r]
          /\ r # Free => pc # "stopped"
    BY <1>3 DEF Exit
  <2>4. /\ UNCHANGED <<pc, connfd, backlog, refused, sig>> /\ Forks'
        /\ EchoReturns(w) \/ Sigpipe(w)
        /\ conn' = Closed(c, Handing(c))
        /\ chld' = (Reaps /\ pc # "stopped")
    BY <1>3, <2>1 DEF Exit, Forks
  <2>5. Closed(c, Handing(c)) = Closed(c, others)
    BY <2>2 DEF Closed
  <2>6. TypeInv' /\ QueueInv' /\ WriterInv' /\ SessionInv'
    BY <2>1, <2>2, <2>3, <2>4, <2>5, LeaveStep
  <2>7. ProcessInv'
    BY <2>4 DEF IInv, ProcessInv, ForkInv
  <2>8. SlotsComeBack'
    BY <2>4 DEF SlotsComeBack, Reaps
  <2> QED
    BY <2>6, <2>7, <2>8 DEF IInv
<1> QED
  BY <1>1, <1>2, <1>3 DEF Child

-----------------------------------------------------------------------------
(* The threads.  main's cell is no thread's.                               *)
LEMMA MallocStep ==
  ASSUME IInv, ~Forks, Malloc, UNCHANGED <<variant, limit, forkVars>>
  PROVE  IInv'
<1>1. /\ UNCHANGED <<variant, limit, pc, connfd, worker, conn, backlog, refused, chld, sig, arg>>
      /\ ByPointer /\ pc = "accept" /\ ByPointer' /\ ~Forks' /\ Waiting' = Waiting
      /\ Zombies' = Zombies
  BY DEF Malloc, sessionVars, forkVars, ByPointer, Forks, Waiting, Zombies
<1>2. PICK a : /\ a \notin DOMAIN cell /\ iptr' = a
               /\ cell' = [b \in DOMAIN cell \cup {a} |-> IF b = a THEN Unset ELSE cell[b]]
  BY DEF Malloc
<1>3. ThreadInv /\ CellInv
  BY <1>1 DEF IInv, ProcessInv, ThreadInv
<1>4. DOMAIN cell' = DOMAIN cell \cup {a} /\ \A b \in DOMAIN cell : cell'[b] = cell[b]
  BY <1>2
<1>5. \A w \in Workers : /\ Born(w)' <=> Born(w)
                         /\ Born(w) => arg[w] \in DOMAIN cell /\ Pending(w)' = Pending(w)
  BY <1>1, <1>3, <1>4 DEF Born, Pending, CellInv
<1>6. CellInv'
  BY <1>1, <1>2, <1>3, <1>4, <1>5 DEF CellInv
<1>7. ProcessInv'
  BY <1>1, <1>3, <1>5, <1>6 DEF ProcessInv, ThreadInv
<1>8. TypeInv' /\ QueueInv' /\ WriterInv' /\ SlotsComeBack'
  BY <1>1 DEF IInv, TypeInv, QueueInv, WriterInv, SlotsComeBack
<1>9. ASSUME NEW c \in Clients PROVE (ClaimInv(c) /\ LinesInv(c) /\ DoneInv(c))'
  <2>1. ClaimInv(c) /\ LinesInv(c) /\ DoneInv(c)
    BY DEF IInv, SessionInv
  <2>2. \A w \in Workers : /\ Serves(w, c)' <=> Serves(w, c)
                           /\ Writes(w, c)' <=> Writes(w, c)
    BY <1>1 DEF Serves, Working, Writes
  <2>3. \A w \in Workers : Claims(w, c)' <=> Claims(w, c)
    BY <1>1, <1>5, <2>2 DEF Claims, Born
  <2>4. Handing(c)' <=> Handing(c)
    BY <1>1 DEF Handing
  <2> QED
    BY <1>1, <2>1, <2>2, <2>3, <2>4 DEF ClaimInv, LinesInv, DoneInv, Over
<1> QED
  BY <1>7, <1>8, <1>9 DEF IInv, SessionInv

LEMMA ThreadAcceptStep ==
  ASSUME IInv, ~Forks, ThreadAccept, UNCHANGED <<variant, limit, forkVars>>
  PROVE  IInv'
<1>1. /\ pc = "accept" /\ pc' = "create" /\ UNCHANGED <<variant, worker, iptr, arg>>
      /\ ByPointer => iptr # Null /\ cell' = [cell EXCEPT ![iptr] = connfd']
      /\ ~ByPointer => cell' = cell
      /\ ~Forks' /\ (ByPointer' <=> ByPointer)
  BY DEF ThreadAccept, Accept, AcceptFails, Forks, ByPointer
<1>2. ThreadInv /\ (ByPointer => CellInv)
  BY DEF IInv, ProcessInv, ThreadInv
<1>3. \A w \in Workers : /\ Born(w)' <=> Born(w)
                         /\ Born(w) => Pending(w)' = Pending(w)
  BY <1>1, <1>2 DEF Born, Pending, CellInv
<1>4. \A w \in Workers, c \in Clients : Claims(w, c)' <=> Claims(w, c)
  BY <1>1, <1>3 DEF Claims, Serves, Working, Born
<1>5. TypeInv' /\ QueueInv' /\ WriterInv' /\ SessionInv' /\ Zombies' = Zombies
  BY <1>1, <1>4, AcceptStep, AcceptFailsStep DEF ThreadAccept
<1>6. ByPointer => CellInv'
  BY <1>1, <1>2, <1>3 DEF CellInv
<1>7. ProcessInv'
  BY <1>1, <1>2, <1>3, <1>6 DEF ProcessInv, ThreadInv
<1>8. SlotsComeBack'
  BY <1>2, <1>5 DEF ThreadInv, SlotsComeBack, Zombies
<1> QED
  BY <1>5, <1>7, <1>8 DEF IInv

(* The connection passes from main to the new thread.                      *)
LEMMA CreateStep ==
  ASSUME IInv, ~Forks, Create, UNCHANGED <<variant, limit, forkVars>>
  PROVE  IInv'
<1>1. /\ pc = "create" /\ pc' = "accept" /\ iptr' = Null
      /\ UNCHANGED <<variant, limit, connfd, conn, backlog, cell>>
      /\ refused \subseteq refused'
      /\ ~Forks' /\ (ByPointer' <=> ByPointer) /\ Waiting' = Waiting
  BY DEF Create, Forks, ByPointer, Waiting
<1>2. ThreadInv /\ (ByPointer => CellInv) /\ TypeInv
  BY DEF IInv, ProcessInv, ThreadInv
<1>3. ASSUME NEW c \in Clients
      PROVE  /\ ClaimInv(c) /\ LinesInv(c) /\ DoneInv(c)
             /\ ~Handing(c)'
             /\ Handing(c) <=> connfd = c
             /\ connfd = c => \A v \in Workers : ~Claims(v, c)
  BY <1>1 DEF IInv, SessionInv, ClaimInv, Handing
<1>4. CASE FreeSlots # {}
  <2>1. PICK w \in FreeSlots :
          /\ worker' = [worker EXCEPT ![w] = Worker("born", NoConn)]
          /\ arg' = [arg EXCEPT ![w] = IF ByPointer THEN iptr ELSE connfd]
    BY <1>4 DEF Create
  <2>2. /\ w \in Workers /\ worker[w].st = "free"
        /\ worker'[w] = Worker("born", NoConn)
        /\ arg'[w] = (IF ByPointer THEN iptr ELSE connfd) /\ DOMAIN arg' = Workers
        /\ \A v \in Workers \ {w} : worker'[v] = worker[v] /\ arg'[v] = arg[v]
    BY <1>2, <2>1 DEF TypeInv, FreeSlots, Free, ThreadInv
  <2>3. worker' \in [Workers -> [st : States, fd : Fds, n : Nat]]
    <3>1. Worker("born", NoConn) \in [st : States, fd : Fds, n : Nat]
      BY DEF Worker, States, Fds
    <3> QED
      BY <1>2, <2>1, <3>1 DEF TypeInv
  <2>4. /\ Born(w)' /\ worker'[w].fd = NoConn /\ Pending(w)' = connfd
        /\ \A v \in Workers \ {w} : /\ Born(v)' <=> Born(v)
                                    /\ Pending(v)' = Pending(v)
    BY <1>1, <1>2, <2>2 DEF Born, Worker, Pending, CellInv
  <2>5. ByPointer => CellInv'
    BY <1>1, <1>2, <2>2, <2>4 DEF CellInv
  <2>6. ThreadInv'
    <3>1. \A v \in Workers : worker'[v].st # "zombie"
      BY <1>2, <2>2, <2>4 DEF ThreadInv, Worker
    <3> QED
      BY <1>1, <1>2, <2>2, <2>4, <2>5, <3>1 DEF ThreadInv, TypeInv
  <2>7. TypeInv' /\ QueueInv' /\ WriterInv' /\ SlotsComeBack'
    <3>1. TypeInv'
      BY <1>1, <2>3 DEF IInv, TypeInv
    <3>2. QueueInv'
      BY <1>1 DEF IInv, QueueInv
    <3>3. WriterInv'
      BY <2>2 DEF IInv, WriterInv, Worker
    <3>4. SlotsComeBack'
      BY <2>6 DEF ThreadInv, SlotsComeBack, Zombies
    <3> QED
      BY <3>1, <3>2, <3>3, <3>4
  <2>8. ASSUME NEW c \in Clients PROVE (ClaimInv(c) /\ LinesInv(c) /\ DoneInv(c))'
    <3>1. \A v \in Workers : /\ Writes(v, c)' <=> Writes(v, c)
                             /\ Writes(v, c) => worker'[v] = worker[v]
      BY <2>2 DEF Writes, Worker
    <3>2. (Claims(w, c)' <=> connfd = c) /\ \A v \in Workers \ {w} : Claims(v, c)' <=> Claims(v, c)
      BY <1>1, <2>2, <2>4 DEF Claims, Born, Serves, Working
    <3>3. ClaimInv(c)'
      BY <1>1, <1>3, <2>2, <3>2 DEF ClaimInv
    <3>4. LinesInv(c)' /\ DoneInv(c)'
      BY <1>1, <1>3, <3>1 DEF LinesInv, DoneInv, Over
    <3> QED
      BY <3>3, <3>4
  <2> QED
    BY <1>1, <2>6, <2>7, <2>8 DEF IInv, ProcessInv, SessionInv
<1>5. CASE FreeSlots = {}
  <2>1. UNCHANGED <<worker, arg>>
    BY <1>5 DEF Create
  <2>2. ThreadInv'
    BY <1>1, <1>2, <2>1 DEF ThreadInv, CellInv, Born, Pending
  <2>3. TypeInv' /\ QueueInv' /\ WriterInv' /\ SlotsComeBack'
    BY <1>1, <2>1, <2>2 DEF IInv, TypeInv, QueueInv, WriterInv, ThreadInv, SlotsComeBack, Zombies
  <2>4. ASSUME NEW c \in Clients PROVE (ClaimInv(c) /\ LinesInv(c) /\ DoneInv(c))'
    <3>1. \A v \in Workers : (Claims(v, c)' <=> Claims(v, c)) /\ (Writes(v, c)' <=> Writes(v, c))
      BY <1>1, <2>1 DEF Claims, Serves, Working, Pending, Writes
    <3>2. ClaimInv(c)'
      BY <1>1, <1>3, <3>1 DEF ClaimInv
    <3>3. LinesInv(c)' /\ DoneInv(c)'
      BY <1>1, <1>3, <2>1, <3>1 DEF LinesInv, DoneInv, Over
    <3> QED
      BY <3>2, <3>3
  <2> QED
    BY <1>1, <2>2, <2>3, <2>4 DEF IInv, ProcessInv, SessionInv
<1> QED
  BY <1>4, <1>5

(* The thread finds the descriptor it claimed, in a cell nobody else has.  *)
LEMMA StartStep ==
  ASSUME IInv, ~Forks, NEW w \in Workers, Start(w), UNCHANGED <<variant, limit, forkVars>>
  PROVE  IInv'
<1>1. /\ UNCHANGED <<variant, limit, pc, connfd, conn, backlog, refused, iptr>>
      /\ Born(w) /\ ~Forks' /\ (ByPointer' <=> ByPointer) /\ Waiting' = Waiting
      /\ worker' = [worker EXCEPT ![w] = Worker("reading", Pending(w))]
      /\ cell' = [b \in DOMAIN cell \ {arg[w]} |-> cell[b]]
      /\ arg' = [arg EXCEPT ![w] = Null]
  BY DEF Start, Born, Forks, ByPointer, Waiting
<1>2. ThreadInv /\ (ByPointer => CellInv) /\ TypeInv
  BY DEF IInv, ProcessInv, ThreadInv
<1>3. PICK fd \in Fds : fd = Pending(w)
  BY <1>1, <1>2 DEF ThreadInv
<1>4. /\ worker' \in [Workers -> [st : States, fd : Fds, n : Nat]]
      /\ worker'[w].st = "reading" /\ worker'[w].fd = fd
      /\ \A v \in Workers \ {w} : worker'[v] = worker[v] /\ arg'[v] = arg[v]
      /\ DOMAIN arg' = Workers
  <2>1. Worker("reading", fd) \in [st : States, fd : Fds, n : Nat]
    BY DEF Worker, States
  <2>2. worker' \in [Workers -> [st : States, fd : Fds, n : Nat]]
    BY <1>1, <1>2, <1>3, <2>1 DEF TypeInv
  <2> QED
    BY <1>1, <1>2, <1>3, <2>2 DEF TypeInv, ThreadInv, Worker
<1>5. ~Born(w)' /\ \A v \in Workers \ {w} : /\ Born(v)' <=> Born(v)
                                            /\ Born(v) => Pending(v)' = Pending(v)
  BY <1>1, <1>2, <1>4 DEF Born, Pending, CellInv
<1>6. ByPointer => CellInv'
  BY <1>1, <1>2, <1>4, <1>5 DEF CellInv
<1>7. ThreadInv'
  <2>1. \A v \in Workers : worker'[v].st # "zombie"
    BY <1>2, <1>4 DEF ThreadInv
  <2>2. \A v \in Workers : Born(v)' => worker'[v].fd = NoConn /\ Pending(v)' \in Fds
    BY <1>2, <1>4, <1>5 DEF ThreadInv
  <2> QED
    BY <1>1, <1>2, <1>4, <1>6, <2>1, <2>2 DEF ThreadInv
<1>8. TypeInv' /\ QueueInv' /\ WriterInv' /\ SlotsComeBack'
  <2>1. TypeInv' /\ QueueInv'
    BY <1>1, <1>4 DEF IInv, TypeInv, QueueInv
  <2>2. WriterInv'
    BY <1>4 DEF IInv, WriterInv
  <2>3. SlotsComeBack'
    BY <1>7 DEF ThreadInv, SlotsComeBack, Zombies
  <2> QED
    BY <2>1, <2>2, <2>3
<1>9. ASSUME NEW c \in Clients PROVE (ClaimInv(c) /\ LinesInv(c) /\ DoneInv(c))'
  <2>1. ClaimInv(c) /\ LinesInv(c) /\ DoneInv(c)
    BY DEF IInv, SessionInv
  <2>2. Handing(c)' <=> Handing(c)
    BY <1>1 DEF Handing
  <2>3. \A v \in Workers : /\ Writes(v, c)' <=> Writes(v, c)
                           /\ Writes(v, c) => worker'[v] = worker[v]
    BY <1>1, <1>4 DEF Writes, Born
  <2>4. \A v \in Workers : Claims(v, c)' <=> Claims(v, c)
    <3>1. Claims(w, c)' <=> Claims(w, c)
      BY <1>1, <1>3, <1>4 DEF Claims, Serves, Working, Born
    <3>2. \A v \in Workers \ {w} : Claims(v, c)' <=> Claims(v, c)
      BY <1>1, <1>4, <1>5 DEF Claims, Serves, Working, Born
    <3> QED
      BY <3>1, <3>2
  <2>5. ClaimInv(c)'
    BY <1>1, <2>1, <2>2, <2>4 DEF ClaimInv
  <2>6. LinesInv(c)' /\ DoneInv(c)'
    BY <1>1, <2>1, <2>3 DEF LinesInv, DoneInv, Over
  <2> QED
    BY <2>5, <2>6
<1> QED
  BY <1>1, <1>7, <1>8, <1>9 DEF IInv, ProcessInv, SessionInv

LEMMA FinishStep ==
  ASSUME IInv, ~Forks, NEW w \in Workers, Finish(w), UNCHANGED <<variant, limit, forkVars>>
  PROVE  IInv'
<1>1. PICK c : c = worker[w].fd
  OBVIOUS
<1>2. /\ EchoReturns(w) /\ conn' = Closed(c, FALSE) /\ worker' = [worker EXCEPT ![w] = Free]
      /\ UNCHANGED <<pc, connfd, backlog, refused, threadVars>>
      /\ ~Forks' /\ (ByPointer' <=> ByPointer)
  BY <1>1 DEF Finish, Forks, ByPointer
<1>3. ThreadInv /\ (ByPointer => CellInv) /\ TypeInv
  BY DEF IInv, ProcessInv, ThreadInv
<1>4. c \in Clients => ~Handing(c)
  <2>1. c \in Clients => Claims(w, c) /\ ClaimInv(c)
    BY <1>1, <1>2 DEF Claims, Serves, Working, EchoReturns, IInv, SessionInv
  <2> QED
    BY <1>3, <2>1 DEF ClaimInv, ThreadInv
<1>5. TypeInv' /\ QueueInv' /\ WriterInv' /\ SessionInv'
  BY <1>1, <1>2, <1>4, LeaveStep
<1>6. \A v \in Workers : /\ worker'[v] = worker[v] \/ worker'[v] = Free
                         /\ Born(v)' => Born(v) /\ worker'[v] = worker[v]
                         /\ Pending(v)' = Pending(v)
  BY <1>2, <1>3 DEF TypeInv, Born, Free, Pending, threadVars, ByPointer
<1>7. ByPointer => CellInv'
  BY <1>2, <1>3, <1>6 DEF CellInv, threadVars
<1>8. ThreadInv'
  <2>1. \A v \in Workers : worker'[v].st # "zombie"
    BY <1>3, <1>6 DEF ThreadInv, Free
  <2> QED
    BY <1>2, <1>3, <1>6, <1>7, <2>1 DEF ThreadInv, threadVars
<1>9. ProcessInv' /\ SlotsComeBack'
  BY <1>2, <1>8 DEF ProcessInv, ThreadInv, SlotsComeBack, Zombies
<1> QED
  BY <1>5, <1>9 DEF IInv

(* SIGPIPE: somebody's connection was reset, and everybody's ends.         *)
LEMMA KilledStep ==
  ASSUME IInv, ~Forks, NEW w \in Workers, Killed(w), UNCHANGED <<variant, limit, forkVars>>
  PROVE  IInv'
<1>1. /\ Sigpipe(w) /\ pc' = "killed" /\ connfd' = NoConn
      /\ worker' = [v \in Workers |-> Free]
      /\ conn' = [c \in Clients |-> IF conn[c].st = "open" /\ c \notin Waiting
                                      THEN [conn[c] EXCEPT !.st = "closed"] ELSE conn[c]]
      /\ UNCHANGED <<limit, backlog, refused, threadVars>>
      /\ ~Forks' /\ Waiting' = Waiting
  BY DEF Killed, Forks, Waiting
<1>2. TypeInv /\ ThreadInv
  BY DEF IInv, ProcessInv
<1>3. /\ conn' \in [Clients -> Conns]
      /\ \A c \in Clients : /\ conn'[c].rst = conn[c].rst
                            /\ c \in Waiting => conn'[c] = conn[c]
                            /\ conn'[c].st # "closed" => conn'[c] = conn[c]
                                                         /\ (conn[c].st = "new" \/ c \in Waiting)
  <2>1. \A c \in Clients : conn[c] \in Conns /\ [conn[c] EXCEPT !.st = "closed"] \in Conns
    BY <1>2 DEF TypeInv, Conns
  <2>2. conn' \in [Clients -> Conns]
    BY <1>1, <2>1
  <2> QED
    BY <1>1, <2>1, <2>2 DEF Conns
<1>4. \A v \in Workers : worker'[v] = Free /\ worker'[v].st = "free" /\ worker'[v].fd = NoConn
  BY <1>1 DEF Free
<1>5. TypeInv'
  <2>1. worker' \in [Workers -> [st : States, fd : Fds, n : Nat]]
    BY <1>1 DEF Free, States, Fds
  <2> QED
    BY <1>1, <1>2, <1>3, <2>1 DEF TypeInv, Fds
<1>6. QueueInv' /\ WriterInv'
  <2>1. \A k \in 1 .. Len(backlog) : backlog[k] \in Waiting /\ backlog[k] \in Clients
    BY <1>2 DEF Waiting, TypeInv
  <2> QED
    BY <1>1, <1>3, <1>4, <2>1 DEF IInv, QueueInv, WriterInv
<1>7. ProcessInv' /\ SlotsComeBack'
  <2>1. Zombies' = {}
    BY <1>4 DEF Zombies
  <2>2. \A v \in Workers : ~Born(v)'
    BY <1>4 DEF Born
  <2>3. ByPointer' => CellInv'
    BY <1>1, <1>2, <2>2 DEF CellInv, ThreadInv, ByPointer, threadVars
  <2>4. ThreadInv'
    BY <1>1, <1>2, <1>4, <2>2, <2>3 DEF ThreadInv, threadVars
  <2> QED
    BY <1>1, <2>1, <2>4 DEF ProcessInv, SlotsComeBack
<1>8. ASSUME NEW c \in Clients PROVE (ClaimInv(c) /\ LinesInv(c) /\ DoneInv(c))'
  <2>1. ClaimInv(c) /\ LinesInv(c) /\ DoneInv(c)
    BY DEF IInv, SessionInv
  <2>2. ~Handing(c)' /\ \A v \in Workers : ~Claims(v, c)' /\ ~Serves(v, c)' /\ ~Writes(v, c)'
    BY <1>1, <1>4 DEF Handing, Claims, Serves, Working, Writes
  <2>3. ClaimInv(c)'
    BY <2>2 DEF ClaimInv
  <2>4. LinesInv(c)'
    <3>1. \A v \in Workers : Writes(v, c) => Claims(v, c)
      BY DEF Writes, Claims, Serves, Working
    <3>2. conn'[c].st # "closed" => \A v \in Workers : ~Writes(v, c)
      BY <1>3, <2>1, <3>1 DEF ClaimInv
    <3> QED
      BY <1>3, <2>1, <2>2, <3>2 DEF LinesInv
  <2>5. DoneInv(c)'
    <3>1. PICK d \in Clients : conn[d].rst
      BY <1>1 DEF Sigpipe, IInv, WriterInv
    <3>2. conn'[d].rst
      BY <1>3, <3>1
    <3> QED
      BY <1>1, <3>2 DEF DoneInv
  <2> QED
    BY <2>3, <2>4, <2>5
<1> QED
  BY <1>5, <1>6, <1>7, <1>8 DEF IInv, SessionInv

-----------------------------------------------------------------------------
LEMMA StutterStep == IInv /\ UNCHANGED <<sharedVars, chld, sig, ready, threadVars>> => IInv'
<1> SUFFICES ASSUME IInv, UNCHANGED <<sharedVars, chld, sig, ready, threadVars>> PROVE IInv'
  OBVIOUS
<1> USE DEF sharedVars, sessionVars, threadVars
<1>1. TypeInv' /\ QueueInv' /\ WriterInv' /\ SlotsComeBack'
  BY DEF IInv, TypeInv, QueueInv, WriterInv, SlotsComeBack, Zombies, Forks
<1>2. ProcessInv'
  BY DEF IInv, ProcessInv, ForkInv, ThreadInv, CellInv, Born, Pending, ByPointer, Forks
<1>3. ASSUME NEW c \in Clients PROVE (ClaimInv(c) /\ LinesInv(c) /\ DoneInv(c))'
  <2>1. ClaimInv(c) /\ LinesInv(c) /\ DoneInv(c)
    BY DEF IInv, SessionInv
  <2>2. \A w \in Workers : /\ Serves(w, c)' <=> Serves(w, c)
                           /\ Writes(w, c)' <=> Writes(w, c)
                           /\ Claims(w, c)' <=> Claims(w, c)
    BY DEF Serves, Working, Writes, Claims, Pending, ByPointer, Forks
  <2>3. (Handing(c)' <=> Handing(c)) /\ Waiting' = Waiting /\ (Forks' <=> Forks)
    BY DEF Handing, Waiting, Forks
  <2>4. ClaimInv(c)'
    BY <2>1, <2>2, <2>3 DEF ClaimInv
  <2>5. LinesInv(c)' /\ DoneInv(c)'
    BY <2>1, <2>2, <2>3 DEF LinesInv, DoneInv, Over
  <2> QED
    BY <2>4, <2>5
<1> QED
  BY <1>1, <1>2, <1>3 DEF IInv, SessionInv

LEMMA ThreadsKeep ==
  ASSUME IInv, ThreadStep(ThreadMain) \/ \E w \in Workers : ThreadStep(Thread(w))
  PROVE  IInv'
<1>1. ~Forks /\ UNCHANGED <<variant, limit, forkVars>>
  BY DEF ThreadStep
<1>2. CASE ThreadMain
  BY <1>1, <1>2, MallocStep, ThreadAcceptStep, CreateStep DEF ThreadMain
<1>3. ASSUME NEW w \in Workers, Thread(w) PROVE IInv'
  <2>1. CASE (EchoRead(w) \/ EchoWrite(w)) /\ UNCHANGED threadVars
    BY <1>1, <2>1, EchoStep
  <2>2. CASE Start(w) \/ Finish(w) \/ Killed(w)
    BY <1>1, <2>2, StartStep, FinishStep, KilledStep
  <2> QED
    BY <1>3, <2>1, <2>2 DEF Thread
<1> QED
  BY <1>2, <1>3 DEF ThreadStep

LEMMA ForksKeep ==
  ASSUME IInv,
         ForkStep(ForkMain) \/ ForkStep(ForkSignal) \/ \E w \in Workers : ForkStep(Child(w))
  PROVE  IInv'
BY ForkMainStep, ForkSignalStep, ChildStep DEF ForkStep

LEMMA Keeps == IInv /\ [Next]_vars => IInv'
<1> SUFFICES ASSUME IInv, [Next]_vars PROVE IInv'
  OBVIOUS
<1>1. CASE Main \/ Signal \/ \E w \in Workers : Work(w)
  BY <1>1, ForksKeep, ThreadsKeep DEF Main, Signal, Work
<1>2. CASE Environment
  <2>1. CASE Peer /\ UNCHANGED <<forkVars, threadVars>>
    BY <2>1, PeerStep
  <2>2. CASE Datagram /\ UNCHANGED threadVars
    BY <2>2, StutterStep DEF Datagram
  <2> QED
    BY <1>2, <2>1, <2>2 DEF Environment
<1>3. CASE Kernel
  BY <1>3, PeerStep DEF Kernel
<1>4. CASE UNCHANGED vars
  BY <1>4, StutterStep DEF vars, forkVars
<1> QED
  BY <1>1, <1>2, <1>3, <1>4 DEF Next

LEMMA InvariantHolds == Spec => []IInv
<1>1. ServersInit => IInv
  BY Initially
<1>2. IInv /\ [Next]_vars => IInv'
  BY Keeps
<1> QED
  BY <1>1, <1>2, PTL DEF Spec

(* Whatever the server: no connection is read by two workers, and none is  *)
(* held that is closed or still in the queue.  The descriptor reaches its  *)
(* thread although main goes on accepting, through a cell of its own.      *)
THEOREM OneServerEach == Spec => []OneServer
<1>1. IInv => OneServer
  <2> SUFFICES ASSUME IInv, NEW c \in Clients
               PROVE  /\ \A v, w \in Workers : Serves(v, c) /\ Serves(w, c) => v = w
                      /\ Held(c) => conn[c].st = "open" /\ c \notin Waiting
    BY DEF OneServer
  <2>1. ClaimInv(c)
    BY DEF IInv, SessionInv
  <2>2. \A w \in Workers : Serves(w, c) => Claims(w, c)
    BY ClientsAssumption DEF Serves, Claims, IInv, ProcessInv, ThreadInv, Born
  <2> QED
    BY <2>1, <2>2 DEF ClaimInv, Held
<1> QED
  BY <1>1, InvariantHolds, PTL

(* A client that did not reset its connection and sees its end has every   *)
(* line back, but for the failures the code does not handle: fork that     *)
(* fails, and SIGPIPE in a server of threads.                              *)
THEOREM SessionsIsolated == Spec => []Isolated
<1>1. IInv => Isolated
  BY DEF IInv, SessionInv, DoneInv, Over, Isolated
<1> QED
  BY <1>1, InvariantHolds, PTL

(* The handler that waits in a loop leaves no zombie behind, although      *)
(* SIGCHLD is not queued.                                                  *)
THEOREM SlotsReturn == Spec => []SlotsComeBack
<1>1. IInv => SlotsComeBack
  BY DEF IInv
<1> QED
  BY <1>1, InvariantHolds, PTL
=============================================================================

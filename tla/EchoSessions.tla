---------------------------- MODULE EchoSessions ----------------------------
(***************************************************************************)
(* What the servers of tcpcliserv/, udpcliserv/, unixdomain/ and threads/  *)
(* have in common: a main program that accepts connections, and workers    *)
(* (child processes or threads) that run str_echo() on one each.           *)
(*                                                                         *)
(* A connected descriptor is named by the client at its other end; data    *)
(* are counted in lines: back are those a server wrote, unread the part of *)
(* them the client has not read.  worker is the table of processes, or     *)
(* threads: a slot is in use until its worker is gone, zombies included.   *)
(***************************************************************************)
EXTENDS Integers, Sequences, FiniteSets

CONSTANTS Clients, Workers,
          MaxLines,       \* bound: MaxLines[s, c] lines from client c to server s
          Room,           \* lines the buffers between a server and a client hold
          MaxFailures     \* bound: calls of accept that fail

ASSUME BoundsAssumption == Room \in Nat \ {0} /\ MaxFailures \in Nat

NoConn == "-1"            \* what a failed accept returns
ASSUME ClientsAssumption == NoConn \notin Clients

Free == [st |-> "free", fd |-> NoConn, n |-> 0]
Worker(st, fd) == [st |-> st, fd |-> fd, n |-> 0]

VARIABLES variant,        \* the server looked at
          limit,          \* the workers the system allows
          pc, connfd,     \* the main program
          worker,
          conn,           \* conn[c]: the connection of client c
          backlog,        \* established, not accepted
          failures,
          refused         \* fork, or pthread_create, failed for them

sessionVars == <<worker, conn, backlog, failures, refused>>
sharedVars == <<variant, limit, pc, connfd, sessionVars>>

Waiting == {backlog[k] : k \in 1 .. Len(backlog)}
FreeSlots == {w \in limit : worker[w] = Free}
Zombies == {w \in Workers : worker[w].st = "zombie"}
Working(w) == worker[w].st \in {"born", "reading", "writing"}
Serves(w, c) == Working(w) /\ worker[w].fd = c
Handing(c) == pc \in {"fork", "close", "create"} /\ connfd = c
Writes(w, c) == worker[w].st = "writing" /\ worker[w].fd = c
Blocked(c) ==             \* a worker waits in write() for the client to read
  conn[c].unread = Room /\ \E w \in Workers : Writes(w, c)
Held(c) == Handing(c) \/ \E w \in Workers : Serves(w, c)

Init == /\ connfd = NoConn
        /\ worker = [w \in Workers |-> Free]
        /\ conn = [c \in Clients |-> [st |-> "new", sent |-> 0, inq |-> 0, back |-> 0,
                                      unread |-> 0, eof |-> FALSE, rst |-> FALSE]]
        /\ backlog = <<>> /\ failures = 0 /\ refused = {}

-----------------------------------------------------------------------------
(* The clients.                                                            *)
Listening == pc \notin {"stopped", "killed"} \/ \E w \in Workers : worker[w].st = "born"
Quiet == UNCHANGED <<variant, limit, pc, connfd, worker, failures, refused>>

Connect(c) ==
  /\ conn[c].st = "new" /\ Listening
  /\ conn' = [conn EXCEPT ![c].st = "open"]
  /\ backlog' = Append(backlog, c)
  /\ Quiet

Active(c) == conn[c].st = "open" /\ ~conn[c].rst

SendLine(c) ==
  /\ Active(c) /\ ~conn[c].eof /\ conn[c].sent < MaxLines[variant, c]
  /\ conn' = [conn EXCEPT ![c].sent = @ + 1, ![c].inq = @ + 1]
  /\ UNCHANGED backlog /\ Quiet

(* The client takes a line that came back, if it reads at all.  A read     *)
(* matters only to a worker that waits for room: the others are left out.  *)
ReadLine(c) ==
  /\ Active(c) /\ Blocked(c)
  /\ conn' = [conn EXCEPT ![c].unread = @ - 1]
  /\ UNCHANGED backlog /\ Quiet

Shutdown(c) ==
  /\ Active(c) /\ ~conn[c].eof
  /\ conn' = [conn EXCEPT ![c].eof = TRUE]
  /\ UNCHANGED backlog /\ Quiet

(* A connection that is reset before it is accepted may stay in the queue  *)
(* (Linux) or vanish from it (Berkeley).                                   *)
Reset(c) ==
  /\ Active(c)
  /\ \/ /\ conn' = [conn EXCEPT ![c].rst = TRUE, ![c].unread = 0]
        /\ UNCHANGED backlog
     \/ \E k \in 1 .. Len(backlog) :
          /\ backlog[k] = c
          /\ conn' = [conn EXCEPT ![c].rst = TRUE, ![c].st = "closed"]
          /\ backlog' = [i \in 1 .. Len(backlog) - 1 |-> backlog[IF i < k THEN i ELSE i + 1]]
  /\ Quiet

(* Nobody listens any more: the queue is reset.                            *)
ResetQueue ==
  /\ ~Listening /\ backlog # <<>>
  /\ conn' = [c \in Clients |-> IF c \in Waiting
                                  THEN [conn[c] EXCEPT !.rst = TRUE, !.st = "closed"]
                                  ELSE conn[c]]
  /\ backlog' = <<>>
  /\ Quiet

Peer == \E c \in Clients : Connect(c) \/ SendLine(c) \/ ReadLine(c) \/ Shutdown(c) \/ Reset(c)

-----------------------------------------------------------------------------
(* accept: the first connection of the queue.                              *)
Accept(next) ==
  /\ backlog # <<>>
  /\ connfd' = Head(backlog) /\ backlog' = Tail(backlog)
  /\ pc' = next
  /\ UNCHANGED <<worker, conn, failures, refused>>

(* accept fails: ECONNABORTED for a connection that was reset, which is    *)
(* gone then, or a shortage (ENFILE), which leaves the queue as it is.     *)
AcceptFails(next) ==
  /\ backlog # <<>> /\ failures < MaxFailures
  /\ failures' = failures + 1
  /\ LET c == Head(backlog)
     IN  IF conn[c].rst
           THEN /\ conn' = [conn EXCEPT ![c].st = "closed"]
                /\ backlog' = Tail(backlog)
           ELSE UNCHANGED <<conn, backlog>>
  /\ connfd' = NoConn /\ pc' = next
  /\ UNCHANGED <<worker, refused>>

(* What close(fd) does to the connections: the FIN is sent when no other   *)
(* process has the descriptor.                                             *)
Closed(fd, others) ==
  [c \in Clients |-> IF c = fd /\ ~others THEN [conn[c] EXCEPT !.st = "closed"]
                                          ELSE conn[c]]

-----------------------------------------------------------------------------
(* str_echo(), run by worker w.  read(-1) fails with EBADF, and a read     *)
(* that fails ends the function as end of file does.                       *)
EchoRead(w) ==
  /\ worker[w].st = "reading" /\ worker[w].fd # NoConn
  /\ LET c == worker[w].fd
     IN  \E k \in 1 .. conn[c].inq :
           /\ worker' = [worker EXCEPT ![w].st = "writing", ![w].n = k]
           /\ conn' = [conn EXCEPT ![c].inq = @ - k]
  /\ UNCHANGED <<pc, connfd, backlog, failures, refused>>

MutEchoReturnsAtEof(w) ==             \* takes a FIN for the end of the data
  LET c == worker[w].fd
  IN  /\ worker[w].st = "reading"
      /\ c # NoConn => conn[c].eof \/ conn[c].rst

EchoReturns(w) ==
  LET c == worker[w].fd
  IN  /\ worker[w].st = "reading"
      /\ c # NoConn => conn[c].inq = 0 /\ (conn[c].eof \/ conn[c].rst)

(* written(), in as many parts as there is room for: it waits in write()   *)
(* while the client does not read.  An error ends it, and its result is    *)
(* not looked at.                                                          *)
EchoWrite(w) ==
  LET c == worker[w].fd
  IN  /\ worker[w].st = "writing"
      /\ \/ \E k \in 1 .. worker[w].n :
              /\ ~conn[c].rst /\ conn[c].unread + k <= Room
              /\ conn' = [conn EXCEPT ![c].back = @ + k, ![c].unread = @ + k]
              /\ worker' = [worker EXCEPT ![w].n = @ - k,
                              ![w].st = IF k = worker[w].n THEN "reading" ELSE "writing"]
         \/ /\ conn[c].rst
            /\ worker' = [worker EXCEPT ![w] = Worker("reading", c)]
            /\ UNCHANGED conn
      /\ UNCHANGED <<pc, connfd, backlog, failures, refused>>

(* A write to a connection that was reset, its error having been reported  *)
(* or its FIN having been received before, raises SIGPIPE.                 *)
Sigpipe(w) == worker[w].st = "writing" /\ conn[worker[w].fd].rst
=============================================================================

----------------------------- MODULE ForkServers -----------------------------
(***************************************************************************)
(* The servers that fork a child per connection:                           *)
(*   tcpserv01        no handler for SIGCHLD, accept unchecked             *)
(*   tcpserv04        waits in the handler, returns when accept fails      *)
(*   unixstrserv01    waits in the handler, goes on when accept fails      *)
(*   udpservselect01  waits in the handler, and select()s a UDP socket too *)
(***************************************************************************)
EXTENDS EchoSessions

CONSTANT MaxDatagrams     \* bound: datagrams that arrive

VARIABLES chld,           \* SIGCHLD is pending
          sig,            \* the handler: "no", "handling", or "interrupting" accept
          ready,          \* rset, after select
          arrived, datagrams     \* so far, in the queue of udpfd

forkVars == <<chld, sig, ready, arrived, datagrams>>
udpVars == <<ready, arrived, datagrams>>

Selects == variant = "udpservselect01"
Reaps == variant # "tcpserv01"
At(p) == pc = p /\ sig = "no"
Top == IF Selects THEN "select" ELSE "accept"

ForkInit == chld = FALSE /\ sig = "no" /\ ready = {} /\ arrived = 0 /\ datagrams = 0

Datagram ==
  /\ Selects /\ arrived < MaxDatagrams
  /\ arrived' = arrived + 1 /\ datagrams' = datagrams + 1
  /\ UNCHANGED <<sharedVars, chld, sig, ready>>

-----------------------------------------------------------------------------
Readable == (IF backlog # <<>> THEN {"listenfd"} ELSE {})
            \cup (IF datagrams > 0 THEN {"udpfd"} ELSE {})

Select ==
  /\ At("select") /\ Readable # {}
  /\ ready' = Readable
  /\ pc' = IF "listenfd" \in Readable THEN "accept" ELSE "recvfrom"
  /\ UNCHANGED <<connfd, sessionVars, chld, sig, arrived, datagrams>>

MutForkAcceptStops ==                 \* every server checks accept this way
  /\ At("accept")
  /\ Accept("fork") \/ AcceptFails("stopped")
  /\ UNCHANGED forkVars

(* Only tcpserv04 stops when accept fails; the others go on with -1.       *)
ForkAccept ==
  /\ At("accept")
  /\ \/ Accept("fork")
     \/ AcceptFails(IF variant = "tcpserv04" THEN "stopped" ELSE "fork")
  /\ UNCHANGED forkVars

(* fork, which fails when the table is full; main cannot tell.             *)
Fork ==
  /\ At("fork")
  /\ IF FreeSlots # {}
       THEN /\ worker' = [worker EXCEPT ![CHOOSE w \in FreeSlots : TRUE] =
                                          Worker("born", connfd)]
            /\ UNCHANGED refused
       ELSE /\ refused' = refused \cup ({connfd} \ {NoConn})
            /\ UNCHANGED worker
  /\ pc' = "close"
  /\ UNCHANGED <<connfd, conn, backlog, failures, forkVars>>

MutCloseForgotten ==                  \* only the child closes the connection
  /\ At("close")
  /\ connfd' = NoConn
  /\ IF "udpfd" \in ready THEN pc' = "recvfrom" /\ UNCHANGED ready
                           ELSE pc' = Top /\ ready' = {}
  /\ UNCHANGED <<sessionVars, chld, sig, arrived, datagrams>>

(* close(connfd), whose value is not used again.                           *)
Close ==
  /\ At("close")
  /\ conn' = Closed(connfd, \E w \in Workers : Serves(w, connfd))
  /\ connfd' = NoConn
  /\ IF "udpfd" \in ready THEN pc' = "recvfrom" /\ UNCHANGED ready
                           ELSE pc' = Top /\ ready' = {}
  /\ UNCHANGED <<worker, backlog, failures, refused, chld, sig, arrived, datagrams>>

(* recvfrom and sendto: the datagram goes back to where it came from.      *)
Recvfrom ==
  /\ At("recvfrom")
  /\ datagrams' = datagrams - 1
  /\ pc' = "select"
  /\ ready' = {}
  /\ UNCHANGED <<connfd, sessionVars, chld, sig, arrived>>

-----------------------------------------------------------------------------
(* A child.                                                                *)
ChildStarts(w) ==                     \* closes listenfd
  /\ worker[w].st = "born"
  /\ worker' = [worker EXCEPT ![w].st = "reading"]
  /\ UNCHANGED <<pc, connfd, conn, backlog, failures, refused, forkVars>>

(* exit, or death by SIGPIPE, closes its descriptor.  A parent that has    *)
(* stopped leaves its children to init, which waits for them at once.      *)
Exit(w) ==
  /\ EchoReturns(w) \/ Sigpipe(w)
  /\ conn' = Closed(worker[w].fd, Handing(worker[w].fd))
  /\ worker' = [worker EXCEPT ![w] = IF pc = "stopped" THEN Free
                                     ELSE Worker("zombie", NoConn)]
  /\ chld' = (Reaps /\ pc # "stopped")
  /\ UNCHANGED <<pc, connfd, backlog, failures, refused, sig, udpVars>>

Child(w) == \/ ChildStarts(w)
            \/ (EchoRead(w) \/ EchoWrite(w)) /\ UNCHANGED forkVars
            \/ Exit(w)

-----------------------------------------------------------------------------
(* udpservselect01 blocked in accept: the connection that select saw is    *)
(* gone.                                                                   *)
BlockedInAccept == Selects /\ pc = "accept" /\ backlog = <<>>

(* SIGCHLD, which is not queued: one delivery for several children.  Where *)
(* it interrupts accept or select, the call starts over, by itself or by   *)
(* "continue", except for the accept of udpservselect01.                   *)
SigChild ==
  /\ chld /\ sig = "no" /\ pc # "stopped"
  /\ chld' = FALSE
  /\ sig' = IF BlockedInAccept THEN "interrupting" ELSE "handling"
  /\ UNCHANGED <<pc, connfd, sessionVars, udpVars>>

Waitpid ==
  /\ sig # "no" \/ pc = "stopped"
  /\ \E w \in Zombies : worker' = [worker EXCEPT ![w] = Free]
  /\ UNCHANGED <<pc, connfd, conn, backlog, failures, refused, forkVars>>

MutSigReturnsEarly ==                 \* wait() once, not waitpid() in a loop
  /\ sig # "no"
  /\ sig' = "no"
  /\ UNCHANGED <<pc, connfd, sessionVars, chld, udpVars>>

(* waitpid returns 0.  The accept of udpservselect01 may fail with EINTR   *)
(* then, and nobody looks at its result.                                   *)
SigReturns ==
  /\ sig # "no" /\ Zombies = {}
  /\ sig' = "no"
  /\ pc' \in {pc} \cup (IF sig = "interrupting" THEN {"fork"} ELSE {})
  /\ UNCHANGED <<connfd, sessionVars, chld, udpVars>>

ForkMain == Select \/ ForkAccept \/ Fork \/ Close \/ Recvfrom
ForkSignal == SigChild \/ Waitpid \/ SigReturns
=============================================================================

---------------------------- MODULE ThreadServers ----------------------------
(***************************************************************************)
(* The servers of threads/, which create a thread per connection:          *)
(* tcpserv01 passes the descriptor as the value of the pointer, tcpserv02  *)
(* in a cell that main allocates and the thread frees.                     *)
(***************************************************************************)
EXTENDS EchoSessions

CONSTANT Cells            \* bound: addresses malloc may return

VARIABLES cell,           \* the allocated ones, with what they hold
          iptr,           \* main's pointer
          arg             \* arg[w]: the argument of thread w, until it is used

threadVars == <<cell, iptr, arg>>

ByPointer == variant = "threads02"
Null == "null"
Unset == "unset"          \* the contents of a cell before it is assigned

ThreadInit == cell = <<>> /\ iptr = Null /\ arg = [w \in Workers |-> Null]

-----------------------------------------------------------------------------
(* Any address that is free: nothing depends on which.                     *)
Malloc ==
  /\ ByPointer /\ pc = "accept" /\ iptr = Null /\ Cells \ DOMAIN cell # {}
  /\ LET a == CHOOSE a \in Cells \ DOMAIN cell : TRUE
     IN  /\ cell' = [b \in DOMAIN cell \cup {a} |-> IF b = a THEN Unset ELSE cell[b]]
         /\ iptr' = a
  /\ UNCHANGED <<pc, connfd, sessionVars, arg>>

(* accept is not checked.  tcpserv02 stores its result in the cell.        *)
ThreadAccept ==
  /\ pc = "accept" /\ (ByPointer => iptr # Null)
  /\ Accept("create") \/ AcceptFails("create")
  /\ cell' = IF ByPointer THEN [cell EXCEPT ![iptr] = connfd'] ELSE cell
  /\ UNCHANGED <<iptr, arg>>

(* pthread_create, which fails when there are too many threads; main       *)
(* cannot tell and never closes the connection then.                       *)
Create ==
  /\ pc = "create"
  /\ IF FreeSlots # {}
       THEN LET w == CHOOSE w \in FreeSlots : TRUE
            IN  /\ worker' = [worker EXCEPT ![w] = Worker("born", NoConn)]
                /\ arg' = [arg EXCEPT ![w] = IF ByPointer THEN iptr ELSE connfd]
                /\ UNCHANGED refused
       ELSE /\ refused' = refused \cup ({connfd} \ {NoConn})
            /\ UNCHANGED <<worker, arg>>
  /\ iptr' = Null
  /\ pc' = "accept"
  /\ UNCHANGED <<connfd, conn, backlog, failures, cell>>

-----------------------------------------------------------------------------
(* The descriptor a new thread is to find.                                 *)
MutPendingByAddress(w) == IF ByPointer THEN cell[arg[w]] ELSE connfd    \* &connfd

Pending(w) == IF ByPointer THEN cell[arg[w]] ELSE arg[w]

(* doit(): reads its argument, frees the cell, detaches itself.            *)
Start(w) ==
  /\ worker[w].st = "born"
  /\ worker' = [worker EXCEPT ![w] = Worker("reading", Pending(w))]
  /\ cell' = [b \in DOMAIN cell \ {arg[w]} |-> cell[b]]
  /\ arg' = [arg EXCEPT ![w] = Null]
  /\ UNCHANGED <<pc, connfd, conn, backlog, failures, refused, iptr>>

(* Closes the connection; being detached the thread leaves nothing.        *)
Finish(w) ==
  /\ EchoReturns(w)
  /\ conn' = Closed(worker[w].fd, FALSE)
  /\ worker' = [worker EXCEPT ![w] = Free]
  /\ UNCHANGED <<pc, connfd, backlog, failures, refused, threadVars>>

(* SIGPIPE kills the process: every thread of it, every connection.        *)
Killed(w) ==
  /\ Sigpipe(w)
  /\ pc' = "killed" /\ connfd' = NoConn
  /\ worker' = [v \in Workers |-> Free]
  /\ conn' = [c \in Clients |-> IF conn[c].st = "open" /\ c \notin Waiting
                                  THEN [conn[c] EXCEPT !.st = "closed"] ELSE conn[c]]
  /\ UNCHANGED <<backlog, failures, refused, threadVars>>

Thread(w) == \/ Start(w)
             \/ (EchoRead(w) \/ EchoWrite(w)) /\ UNCHANGED threadVars
             \/ Finish(w) \/ Killed(w)

ThreadMain == Malloc \/ ThreadAccept \/ Create
=============================================================================

----------------------------- MODULE EchoServers -----------------------------
(***************************************************************************)
(* The servers with a process or a thread per connection, one of which is  *)
(* looked at in each behaviour, and what is expected of all of them.       *)
(***************************************************************************)
EXTENDS ForkServers, ThreadServers

CONSTANT Deployments     \* pairs of a server and the workers the system allows it

ASSUME DeploymentsAssumption ==
  \A d \in Deployments : d[2] \subseteq Workers

ForkVariants == {"tcpserv01", "tcpserv04", "unixstrserv01", "udpservselect01"}
Forks == variant \in ForkVariants

vars == <<sharedVars, forkVars, threadVars>>

ServersInit ==
  /\ \E d \in Deployments : variant = d[1] /\ limit = d[2]
  /\ Init /\ ForkInit /\ ThreadInit
  /\ pc = IF Forks THEN Top ELSE "accept"

ForkStep(A) == Forks /\ A /\ UNCHANGED <<variant, limit, threadVars>>
ThreadStep(A) == ~Forks /\ A /\ UNCHANGED <<variant, limit, forkVars>>

Main == ForkStep(ForkMain) \/ ThreadStep(ThreadMain)
Signal == ForkStep(ForkSignal)
Work(w) == ForkStep(Child(w)) \/ ThreadStep(Thread(w))
Environment == (Peer /\ UNCHANGED <<forkVars, threadVars>>)
               \/ (Datagram /\ UNCHANGED threadVars)
Kernel == ResetQueue /\ UNCHANGED <<forkVars, threadVars>>

Next == Main \/ Signal \/ (\E w \in Workers : Work(w)) \/ Environment \/ Kernel

(* Every process and thread runs, and signals are delivered.               *)
Spec == ServersInit /\ [][Next]_vars
        /\ WF_vars(Main) /\ WF_vars(Signal) /\ WF_vars(Kernel)
        /\ \A w \in Workers : WF_vars(Work(w))
-----------------------------------------------------------------------------
(* A connection is one worker's business: two workers never read the same  *)
(* connection, none reads one that is closed or still in the queue, and    *)
(* main has at most the one it is handing over.  (The value in the cell    *)
(* of tcpserv02 is not overwritten before its thread has read it.)         *)
OneServer ==
  \A c \in Clients :
    /\ \A v, w \in Workers : Serves(v, c) /\ Serves(w, c) => v = w
    /\ Held(c) => conn[c].st = "open" /\ c \notin Waiting

(* What one client does costs another nothing: whoever sees the end of     *)
(* its connection, having reset nothing, has every line back or on its     *)
(* way, unless fork failed for it, or a thread was killed by SIGPIPE, and  *)
(* that only if somebody's connection was reset: then all end.             *)
Isolated ==
  \A c \in Clients :
    conn[c].st = "closed" /\ ~conn[c].rst =>
      \/ conn[c].eof /\ conn[c].back = conn[c].sent
      \/ c \in refused
      \/ pc = "killed" /\ ~Forks /\ \E d \in Clients : conn[d].rst

(* The slot of a child that is dead comes back: while there is a zombie,   *)
(* the handler is at work or about to be, although one SIGCHLD may stand   *)
(* for several children.  tcpserv01 keeps its zombies; a thread, which     *)
(* detaches itself, leaves none.                                           *)
SlotsComeBack ==
  Zombies # {} => \/ variant = "tcpserv01" \/ pc = "stopped"
                  \/ Forks /\ (chld \/ sig # "no")

(* A client that ends its data sees its session end, whatever the others   *)
(* do, or do not read.  What it must not do is leave its own worker in     *)
(* write() for ever; and the connection that pthread_create had no thread  *)
(* for stays open: main neither notices nor closes it.                     *)
EverySessionEnds ==
  \A c \in Clients :
    \/ <>[]Blocked(c)
    \/ (conn[c].st = "open" /\ conn[c].eof) ~>
         (conn[c].st = "closed" \/ conn[c].rst \/ (~Forks /\ c \in refused))

(* udpservselect01 answers every datagram, unless a connection was reset   *)
(* between select and accept and accept blocks.                            *)
DatagramsAnswered ==
  (datagrams > 0) ~> (datagrams = 0
                      \/ (BlockedInAccept /\ \E c \in Clients : conn[c].rst))
=============================================================================

------------------------------- MODULE DgEcho -------------------------------
(***************************************************************************)
(* sigio/dgecho01.c: a UDP echo server that reads datagrams in its SIGIO   *)
(* handler, queues them in the ring dg[QSIZE], and answers them from its   *)
(* main loop.                                                              *)
(*                                                                         *)
(* main loop (pc)    async -> nbio -> block -> check -> suspend -> wait    *)
(*                   wait -> check, when a handler has returned             *)
(*                   check -> unmask -> send -> advance -> mask -> dequeue *)
(* handler (inIO)    one iteration of its for(;;) per step                 *)
(*                                                                         *)
(* The process has one thread: a step of the main loop is taken only when  *)
(* no handler is running, and the handler runs to its return.  A signal    *)
(* mask is the Boolean "SIGIO is in the mask".  A datagram is its arrival  *)
(* number; the buffer, address and length of a slot travel together.       *)
(***************************************************************************)
EXTENDS Integers, Sequences

CONSTANTS QSIZE,         \* slots of dg[]
          RcvCap,        \* datagrams the kernel keeps in the receive buffer
          MaxArrivals,   \* bound: datagrams that reach the host
          MaxErrors      \* bound: recvfrom errors other than EWOULDBLOCK

ASSUME QSizeAssumption == QSIZE \in Nat \ {0}
ASSUME BoundsAssumption == RcvCap \in Nat /\ MaxArrivals \in Nat /\ MaxErrors \in Nat

(* The entry queued when recvfrom fails: dg_len is (size_t)-1, so the      *)
(* later sendto cannot send it.  err_sys is the macro of unp.h, which      *)
(* prints and goes on.                                                     *)
Bad == 0
Datagram == 0 .. MaxArrivals

VARIABLES pc, inIO,             \* control of main loop; handler is running
          blocked, oldmask,     \* SIGIO in the process mask; in oldmask
          async, nonblock,      \* FIOASYNC and FIONBIO set on the socket
          pending,              \* SIGIO generated and not delivered
          sock,                 \* the socket's receive buffer
          dg, iget, iput, nqueue, nread, cntread,
          arrived, errors,      \* counters of the two bounds
          early,                \* history: arrivals before FIOASYNC
          rcvd, echoed          \* history: datagrams read, given to sendto

mainVars == <<pc, blocked, oldmask, async, nonblock>>
ringVars == <<dg, iget, iput, nqueue>>
diagVars == <<nread, cntread>>
netVars  == <<pending, sock, arrived, early>>
histVars == <<rcvd, echoed>>
vars == <<mainVars, inIO, ringVars, diagVars, netVars, errors, histVars>>

Slots == 0 .. QSIZE - 1

(* "if(++i >= QSIZE) i = 0"                                                *)
Advance(i) == IF i + 1 >= QSIZE THEN 0 ELSE i + 1

Init ==
  /\ pc = "async" /\ inIO = FALSE
  /\ blocked = FALSE /\ oldmask = FALSE
  /\ async = FALSE /\ nonblock = FALSE
  /\ pending = FALSE /\ sock = <<>>
  /\ dg = [s \in Slots |-> Bad]
  /\ iget = 0 /\ iput = 0 /\ nqueue = 0
  /\ nread = 0 /\ cntread = [n \in 0 .. QSIZE |-> 0]
  /\ arrived = 0 /\ errors = 0 /\ early = 0
  /\ rcvd = <<>> /\ echoed = <<>>

-----------------------------------------------------------------------------
(* The kernel: a datagram arrives, is dropped when the receive buffer is   *)
(* full, and raises SIGIO once the socket is in asynchronous mode.         *)
Arrive ==
  /\ arrived < MaxArrivals
  /\ arrived' = arrived + 1
  /\ early' = IF async THEN early ELSE arrived + 1
  /\ IF Len(sock) < RcvCap
       THEN /\ sock' = Append(sock, arrived + 1)
            /\ pending' = (pending \/ async)
       ELSE UNCHANGED <<sock, pending>>
  /\ UNCHANGED <<mainVars, inIO, ringVars, diagVars, errors, histVars>>

(* SIGIO is delivered when the mask lets it through; sigsuspend waits with *)
(* the empty mask.  The handler starts with nread = 0, and SIGIO is        *)
(* blocked while it runs.                                                  *)
Deliver ==
  /\ pending /\ ~inIO /\ pc # "exit"
  /\ pc = "wait" \/ ~blocked
  /\ pending' = FALSE
  /\ inIO' = TRUE
  /\ nread' = 0
  /\ UNCHANGED <<mainVars, ringVars, cntread, sock, arrived, early, errors, histVars>>

(* SIGHUP prints the histogram and, like any signal, ends sigsuspend.  If  *)
(* SIGIO is pending too, both handlers run first: that is Deliver.         *)
HangUp ==
  /\ pc = "wait" /\ ~pending /\ ~inIO
  /\ pc' = "check"
  /\ UNCHANGED <<blocked, oldmask, async, nonblock, inIO, ringVars, diagVars,
                 netVars, errors, histVars>>

-----------------------------------------------------------------------------
(* The SIGIO handler.  Every iteration first tests for a full queue.       *)
Overflow ==
  /\ inIO /\ nqueue >= QSIZE
  /\ pc' = "exit" /\ inIO' = FALSE           \* err_quit("receive overflow")
  /\ UNCHANGED <<blocked, oldmask, async, nonblock, ringVars, diagVars,
                 netVars, errors, histVars>>

Enqueue(d) ==
  /\ dg' = [dg EXCEPT ![iput] = d]
  /\ rcvd' = Append(rcvd, d)
  /\ nread' = nread + 1
  /\ nqueue' = nqueue + 1
  /\ iput' = Advance(iput)
  /\ UNCHANGED <<mainVars, inIO, iget, cntread, pending, arrived, early, echoed>>

MutReadOneFullQueue ==               \* line 83 with > in place of >=
  /\ inIO /\ nqueue <= QSIZE
  /\ sock # <<>>
  /\ sock' = Tail(sock)
  /\ Enqueue(Head(sock))
  /\ UNCHANGED errors

ReadOne ==
  /\ inIO /\ nqueue < QSIZE
  /\ sock # <<>>
  /\ sock' = Tail(sock)
  /\ Enqueue(Head(sock))
  /\ UNCHANGED errors

ReadError ==
  /\ inIO /\ nqueue < QSIZE
  /\ errors < MaxErrors
  /\ errors' = errors + 1
  /\ Enqueue(Bad)
  /\ UNCHANGED sock

MutHandlerReturn(ended) ==
  /\ inIO /\ ended
  /\ cntread' = [cntread EXCEPT ![nread] = @ + 1]
  /\ inIO' = FALSE
  /\ pc' = IF pc = "wait" THEN "check" ELSE pc
  /\ UNCHANGED <<blocked, oldmask, async, nonblock, ringVars, nread, netVars,
                 errors, histVars>>
MutHandlerReturnFirst == MutHandlerReturn(sock = <<>> /\ nonblock)  \* line 83 after 88
MutHandlerReturnAfterOne == MutHandlerReturn(nread = 1)            \* no for(;;)

(* EWOULDBLOCK ends the handler; a socket still in blocking mode would     *)
(* keep it inside recvfrom.  A handler that ran in sigsuspend ends it.     *)
HandlerReturn ==
  /\ inIO /\ nqueue < QSIZE
  /\ sock = <<>> /\ nonblock
  /\ cntread' = [cntread EXCEPT ![nread] = @ + 1]
  /\ inIO' = FALSE
  /\ pc' = IF pc = "wait" THEN "check" ELSE pc
  /\ UNCHANGED <<blocked, oldmask, async, nonblock, ringVars, nread, netVars,
                 errors, histVars>>

-----------------------------------------------------------------------------
(* The main loop, one system call or assignment per step.                  *)
Goto(from, to) == /\ pc = from /\ ~inIO
                  /\ pc' = to

SetAsync ==
  /\ Goto("async", "nbio")
  /\ async' = TRUE
  /\ UNCHANGED <<blocked, oldmask, nonblock, inIO, ringVars, diagVars, netVars,
                 errors, histVars>>

SetNonblock ==
  /\ Goto("nbio", "block")
  /\ nonblock' = TRUE
  /\ UNCHANGED <<blocked, oldmask, async, inIO, ringVars, diagVars, netVars,
                 errors, histVars>>

MutBlockSigioForgotten(from, to) ==  \* nothing is masked before the test
  /\ Goto(from, to)
  /\ UNCHANGED <<blocked, oldmask, async, nonblock, inIO, ringVars, diagVars,
                 netVars, errors, histVars>>

(* sigprocmask(SIG_BLOCK, &newmask, &oldmask)                              *)
BlockSigio(from, to) ==
  /\ Goto(from, to)
  /\ oldmask' = blocked
  /\ blocked' = TRUE
  /\ UNCHANGED <<async, nonblock, inIO, ringVars, diagVars, netVars, errors,
                 histVars>>

Check ==
  /\ Goto("check", IF nqueue = 0 THEN "suspend" ELSE "unmask")
  /\ UNCHANGED <<blocked, oldmask, async, nonblock, inIO, ringVars, diagVars,
                 netVars, errors, histVars>>

(* sigsuspend swaps the mask and sleeps in one step.                       *)
Suspend ==
  /\ Goto("suspend", "wait")
  /\ UNCHANGED <<blocked, oldmask, async, nonblock, inIO, ringVars, diagVars,
                 netVars, errors, histVars>>

(* sigprocmask(SIG_BLOCK, &oldmask, NULL) adds oldmask to the mask.        *)
UnmaskSigio ==
  /\ Goto("unmask", "send")
  /\ blocked' = (blocked \/ oldmask)
  /\ UNCHANGED <<oldmask, async, nonblock, inIO, ringVars, diagVars, netVars,
                 errors, histVars>>

MutSendAfterAdvance ==               \* sends dg[++iget]
  /\ Goto("send", "advance")
  /\ echoed' = Append(echoed, dg[Advance(iget)])
  /\ UNCHANGED <<blocked, oldmask, async, nonblock, inIO, ringVars, diagVars,
                 netVars, errors, rcvd>>

Send ==
  /\ Goto("send", "advance")
  /\ echoed' = Append(echoed, dg[iget])
  /\ UNCHANGED <<blocked, oldmask, async, nonblock, inIO, ringVars, diagVars,
                 netVars, errors, rcvd>>

AdvanceGet ==
  /\ Goto("advance", "mask")
  /\ iget' = Advance(iget)
  /\ UNCHANGED <<blocked, oldmask, async, nonblock, inIO, dg, iput, nqueue,
                 diagVars, netVars, errors, histVars>>

Dequeue ==
  /\ Goto("dequeue", "check")
  /\ nqueue' = nqueue - 1
  /\ UNCHANGED <<blocked, oldmask, async, nonblock, inIO, dg, iget, iput,
                 diagVars, netVars, errors, histVars>>

Startup == SetAsync \/ SetNonblock \/ BlockSigio("block", "check")
MainLoop == Check \/ Suspend \/ UnmaskSigio \/ Send \/ AdvanceGet
            \/ BlockSigio("mask", "dequeue") \/ Dequeue
Handler == Overflow \/ ReadOne \/ ReadError \/ HandlerReturn

Next == Arrive \/ Deliver \/ HangUp \/ Startup \/ MainLoop \/ Handler

(* The scheduler runs the process, and the kernel delivers an unblocked    *)
(* pending signal.  Nothing makes datagrams, errors or SIGHUPs happen.     *)
Fairness == /\ WF_vars(Startup \/ MainLoop)
            /\ WF_vars(Overflow \/ ReadOne \/ HandlerReturn)
            /\ WF_vars(Deliver)

Spec == Init /\ [][Next]_vars
FairSpec == Spec /\ Fairness

-----------------------------------------------------------------------------
Pcs == {"async", "nbio", "block", "check", "suspend", "wait", "unmask", "send",
        "advance", "mask", "dequeue", "exit"}

(* Every variable has its type; the two indices stay inside dg[] and the   *)
(* index of line 105 stays inside cntread[].                               *)
TypeOK ==
  /\ pc \in Pcs
  /\ inIO \in BOOLEAN /\ blocked \in BOOLEAN /\ oldmask \in BOOLEAN
  /\ async \in BOOLEAN /\ nonblock \in BOOLEAN /\ pending \in BOOLEAN
  /\ sock \in Seq(1 .. MaxArrivals)
  /\ dg \in [Slots -> Datagram]
  /\ iget \in Slots /\ iput \in Slots
  /\ nqueue \in 0 .. QSIZE /\ nread \in 0 .. QSIZE
  /\ cntread \in [0 .. QSIZE -> Nat]
  /\ arrived \in 0 .. MaxArrivals /\ errors \in 0 .. MaxErrors
  /\ early \in 0 .. MaxArrivals
  /\ rcvd \in Seq(Datagram) /\ echoed \in Seq(Datagram)

(* The oldest unanswered entry, the number of unanswered entries, and the  *)
(* slot k places after i: between sendto (line 64) and nqueue-- (line 71)  *)
(* the answered entry is still counted by nqueue, and until line 66 iget   *)
(* still points at it.                                                     *)
Base == IF pc = "advance" THEN Advance(iget) ELSE iget
QueuedLen == IF pc \in {"advance", "mask", "dequeue"} THEN nqueue - 1 ELSE nqueue
Slot(i, k) == IF i + k >= QSIZE THEN i + k - QSIZE ELSE i + k

(* The ring and the counter agree, whatever the interleaving of handler    *)
(* and main loop: the handler never overwrites a datagram that is not      *)
(* answered (line 88), and the slots from iget on hold exactly the         *)
(* datagrams that were read and not answered, oldest first.                *)
RingInv ==
  /\ QueuedLen >= 0
  /\ iput = Slot(Base, QueuedLen)
  /\ Len(rcvd) = Len(echoed) + QueuedLen
  /\ \A k \in 0 .. QSIZE - 1 :
       k < QueuedLen => dg[Slot(Base, k)] = rcvd[Len(echoed) + k + 1]

(* A handler that is running has queued every datagram it counted, so the  *)
(* test of line 83 stops it before nread can reach QSIZE: the last bucket  *)
(* of cntread[QSIZE+1], which sig_hup prints, is never used.               *)
LastBucketUnused ==
  /\ inIO => nread <= nqueue
  /\ cntread[QSIZE] = 0

(* SIGIO is a flag, not a count: several datagrams may raise one signal.   *)
(* Because the handler reads until EWOULDBLOCK no datagram is stranded:    *)
(* one that arrived in asynchronous mode is in the socket only while a     *)
(* signal is pending or the handler runs.                                  *)
NoLostWakeup ==
  ~pending /\ ~inIO /\ pc # "exit" => \A i \in 1 .. Len(sock) : sock[i] <= early

(* The queue is FIFO and loses nothing: with indices, masks and signals    *)
(* hidden the server reads and answers datagrams as FifoEcho says.         *)
Fifo == INSTANCE FifoEcho WITH stopped <- (pc = "exit")
ImplementsFifo == Fifo!Spec

(* Every datagram that the kernel accepted in asynchronous mode is given   *)
(* to sendto unless the server stops with "receive overflow".  It is       *)
(* conditional on the handler not having been entered between lines 47 and *)
(* 48, where it would sit in a blocking recvfrom.                          *)
Queued(d) == d > early /\ \E i \in 1 .. Len(sock) : sock[i] = d
Echoed(d) == \E i \in 1 .. Len(echoed) : echoed[i] = d
EventuallyEchoed ==
  [](inIO => nonblock) =>
    \A d \in 1 .. MaxArrivals : Queued(d) ~> (Echoed(d) \/ pc = "exit")

(* The comment of line 62, "unblock sigio": SIGIO is let through while     *)
(* the datagram is being sent.  (It is not: line 63 says SIG_BLOCK.)       *)
SigioOpenWhileSending == pc = "send" => ~blocked
=============================================================================

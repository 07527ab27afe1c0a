---------------------------- MODULE DgEchoProofs ----------------------------
(***************************************************************************)
(* The ring of sigio/dgecho01.c is safe for every QSIZE, every receive     *)
(* buffer and every number of datagrams and errors, and the server         *)
(* implements the FIFO echo of FifoEcho.                                   *)
(***************************************************************************)
EXTENDS DgEcho, TLAPS

USE QSizeAssumption, BoundsAssumption

(* The handler runs only where the mask is open: before line 55 and inside *)
(* sigsuspend.  (Line 63 opens nothing, see SigioOpenWhileSending.)        *)
HandlerWindow ==
  /\ inIO => pc \in {"nbio", "block", "wait"}
  /\ pc \in {"check", "suspend", "wait", "unmask", "send", "advance", "mask",
             "dequeue"} => blocked
  /\ pending => async
  /\ pc = "async" => ~async

(* The main loop takes an entry only when there is one (line 59).          *)
SomethingToSend == pc \in {"unmask", "send"} => nqueue > 0

(* A datagram that arrived before FIOASYNC is one of the early ones.       *)
Numbering ==
  /\ \A i \in 1 .. Len(sock) : sock[i] <= arrived
  /\ ~async => early = arrived

IInv == /\ TypeOK
        /\ HandlerWindow
        /\ SomethingToSend
        /\ RingInv
        /\ LastBucketUnused

-----------------------------------------------------------------------------
(* Walking the ring: at most QSIZE consecutive slots are distinct.         *)
LEMMA SlotFacts ==
  ASSUME NEW i \in Slots, NEW k \in 0 .. QSIZE - 1
  PROVE  /\ Slot(i, k) \in Slots
         /\ Slot(i, 0) = i
         /\ Advance(i) \in Slots
         /\ Advance(Slot(i, k)) = Slot(i, k + 1)
         /\ Slot(Advance(i), k) = Slot(i, k + 1)
         /\ \A j \in 0 .. QSIZE - 1 : j # k => Slot(i, j) # Slot(i, k)
  BY DEF Slots, Slot, Advance

LEMMA InitIInv == Init => IInv
  <1> SUFFICES ASSUME Init PROVE IInv
    OBVIOUS
  <1>1. TypeOK
    BY DEF Init, TypeOK, Pcs, Slots, Datagram, Bad
  <1>2. HandlerWindow /\ SomethingToSend /\ LastBucketUnused
    BY DEF Init, HandlerWindow, SomethingToSend, LastBucketUnused
  <1>3. RingInv
    BY DEF Init, RingInv, Base, QueuedLen, Slot, Slots
  <1> QED
    BY <1>1, <1>2, <1>3 DEF IInv

(* Appending leaves the elements already there as they are.                *)
LEMMA AppendOld ==
  ASSUME NEW S, NEW s \in Seq(S), NEW e \in S, NEW j \in 1 .. Len(s)
  PROVE  Append(s, e)[j] = s[j]
  OBVIOUS

(* Both ways to queue an entry.                                            *)
LEMMA EnqueueStep ==
  ASSUME IInv, inIO, nqueue < QSIZE,
         NEW d \in Datagram, Enqueue(d),
         sock' \in Seq(1 .. MaxArrivals), errors' \in 0 .. MaxErrors
  PROVE  IInv'
  <1>1. /\ Base = iget /\ QueuedLen = nqueue
        /\ Base' = iget /\ QueuedLen' = nqueue + 1
    BY DEF IInv, HandlerWindow, Base, QueuedLen, Enqueue, mainVars
  <1>2. nqueue \in 0 .. QSIZE - 1 /\ iget \in Slots /\ iput \in Slots
        /\ nread <= nqueue
    BY DEF IInv, TypeOK, LastBucketUnused
  <1>3. TypeOK'
    <2>1. iput' \in Slots
      BY <1>2, SlotFacts DEF Enqueue
    <2>2. rcvd' \in Seq(Datagram) /\ echoed' \in Seq(Datagram)
      BY DEF IInv, TypeOK, Enqueue
    <2>3. dg' \in [Slots -> Datagram]
      BY DEF IInv, TypeOK, Enqueue
    <2> QED
      BY <1>2, <2>1, <2>2, <2>3 DEF IInv, TypeOK, Enqueue, mainVars
  <1>4. RingInv'
    <2>1. iput' = Slot(iget, nqueue + 1)
      BY <1>1, <1>2, SlotFacts DEF IInv, RingInv, Enqueue
    <2>2. Len(rcvd') = Len(rcvd) + 1 /\ Len(echoed) \in Nat /\ Len(rcvd) \in Nat
          /\ Len(rcvd) = Len(echoed) + nqueue
      <3>1. rcvd \in Seq(Datagram) /\ echoed \in Seq(Datagram)
        BY DEF IInv, TypeOK
      <3>2. rcvd' = Append(rcvd, d)
        BY DEF Enqueue
      <3>3. Len(rcvd) = Len(echoed) + nqueue
        BY <1>1 DEF IInv, RingInv
      <3> QED
        BY <3>1, <3>2, <3>3
    <2>3. ASSUME NEW k \in 0 .. QSIZE - 1, k < nqueue + 1
          PROVE  dg'[Slot(iget, k)] = rcvd'[Len(echoed) + k + 1]
      <3>1. CASE k = nqueue
        <4>1. Slot(iget, k) = iput /\ Slot(iget, k) \in Slots
          BY <3>1, <1>1, <1>2 DEF IInv, RingInv, TypeOK
        <4>2. rcvd'[Len(echoed) + k + 1] = d
          BY <3>1, <2>2 DEF IInv, TypeOK, Enqueue
        <4> QED
          BY <4>1, <4>2 DEF IInv, TypeOK, Enqueue
      <3>2. CASE k < nqueue
        <4>1. Slot(iget, k) # iput /\ Slot(iget, k) \in Slots
          <5>1. iput = Slot(iget, nqueue)
            BY <1>1 DEF IInv, RingInv
          <5>2. k # nqueue
            BY <3>2, <1>2
          <5> QED
            BY <5>1, <5>2, <1>2, SlotFacts
        <4>2. rcvd'[Len(echoed) + k + 1] = rcvd[Len(echoed) + k + 1]
          <5>1. rcvd \in Seq(Datagram) /\ rcvd' = Append(rcvd, d)
            BY DEF IInv, TypeOK, Enqueue
          <5>2. Len(echoed) + k + 1 \in 1 .. Len(rcvd)
            BY <3>2, <2>2, <1>2
          <5> QED
            BY ONLY <5>1, <5>2, AppendOld, d \in Datagram
        <4> QED
          BY <3>2, <1>1, <4>1, <4>2 DEF IInv, TypeOK, RingInv, Enqueue
      <3> QED
        BY <3>1, <3>2, <2>3, <1>2
    <2>4. UNCHANGED <<iget, echoed>>
      BY DEF Enqueue
    <2> QED
      BY <1>1, <1>2, <2>1, <2>2, <2>3, <2>4 DEF RingInv
  <1>5. HandlerWindow' /\ SomethingToSend' /\ LastBucketUnused'
    BY <1>2 DEF IInv, TypeOK, HandlerWindow, SomethingToSend, LastBucketUnused,
                Enqueue, mainVars
  <1> QED
    BY <1>3, <1>4, <1>5 DEF IInv

LEMMA HandlerStep == IInv /\ Handler => IInv'
  <1> SUFFICES ASSUME IInv, Handler PROVE IInv'
    OBVIOUS
  <1> USE DEF IInv
  <1>1. CASE Overflow
    <2>1. TypeOK' /\ HandlerWindow' /\ SomethingToSend' /\ LastBucketUnused'
      BY <1>1 DEF Overflow, TypeOK, Pcs, HandlerWindow, SomethingToSend,
                  LastBucketUnused, ringVars, diagVars, netVars, histVars
    <2>2. RingInv'
      BY <1>1 DEF Overflow, HandlerWindow, RingInv, Base, QueuedLen, ringVars, histVars
    <2> QED
      BY <2>1, <2>2
  <1>2. CASE ReadOne
    <2>1. /\ inIO /\ nqueue < QSIZE
          /\ sock \in Seq(1 .. MaxArrivals) /\ sock # <<>> /\ sock' = Tail(sock)
          /\ Enqueue(Head(sock))
          /\ errors' \in 0 .. MaxErrors
      BY <1>2 DEF ReadOne, TypeOK
    <2>2. Head(sock) \in Datagram /\ sock' \in Seq(1 .. MaxArrivals)
      BY <2>1 DEF Datagram
    <2> QED
      BY <2>1, <2>2, EnqueueStep
  <1>3. CASE ReadError
    <2>1. inIO /\ nqueue < QSIZE /\ Enqueue(Bad) /\ Bad \in Datagram
      BY <1>3 DEF ReadError, Datagram, Bad
    <2>2. sock' \in Seq(1 .. MaxArrivals) /\ errors' \in 0 .. MaxErrors
      BY <1>3 DEF ReadError, TypeOK
    <2> QED
      BY <2>1, <2>2, EnqueueStep
  <1>4. CASE HandlerReturn
    <2>1. nread \in 0 .. QSIZE - 1
      BY <1>4 DEF HandlerReturn, TypeOK, LastBucketUnused
    <2>2. TypeOK'
      <3>1. cntread' \in [0 .. QSIZE -> Nat]
        BY <1>4, <2>1 DEF HandlerReturn, TypeOK
      <3>2. pc' \in Pcs
        BY <1>4 DEF HandlerReturn, TypeOK, Pcs
      <3> QED
        BY <1>4, <3>1, <3>2 DEF HandlerReturn, TypeOK, ringVars, netVars, histVars
    <2>3. LastBucketUnused'
      BY <1>4, <2>1 DEF HandlerReturn, LastBucketUnused, TypeOK
    <2>4. HandlerWindow' /\ SomethingToSend'
      BY <1>4 DEF HandlerReturn, HandlerWindow, SomethingToSend, ringVars, netVars
    <2>5. RingInv'
      BY <1>4 DEF HandlerReturn, HandlerWindow, RingInv, Base, QueuedLen, ringVars, histVars
    <2> QED
      BY <2>2, <2>3, <2>4, <2>5
  <1> QED
    BY <1>1, <1>2, <1>3, <1>4 DEF Handler

(* Every step of the main loop but two leaves the ring and its view alone. *)
LEMMA MainStep == IInv /\ (Startup \/ MainLoop) => IInv'
  <1> SUFFICES ASSUME IInv, Startup \/ MainLoop PROVE IInv'
    OBVIOUS
  <1> USE DEF IInv, Goto
  <1> DEFINE Other == /\ HandlerWindow' /\ SomethingToSend' /\ LastBucketUnused'
  <1>1. CASE SetAsync
    BY <1>1 DEF SetAsync, TypeOK, Pcs, HandlerWindow, SomethingToSend, LastBucketUnused,
                RingInv, Base, QueuedLen, ringVars, diagVars, netVars, histVars
  <1>2. CASE SetNonblock
    BY <1>2 DEF SetNonblock, TypeOK, Pcs, HandlerWindow, SomethingToSend, LastBucketUnused,
                RingInv, Base, QueuedLen, ringVars, diagVars, netVars, histVars
  <1>3. CASE BlockSigio("block", "check")
    BY <1>3 DEF BlockSigio, TypeOK, Pcs, HandlerWindow, SomethingToSend, LastBucketUnused,
                RingInv, Base, QueuedLen, ringVars, diagVars, netVars, histVars
  <1>4. CASE Check
    <2>1. TypeOK'
      BY <1>4 DEF Check, TypeOK, Pcs, ringVars, diagVars, netVars, histVars
    <2>2. Other
      BY <1>4 DEF Check, TypeOK, HandlerWindow, SomethingToSend, LastBucketUnused,
                  ringVars, diagVars, netVars
    <2>3. RingInv'
      BY <1>4 DEF Check, RingInv, Base, QueuedLen, ringVars, histVars
    <2> QED
      BY <2>1, <2>2, <2>3
  <1>5. CASE Suspend
    BY <1>5 DEF Suspend, TypeOK, Pcs, HandlerWindow, SomethingToSend, LastBucketUnused,
                RingInv, Base, QueuedLen, ringVars, diagVars, netVars, histVars
  <1>6. CASE UnmaskSigio
    BY <1>6 DEF UnmaskSigio, TypeOK, Pcs, HandlerWindow, SomethingToSend, LastBucketUnused,
                RingInv, Base, QueuedLen, ringVars, diagVars, netVars, histVars
  <1>7. CASE Send
    <2>1. iget \in Slots /\ nqueue \in 1 .. QSIZE /\ dg[iget] \in Datagram
      BY <1>7 DEF Send, TypeOK, SomethingToSend
    <2>2. TypeOK'
      BY <1>7, <2>1 DEF Send, TypeOK, Pcs, ringVars, diagVars, netVars
    <2>3. Other
      BY <1>7 DEF Send, HandlerWindow, SomethingToSend, LastBucketUnused,
                  ringVars, diagVars, netVars
    <2>4. /\ Base = iget /\ QueuedLen = nqueue
          /\ Base' = Advance(iget) /\ QueuedLen' = nqueue - 1
          /\ Len(echoed') = Len(echoed) + 1
          /\ Len(echoed) \in Nat
          /\ Advance(iget) \in Slots
      BY <1>7, <2>1, SlotFacts DEF Send, TypeOK, Base, QueuedLen, ringVars
    <2>5. \A k \in 0 .. QSIZE - 1 : Slot(Advance(iget), k) = Slot(iget, k + 1)
      BY <2>1, SlotFacts
    <2>6. iput' = Slot(Base', QueuedLen')
      BY <1>7, <2>1, <2>4, <2>5 DEF Send, RingInv, ringVars
    <2>7. ASSUME NEW k \in 0 .. QSIZE - 1, k < nqueue - 1
          PROVE  dg[Slot(Advance(iget), k)] = rcvd[Len(echoed) + 1 + k + 1]
      <3>1. k + 1 \in 0 .. QSIZE - 1 /\ k + 1 < nqueue
        BY <2>1, <2>7
      <3>2. dg[Slot(iget, k + 1)] = rcvd[Len(echoed) + (k + 1) + 1]
        BY <2>4, <3>1 DEF RingInv
      <3> QED
        BY <2>4, <2>5, <3>2
    <2>8. RingInv'
      BY <1>7, <2>1, <2>4, <2>6, <2>7 DEF Send, RingInv, ringVars
    <2> QED
      BY <2>2, <2>3, <2>8
  <1>8. CASE AdvanceGet
    <2>1. TypeOK'
      BY <1>8, SlotFacts DEF AdvanceGet, TypeOK, Pcs, diagVars, netVars, histVars
    <2>2. Other
      BY <1>8 DEF AdvanceGet, HandlerWindow, SomethingToSend, LastBucketUnused,
                  diagVars, netVars
    <2>3. RingInv'
      BY <1>8 DEF AdvanceGet, RingInv, Base, QueuedLen, histVars
    <2> QED
      BY <2>1, <2>2, <2>3
  <1>9. CASE BlockSigio("mask", "dequeue")
    BY <1>9 DEF BlockSigio, TypeOK, Pcs, HandlerWindow, SomethingToSend, LastBucketUnused,
                RingInv, Base, QueuedLen, ringVars, diagVars, netVars, histVars
  <1>10. CASE Dequeue
    <2>1. nqueue \in 1 .. QSIZE
      BY <1>10 DEF Dequeue, TypeOK, RingInv, QueuedLen
    <2>2. TypeOK' /\ Other
      BY <1>10, <2>1 DEF Dequeue, TypeOK, Pcs, HandlerWindow, SomethingToSend,
                         LastBucketUnused, diagVars, netVars, histVars
    <2>3. RingInv'
      BY <1>10 DEF Dequeue, RingInv, Base, QueuedLen, histVars
    <2> QED
      BY <2>2, <2>3
  <1> QED
    BY <1>1, <1>2, <1>3, <1>4, <1>5, <1>6, <1>7, <1>8, <1>9, <1>10
       DEF Startup, MainLoop

LEMMA NextIInv == IInv /\ [Next]_vars => IInv'
  <1> SUFFICES ASSUME IInv, [Next]_vars PROVE IInv'
    OBVIOUS
  <1> USE DEF IInv
  <1>1. CASE Arrive
    <2>1. sock' \in Seq(1 .. MaxArrivals) /\ pending' \in BOOLEAN
          /\ arrived' \in 0 .. MaxArrivals /\ early' \in 0 .. MaxArrivals
          /\ (pending' => async)
      <3>1. arrived' = arrived + 1 /\ arrived + 1 \in 1 .. MaxArrivals
        BY <1>1 DEF Arrive, TypeOK
      <3>2. early' \in 0 .. MaxArrivals
        BY <1>1, <3>1 DEF Arrive, TypeOK
      <3>3. CASE Len(sock) < RcvCap
        <4>1. sock' = Append(sock, arrived + 1) /\ sock \in Seq(1 .. MaxArrivals)
          BY <1>1, <3>3 DEF Arrive, TypeOK
        <4>2. sock' \in Seq(1 .. MaxArrivals)
          BY <3>1, <4>1
        <4>3. pending' \in BOOLEAN /\ (pending' => async)
          BY <1>1, <3>3, Zenon DEF Arrive, TypeOK, HandlerWindow
        <4>4. arrived' \in 0 .. MaxArrivals
          BY <3>1
        <4> QED
          BY <3>2, <4>2, <4>3, <4>4
      <3>4. CASE ~(Len(sock) < RcvCap)
        BY <1>1, <3>1, <3>2, <3>4 DEF Arrive, TypeOK, HandlerWindow
      <3> QED
        BY <3>3, <3>4
    <2>2. TypeOK' /\ HandlerWindow' /\ SomethingToSend' /\ LastBucketUnused'
      BY <1>1, <2>1 DEF Arrive, TypeOK, HandlerWindow, SomethingToSend, LastBucketUnused,
                        mainVars, ringVars, diagVars, histVars
    <2>3. RingInv'
      BY <1>1 DEF Arrive, RingInv, Base, QueuedLen, mainVars, ringVars, histVars
    <2> QED
      BY <2>2, <2>3
  <1>2. CASE Deliver
    <2>1. TypeOK'
      <3>1. nread' = 0 /\ pending' \in BOOLEAN /\ inIO' \in BOOLEAN
        BY <1>2, Zenon DEF Deliver
      <3>3. 0 \in 0 .. QSIZE
        OBVIOUS
      <3>2. UNCHANGED <<mainVars, ringVars, cntread, sock, arrived, early, errors,
                        histVars>>
        BY <1>2 DEF Deliver
      <3> QED
        BY <3>1, <3>2, <3>3 DEF TypeOK, mainVars, ringVars, histVars
    <2>4. LastBucketUnused'
      BY <1>2 DEF Deliver, TypeOK, LastBucketUnused, ringVars
    <2>5. SomethingToSend'
      BY <1>2 DEF Deliver, SomethingToSend, mainVars, ringVars
    <2>3. HandlerWindow'
      <3>1. pc \in {"nbio", "block", "wait"}
        BY <1>2 DEF Deliver, TypeOK, Pcs, HandlerWindow
      <3> QED
        BY <1>2, <3>1 DEF Deliver, HandlerWindow, mainVars
    <2>2. RingInv'
      BY <1>2 DEF Deliver, RingInv, Base, QueuedLen, mainVars, ringVars, histVars
    <2> QED
      BY <2>1, <2>2, <2>3, <2>4, <2>5
  <1>3. CASE HangUp
    BY <1>3 DEF HangUp, TypeOK, Pcs, HandlerWindow, SomethingToSend, LastBucketUnused,
                RingInv, Base, QueuedLen, ringVars, diagVars, netVars, histVars
  <1>4. CASE Startup \/ MainLoop
    BY <1>4, MainStep
  <1>5. CASE Handler
    BY <1>5, HandlerStep
  <1>6. CASE UNCHANGED vars
    BY <1>6 DEF vars, mainVars, ringVars, diagVars, netVars, histVars, TypeOK,
                HandlerWindow, SomethingToSend, LastBucketUnused, RingInv, Base, QueuedLen
  <1> QED
    BY <1>1, <1>2, <1>3, <1>4, <1>5, <1>6 DEF Next

-----------------------------------------------------------------------------
(* Indices stay in range, whatever the burst: iget and iput inside dg[],   *)
(* nread inside cntread[QSIZE+1], nqueue between 0 and QSIZE.              *)
THEOREM TypeCorrect == Spec => []TypeOK
  <1>1. IInv => TypeOK
    BY DEF IInv
  <1> QED
    BY InitIInv, NextIInv, <1>1, PTL DEF Spec

(* The handler never overwrites an unanswered datagram and nqueue, iget    *)
(* and iput always describe the same queue (lines 64-71 and 83-102).       *)
THEOREM RingSafe == Spec => []RingInv
  <1>1. IInv => RingInv
    BY DEF IInv
  <1> QED
    BY InitIInv, NextIInv, <1>1, PTL DEF Spec

(* No handler ever reads QSIZE datagrams and returns (lines 83 and 105).   *)
THEOREM HistogramTop == Spec => []LastBucketUnused
  <1>1. IInv => LastBucketUnused
    BY DEF IInv
  <1> QED
    BY InitIInv, NextIInv, <1>1, PTL DEF Spec

(* A datagram accepted in asynchronous mode is never left in the socket    *)
(* without a signal or a handler to fetch it, although signals coalesce.   *)
THEOREM WakeupSafe == Spec => []NoLostWakeup
  <1> DEFINE WInv == IInv /\ Numbering /\ NoLostWakeup
  <1>1. Init => WInv
    BY InitIInv DEF Init, Numbering, NoLostWakeup
  <1>2. WInv /\ [Next]_vars => WInv'
    <2> SUFFICES ASSUME WInv, [Next]_vars PROVE Numbering' /\ NoLostWakeup'
      BY NextIInv
    <2>0. /\ sock \in Seq(1 .. MaxArrivals) /\ arrived \in Nat /\ early \in Nat
          /\ async \in BOOLEAN
      BY DEF IInv, TypeOK
    <2>1. CASE Arrive
      <3>1. CASE Len(sock) < RcvCap
        <4>1. \A i \in 1 .. Len(sock') : sock'[i] <= arrived'
          <5>1. sock' = Append(sock, arrived + 1) /\ arrived' = arrived + 1
            BY <2>1, <3>1 DEF Arrive
          <5>2. \A i \in 1 .. Len(sock) : sock[i] <= arrived /\ sock[i] \in Nat
            BY <2>0 DEF Numbering
          <5>3. arrived + 1 \in 1 .. MaxArrivals
            BY <2>1 DEF Arrive, IInv, TypeOK
          <5> QED
            BY <2>0, <5>1, <5>2, <5>3
        <4> QED
          BY <2>0, <2>1, <3>1, <4>1 DEF Arrive, Numbering, NoLostWakeup, mainVars
      <3>2. CASE ~(Len(sock) < RcvCap)
        BY <2>0, <2>1, <3>2 DEF Arrive, Numbering, NoLostWakeup, mainVars
      <3> QED
        BY <3>1, <3>2
    <2>2. CASE ReadOne
      BY <2>0, <2>2 DEF ReadOne, Enqueue, Numbering, NoLostWakeup, mainVars
    <2>3. CASE Deliver
      BY <2>3 DEF Deliver, Numbering, NoLostWakeup, mainVars
    <2>4. CASE HangUp
      BY <2>4 DEF HangUp, Numbering, NoLostWakeup, netVars
    <2>5. CASE Overflow \/ HandlerReturn
      BY <2>0, <2>5 DEF Overflow, HandlerReturn, Numbering, NoLostWakeup, netVars
    <2>6. CASE ReadError
      BY <2>6 DEF ReadError, Enqueue, Numbering, NoLostWakeup, mainVars
    <2>7. CASE Startup \/ MainLoop
      BY <2>7 DEF Startup, MainLoop, SetAsync, SetNonblock, BlockSigio, Check, Suspend,
                  UnmaskSigio, Send, AdvanceGet, Dequeue, Goto, Numbering,
                  NoLostWakeup, netVars
    <2>8. CASE UNCHANGED vars
      BY <2>8 DEF vars, mainVars, netVars, Numbering, NoLostWakeup
    <2> QED
      BY <2>1, <2>2, <2>3, <2>4, <2>5, <2>6, <2>7, <2>8 DEF Next, Handler
  <1> QED
    BY <1>1, <1>2, PTL DEF Spec

(* Nothing is lost, repeated or reordered between recvfrom and sendto:     *)
(* dg_echo with its handler implements the FIFO echo.                      *)
THEOREM Refinement == Spec => ImplementsFifo
  <1>1. Init => Fifo!Init
    BY DEF Init, Fifo!Init
  <1>2. IInv /\ [Next]_vars => [Fifo!Next]_Fifo!vars
    <2> SUFFICES ASSUME IInv, Next PROVE Fifo!Next \/ UNCHANGED Fifo!vars
      BY DEF vars, mainVars, histVars, Fifo!vars
    <2>1. CASE Send
      <3>1. nqueue \in 1 .. QSIZE /\ iget \in Slots /\ Len(echoed) \in Nat
            /\ Base = iget /\ QueuedLen = nqueue
        BY <2>1 DEF Send, Goto, IInv, TypeOK, SomethingToSend, Base, QueuedLen
      <3>2. dg[iget] = rcvd[Len(echoed) + 1] /\ Len(echoed) < Len(rcvd)
        <4>1. dg[Slot(iget, 0)] = rcvd[Len(echoed) + 0 + 1]
          BY <3>1 DEF IInv, RingInv
        <4> QED
          BY <3>1, <4>1, SlotFacts DEF IInv, RingInv
      <3>3. Fifo!Answer
        BY <2>1, <3>2 DEF Send, Goto, Fifo!Answer
      <3> QED
        BY <3>3 DEF Fifo!Next
    <2>2. CASE ReadOne
      <3>1. Head(sock) \in Datagram
        BY <2>2 DEF ReadOne, IInv, TypeOK, Datagram
      <3>2. Fifo!Read
        BY <2>2, <3>1 DEF ReadOne, Enqueue, mainVars, Fifo!Read, IInv, HandlerWindow
      <3> QED
        BY <3>2 DEF Fifo!Next
    <2>3. CASE ReadError
      <3>1. Bad \in Datagram
        BY DEF Bad, Datagram
      <3>2. Fifo!Read
        BY <2>3, <3>1 DEF ReadError, Enqueue, mainVars, Fifo!Read, IInv, HandlerWindow
      <3> QED
        BY <3>2 DEF Fifo!Next
    <2>4. CASE Overflow
      <3>1. Fifo!Stop
        BY <2>4 DEF Overflow, Fifo!Stop, histVars, IInv, HandlerWindow
      <3> QED
        BY <3>1 DEF Fifo!Next
    <2>5. CASE Arrive \/ Deliver \/ HangUp \/ HandlerReturn
      BY <2>5 DEF Arrive, Deliver, HangUp, HandlerReturn, histVars, mainVars, Fifo!vars
    <2>6. CASE Startup \/ Check \/ Suspend \/ UnmaskSigio \/ AdvanceGet
               \/ BlockSigio("mask", "dequeue") \/ Dequeue
      BY <2>6 DEF Startup, SetAsync, SetNonblock, BlockSigio, Check, Suspend,
                  UnmaskSigio, AdvanceGet, Dequeue, Goto, histVars, Fifo!vars
    <2> QED
      BY <2>1, <2>2, <2>3, <2>4, <2>5, <2>6 DEF Next, MainLoop, Handler
  <1> QED
    BY InitIInv, NextIInv, <1>1, <1>2, PTL DEF Spec, ImplementsFifo, Fifo!Spec
=============================================================================

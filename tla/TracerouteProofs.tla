-------------------------- MODULE TracerouteProofs --------------------------
(***************************************************************************)
(* traceroute/: whatever the network loses, delays, duplicates or invents, *)
(* and whenever the alarm rings, a result belongs to the probe at its      *)
(* place in the output and the program stops at the destination.  For      *)
(* every max_ttl, nprobes, distance, socket buffer and number of packets.  *)
(***************************************************************************)
EXTENDS Traceroute, TLAPS

USE TraceAssumption

IcmpPackets == [kind : {"timx", "port", "unreach", "other"}, seq : Nat]

TracePcs == {"probe", "recv_", "check", "enter", "recvfrom", "report", "exit"}

TraceType ==
  /\ pc \in TracePcs /\ dist \in Nat \ {0}
  /\ ttl \in Nat \ {0} /\ probe \in 0 .. nprobes /\ seq \in Nat /\ done \in Nat
  /\ code \in {-3, -2, -1, 0} /\ reached \in Nat
  /\ from \in IcmpPackets /\ net \in SUBSET IcmpPackets /\ rcvq \in Seq(IcmpPackets)

(* A probe is out: it has been sent and its result not been printed.       *)
Out == pc \in {"recv_", "check", "enter", "recvfrom", "report"}

(* seq counts the probes: nprobes for each row that is complete.           *)
Counting ==
  /\ seq = (ttl - 1) * nprobes + probe + (IF Out THEN 1 ELSE 0)
  /\ Out => probe < nprobes
  /\ pc = "exit" => probe = 0

(* No packet quotes a probe yet to be sent, and a port unreachable for the *)
(* probe that is out comes from the destination.                           *)
Genuine(m) == /\ m.seq <= seq
              /\ Out /\ m.kind = "port" /\ m.seq = seq => ttl >= dist
NetworkInv == /\ \A m \in net : Genuine(m)
              /\ \A k \in 1 .. Len(rcvq) : Genuine(rcvq[k])

(* What the last recv_ returned for.                                       *)
ReportInv ==
  pc = "report" =>
    /\ code # -3 => \/ from.seq = seq /\ from.kind # "other"
                    \/ family = "v6" /\ from.kind = "timx"
    /\ family = "v4" /\ code = -1 => ttl >= dist

(* done and the end of the outer loop.                                     *)
DoneInv ==
  /\ done = 0 <=> reached = 0
  /\ pc # "exit" => ttl <= max_ttl
  /\ reached # 0 => ttl = reached + (IF pc = "exit" THEN 1 ELSE 0)
  /\ family = "v4" /\ reached # 0 => reached >= dist
  /\ pc = "exit" /\ reached = 0 => ttl = max_ttl + 1

TraceInv == TraceType /\ Counting /\ NetworkInv /\ ReportInv /\ DoneInv

-----------------------------------------------------------------------------
LEMMA TraceInitially == Init => TraceInv
  <1> SUFFICES ASSUME Init PROVE TraceInv
    OBVIOUS
  <1> USE DEF Init, TraceInit, Nothing
  <1>1. TraceType
    BY DEF TraceType, TracePcs, IcmpPackets
  <1>2. Counting
    BY DEF Counting, Out
  <1>3. NetworkInv
    BY DEF NetworkInv
  <1>4. ReportInv /\ DoneInv
    BY DEF ReportInv, DoneInv
  <1> QED
    BY <1>1, <1>2, <1>3, <1>4 DEF TraceInv

(* A row more.                                                             *)
LEMMA NextRow ==
  ASSUME NEW t \in Nat, NEW n \in Nat
  PROVE  (t - 1) * n + n = (t + 1 - 1) * n
  OBVIOUS

(* What is in a queue after Append or Tail was there, or is appended.      *)
LEMMA TraceAppend ==
  ASSUME NEW s \in Seq(IcmpPackets), NEW m \in IcmpPackets, NEW k \in 1 .. Len(Append(s, m))
  PROVE  Append(s, m)[k] = m \/ \E j \in 1 .. Len(s) : Append(s, m)[k] = s[j]
  OBVIOUS

LEMMA TraceTail ==
  ASSUME NEW s \in Seq(IcmpPackets), s # <<>>
  PROVE  /\ Tail(s) \in Seq(IcmpPackets)
         /\ Head(s) = s[1] /\ 1 \in 1 .. Len(s) /\ Head(s) \in IcmpPackets
         /\ \A k \in 1 .. Len(Tail(s)) : k + 1 \in 1 .. Len(s) /\ Tail(s)[k] = s[k + 1]
  OBVIOUS

-----------------------------------------------------------------------------
(* The network only moves packets.                                         *)
LEMMA Arrives ==
  ASSUME TraceInv, NEW m \in IcmpPackets, Genuine(m),
         rcvq' = Append(rcvq, m), net' \subseteq net,
         UNCHANGED <<pc, family, dist, loopVars, code, from, reached>>
  PROVE  TraceInv'
  <1> USE DEF loopVars
  <1>1. TraceType'
    BY DEF TraceInv, TraceType
  <1>2. Counting' /\ ReportInv' /\ DoneInv'
    BY DEF TraceInv, Counting, ReportInv, DoneInv, Out
  <1>3. ASSUME NEW p, Genuine(p) PROVE Genuine(p)'
    BY <1>3 DEF Genuine, Out
  <1>4. NetworkInv'
    <2>1. \A p \in net' : Genuine(p)'
      BY <1>3 DEF TraceInv, NetworkInv
    <2>2. ASSUME NEW k \in 1 .. Len(rcvq') PROVE Genuine(rcvq[k])'
      <3>1. rcvq \in Seq(IcmpPackets)
        BY DEF TraceInv, TraceType
      <3>2. rcvq'[k] = m \/ \E j \in 1 .. Len(rcvq) : rcvq'[k] = rcvq[j]
        BY <3>1, TraceAppend
      <3>3. Genuine(rcvq'[k])
        BY <3>2 DEF TraceInv, NetworkInv
      <3> QED
        BY <3>3 DEF Genuine, Out
    <2> QED
      BY <2>1, <2>2 DEF NetworkInv
  <1> QED
    BY <1>1, <1>2, <1>4 DEF TraceInv

LEMMA NetworkStep == TraceInv /\ Network => TraceInv'
  <1> SUFFICES ASSUME TraceInv, Network PROVE TraceInv'
    OBVIOUS
  <1>1. ASSUME NEW m \in net, Deliver(m) PROVE TraceInv'
    <2>1. m \in IcmpPackets /\ Genuine(m)
      BY DEF TraceInv, TraceType, NetworkInv
    <2>2. /\ rcvq' = Append(rcvq, m) /\ net' \subseteq net
          /\ UNCHANGED <<pc, family, dist, loopVars, code, from, reached>>
      BY <1>1 DEF Deliver
    <2> QED
      BY <2>1, <2>2, Arrives
  <1>2. ASSUME NEW kind \in {"timx", "unreach", "other"}, Stray(kind) PROVE TraceInv'
    <2> DEFINE m == [kind |-> kind, seq |-> 0]
    <2>1. m \in IcmpPackets /\ Genuine(m)
      BY DEF TraceInv, TraceType, IcmpPackets, Genuine
    <2>2. /\ rcvq' = Append(rcvq, m) /\ net' \subseteq net
          /\ UNCHANGED <<pc, family, dist, loopVars, code, from, reached>>
      BY <1>2 DEF Stray
    <2> HIDE DEF m
    <2> QED
      BY <2>1, <2>2, Arrives
  <1> QED
    BY <1>1, <1>2 DEF Network

-----------------------------------------------------------------------------
(* The steps that leave the network alone and print nothing.               *)
LEMMA SendStep == TraceInv /\ SendProbe => TraceInv'
  <1> SUFFICES ASSUME TraceInv, SendProbe PROVE TraceInv'
    OBVIOUS
  <1> USE DEF SendProbe
  <1>0. PICK m \in Replies(seq + 1) : net' = net \cup {m}
    OBVIOUS
  <1>1. m \in IcmpPackets /\ m.seq = seq + 1 /\ (m.kind = "port" => ttl >= dist)
    BY DEF Replies, IcmpPackets, TraceInv, TraceType
  <1>2. TraceType'
    BY <1>0, <1>1 DEF TraceInv, TraceType, TracePcs
  <1>3. Counting'
    BY DEF TraceInv, TraceType, Counting, Out
  <1>4. NetworkInv'
    <2>1. ASSUME NEW p \in IcmpPackets, Genuine(p) PROVE Genuine(p)'
      BY <2>1 DEF Genuine, TraceInv, TraceType, IcmpPackets
    <2>2. Genuine(m)'
      BY <1>1 DEF Genuine, TraceInv, TraceType
    <2>3. \A p \in net' : Genuine(p)'
      BY <1>0, <2>1, <2>2 DEF TraceInv, TraceType, NetworkInv
    <2>4. \A k \in 1 .. Len(rcvq') : Genuine(rcvq[k])'
      BY <2>1 DEF TraceInv, TraceType, NetworkInv, Genuine
    <2> QED
      BY <2>3, <2>4 DEF NetworkInv
  <1>5. ReportInv' /\ DoneInv'
    BY DEF TraceInv, ReportInv, DoneInv
  <1> QED
    BY <1>2, <1>3, <1>4, <1>5 DEF TraceInv

(* When no probe is out, no port unreachable counts.                       *)
LEMMA NetworkKept ==
  ASSUME TraceInv, UNCHANGED <<dist, ttl, seq, net, rcvq>>, Out' => Out
  PROVE  NetworkInv'
  BY DEF TraceInv, NetworkInv, Genuine

LEMMA NextTtlStep == TraceInv /\ NextTtl => TraceInv'
  <1> SUFFICES ASSUME TraceInv, NextTtl PROVE TraceInv'
    OBVIOUS
  <1> USE DEF NextTtl, netVars
  <1>1. TraceType'
    BY DEF TraceInv, TraceType, TracePcs
  <1>2. Counting'
    <2>1. seq = (ttl - 1) * nprobes + nprobes /\ ~Out'
      BY DEF TraceInv, TraceType, Counting, Out
    <2>2. seq = (ttl + 1 - 1) * nprobes
      BY <2>1, NextRow DEF TraceInv, TraceType
    <2>3. (ttl + 1 - 1) * nprobes \in Int
      BY DEF TraceInv, TraceType
    <2> QED
      BY <2>1, <2>2, <2>3 DEF Counting, TraceInv, TraceType
  <1>3. NetworkInv'
    BY DEF TraceInv, NetworkInv, Genuine, Out
  <1>4. ReportInv' /\ DoneInv'
    BY DEF TraceInv, TraceType, ReportInv, DoneInv
  <1> QED
    BY <1>1, <1>2, <1>3, <1>4 DEF TraceInv

LEMMA WaitStep ==
  TraceInv /\ (StartTimer \/ TimedOut \/ NotTimedOut \/ Recvfrom \/ SigAlrm) => TraceInv'
  <1> SUFFICES ASSUME TraceInv, StartTimer \/ TimedOut \/ NotTimedOut \/ Recvfrom \/ SigAlrm
               PROVE  TraceInv'
    OBVIOUS
  <1> USE DEF loopVars, netVars
  <1>0. /\ UNCHANGED <<family, dist, ttl, probe, seq, done, net, rcvq, reached>>
        /\ Out' = Out /\ pc' \in TracePcs
        /\ pc' = "exit" <=> pc = "exit"
        /\ \/ pc' = "report" /\ code' = -3 /\ from' = Nothing
           \/ pc' # "report" /\ UNCHANGED <<code, from>>
           \/ UNCHANGED <<pc, code, from>>
    <2>1. CASE StartTimer
      BY <2>1 DEF StartTimer, Out, TracePcs
    <2>2. CASE TimedOut
      BY <2>2 DEF TimedOut, Out, TracePcs
    <2>3. CASE NotTimedOut \/ Recvfrom
      BY <2>3 DEF NotTimedOut, Recvfrom, Out, TracePcs
    <2>4. CASE SigAlrm
      BY <2>4 DEF SigAlrm, Out, TracePcs, TraceInv, TraceType
    <2> QED
      BY <2>1, <2>2, <2>3, <2>4
  <1>1. TraceType'
    BY <1>0 DEF TraceInv, TraceType, Nothing, IcmpPackets
  <1>2. Counting'
    BY <1>0 DEF TraceInv, Counting
  <1>3. NetworkInv'
    BY <1>0, NetworkKept
  <1>4. ReportInv' /\ DoneInv'
    BY <1>0 DEF TraceInv, ReportInv, DoneInv
  <1> QED
    BY <1>1, <1>2, <1>3, <1>4 DEF TraceInv

LEMMA PacketStep == TraceInv /\ Packet => TraceInv'
  <1> SUFFICES ASSUME TraceInv, Packet PROVE TraceInv'
    OBVIOUS
  <1> USE DEF Packet, loopVars
  <1> DEFINE m == Head(rcvq)
  <1>1. rcvq \in Seq(IcmpPackets) /\ rcvq # <<>>
    BY DEF TraceInv, TraceType
  <1>2. m \in IcmpPackets /\ Genuine(m) /\ rcvq' \in Seq(IcmpPackets)
    BY <1>1, TraceTail DEF TraceInv, NetworkInv
  <1>3. \/ /\ Accepts(m) \/ Unset(m)
           /\ code' \in Return(m) /\ from' = m /\ pc' = "report"
        \/ pc' = "check" /\ UNCHANGED <<code, from>>
    OBVIOUS
  <1>4. UNCHANGED <<family, dist, ttl, probe, seq, done, net, reached>>
        /\ pc = "recvfrom" /\ Out /\ Out'
    BY <1>3 DEF Out
  <1> HIDE DEF m, Packet
  <1>5. TraceType'
    BY <1>2, <1>3, <1>4 DEF TraceInv, TraceType, TracePcs, Return, Codes
  <1>6. Counting' /\ DoneInv'
    BY <1>3, <1>4 DEF TraceInv, Counting, DoneInv
  <1>7. NetworkInv'
    <2>1. \A p : Genuine(p) => Genuine(p)'
      BY <1>4 DEF Genuine
    <2>2. \A k \in 1 .. Len(rcvq') : k + 1 \in 1 .. Len(rcvq) /\ rcvq'[k] = rcvq[k + 1]
      BY <1>1, TraceTail DEF Packet
    <2> QED
      BY <1>4, <2>1, <2>2 DEF TraceInv, NetworkInv, Genuine
  <1>8. ReportInv'
    <2>1. CASE Accepts(m) /\ code' \in Return(m) /\ from' = m
      <3>1. m.seq = seq /\ m.kind # "other" /\ ~Unset(m)
        BY <2>1 DEF Accepts, Unset
      <3>2. code' = -1 => m.kind = "port"
        BY <2>1, <3>1 DEF Return
      <3> QED
        BY <1>2, <1>4, <2>1, <3>1, <3>2 DEF ReportInv, Genuine
    <2>2. CASE Unset(m) /\ from' = m
      BY <1>4, <2>2 DEF ReportInv, Unset
    <2>3. CASE pc' = "check"
      BY <2>3 DEF ReportInv
    <2> QED
      BY <1>3, <2>1, <2>2, <2>3
  <1> QED
    BY <1>5, <1>6, <1>7, <1>8 DEF TraceInv

LEMMA ReportStep == TraceInv /\ Report => TraceInv'
  <1> SUFFICES ASSUME TraceInv, Report PROVE TraceInv'
    OBVIOUS
  <1> USE DEF Report, netVars
  <1>1. TraceType'
    BY DEF TraceInv, TraceType, Counting, Out, TracePcs, Nothing, IcmpPackets
  <1>2. Counting'
    <2>1. (ttl - 1) * nprobes \in Int
      BY DEF TraceInv, TraceType
    <2> QED
      BY <2>1 DEF TraceInv, TraceType, Counting, Out
  <1>3. NetworkInv'
    BY NetworkKept DEF Out
  <1>4. ReportInv' /\ DoneInv'
    BY DEF TraceInv, TraceType, ReportInv, DoneInv
  <1> QED
    BY <1>1, <1>2, <1>3, <1>4 DEF TraceInv

LEMMA TraceKeeps == TraceInv /\ [Next]_vars => TraceInv'
  <1> SUFFICES ASSUME TraceInv, [Next]_vars PROVE TraceInv'
    OBVIOUS
  <1>1. CASE UNCHANGED vars
    BY <1>1 DEF vars, traceVars, loopVars, netVars, TraceInv, TraceType, Counting, NetworkInv,
                Genuine, ReportInv, DoneInv, Out
  <1> QED
    BY <1>1, NetworkStep, SendStep, NextTtlStep, WaitStep, PacketStep, ReportStep
    DEF Next, Trace

LEMMA TraceInvariance == Spec => []TraceInv
  BY TraceInitially, TraceKeeps, PTL DEF Spec

-----------------------------------------------------------------------------
LEMMA ResultsKept == TraceInv => ResultIsOurs
  BY DEF TraceInv, Counting, Out, ReportInv, ResultIsOurs

LEMMA StopKept == TraceInv => StopsAtDestination
  <1> SUFFICES ASSUME TraceInv PROVE StopsAtDestination
    OBVIOUS
  <1>1. pc = "exit" => seq = (ttl - 1) * nprobes
    <2>1. (ttl - 1) * nprobes \in Int
      BY DEF TraceInv, TraceType
    <2> QED
      BY <2>1 DEF TraceInv, TraceType, Counting, Out
  <1> QED
    BY <1>1 DEF TraceInv, DoneInv, StopsAtDestination

(* A reply that is late, duplicated or another's is never printed as the   *)
(* result of the next probe (recv_v4; recv_v6 but for its line 51).        *)
THEOREM ResultsBelong == Spec => []ResultIsOurs
  BY ResultsKept, TraceInvariance, PTL

(* The trace ends with the first complete row that reaches the             *)
(* destination, or with row max_ttl (traceloop with recv_v4).              *)
THEOREM DestinationStops == Spec => []StopsAtDestination
  BY StopKept, TraceInvariance, PTL
=============================================================================

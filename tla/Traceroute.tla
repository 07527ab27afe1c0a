----------------------------- MODULE Traceroute -----------------------------
(***************************************************************************)
(* traceroute/: traceloop() sends UDP probes with rising ttl and waits for *)
(* each in recv_v4() or recv_v6() for the ICMP error that the probe draws, *)
(* with three seconds of patience.  A packet is its kind ("timx": time     *)
(* exceeded, "port": port unreachable, "unreach": another unreachable,     *)
(* "other": another type or too short) and the seq of the probe it quotes  *)
(* (0: a packet that is not ours, by the ports).                           *)
(***************************************************************************)
EXTENDS AlarmProcess, Integers, Sequences

CONSTANTS Families,     \* subset of {"v4", "v6"}: which recv_ is called
          max_ttl, nprobes,
          Dists,        \* how many hops away the destination can be
          RcvCap,       \* packets the raw socket holds
          MaxStrays     \* bound: packets of others, and duplicates

ASSUME TraceAssumption == /\ max_ttl \in Nat \ {0} /\ nprobes \in Nat \ {0}
                          /\ Dists \subseteq Nat \ {0} /\ RcvCap \in Nat \ {0} /\ MaxStrays \in Nat

VARIABLES family, dist,
          ttl, probe, seq, done, code,          \* traceloop
          gotalarm,
          from,         \* the packet the last recv_ returned for
          net,          \* replies on their way
          rcvq,         \* packets in the raw socket
          strays,       \* counter of the bound MaxStrays
          reached       \* history: the first row with a -1, 0 if none

loopVars == <<ttl, probe, seq, done>>
netVars == <<net, rcvq, strays>>
traceVars == <<family, dist, loopVars, code, gotalarm, from, netVars, reached>>
vars == <<pc, timer, traceVars>>

Nothing == [kind |-> "other", seq |-> 0]

TraceInit ==
  /\ family \in Families /\ dist \in Dists
  /\ ttl = 1 /\ probe = 0 /\ seq = 0 /\ done = 0 /\ code = 0
  /\ gotalarm = TRUE /\ from = Nothing
  /\ net = {} /\ rcvq = <<>> /\ strays = 0
  /\ reached = 0
Init == pc = "probe" /\ timer = FALSE /\ TraceInit

-----------------------------------------------------------------------------
(* The network: a probe that comes to the end of its ttl draws a time      *)
(* exceeded, one that reaches its destination a port unreachable, and any  *)
(* hop may refuse to forward it.  A packet may stay away for ever.         *)
Replies(s) ==
  {[kind |-> k, seq |-> s] : k \in {"unreach", IF ttl < dist THEN "timx" ELSE "port"}}

Deliver(m) ==
  /\ pc # "exit" /\ Len(rcvq) < RcvCap
  /\ rcvq' = Append(rcvq, m)
  /\ \/ net' = net \ {m} /\ UNCHANGED strays
     \/ strays < MaxStrays /\ strays' = strays + 1 /\ UNCHANGED net  \* a duplicate
  /\ UNCHANGED <<pc, family, dist, loopVars, code, gotalarm, timer, from, reached>>

Stray(kind) ==
  /\ pc # "exit" /\ Len(rcvq) < RcvCap
  /\ strays < MaxStrays /\ strays' = strays + 1
  /\ rcvq' = Append(rcvq, [kind |-> kind, seq |-> 0])
  /\ UNCHANGED <<pc, family, dist, loopVars, code, gotalarm, timer, from, net, reached>>

Network == (\E m \in net : Deliver(m)) \/ \E kind \in {"timx", "unreach", "other"} : Stray(kind)

-----------------------------------------------------------------------------
(* traceloop: the next probe.                                              *)
SendProbe ==
  /\ pc = "probe" /\ probe < nprobes
  /\ seq' = seq + 1
  /\ \E m \in Replies(seq + 1) : net' = net \cup {m}
  /\ pc' = "recv_"
  /\ UNCHANGED <<family, dist, ttl, probe, done, code, gotalarm, timer, from, rcvq, strays,
                 reached>>

(* The inner loop is over; the outer goes on unless done.                  *)
NextTtl ==
  /\ pc = "probe" /\ probe = nprobes
  /\ ttl' = ttl + 1 /\ probe' = 0
  /\ pc' = IF ttl + 1 <= max_ttl /\ done = 0 THEN "probe" ELSE "exit"
  /\ UNCHANGED <<family, dist, seq, done, code, gotalarm, timer, from, netVars, reached>>

(* recv_v4, recv_v6: lines 21 and 22.                                      *)
MutStartTimerForgotten ==               \* no alarm(3)
  /\ pc = "recv_"
  /\ gotalarm' = FALSE
  /\ pc' = "check"
  /\ UNCHANGED <<family, dist, loopVars, code, timer, from, netVars, reached>>
StartTimer ==
  /\ pc = "recv_"
  /\ gotalarm' = FALSE /\ timer' = TRUE
  /\ pc' = "check"
  /\ UNCHANGED <<family, dist, loopVars, code, from, netVars, reached>>

TimedOut ==
  /\ pc = "check" /\ gotalarm
  /\ code' = -3 /\ from' = Nothing
  /\ pc' = "report"
  /\ UNCHANGED <<family, dist, loopVars, gotalarm, timer, netVars, reached>>

(* Between the test of gotalarm and the sleep in recvfrom.                 *)
NotTimedOut ==
  /\ pc = "check" /\ ~gotalarm
  /\ pc' = "enter"
  /\ UNCHANGED <<family, dist, loopVars, code, gotalarm, timer, from, netVars, reached>>
Recvfrom ==
  /\ pc = "enter"
  /\ pc' = "recvfrom"
  /\ UNCHANGED <<family, dist, loopVars, code, gotalarm, timer, from, netVars, reached>>

(* The packets for which recv_ returns, and what.  In recv_v6 the break of *)
(* line 51 is outside the if: a time exceeded that is not ours returns     *)
(* too, with ret never set.                                                *)
Codes == {-3, -2, -1, 0}
MutAcceptsAnySeq(m) == m.kind # "other" /\ m.seq > 0
Accepts(m) == m.kind # "other" /\ m.seq = seq
Unset(m) == family = "v6" /\ m.kind = "timx" /\ m.seq # seq
Return(m) == IF Unset(m) THEN Codes
             ELSE {CASE m.kind = "timx" -> -2 [] m.kind = "port" -> -1 [] OTHER -> 0}

Packet ==
  /\ pc = "recvfrom" /\ rcvq # <<>>
  /\ LET m == Head(rcvq)
     IN  IF Accepts(m) \/ Unset(m)
           THEN code' \in Return(m) /\ from' = m /\ timer' = FALSE /\ pc' = "report"
           ELSE pc' = "check" /\ UNCHANGED <<code, from, timer>>
  /\ rcvq' = Tail(rcvq)
  /\ UNCHANGED <<family, dist, loopVars, gotalarm, net, strays, reached>>

(* sig_alrm: it sets the flag, and recvfrom returns EINTR if it sleeps.    *)
SigAlrm ==
  /\ timer
  /\ timer' = FALSE /\ gotalarm' = TRUE
  /\ pc' = IF pc = "recvfrom" /\ rcvq = <<>> THEN "check" ELSE pc
  /\ UNCHANGED <<family, dist, loopVars, code, from, netVars, reached>>

(* The rest of the inner loop.                                             *)
MutReportDoneOnAny ==                   \* any unreachable ends the trace
  /\ pc = "report"
  /\ done' = IF code >= -1 THEN done + 1 ELSE done
  /\ probe' = probe + 1
  /\ from' = Nothing
  /\ reached' = IF code = -1 /\ reached = 0 THEN ttl ELSE reached
  /\ pc' = "probe"
  /\ UNCHANGED <<family, dist, ttl, seq, code, gotalarm, timer, netVars>>
Report ==
  /\ pc = "report"
  /\ done' = IF code = -1 THEN done + 1 ELSE done
  /\ probe' = probe + 1
  /\ from' = Nothing
  /\ reached' = IF code = -1 /\ reached = 0 THEN ttl ELSE reached
  /\ pc' = "probe"
  /\ UNCHANGED <<family, dist, ttl, seq, code, gotalarm, timer, netVars>>

Trace == SendProbe \/ NextTtl \/ StartTimer \/ TimedOut \/ NotTimedOut \/ Recvfrom \/ Packet
         \/ Report
Next == Trace \/ SigAlrm \/ Network

(* The program runs and the clock runs; the network owes nothing.          *)
Spec == Init /\ [][Next]_vars /\ WF_vars(Trace) /\ WF_vars(SigAlrm)
-----------------------------------------------------------------------------
(* A result that is not a timeout belongs to the probe at its place in the *)
(* output, nprobes to a row: the packet quotes the seq of that probe, and  *)
(* a reply that comes late or twice is never taken for the reply to the    *)
(* next one.  Except for the return of recv_v6 with ret unset, and that    *)
(* only for a time exceeded.                                               *)
ResultIsOurs ==
  pc = "report" =>
    /\ seq = (ttl - 1) * nprobes + probe + 1
    /\ code # -3 => \/ from.seq = seq /\ from.kind # "other"
                    \/ family = "v6" /\ from.kind = "timx"

(* The program stops with the first row that reaches the destination, and  *)
(* with max_ttl rows if none does; no row before the destination's does,   *)
(* and every row is complete.  (recv_v4.)                                  *)
StopsAtDestination ==
  family = "v4" =>
    /\ pc = "exit" => seq = (ttl - 1) * nprobes
    /\ reached # 0 => reached >= dist /\ ttl = reached + (IF pc = "exit" THEN 1 ELSE 0)
    /\ pc = "exit" /\ reached = 0 => ttl = max_ttl + 1

(* The alarm is lost when it rings between the test of gotalarm (line 25)  *)
(* and the sleep in recvfrom (line 28); only another packet ends the wait. *)
AlarmLost == pc = "recvfrom" /\ gotalarm /\ ~timer /\ rcvq = <<>>

(* The comment of recv_v6.c, lines 5 to 8: "-1 on icmp port unreachable    *)
(* (caller is done)".  (The break of line 51 returns whatever ret held.)   *)
DoneMeansUnreachable == pc = "report" /\ code = -1 => from.kind = "port"
=============================================================================

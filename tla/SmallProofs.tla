----------------------------- MODULE SmallProofs -----------------------------
(***************************************************************************)
(* Proofs about the small programs and functions: ping and udpcksum, the   *)
(* calls with a time limit, descriptor passing, the list of interfaces,    *)
(* the UDP client, readline; and, last, the composition of all of them     *)
(* with traceroute and the heartbeat.                                      *)
(***************************************************************************)
EXTENDS SmallPrograms, TracerouteProofs, HeartbeatProofs, SequenceTheorems, WellFoundedInduction,
        TLAPS

-----------------------------------------------------------------------------
(* ping.  A packet of ours carries the time at which its request was sent, *)
(* and one in the socket came at a time between that and now.              *)
Packets == [kind : {"echo", "other"}, seq : Nat, tv : [sec : Int, usec : Int], at : Int]
Log(s, c) == s \in Seq(Int) /\ \A k \in 1 .. Len(s) : s[k] \in 0 .. c
Ours(s, m) == m \in Packets /\ m.kind = "echo" /\ m.seq < Len(s) /\ m.tv = Tv(s[m.seq + 1])
Came(s, c, m) == /\ m \in Packets /\ m.at \in 0 .. c
                 /\ m.kind = "echo" => Ours(s, m) /\ s[m.seq + 1] <= m.at

PingInv ==
  /\ clock \in Nat /\ Log(sentAt, clock)
  /\ \A m \in echoes : Ours(sentAt, m)
  /\ sockq \in Seq(Packets) /\ \A k \in 1 .. Len(sockq) : Came(sentAt, clock, sockq[k])
  /\ Came(sentAt, clock, msg)
  /\ pc \in {"proc", "print"} => \E c \in msg.at .. clock : tval = Tv(c)
  /\ pc = "print" => n > 0 /\ msg.kind = "echo" /\ rtt = TvSub(tval, msg.tv)

(* A time is the seconds and microseconds it is split into.                *)
LEMMA SplitTime ==
  ASSUME NEW t \in Nat
  PROVE  /\ Tv(t) \in [sec : Int, usec : Int]
         /\ Tv(t).usec \in 0 .. USec - 1
         /\ Ticks(Tv(t)) = t
<1>1. USec \in Nat /\ USec > 0
  BY PingAssumption
<1>2. t \div USec \in Int /\ t % USec \in 0 .. USec - 1
  BY <1>1
<1>3. t = USec * (t \div USec) + (t % USec)
  BY <1>1
<1>4. USec * (t \div USec) = (t \div USec) * USec
  BY <1>1, <1>2
<1> QED
  BY <1>1, <1>2, <1>3, <1>4 DEF Tv, Ticks

LEMMA Arithmetic ==
  ASSUME NEW U \in Int, NEW p \in Int, NEW q \in Int, NEW r \in Int, NEW s \in Int
  PROVE  /\ (p - q) * U + (r - s) = (p * U + r) - (q * U + s)
         /\ (p - 1 - q) * U + (r - s + U) = (p * U + r) - (q * U + s)
OBVIOUS

(* tv_sub() subtracts, and what it returns is a proper time again.         *)
LEMMA Subtracts ==
  ASSUME NEW a \in Nat, NEW b \in Nat
  PROVE  /\ TvSub(Tv(a), Tv(b)).usec \in 0 .. USec - 1
         /\ Ticks(TvSub(Tv(a), Tv(b))) = a - b
<1> DEFINE x == Tv(a)  y == Tv(b)  d == TvSub(x, y)
<1>1. USec \in Nat /\ USec > 0
  BY PingAssumption
<1>2. /\ x.sec \in Int /\ x.usec \in 0 .. USec - 1 /\ x.sec * USec + x.usec = a
      /\ y.sec \in Int /\ y.usec \in 0 .. USec - 1 /\ y.sec * USec + y.usec = b
  BY SplitTime DEF Ticks
<1> HIDE DEF x, y
<1>3. CASE x.usec < y.usec
  <2>1. d.sec = x.sec - 1 - y.sec /\ d.usec = x.usec - y.usec + USec
    BY <1>1, <1>2, <1>3 DEF TvSub
  <2>2. d.usec \in 0 .. USec - 1
    BY <1>1, <1>2, <1>3, <2>1
  <2>3. Ticks(d) = (x.sec - 1 - y.sec) * USec + (x.usec - y.usec + USec)
    BY <2>1 DEF Ticks
  <2>4. Ticks(d) = (x.sec * USec + x.usec) - (y.sec * USec + y.usec)
    BY <1>1, <1>2, <2>3, Arithmetic
  <2> QED
    BY <1>2, <2>2, <2>4 DEF x, y
<1>4. CASE x.usec >= y.usec
  <2>1. d.sec = x.sec - y.sec /\ d.usec = x.usec - y.usec
    BY <1>1, <1>2, <1>4 DEF TvSub
  <2>2. d.usec \in 0 .. USec - 1
    BY <1>1, <1>2, <1>4, <2>1
  <2>3. Ticks(d) = (x.sec - y.sec) * USec + (x.usec - y.usec)
    BY <2>1 DEF Ticks
  <2>4. Ticks(d) = (x.sec * USec + x.usec) - (y.sec * USec + y.usec)
    BY <1>1, <1>2, <2>3, Arithmetic
  <2> QED
    BY <1>2, <2>2, <2>4 DEF x, y
<1> QED
  BY <1>2, <1>3, <1>4

(* A request more, or a later time, leaves what is known of a packet.      *)
LEMMA Later ==
  ASSUME NEW s, NEW c \in Nat, Log(s, c)
  PROVE  /\ Log(Append(s, c), c)
         /\ \A m : Ours(s, m) => Ours(Append(s, c), m)
         /\ \A m : Came(s, c, m) => Came(Append(s, c), c, m)
         /\ Log(s, c + 1) /\ \A m : Came(s, c, m) => Came(s, c + 1, m)
<1>1. Log(Append(s, c), c) /\ Log(s, c + 1)
  BY DEF Log
<1>2. ASSUME NEW m, Ours(s, m)
      PROVE  Ours(Append(s, c), m) /\ Append(s, c)[m.seq + 1] = s[m.seq + 1]
  <2>1. s \in Seq(Int) /\ c \in Int /\ m.seq + 1 \in 1 .. Len(s)
    BY <1>2 DEF Log, Ours, Packets
  <2>2. m.seq < Len(Append(s, c)) /\ Append(s, c)[m.seq + 1] = s[m.seq + 1]
    BY <1>2, <2>1 DEF Ours, Packets
  <2> QED
    BY <1>2, <2>1, <2>2 DEF Ours
<1>3. ASSUME NEW m PROVE Came(s, c, m) => Came(Append(s, c), c, m)
  BY <1>2 DEF Came
<1>4. ASSUME NEW m PROVE Came(s, c, m) => Came(s, c + 1, m)
  BY DEF Log, Came, Packets
<1> QED
  BY <1>1, <1>2, <1>3, <1>4

LEMMA PingInitially == PingInit /\ pc = "first" => PingInv
<1> SUFFICES ASSUME PingInit, pc = "first" PROVE PingInv
  OBVIOUS
<1>1. Came(<<>>, 0, Garbage)
  BY SplitTime DEF Came, Garbage, Packets
<1> QED
  BY <1>1 DEF PingInit, PingInv, Log

LEMMA PingKeeps == PingInv /\ [PingNext]_<<pc, timer, pingVars>> => PingInv'
<1> SUFFICES ASSUME PingInv, [PingNext]_<<pc, timer, pingVars>> PROVE PingInv'
  OBVIOUS
<1> USE DEF PingInv
<1>1. Ours(Append(sentAt, clock), Request)
  <2>1. Tv(clock) \in [sec : Int, usec : Int]
    BY SplitTime
  <2> QED
    BY <2>1 DEF Ours, Request, Packets, Log
<1>2. CASE First
  BY <1>1, <1>2, Later DEF First, Send
<1>3. CASE PingAlrm
  BY <1>1, <1>3, Later DEF PingAlrm, Send
<1>4. CASE Tick
  <2>1. /\ clock' = clock + 1
        /\ UNCHANGED <<sentAt, echoes, sockq, msg, tval, pc, n, rtt>>
    BY <1>4 DEF Tick, pingNet
  <2>2. (clock \in Nat /\ Log(sentAt, clock) /\ Came(sentAt, clock, msg))'
    <3>1. Log(sentAt, clock + 1) /\ Came(sentAt, clock + 1, msg)
      BY Later
    <3> QED
      BY <2>1, <3>1
  <2>3. \A k \in 1 .. Len(sockq) : Came(sentAt, clock', sockq[k])
    BY <2>1, Later
  <2>4. \A c \in msg.at .. clock : c \in msg.at .. clock + 1
    BY DEF Came, Packets
  <2> QED
    BY <2>1, <2>2, <2>3, <2>4
<1>5. ASSUME NEW m \in echoes \cup {Garbage}, Arrive(m) PROVE PingInv'
  <2>1. /\ UNCHANGED <<clock, sentAt, msg, tval, pc, n, rtt>>
        /\ sockq' = Append(sockq, [m EXCEPT !.at = clock])
        /\ echoes' \subseteq echoes
    BY <1>5 DEF Arrive, timeVars
  <2>2. Came(sentAt, clock, [m EXCEPT !.at = clock])
    <3>1. CASE m \in echoes
      <4> DEFINE w == [m EXCEPT !.at = clock]
      <4>1. Ours(sentAt, m) /\ clock \in Nat
        BY <3>1
      <4>2. /\ w.kind = m.kind /\ w.seq = m.seq /\ w.tv = m.tv /\ w.at = clock
            /\ w \in Packets /\ m.seq \in Nat
        <5>1. m \in Packets /\ clock \in Int
          BY <4>1 DEF Ours
        <5>2. w = [kind |-> m.kind, seq |-> m.seq, tv |-> m.tv, at |-> clock]
          BY <5>1 DEF Packets
        <5> QED
          BY <5>1, <5>2 DEF Packets
      <4>3. sentAt[m.seq + 1] <= clock
        <5>1. m.seq + 1 \in 1 .. Len(sentAt) /\ Log(sentAt, clock)
          BY <4>1, <4>2 DEF Ours, Log
        <5> QED
          BY <4>1, <5>1 DEF Log
      <4> QED
        BY <4>1, <4>2, <4>3 DEF Ours, Came
    <3>2. CASE m = Garbage
      BY <3>2, SplitTime DEF Garbage, Came, Packets
    <3> QED
      BY <3>1, <3>2
  <2>3. [m EXCEPT !.at = clock] \in Packets
    BY <2>2 DEF Came
  <2>4. sockq' \in Seq(Packets) /\ \A k \in 1 .. Len(sockq') : Came(sentAt, clock, sockq'[k])
    BY <2>1, <2>2, <2>3
  <2> QED
    BY <2>1, <2>4
<1>6. CASE Errno \/ Failed \/ ProcReturns
  BY <1>6 DEF Errno, Failed, ProcReturns, pingNet, timeVars, pingVars
<1>7. CASE Recvmsg
  <2>1. /\ UNCHANGED <<clock, sentAt, echoes>>
        /\ sockq # <<>> /\ msg' = sockq[1] /\ sockq' = Tail(sockq)
        /\ pc' = "gettimeofday"
    BY <1>7 DEF Recvmsg, timeVars
  <2>2. Came(sentAt, clock, msg')
    BY <2>1
  <2>3. sockq' \in Seq(Packets) /\ \A k \in 1 .. Len(sockq') : Came(sentAt, clock, sockq'[k])
    BY <2>1
  <2> QED
    BY <2>1, <2>2, <2>3
<1>8. CASE Gettimeofday
  <2>1. /\ UNCHANGED <<clock, sentAt, echoes, sockq, msg>>
        /\ tval' = Tv(clock) /\ pc' = "proc"
    BY <1>8 DEF Gettimeofday, timeVars, pingNet
  <2>2. clock \in msg.at .. clock
    BY DEF Came, Packets
  <2> QED
    BY <2>1, <2>2
<1>9. CASE Proc
  BY <1>9 DEF Proc, IsReply, timeVars, pingNet
<1>10. CASE UNCHANGED <<pc, timer, pingVars>>
  BY <1>10 DEF pingVars, timeVars, pingNet
<1> QED
  BY <1>2, <1>3, <1>4, <1>5, <1>6, <1>7, <1>8, <1>9, <1>10 DEF PingNext, Readloop, World

LEMMA PingMeans == PingInv => RttIsExact
<1> SUFFICES ASSUME PingInv, pc = "print" PROVE RttIsExact
  BY DEF RttIsExact
<1>1. PICK c \in msg.at .. clock : tval = Tv(c)
  BY DEF PingInv
<1>2. /\ n > 0 /\ rtt = TvSub(tval, msg.tv)
      /\ msg.tv = Tv(sentAt[msg.seq + 1])
      /\ sentAt[msg.seq + 1] \in Nat /\ sentAt[msg.seq + 1] <= msg.at /\ msg.at \in Nat
  BY DEF PingInv, Came, Ours, Log, Packets
<1>3. c \in Nat /\ c >= msg.at
  BY <1>1, <1>2 DEF PingInv
<1>4. /\ rtt.usec \in 0 .. USec - 1
      /\ Ticks(rtt) = c - sentAt[msg.seq + 1] /\ Ticks(tval) = c
  BY <1>1, <1>2, <1>3, SplitTime, Subtracts
<1> QED
  BY <1>2, <1>3, <1>4 DEF RttIsExact

(* The round trip printed by proc_v4 and proc_v6 is the time since its own *)
(* request was sent, whatever sig_alrm does between two statements of      *)
(* readloop (ping/readloop.c, proc_v4.c, tv_sub.c).                        *)
THEOREM RttAlwaysExact == PingSpec => []RttIsExact
<1> QED
  BY PingInitially, PingKeeps, PingMeans, PTL DEF PingSpec

-----------------------------------------------------------------------------
(* udpcksum.  nsent, timeout and the timeouts that have passed go together *)
(* at every step, and no alarm is set where a jump would spoil it.         *)
Asked(k, t, p) == nsent = k /\ timeout = t /\ patience = p

CksumInv ==
  /\ pc \in {"setjmp", "alarm", "udp_read", "canjump", "alarm0", "jumped", "answered",
             "noresponse", "err_quit"}
  /\ pc \in {"setjmp", "alarm", "jumped", "answered", "noresponse"} => timer = FALSE
  /\ pc = "alarm0" => canjump = FALSE
  /\ pc \in {"canjump", "alarm0", "answered"} => ui = "reply"
  /\ pc = "setjmp" =>
       Asked(0, 3, <<>>) \/ Asked(1, 6, <<3>>) \/ Asked(2, 12, <<3, 6>>)
  /\ pc \in {"alarm", "udp_read", "canjump", "alarm0", "answered"} =>
       Asked(1, 3, <<>>) \/ Asked(2, 6, <<3>>) \/ Asked(3, 12, <<3, 6>>)
  /\ pc = "jumped" =>
       Asked(1, 3, <<3>>) \/ Asked(2, 6, <<3, 6>>) \/ Asked(3, 12, <<3, 6, 12>>)
  /\ pc = "noresponse" => Asked(3, 12, <<3, 6, 12>>)

LEMMA Patience ==
  /\ Append(<<>>, 3) = <<3>>
  /\ Append(<<3>>, 6) = <<3, 6>>
  /\ Append(<<3, 6>>, 12) = <<3, 6, 12>>
<1>1. \A p \in Seq(Int) : Len(p) = 2 /\ p[1] = 3 /\ p[2] = 6 => p = <<3, 6>>
  OBVIOUS
<1>2. \A p \in Seq(Int) : Len(p) = 3 /\ p[1] = 3 /\ p[2] = 6 /\ p[3] = 12 => p = <<3, 6, 12>>
  OBVIOUS
<1>3. <<3>> \in Seq(Int) /\ <<3, 6>> \in Seq(Int)
  OBVIOUS
<1>4. Len(<<3>>) = 1 /\ <<3>>[1] = 3 /\ Len(<<3, 6>>) = 2 /\ <<3, 6>>[1] = 3 /\ <<3, 6>>[2] = 6
  OBVIOUS
<1>5. Append(<<>>, 3) = <<3>>
  OBVIOUS
<1>6. ASSUME NEW p \in Seq(Int), Len(p) = 1, p[1] = 3
      PROVE  Append(p, 6) = <<3, 6>>
  <2> DEFINE q == Append(p, 6)
  <2>1. q \in Seq(Int) /\ Len(q) = Len(p) + 1 /\ q[Len(p) + 1] = 6
    OBVIOUS
  <2>2. \A j \in 1 .. Len(p) : q[j] = p[j]
    OBVIOUS
  <2> HIDE DEF q
  <2>3. q = <<3, 6>>
    BY <1>6, <2>1, <2>2, <1>1
  <2> QED
    BY <2>3 DEF q
<1>7. ASSUME NEW p \in Seq(Int), Len(p) = 2, p[1] = 3, p[2] = 6
      PROVE  Append(p, 12) = <<3, 6, 12>>
  <2> DEFINE q == Append(p, 12)
  <2>1. q \in Seq(Int) /\ Len(q) = Len(p) + 1 /\ q[Len(p) + 1] = 12
    OBVIOUS
  <2>2. \A j \in 1 .. Len(p) : q[j] = p[j]
    OBVIOUS
  <2> HIDE DEF q
  <2>3. q = <<3, 6, 12>>
    BY <1>7, <2>1, <2>2, <1>2
  <2> QED
    BY <2>3 DEF q
<1>8. Append(<<3>>, 6) = <<3, 6>>
  BY <1>3, <1>4, <1>6
<1>9. Append(<<3, 6>>, 12) = <<3, 6, 12>>
  BY <1>3, <1>4, <1>7
<1> QED
  BY <1>5, <1>8, <1>9

LEMMA CksumKeeps == CksumInv /\ [CksumNext]_<<pc, timer, cksumVars>> => CksumInv'
<1> SUFFICES ASSUME CksumInv, [CksumNext]_<<pc, timer, cksumVars>> PROVE CksumInv'
  OBVIOUS
<1> USE DEF CksumInv, Asked
<1>1. CASE SendQuery
  BY <1>1 DEF SendQuery
<1>2. CASE Alarm
  BY <1>2 DEF Alarm, cksumVars
<1>3. CASE UdpRead
  BY <1>3 DEF UdpRead, UdpCheck
<1>4. CASE Canjump
  BY <1>4 DEF Canjump
<1>5. CASE AlarmOff
  BY <1>5 DEF AlarmOff, cksumVars
<1>6. CASE Jumped
  BY <1>6 DEF Jumped
<1>7. CASE JumpAlrm
  <2>1. CASE ~canjump
    BY <1>7, <2>1 DEF JumpAlrm
  <2>2. CASE canjump
    <3>1. Asked(1, 3, <<>>) \/ Asked(2, 6, <<3>>) \/ Asked(3, 12, <<3, 6>>)
      BY <1>7, <2>2 DEF JumpAlrm
    <3> QED
      BY <1>7, <2>2, <3>1, Patience DEF JumpAlrm
  <2> QED
    BY <2>1, <2>2
<1>8. CASE CaptureAny
  BY <1>8 DEF CaptureAny, Capture
<1>9. CASE UNCHANGED <<pc, timer, cksumVars>>
  BY <1>9 DEF cksumVars
<1> QED
  BY <1>1, <1>2, <1>3, <1>4, <1>5, <1>6, <1>7, <1>8, <1>9 DEF CksumNext, TestUdp

LEMMA CksumMeans == CksumInv => ThreeTimeouts
<1>1. Len(<<>>) = 0 /\ Len(<<3>>) = 1 /\ Len(<<3, 6>>) = 2
  OBVIOUS
<1>2. ASSUME CksumInv, pc = "answered" PROVE nsent = Len(patience) + 1
  <2>1. Asked(1, 3, <<>>) \/ Asked(2, 6, <<3>>) \/ Asked(3, 12, <<3, 6>>)
    BY <1>2 DEF CksumInv
  <2> QED
    <3>1. CASE Asked(1, 3, <<>>)
      BY <1>1, <3>1 DEF Asked
    <3>2. CASE Asked(2, 6, <<3>>)
      BY <1>1, <3>2 DEF Asked
    <3>3. CASE Asked(3, 12, <<3, 6>>)
      BY <1>1, <3>3 DEF Asked
    <3> QED
      BY <2>1, <3>1, <3>2, <3>3
<1>3. CksumInv /\ pc = "answered" => ui = "reply" /\ ~timer
  BY DEF CksumInv
<1>4. CksumInv /\ pc = "noresponse" => nsent = 3 /\ patience = <<3, 6, 12>>
  BY DEF CksumInv, Asked
<1> QED
  BY <1>2, <1>3, <1>4 DEF ThreeTimeouts

LEMMA CksumInitially == CksumInit /\ pc = "setjmp" /\ timer = FALSE => CksumInv
BY DEF CksumInit, CksumInv, Asked

(* "No response" is said after three queries and timeouts of 3, 6 and 12   *)
(* seconds, although each of them ends in a jump out of a handler, and     *)
(* only a reply is reported (udpcksum.c:16 to 53).                         *)
THEOREM AlwaysThreeTimeouts == CksumSpec => []ThreeTimeouts
<1> QED
  BY CksumInitially, CksumMeans, CksumKeeps, PTL DEF CksumSpec

-----------------------------------------------------------------------------
(* The checksum of a query.  The sum of its words, which is defined by     *)
(* recursion, takes an induction; the carries take some arithmetic.        *)
(* Induction over a set of numbers: what is not in it has a least one.     *)
Below == {p \in Nat \X Nat : p[1] < p[2]}

LEMMA LeastNumber ==
  ASSUME NEW T, T \subseteq Nat, T # {}
  PROVE  \E x \in T : \A y \in T : x <= y
<1>1. IsWellFoundedOn(Below, Nat)
  BY NatLessThanWellFounded DEF OpToRel, Below
<1>2. PICK x \in T : \A y \in T : ~ (<<y, x>> \in Below)
  BY <1>1, WFMin
<1>3. ASSUME NEW y \in T, y < x PROVE FALSE
  <2>1. <<y, x>> \in Nat \X Nat /\ <<y, x>>[1] = y /\ <<y, x>>[2] = x
    OBVIOUS
  <2>2. <<y, x>> \in Below
    BY <1>3, <2>1, Zenon DEF Below
  <2> QED
    BY <1>2, <2>2
<1> QED
  BY <1>3

LEMMA Induction ==
  ASSUME NEW T, 0 \in T, \A k \in Nat : k \in T => k + 1 \in T
  PROVE  Nat \subseteq T
<1> SUFFICES ASSUME Nat \ T # {} PROVE FALSE
  OBVIOUS
<1>1. PICK x \in Nat \ T : \A y \in Nat \ T : x <= y
  BY LeastNumber
<1>2. x - 1 \in Nat /\ x - 1 \notin Nat \ T /\ (x - 1) + 1 = x
  BY <1>1
<1> QED
  BY <1>1, <1>2

(* Sum computes the partial sums, one word at a time.                      *)
Sums(f, w, k) == f = [i \in 0 .. k |-> IF i = 0 THEN 0 ELSE f[i - 1] + w[i]]

LEMMA SumsExist ==
  ASSUME NEW w, NEW k \in Nat PROVE \E f : Sums(f, w, k)
<1> DEFINE T == {j \in Nat : \E f : Sums(f, w, j)}
<1>1. 0 \in T
  <2>1. Sums([i \in 0 .. 0 |-> 0], w, 0)
    BY DEF Sums
  <2> QED
    BY <2>1
<1>2. ASSUME NEW j \in Nat, j \in T PROVE j + 1 \in T
  <2>1. PICK f : Sums(f, w, j)
    BY <1>2
  <2> DEFINE g == [i \in 0 .. j + 1 |-> IF i = j + 1 THEN f[j] + w[j + 1] ELSE f[i]]
  <2>2. Sums(g, w, j + 1)
    BY <2>1 DEF Sums
  <2> QED
    BY <2>2
<1>3. k \in T
  <2> HIDE DEF T
  <2> QED
    BY <1>1, <1>2, Induction
<1> QED
  BY <1>3

LEMMA SumIs ==
  ASSUME NEW w \in Seq(Nat)
  PROVE  \E f : Sums(f, w, Len(w)) /\ Sum(w) = f[Len(w)]
<1> DEFINE f == CHOOSE g : Sums(g, w, Len(w))
<1>1. Sums(f, w, Len(w))
  BY SumsExist
<1>2. Sum(w) = f[Len(w)]
  BY DEF Sum, Sums
<1> QED
  BY <1>1, <1>2

(* The sum of a query: words that are less than Base, and not too many.    *)
LEMMA SumBounded ==
  ASSUME NEW w \in Queries
  PROVE  Sum(w) \in Nat /\ Sum(w) <= (Base - 1) * (Base - 1)
<1> DEFINE m == Base - 1
<1>1. /\ m \in Nat \ {0} /\ QueryLen \in 1 .. m
  BY WordAssumption
<1>2. w \in Seq(Nat) /\ Len(w) = QueryLen /\ \A i \in 1 .. QueryLen : w[i] \in 0 .. m
  BY <1>1 DEF Queries
<1> HIDE DEF m
<1>3. PICK f : Sums(f, w, QueryLen) /\ Sum(w) = f[QueryLen]
  BY <1>2, SumIs
<1> DEFINE T == {k \in Nat : k <= QueryLen => f[k] \in Nat /\ f[k] <= k * m}
<1>4. 0 \in T
  BY <1>1, <1>3 DEF Sums
<1>5. ASSUME NEW k \in Nat, k \in T PROVE k + 1 \in T
  <2> SUFFICES ASSUME k + 1 <= QueryLen PROVE f[k + 1] \in Nat /\ f[k + 1] <= (k + 1) * m
    BY <1>1
  <2>1. k + 1 \in 1 .. QueryLen /\ k + 1 \in 0 .. QueryLen /\ k + 1 # 0 /\ (k + 1) - 1 = k
    BY <1>1
  <2>2. f[k + 1] = f[k] + w[k + 1]
    BY <1>3, <2>1 DEF Sums
  <2>3. f[k] \in Nat /\ f[k] <= k * m /\ w[k + 1] \in 0 .. m
    BY <1>1, <1>2, <1>5, <2>1
  <2>4. (k + 1) * m = k * m + m /\ k * m \in Nat
    BY <1>1
  <2> QED
    BY <1>1, <2>2, <2>3, <2>4
<1>6. QueryLen \in T
  <2> HIDE DEF T
  <2> QED
    BY <1>1, <1>4, <1>5, Induction
<1>7. Sum(w) \in Nat /\ Sum(w) <= QueryLen * m
  BY <1>1, <1>3, <1>6
<1>8. QueryLen * m <= m * m
  BY <1>1
<1> QED
  BY <1>1, <1>7, <1>8 DEF m

(* Division with a remainder.                                              *)
LEMMA Divided ==
  ASSUME NEW s \in Nat, NEW m \in Nat \ {0}
  PROVE  /\ s \div m \in Nat /\ s % m \in 0 .. m - 1
         /\ s = m * (s \div m) + (s % m)
<1>1. s % m \in 0 .. m - 1
  OBVIOUS
<1>2. s \div m \in Nat
  OBVIOUS
<1>3. s = m * (s \div m) + (s % m)
  <2>1. m \in Nat /\ m > 0
    OBVIOUS
  <2> QED
    BY <2>1
<1> QED
  BY <1>1, <1>2, <1>3

LEMMA NoMultiple ==
  ASSUME NEW m \in Nat \ {0}, NEW k \in Int, NEW r \in 0 .. m - 1, m * k = r
  PROVE  k = 0 /\ r = 0
<1>1. CASE k <= -1
  <2>1. m * k <= 0 - m
    BY <1>1
  <2> QED
    BY <2>1
<1>2. CASE k = 0
  BY <1>2
<1>3. CASE k >= 1
  <2>1. m * k >= m
    BY <1>3
  <2> QED
    BY <2>1
<1> QED
  BY <1>1, <1>2, <1>3

(* What is divided with a remainder is divided so in one way.              *)
LEMMA OneWay ==
  ASSUME NEW s \in Nat, NEW m \in Nat \ {0}, NEW q \in Nat, NEW r \in 0 .. m - 1, s = m * q + r
  PROVE  s \div m = q /\ s % m = r
<1>1. PICK a \in Nat, b \in 0 .. m - 1 : s = m * a + b /\ a = s \div m /\ b = s % m
  BY Divided
<1>2. m * (a - q) = m * a - m * q /\ m * (q - a) = m * q - m * a
  OBVIOUS
<1>3. CASE r >= b
  <2>1. a - q \in Int /\ m * (a - q) = r - b /\ r - b \in 0 .. m - 1
    <3>1. m * a - m * q = r - b
      BY <1>1
    <3> QED
      BY <1>1, <1>2, <1>3, <3>1
  <2>2. a - q = 0 /\ r - b = 0
    BY <2>1, NoMultiple
  <2> QED
    BY <1>1, <2>2
<1>4. CASE r < b
  <2>1. q - a \in Int /\ m * (q - a) = b - r /\ b - r \in 0 .. m - 1
    <3>1. m * q - m * a = b - r
      BY <1>1
    <3> QED
      BY <1>1, <1>2, <1>4, <3>1
  <2>2. q - a = 0 /\ b - r = 0
    BY <2>1, NoMultiple
  <2> QED
    BY <1>1, <2>2
<1> QED
  BY <1>1, <1>3, <1>4

(* The carries are added back: what is left is the sum modulo Base - 1.    *)
LEMMA Carried ==
  ASSUME NEW s \in Nat, s <= (Base - 1) * (Base - 1)
  PROVE  \E t \in 0 .. Base - 1, k \in Nat :
           t = Fold(s) % Base /\ s + (Base - 1 - t) = (Base - 1) * k
<1>1. Base \in Nat \ {0} /\ Base > 2
  BY WordAssumption
<1>2. PICK q \in Nat, r \in 0 .. Base - 1 : s = Base * q + r /\ q = s \div Base /\ r = s % Base
  BY <1>1, Divided
<1>3. q <= Base - 2
  <2> SUFFICES ASSUME q >= Base - 1 PROVE FALSE
    BY <1>1, <1>2
  <2>1. Base * q >= Base * (Base - 1)
    BY <1>1
  <2>2. Base * (Base - 1) = (Base - 1) * (Base - 1) + (Base - 1)
    BY <1>1
  <2> QED
    BY <1>1, <1>2, <2>1, <2>2
<1>4. q + r \in Nat /\ q + r <= 2 * Base - 3
  BY <1>1, <1>2, <1>3
<1>5. Fold(s) = (q + r) + (q + r) \div Base
  BY <1>2 DEF Fold
<1>6. CASE q + r < Base
  <2>1. q + r \in 0 .. Base - 1 /\ q + r = Base * 0 + (q + r)
    BY <1>1, <1>4, <1>6
  <2>2. (q + r) \div Base = 0 /\ (q + r) % Base = q + r
    BY <1>1, <1>4, <2>1, OneWay
  <2>3. Fold(s) % Base = q + r
    BY <1>4, <1>5, <2>2
  <2>4. s + (Base - 1 - (q + r)) = (Base - 1) * (q + 1)
    <3>1. (Base - 1) * (q + 1) = Base * q - q + Base - 1
      BY <1>1
    <3>2. s = Base * q + r
      BY <1>2
    <3> QED
      BY <1>1, <3>1, <3>2
  <2> QED
    BY <1>2, <2>1, <2>3, <2>4
<1>7. CASE q + r >= Base
  <2>1. q + r - Base \in 0 .. Base - 1 /\ q + r = Base * 1 + (q + r - Base)
    BY <1>1, <1>4, <1>7
  <2>2. (q + r) \div Base = 1
    BY <1>1, <1>4, <2>1, OneWay
  <2>3. /\ q + r + 1 \in Nat /\ q + r + 1 - Base \in 0 .. Base - 1
        /\ q + r + 1 = Base * 1 + (q + r + 1 - Base)
    BY <1>1, <1>4, <1>7
  <2>4. (q + r + 1) % Base = q + r + 1 - Base
    BY <1>1, <2>3, OneWay
  <2>5. Fold(s) % Base = q + r + 1 - Base
    BY <1>4, <1>5, <2>2, <2>4
  <2>6. s + (Base - 1 - (q + r + 1 - Base)) = (Base - 1) * (q + 2)
    <3>1. (Base - 1) * (q + 2) = Base * q - q + Base + Base - 2
      BY <1>1
    <3>2. s = Base * q + r
      BY <1>2
    <3> QED
      BY <1>1, <3>1, <3>2
  <2> QED
    BY <1>2, <2>3, <2>5, <2>6
<1> QED
  BY <1>1, <1>4, <1>6, <1>7

(* What the checksum is for: with it the words are 0 modulo Base - 1.      *)
LEMMA ChecksumVerifies ==
  ASSUME query \in Queries, ~zerosum
  PROVE  Checksum \in 1 .. Base - 1 /\ (Sum(query) + Checksum) % (Base - 1) = 0
<1> DEFINE m == Base - 1
<1>1. Base \in Nat /\ m \in Nat \ {0}
  BY WordAssumption
<1>2. PICK s \in Nat : s = Sum(query) /\ s <= m * m
  BY SumBounded
<1>3. PICK t \in 0 .. m, k \in Nat : t = Fold(s) % Base /\ s + (m - t) = m * k
  BY <1>2, Carried
<1>4. in_cksum(query) = m - t
  BY <1>2, <1>3 DEF in_cksum
<1> HIDE DEF m
<1>5. \E j \in Nat : Checksum \in 1 .. m /\ s + Checksum = m * j
  <2>1. CASE m - t = 0
    <3>1. Checksum = m
      BY <1>4, <2>1 DEF Checksum, m
    <3>2. s + m = m * (k + 1)
      BY <1>1, <1>2, <1>3, <2>1
    <3>3. Checksum \in 1 .. m /\ k + 1 \in Nat /\ s + Checksum = m * (k + 1)
      BY <1>1, <3>1, <3>2
    <3> QED
      BY <3>3
  <2>2. CASE m - t # 0
    <3>1. Checksum = m - t
      BY <1>4, <2>2 DEF Checksum, m
    <3>2. Checksum \in 1 .. m
      BY <1>1, <1>3, <2>2, <3>1
    <3>3. s + Checksum = m * k
      BY <1>3, <3>1
    <3> QED
      BY <3>2, <3>3
  <2> QED
    BY <2>1, <2>2
<1>6. PICK j \in Nat : Checksum \in 1 .. m /\ s + Checksum = m * j
  BY <1>5
<1>7. (s + Checksum) % m = 0
  <2>1. s + Checksum \in Nat /\ s + Checksum = m * j + 0 /\ 0 \in 0 .. m - 1
    BY <1>1, <1>2, <1>6
  <2> QED
    BY <1>1, <2>1, OneWay
<1> QED
  BY <1>2, <1>6, <1>7 DEF m

(* A query keeps its words, and each goes out with the same checksum.      *)
SentInv ==
  /\ nsent \in Nat /\ query \in Queries /\ zerosum \in BOOLEAN
  /\ nsent > 0 => ui_sum = Checksum

LEMMA SentKeeps == SentInv /\ [CksumNext]_<<pc, timer, cksumVars>> => SentInv'
<1> SUFFICES ASSUME SentInv, [CksumNext]_<<pc, timer, cksumVars>> PROVE SentInv'
  OBVIOUS
<1>1. UNCHANGED <<zerosum, query>>
  BY DEF CksumNext, TestUdp, SendQuery, Alarm, UdpRead, Canjump, AlarmOff, Jumped, JumpAlrm,
         CaptureAny, Capture, cksumVars, queryVars
<1>2. Checksum' = Checksum
  BY <1>1 DEF Checksum, in_cksum, Fold, Sum
<1>3. \/ ui_sum' = Checksum /\ nsent' = nsent + 1
      \/ UNCHANGED <<ui_sum, nsent>>
  BY DEF CksumNext, TestUdp, SendQuery, Alarm, UdpRead, Canjump, AlarmOff, Jumped, JumpAlrm,
         CaptureAny, Capture, cksumVars
<1> QED
  BY <1>1, <1>2, <1>3 DEF SentInv

LEMMA SentMeans == SentInv => Verifies
<1> SUFFICES ASSUME SentInv, nsent > 0 PROVE Verifies
  BY DEF Verifies
<1>1. CASE zerosum
  BY <1>1 DEF SentInv, Verifies, Checksum
<1>2. CASE ~zerosum
  BY <1>2, ChecksumVerifies DEF SentInv, Verifies
<1> QED
  BY <1>1, <1>2

LEMMA SentInitially == CksumInit => SentInv
BY DEF CksumInit, SentInv

(* The checksum of every query that is sent verifies, for all words, all   *)
(* word sizes and every length that a sum of this size has room for        *)
(* (in_cksum and udp_write), or is 0 when none is wanted.                  *)
THEOREM AlwaysVerifies == CksumSpec => []Verifies
<1> QED
  BY SentInitially, SentMeans, SentKeeps, PTL DEF CksumSpec

-----------------------------------------------------------------------------
(* my_open: whatever fails, it returns a descriptor or an error.          *)
openAll == <<pc, timer, openVars>>

(* What the child has done when the parent has not yet looked: a           *)
(* descriptor is in the socket pair just if sendmsg has worked.            *)
ChildInv ==
  /\ child \in {"none", "execl", "open", "write_fd", "exit", "ended"}
  /\ forked \in BOOLEAN /\ (forked <=> child # "none")
  /\ child = "ended" => cstatus \in Statuses
  /\ child # "ended" => cstatus = Alive
  /\ child \in {"none", "execl", "open", "write_fd"} => ~passed
  /\ cstatus.how = "exited" /\ cstatus.code # "0" => ~passed

(* The parent: it looks only after the child has ended.                    *)
Waiting == {"socketpair", "fork", "waitpid"}
ParentInv ==
  /\ pc \in Waiting \cup {"WIFEXITED", "close", "returned", "over"}
  /\ passed \in BOOLEAN /\ full \in BOOLEAN /\ ours \in BOOLEAN
  /\ pc \in {"socketpair", "fork"} => ~forked
  /\ pc \in Waiting \cup {"WIFEXITED"} => fd = "unset" /\ ~full
  /\ pc \in Waiting \cup {"WIFEXITED"} /\ (child = "exit" \/ cstatus = Exit("0")) => passed
  /\ forked /\ pc \notin Waiting => child = "ended" /\ status = cstatus
  /\ ~forked => fd \in {"unset", "none"}

(* What my_open has made of it.                                            *)
ResultInv ==
  /\ forked /\ pc \in {"close", "returned", "over"} =>
       /\ fd = IF cstatus = Exit("0") /\ ~full THEN "file" ELSE "none"
       /\ cstatus.how = "exited" /\ cstatus.code # "0" => openErrno = cstatus.code
       /\ passed => cstatus = Killed
       /\ pc # "close" /\ ours => cstatus = Killed
  /\ forked /\ pc = "close" => cstatus # Killed

(* The second mycat and the first.                                         *)
SaidInv ==
  /\ said \in Nat
  /\ pc # "over" => said = (IF cstatus = Exit("255") THEN 1 ELSE 0)
  /\ pc = "over" => said = (IF cstatus = Exit("255") THEN 1 ELSE 0)
                           + (IF fd = "none" THEN 1 ELSE 0)

OpenInv == ChildInv /\ ParentInv /\ ResultInv /\ SaidInv

LEMMA OpenInitially == OpenInit /\ pc = "socketpair" => OpenInv
<1> SUFFICES ASSUME OpenInit, pc = "socketpair" PROVE OpenInv
  OBVIOUS
<1> USE DEF OpenInit, Alive, Exit, Waiting
<1>1. ChildInv
  BY DEF ChildInv
<1>2. ParentInv
  BY DEF ParentInv
<1>3. ResultInv /\ SaidInv
  BY DEF ResultInv, SaidInv
<1> QED
  BY <1>1, <1>2, <1>3 DEF OpenInv

(* Every step keeps the four parts.                                        *)
LEMMA OpenKeeps == OpenInv /\ [OpenNext]_openAll => OpenInv'
<1> USE DEF OpenInv, ChildInv, ParentInv, ResultInv, SaidInv, Alive, Exit, Killed, Waiting
<1> SUFFICES ASSUME OpenInv, [OpenNext]_openAll PROVE OpenInv'
  OBVIOUS
<1>1. CASE Execl
  BY <1>1 DEF Execl, ChildEnds, parentVars, Statuses
<1>2. CASE Open
  BY <1>2 DEF Open, ChildEnds, parentVars, Statuses
<1>3. CASE WriteFd
  <2>1. CASE ChildEnds("ESEND") /\ UNCHANGED passed
    BY <1>3, <2>1 DEF WriteFd, ChildEnds, parentVars, Statuses
  <2>2. CASE pair /\ passed' = TRUE /\ child' = "exit" /\ UNCHANGED cstatus
    BY <1>3, <2>2 DEF WriteFd, parentVars
  <2> QED
    BY <1>3, <2>1, <2>2 DEF WriteFd
<1>4. CASE ExitZero
  BY <1>4 DEF ExitZero, ChildEnds, parentVars, Statuses
<1>5. CASE Kill
  BY <1>5 DEF Kill, parentVars, Statuses
<1>6. CASE Socketpair
  BY <1>6 DEF Socketpair, childVars
<1>7. CASE Fork
  <2>1. child = "none" /\ ~forked /\ cstatus = Alive
    BY <1>7 DEF Fork
  <2>2. CASE forked' = TRUE /\ child' = "execl"
    BY <1>7, <2>1, <2>2 DEF Fork, parentVars
  <2>3. CASE UNCHANGED <<forked, child>>
    BY <1>7, <2>1, <2>3 DEF Fork, parentVars
  <2> QED
    BY <1>7, <2>2, <2>3 DEF Fork
<1>8. CASE Waitpid
  BY <1>8 DEF Waitpid, childVars
<1>9. CASE NotExited
  BY <1>9 DEF NotExited, childVars, Statuses
<1>10. CASE ReadFd
  <2> USE <1>10 DEF ReadFd, childVars
  <2>1. full' \in BOOLEAN
    OBVIOUS
  <2>2. ChildInv' /\ SaidInv'
    OBVIOUS
  <2>3. fd' = IF ~passed THEN fd ELSE IF full' THEN "none" ELSE "file"
    OBVIOUS
  <2>4. ParentInv'
    BY <2>1, <2>3
  <2>5. ResultInv'
    BY <2>1, <2>3
  <2> QED
    BY <2>2, <2>4, <2>5
<1>11. CASE TakeErrno
  BY <1>11 DEF TakeErrno, childVars
<1>12. CASE CloseOurs
  BY <1>12 DEF CloseOurs, childVars
<1>13. CASE Mycat
  BY <1>13 DEF Mycat, childVars, parentVars
<1>14. CASE UNCHANGED openAll
  BY <1>14 DEF openAll, openVars, childVars, parentVars
<1> QED
  BY <1>1, <1>2, <1>3, <1>4, <1>5, <1>6, <1>7, <1>8, <1>9, <1>10, <1>11, <1>12, <1>13, <1>14
     DEF OpenNext, OpenSteps, Child, MyOpen

LEMMA OpenMeans == OpenInv => DescriptorOrError
BY DEF OpenInv, ChildInv, ParentInv, ResultInv, SaidInv, DescriptorOrError, Exit, Killed, Waiting

(* my_open never returns neither a descriptor nor an error, nor leaves one *)
(* behind, whichever call of parent or child fails (myopen.c:9 to 43).     *)
THEOREM NeverNeither == OpenSpec => []DescriptorOrError
<1> QED
  BY OpenInitially, OpenKeeps, OpenMeans, PTL DEF OpenSpec, openAll

-----------------------------------------------------------------------------
(* The three ways to connect: what they return is true of the socket.      *)
connAll == <<pc, timer, connVars>>

ConnTypeInv ==
  /\ call \in {"connect_nonb", "connect_timeo", "daytimetcpcli1"}
  /\ timer \in BOOLEAN /\ nonblock \in BOOLEAN /\ intr \in BOOLEAN /\ early \in BOOLEAN
  /\ solaris \in BOOLEAN /\ atOnce \in BOOLEAN
  /\ hs \in {"none", "syn", "up"} \cup Errors
  /\ error \in {"none"} \cup Errors
  /\ open \in {0, 1} /\ ret \in {0, -1}
  /\ ~stray

(* connect_nonb: until the end the socket is open, and what SO_ERROR has   *)
(* not reported is connected, unless select was interrupted.               *)
NonbInv ==
  call = "connect_nonb" =>
    /\ pc \in {"F_SETFL", "connect_nonb", "select", "SO_ERROR", "done", "result"}
    /\ ~timer
    /\ pc # "result" => open = 1
    /\ pc \in {"F_SETFL", "connect_nonb"} => hs = "none"
    /\ pc \in {"F_SETFL", "connect_nonb", "select", "SO_ERROR"} => error = "none"
    /\ pc \in {"connect_nonb", "select", "SO_ERROR"} => nonblock
    /\ pc = "select" => hs # "none"
    /\ pc = "SO_ERROR" => hs \in {"up"} \cup Errors \/ intr
    /\ pc = "done" => error # "none" \/ hs = "up" \/ intr
    /\ pc = "result" /\ ret = 0 => open = 1 /\ ~nonblock /\ (hs = "up" \/ intr)
    /\ pc = "result" /\ ret = -1 => open = 0 \/ (LeftOpen /\ hs # "syn")

(* connect_timeo: while connect() sleeps its alarm is set or was early.    *)
TimeoInv ==
  call = "connect_timeo" =>
    /\ pc \in {"Signal", "alarm", "aborted", "connect", "asleep", "alarm0", "signal", "result"}
    /\ ~nonblock
    /\ hs = "ETIMEDOUT" => early
    /\ handler = IF pc \in {"Signal", "result"} THEN "caller" ELSE "connect_alarm"
    /\ pc \in {"Signal", "alarm", "aborted", "connect"} => hs = "none" /\ open = 1 /\ ret = 0
    /\ pc = "connect" => timer \/ early
    /\ pc = "asleep" => open = 1 /\ ret = 0 /\ hs # "none" /\ (hs = "syn" => timer \/ early)
    /\ pc \in {"alarm0", "signal", "result"} /\ ret = 0 => open = 1 /\ hs = "up"
    /\ pc \in {"alarm0", "signal", "result"} /\ ret = -1 => open = 0
    /\ pc \in {"signal", "result"} => ~timer

(* daytimetcpcli1: one socket at a time.                                   *)
DaytimeInv ==
  call = "daytimetcpcli1" =>
    /\ pc \in {"socket", "connect", "asleep", "result"}
    /\ ~timer /\ ~nonblock
    /\ pc = "socket" => open = 0
    /\ pc \in {"connect", "asleep"} => open = 1
    /\ pc # "result" => ret = 0
    /\ pc = "asleep" => hs # "none"
    /\ pc = "result" /\ ret = 0 => open = 1 /\ hs = "up"
    /\ pc = "result" /\ ret = -1 => open = 0

ConnInv == ConnTypeInv /\ NonbInv /\ TimeoInv /\ DaytimeInv

LEMMA ConnInitially ==
  ConnInit /\ pc = ConnStart[call] /\ timer \in {FALSE, call = "connect_timeo"} => ConnInv
<1> SUFFICES ASSUME ConnInit, pc = ConnStart[call], timer \in {FALSE, call = "connect_timeo"}
             PROVE  ConnInv
  OBVIOUS
<1>0. /\ call \in {"connect_nonb", "connect_timeo", "daytimetcpcli1"}
      /\ call # "connect_timeo" => timer = FALSE
  BY ConnAssumption DEF ConnInit
<1> USE <1>0 DEF ConnInit
<1>1. ConnTypeInv
  BY DEF ConnTypeInv
<1>2. NonbInv
  BY DEF NonbInv, ConnStart
<1>3. TimeoInv
  BY DEF TimeoInv, ConnStart
<1>4. DaytimeInv
  BY DEF DaytimeInv, ConnStart
<1> QED
  BY <1>1, <1>2, <1>3, <1>4 DEF ConnInv

(* Every step keeps the four parts.                                        *)
LEMMA ConnKeeps == ConnInv /\ [ConnNext]_connAll => ConnInv'
<1> USE DEF ConnInv, ConnTypeInv, NonbInv, TimeoInv, DaytimeInv, LeftOpen, connArgs, Errors
<1> SUFFICES ASSUME ConnInv, [ConnNext]_connAll PROVE ConnInv'
  OBVIOUS
<1>1. CASE SetNonblock
  BY <1>1 DEF SetNonblock, result, connHistory
<1>2. CASE ConnectNonb
  <2>1. /\ call = "connect_nonb" /\ open = 1 /\ nonblock /\ error = "none" /\ ~timer
        /\ UNCHANGED <<call, timer, solaris, nonblock, error, intr, early, stray>>
    BY <1>2 DEF ConnectNonb
  <2>2. CASE hs' = "ECONNREFUSED" /\ pc' = "result" /\ Fails("ECONNREFUSED", open) /\ atOnce'
    BY <2>1, <2>2 DEF Fails
  <2>3. CASE hs' \in {"up", "syn"} /\ UNCHANGED <<open, result, atOnce>>
    <3>1. pc' = IF hs' = "up" THEN "done" ELSE "select"
      BY <1>2, <2>3 DEF ConnectNonb
    <3> QED
      BY <2>1, <2>3, <3>1 DEF result
  <2> QED
    BY <1>2, <2>2, <2>3 DEF ConnectNonb
<1>3. CASE SelectConn
  <2> USE <1>3 DEF SelectConn, connHistory
  <2>0. call = "connect_nonb" /\ open = 1 /\ error = "none" /\ ~timer
    OBVIOUS
  <2>1. CASE hs # "syn" /\ pc' = "SO_ERROR" /\ UNCHANGED <<open, result, intr>>
    BY <2>0, <2>1 DEF result
  <2>2. CASE hs = "syn" /\ pc' = "result" /\ Fails("ETIMEDOUT", 0) /\ UNCHANGED intr
    <3>1. call' = call /\ open' = 0 /\ ret' = -1 /\ pc' = "result"
      BY <2>2 DEF Fails
    <3>2. ConnTypeInv'
      BY <2>2, <3>1
    <3>3. NonbInv'
      BY <2>0, <2>2, <3>1
    <3> QED
      BY <2>0, <3>1, <3>2, <3>3
  <2>3. CASE /\ hs = "syn" /\ intr' = TRUE /\ pc' \in {"SO_ERROR", "done"}
             /\ UNCHANGED <<open, result>>
    <3>1. call' = call /\ open' = 1 /\ ret' = ret /\ timer' = timer /\ error' = error
      BY <2>0, <2>3 DEF result
    <3>2. ConnTypeInv'
      BY <2>3, <3>1
    <3>3. NonbInv'
      BY <2>0, <2>3, <3>1
    <3> QED
      BY <2>0, <3>1, <3>2, <3>3
  <2> QED
    BY <2>1, <2>2, <2>3
<1>4. CASE SoError
  BY <1>4 DEF SoError, Fails, result, connHistory
<1>5. CASE ConnDone
  <2>1. call = "connect_nonb"
    BY <1>5 DEF ConnDone
  <2>2. /\ UNCHANGED <<call, timer, hs, solaris, error, atOnce, intr, early, stray>>
        /\ nonblock' = FALSE /\ pc' = "result"
    BY <1>5 DEF ConnDone, connHistory
  <2>3. \/ error # "none" /\ open' = 0 /\ ret' = -1
        \/ error = "none" /\ open' = open /\ ret' = 0
    BY <1>5 DEF ConnDone, Fails
  <2>4. ConnTypeInv'
    BY <2>2, <2>3
  <2>5. NonbInv'
    BY <1>5, <2>1, <2>2, <2>3 DEF ConnDone
  <2> QED
    BY <2>1, <2>2, <2>4, <2>5
<1>6. CASE SignalConn
  BY <1>6 DEF SignalConn, result, connHistory
<1>7. CASE AlarmConn
  BY <1>7 DEF AlarmConn, connVars, result, connHistory
<1>8. CASE ConnectSleeps
  BY <1>8 DEF ConnectSleeps, result, connHistory
<1>9. CASE ConnectReturns
  BY <1>9 DEF ConnectReturns, Failed1, Fails, result, connHistory
<1>10. CASE ConnectInterrupted
  BY <1>10 DEF ConnectInterrupted, Failed1, Fails, result
<1>11. CASE AlarmConnOff
  <2>1. /\ call = "connect_timeo" /\ pc = "alarm0" /\ pc' = "signal" /\ timer' = FALSE
        /\ UNCHANGED <<call, hs, solaris, open, nonblock, handler, error, ret, atOnce, intr>>
        /\ UNCHANGED <<early, stray>>
    BY <1>11 DEF AlarmConnOff, connVars, result, connHistory
  <2>2. ConnTypeInv'
    BY <2>1
  <2>3. TimeoInv'
    BY <2>1
  <2> QED
    BY <2>1, <2>2, <2>3
<1>12. CASE RestoreHandler
  BY <1>12 DEF RestoreHandler, result, connHistory
<1>13. CASE NextAddr
  BY <1>13 DEF NextAddr, connHistory
<1>14. CASE ConnAlrm
  <2>1. call = "connect_timeo" /\ timer
    BY <1>14 DEF ConnAlrm
  <2>2. CASE pc = "asleep" /\ hs = "syn"
    <3>1. /\ UNCHANGED <<call, hs, solaris, nonblock, handler, error, atOnce, intr>>
          /\ open' = 0 /\ ret' = -1 /\ pc' = "alarm0"
      BY <1>14, <2>1, <2>2 DEF ConnAlrm, Failed1, Fails
    <3>2. timer' = FALSE /\ early' = early /\ ~stray'
      BY <1>14, <2>1, <2>2 DEF ConnAlrm
    <3>3. ConnTypeInv'
      BY <2>1, <3>1, <3>2
    <3>4. TimeoInv'
      BY <2>1, <2>2, <3>1, <3>2
    <3> QED
      BY <2>1, <3>1, <3>3, <3>4
  <2>3. CASE ~(pc = "asleep" /\ hs = "syn")
    <3>1. UNCHANGED <<pc, call, hs, solaris, open, nonblock, handler, error, ret, atOnce, intr>>
      BY <1>14, <2>3 DEF ConnAlrm, result
    <3>2. /\ ~timer' /\ timer' \in BOOLEAN
          /\ early' = (early \/ pc = "connect")
          /\ stray' = (stray \/ (handler = "caller" /\ pc # "Signal"))
      BY <1>14 DEF ConnAlrm
    <3>3. pc \notin {"result", "signal"}
      BY <2>1
    <3>4. ConnTypeInv'
      BY <2>1, <3>1, <3>2, <3>3
    <3>5. TimeoInv'
      BY <2>1, <2>3, <3>1, <3>2, <3>3
    <3> QED
      BY <2>1, <3>1, <3>4, <3>5
  <2> QED
    BY <2>2, <2>3
<1>15. CASE Handshake
  BY <1>15 DEF Handshake, result, connHistory
<1>16. CASE UNCHANGED connAll
  BY <1>16 DEF connAll, connVars, result, connHistory
<1> QED
  BY <1>1, <1>2, <1>3, <1>4, <1>5, <1>6, <1>7, <1>8, <1>9, <1>10, <1>11, <1>12, <1>13,
     <1>14, <1>15, <1>16 DEF ConnNext, Connect

LEMMA ConnMeans == ConnInv => ConnectTells
BY DEF ConnInv, ConnTypeInv, NonbInv, TimeoInv, DaytimeInv, ConnectTells

(* A call that returns 0 has connected, one that returns -1 has closed its *)
(* socket, and connect_timeo leaves no alarm behind, with the exceptions   *)
(* that ConnectTells names (connect_nonb.c, connect_timeo.c and            *)
(* daytimetcpcli1.c).                                                      *)
THEOREM AlwaysTells == ConnSpec => []ConnectTells
<1> QED
  BY ConnInitially, ConnKeeps, ConnMeans, PTL DEF ConnSpec, connAll

-----------------------------------------------------------------------------
(* The UDP client.  As long as nothing comes twice and no call fails, a    *)
(* line is in one place: on its way, in the socket, in recvline or shown.  *)
OnItsWay == requests \cup answers
In(q) == {q[i] : i \in 1 .. Len(q)}
NoneTwice(q) == \A i, j \in 1 .. Len(q) : q[i] = q[j] => i = j \/ q[i] = 0
Spoilt == Happened("twice") \/ Happened("error")
Strange == Happened("stranger")
Mishaps == {"lost", "twice", "stranger", "error"}

UdpType ==
  /\ pc \in {"fgets", "sendto", "recvfrom", "fputs", "ended"}
  /\ sent \in Nat /\ requests \subseteq Nat /\ answers \subseteq Nat /\ rcvbuf \in Seq(Nat)
  /\ recvline \in Nat /\ timeouts \in Nat /\ shown \subseteq Nat /\ soerror \in BOOLEAN
  /\ mishaps \in Seq(Mishaps)

OnePlace ==
  /\ OnItsWay \subseteq 1 .. sent /\ shown \subseteq 0 .. sent
  /\ requests \cap answers = {} /\ OnItsWay \cap shown = {}
  /\ In(rcvbuf) \ {0} \subseteq (1 .. sent) \ (OnItsWay \cup shown)
  /\ NoneTwice(rcvbuf)
  /\ pc = "sendto" => sent > 0 /\ sent \notin OnItsWay \cup shown \cup In(rcvbuf)
  /\ pc = "fputs" => recvline <= sent
  /\ pc = "fputs" /\ recvline # 0 => recvline \notin OnItsWay \cup shown \cup In(rcvbuf)
  /\ 0 \in In(rcvbuf) \/ (pc = "fputs" /\ recvline = 0) => kind # "dgcliconnect" /\ Strange

(* Without strangers and timeouts there is at most the line just sent.     *)
InTurn ==
  /\ pc # "recvfrom" => OnItsWay \cup In(rcvbuf) = {}
  /\ OnItsWay \cup In(rcvbuf) \subseteq {sent}
  /\ pc = "fputs" => recvline = sent

UdpInv ==
  /\ UdpType
  /\ soerror => Spoilt
  /\ ~Spoilt => OnePlace
  /\ ~Spoilt /\ ~Strange /\ timeouts = 0 => InTurn

LEMMA AppendedTo ==
  ASSUME NEW q \in Seq(Nat), NEW d \in Nat
  PROVE  /\ Append(q, d) \in Seq(Nat) /\ In(Append(q, d)) = In(q) \cup {d}
         /\ NoneTwice(q) /\ d \notin In(q) \ {0} => NoneTwice(Append(q, d))
<1>0. Append(q, d) \in Seq(Nat)
  BY AppendProperties
<1>1. PICK s \in Seq(Nat) : s = Append(q, d)
  BY <1>0
<1>2. /\ Len(q) \in Nat /\ Len(s) = Len(q) + 1 /\ s[Len(q) + 1] = d
      /\ \A i \in 1 .. Len(q) : s[i] = q[i]
  BY <1>1
<1>3. In(s) = In(q) \cup {d}
  <2>1. 1 .. Len(s) = 1 .. Len(q) \cup {Len(q) + 1}
    BY <1>2
  <2> QED
    BY <1>2, <2>1 DEF In
<1>4. ASSUME NoneTwice(q), d \notin In(q) \ {0}, NEW i \in 1 .. Len(s), NEW j \in 1 .. Len(s),
             s[i] = s[j], s[i] # 0
      PROVE  i = j
  <2>1. CASE i \in 1 .. Len(q) /\ j \in 1 .. Len(q)
    BY <1>2, <1>4, <2>1 DEF NoneTwice
  <2>2. CASE i = Len(q) + 1 /\ j \in 1 .. Len(q)
    BY <1>2, <1>4, <2>2 DEF In
  <2>3. CASE j = Len(q) + 1 /\ i \in 1 .. Len(q)
    BY <1>2, <1>4, <2>3 DEF In
  <2> QED
    BY <1>2, <2>1, <2>2, <2>3
<1> QED
  BY <1>1, <1>3, <1>4 DEF NoneTwice

LEMMA TakenFrom ==
  ASSUME NEW q \in Seq(Nat), q # <<>>
  PROVE  /\ Head(q) \in Nat /\ Tail(q) \in Seq(Nat) /\ In(q) = {Head(q)} \cup In(Tail(q))
         /\ NoneTwice(q) => /\ NoneTwice(Tail(q))
                            /\ Head(q) # 0 => Head(q) \notin In(Tail(q))
<1>0. Tail(q) \in Seq(Nat)
  BY HeadTailProperties
<1>1. PICK s \in Seq(Nat) : s = Tail(q)
  BY <1>0
<1>2. /\ Len(q) \in Nat \ {0} /\ Len(s) = Len(q) - 1 /\ Head(q) = q[1]
      /\ \A i \in 1 .. Len(s) : s[i] = q[i + 1]
  BY <1>1
<1>3. \A i \in 1 .. Len(s) : i + 1 \in 1 .. Len(q) /\ i + 1 # 1
  BY <1>2
<1>4. In(q) = {Head(q)} \cup In(s)
  <2>1. \A i \in 1 .. Len(q) : i = 1 \/ (i - 1 \in 1 .. Len(s) /\ (i - 1) + 1 = i)
    BY <1>2
  <2>2. ASSUME NEW i \in 1 .. Len(q) PROVE q[i] \in {Head(q)} \cup In(s)
    <3>1. CASE i = 1
      BY <1>2, <3>1
    <3>2. CASE i # 1
      <4>1. i - 1 \in 1 .. Len(s) /\ s[i - 1] = q[i]
        BY <1>2, <2>1, <3>2
      <4> QED
        BY <4>1 DEF In
    <3> QED
      BY <3>1, <3>2
  <2>3. 1 \in 1 .. Len(q)
    BY <1>2
  <2>4. In(q) \subseteq {Head(q)} \cup In(s)
    BY <2>2 DEF In
  <2>5. {Head(q)} \cup In(s) \subseteq In(q)
    BY <1>2, <1>3, <2>3 DEF In
  <2> QED
    BY <2>4, <2>5
<1>5. ASSUME NoneTwice(q) PROVE NoneTwice(s) /\ (Head(q) # 0 => Head(q) \notin In(s))
  <2>1. 1 \in 1 .. Len(q)
    BY <1>2
  <2>2. ASSUME Head(q) # 0, NEW i \in 1 .. Len(s), s[i] = Head(q) PROVE FALSE
    <3>1. q[1] = q[i + 1] /\ i + 1 \in 1 .. Len(q) /\ i + 1 # 1 /\ q[1] # 0
      BY <1>2, <1>3, <2>2
    <3> QED
      BY <1>5, <2>1, <3>1 DEF NoneTwice
  <2>3. ASSUME NEW i \in 1 .. Len(s), NEW j \in 1 .. Len(s), s[i] = s[j], s[i] # 0 PROVE i = j
    <3>1. i + 1 = j + 1
      BY <1>2, <1>3, <1>5, <2>3 DEF NoneTwice
    <3> QED
      BY <3>1
  <2> QED
    BY <2>2, <2>3 DEF NoneTwice, In
<1>6. Head(q) \in Nat
  BY <1>2
<1> QED
  BY <1>1, <1>4, <1>5, <1>6

LEMMA HappenedNow ==
  ASSUME mishaps \in Seq(Mishaps), NEW w \in Mishaps, mishaps' = Append(mishaps, w)
  PROVE  /\ mishaps' \in Seq(Mishaps)
         /\ \A x : Happened(x)' <=> Happened(x) \/ x = w
<1>0. Append(mishaps, w) \in Seq(Mishaps)
  BY AppendProperties
<1>1. PICK s \in Seq(Mishaps) : s = Append(mishaps, w)
  BY <1>0
<1>2. /\ Len(mishaps) \in Nat /\ Len(s) = Len(mishaps) + 1 /\ s[Len(mishaps) + 1] = w
      /\ \A i \in 1 .. Len(mishaps) : s[i] = mishaps[i]
  BY <1>1
<1>3. DOMAIN s = 1 .. Len(mishaps) \cup {Len(mishaps) + 1} /\ DOMAIN mishaps = 1 .. Len(mishaps)
  BY <1>2
<1> QED
  BY <1>1, <1>2, <1>3 DEF Happened

LEMMA UdpInitially == UdpInit /\ pc = "fgets" => UdpInv
<1> SUFFICES ASSUME UdpInit, pc = "fgets" PROVE UdpInv
  OBVIOUS
<1>1. rcvbuf \in Seq(Nat) /\ mishaps \in Seq(Mishaps)
  BY DEF UdpInit
<1>2. In(rcvbuf) = {} /\ NoneTwice(rcvbuf)
  BY DEF UdpInit, In, NoneTwice
<1>3. UdpType
  BY <1>1 DEF UdpInit, UdpType
<1>4. OnePlace /\ InTurn
  BY <1>2 DEF UdpInit, OnePlace, InTurn, OnItsWay
<1> QED
  BY <1>3, <1>4 DEF UdpInit, UdpInv

(* What does not touch the history of mishaps.                             *)
LEMMA NothingHappens ==
  ASSUME mishaps' = mishaps
  PROVE  (Spoilt' <=> Spoilt) /\ (Strange' <=> Strange)
BY DEF Spoilt, Strange, Happened

(* What does not touch the datagrams.                                      *)
LEMMA TheSame ==
  ASSUME requests' = requests, answers' = answers, rcvbuf' = rcvbuf
  PROVE  /\ OnItsWay' = OnItsWay
         /\ In(rcvbuf)' = In(rcvbuf) /\ NoneTwice(rcvbuf)' = NoneTwice(rcvbuf)
BY DEF OnItsWay, In, NoneTwice

LEMMA UdpKeeps == UdpInv /\ [UdpNext]_<<pc, timer, udpVars>> => UdpInv'
<1> SUFFICES ASSUME UdpInv, [UdpNext]_<<pc, timer, udpVars>> PROVE UdpInv'
  OBVIOUS
<1> USE DEF udpVars, udpNet
<1>0. UdpType
  BY DEF UdpInv
<1>1. CASE Fgets
  <2>1. (Spoilt' <=> Spoilt) /\ (Strange' <=> Strange)
    BY <1>1, NothingHappens DEF Fgets
  <2>2. UdpType'
    BY <1>0, <1>1 DEF UdpType, Fgets
  <2>0. /\ requests' = requests /\ answers' = answers /\ OnItsWay' = OnItsWay
        /\ In(rcvbuf)' = In(rcvbuf) /\ NoneTwice(rcvbuf)' = NoneTwice(rcvbuf)
    BY <1>1, TheSame DEF Fgets, udpNet
  <2>3. ~Spoilt => OnePlace'
    <3> SUFFICES ASSUME ~Spoilt PROVE OnePlace'
      OBVIOUS
    <3>1. OnePlace /\ pc # "sendto" /\ pc # "fputs"
      BY <1>1 DEF UdpInv, Fgets
    <3>2. CASE sent' = sent + 1 /\ pc' = "sendto"
      <4>1. 1 .. sent' = 1 .. sent \cup {sent'} /\ 0 .. sent' = 0 .. sent \cup {sent'} /\ sent' > 0
        BY <1>0, <3>2 DEF UdpType
      <4>2. sent' \notin 0 .. sent \cup 1 .. sent /\ sent' # 0
        BY <1>0, <3>2 DEF UdpType
      <4>3. sent' \notin OnItsWay \cup shown \cup In(rcvbuf)
        BY <1>1, <3>1, <4>2 DEF OnePlace, Fgets
      <4> QED
        BY <1>1, <2>0, <2>1, <3>1, <3>2, <4>1, <4>3 DEF OnePlace, Fgets
    <3>3. CASE sent' = sent /\ pc' = "ended"
      BY <1>1, <2>0, <2>1, <3>1, <3>3 DEF OnePlace, Fgets
    <3> QED
      BY <1>1, <3>2, <3>3 DEF Fgets
  <2>4. ~Spoilt /\ ~Strange /\ timeouts = 0 => InTurn'
    BY <1>1, <2>0 DEF UdpInv, InTurn, Fgets
  <2> QED
    BY <1>1, <2>1, <2>2, <2>3, <2>4 DEF UdpInv, Fgets
<1>2. CASE Sendto
  <2>1. (Spoilt' <=> Spoilt) /\ (Strange' <=> Strange)
    BY <1>2, NothingHappens DEF Sendto
  <2>2. UdpType'
    BY <1>0, <1>2 DEF UdpType, Sendto
  <2>3. ~Spoilt => OnePlace'
    BY <1>0, <1>2, <2>1 DEF UdpInv, UdpType, OnePlace, Sendto, OnItsWay, In, NoneTwice
  <2>4. ~Spoilt /\ ~Strange /\ timeouts = 0 => InTurn'
    BY <1>0, <1>2, <2>1 DEF UdpInv, UdpType, InTurn, Sendto, OnItsWay, In
  <2> QED
    BY <1>2, <2>1, <2>2, <2>3, <2>4 DEF UdpInv, Sendto
<1>3. CASE RecvError
  <2>1. (Spoilt' <=> Spoilt) /\ Spoilt
    BY <1>3, NothingHappens DEF RecvError, UdpInv
  <2>2. UdpType'
    BY <1>0, <1>3 DEF UdpType, RecvError
  <2> QED
    BY <2>1, <2>2 DEF UdpInv
<1>4. CASE RecvDatagram
  <2>1. (Spoilt' <=> Spoilt) /\ (Strange' <=> Strange)
    BY <1>4, NothingHappens DEF RecvDatagram
  <2>2. /\ recvline' \in Nat /\ rcvbuf' \in Seq(Nat) /\ In(rcvbuf) = {recvline'} \cup In(rcvbuf')
        /\ NoneTwice(rcvbuf) =>
             NoneTwice(rcvbuf') /\ (recvline' # 0 => recvline' \notin In(rcvbuf'))
    BY <1>0, <1>4, TakenFrom DEF UdpType, RecvDatagram
  <2>3. UdpType'
    BY <1>0, <1>4, <2>2 DEF UdpType, RecvDatagram
  <2>4. ~Spoilt => OnePlace'
    <3> SUFFICES ASSUME ~Spoilt PROVE OnePlace'
      OBVIOUS
    <3>1. OnePlace /\ OnItsWay' = OnItsWay
      BY <1>4 DEF UdpInv, RecvDatagram, OnItsWay
    <3>2. recvline' # 0 => /\ recvline' \in 1 .. sent
                           /\ recvline' \notin OnItsWay \cup shown \cup In(rcvbuf')
      BY <2>2, <3>1 DEF OnePlace
    <3>3. In(rcvbuf') \ {0} \subseteq (1 .. sent) \ (OnItsWay \cup shown)
      BY <2>2, <3>1 DEF OnePlace
    <3>4. 0 \in In(rcvbuf') \/ recvline' = 0 => kind # "dgcliconnect" /\ Strange
      BY <2>2, <3>1 DEF OnePlace
    <3> QED
      BY <1>0, <1>4, <2>1, <2>2, <3>1, <3>2, <3>3, <3>4
      DEF OnePlace, RecvDatagram, UdpType, In, NoneTwice
  <2>5. ~Spoilt /\ ~Strange /\ timeouts = 0 => InTurn'
    <3> SUFFICES ASSUME ~Spoilt, ~Strange, timeouts = 0 PROVE InTurn'
      OBVIOUS
    <3>1. OnePlace /\ InTurn
      BY DEF UdpInv
    <3>2. OnItsWay' = OnItsWay /\ sent' = sent /\ pc' = "fputs" /\ In(rcvbuf)' = In(rcvbuf')
      BY <1>4 DEF RecvDatagram, OnItsWay, In
    <3>3. recvline' = sent /\ In(rcvbuf') \subseteq {sent} /\ sent \notin OnItsWay
      BY <2>2, <3>1 DEF OnePlace, InTurn
    <3>4. sent \notin In(rcvbuf')
      BY <2>2, <3>1, <3>3 DEF OnePlace
    <3> QED
      BY <3>1, <3>2, <3>3, <3>4 DEF InTurn
  <2> QED
    BY <1>4, <2>1, <2>3, <2>4, <2>5 DEF UdpInv, RecvDatagram
<1>5. CASE Fputs
  <2>1. (Spoilt' <=> Spoilt) /\ (Strange' <=> Strange)
    BY <1>5, NothingHappens DEF Fputs
  <2>2. UdpType'
    BY <1>0, <1>5 DEF UdpType, Fputs
  <2>3. ~Spoilt => OnePlace'
    BY <1>0, <1>5, <2>1 DEF UdpInv, UdpType, OnePlace, Fputs, OnItsWay, In, NoneTwice
  <2>4. ~Spoilt /\ ~Strange /\ timeouts = 0 => InTurn'
    BY <1>0, <1>5, <2>1 DEF UdpInv, UdpType, InTurn, OnePlace, Fputs, OnItsWay, In
  <2> QED
    BY <1>5, <2>1, <2>2, <2>3, <2>4 DEF UdpInv, Fputs
<1>6. CASE RecvTimeout
  <2>1. (Spoilt' <=> Spoilt) /\ (Strange' <=> Strange)
    BY <1>6, NothingHappens DEF RecvTimeout
  <2>2. UdpType' /\ timeouts' # 0
    BY <1>0, <1>6 DEF UdpType, RecvTimeout
  <2>3. ~Spoilt => OnePlace'
    BY <1>0, <1>6, <2>1 DEF UdpInv, UdpType, OnePlace, RecvTimeout, OnItsWay, In, NoneTwice
  <2> QED
    BY <1>6, <2>1, <2>2, <2>3 DEF UdpInv, RecvTimeout
<1>7. CASE DgEchoServes
  <2>1. (Spoilt' <=> Spoilt) /\ (Strange' <=> Strange)
    BY <1>7, NothingHappens DEF DgEchoServes
  <2>2. UdpType' /\ OnItsWay' = OnItsWay
    BY <1>0, <1>7 DEF UdpType, DgEchoServes, OnItsWay
  <2>3. ~Spoilt => OnePlace'
    <3>1. ~Spoilt => OnePlace /\ (requests \cap answers)' = {}
      BY <1>7 DEF UdpInv, OnePlace, DgEchoServes
    <3> QED
      BY <1>7, <2>1, <2>2, <3>1 DEF OnePlace, DgEchoServes, In, NoneTwice
  <2>4. ~Spoilt /\ ~Strange /\ timeouts = 0 => InTurn'
    BY <1>7, <2>1, <2>2 DEF UdpInv, InTurn, DgEchoServes, In
  <2> QED
    BY <1>7, <2>1, <2>2, <2>3, <2>4 DEF UdpInv, DgEchoServes
<1>8. CASE Comes
  <2>1. (Spoilt' <=> Spoilt) /\ (Strange' <=> Strange)
    BY <1>8, NothingHappens DEF Comes
  <2>2. PICK d \in answers : answers' = answers \ {d} /\ rcvbuf' = Append(rcvbuf, d)
    BY <1>8 DEF Comes
  <2>3. /\ rcvbuf' \in Seq(Nat) /\ In(rcvbuf') = In(rcvbuf) \cup {d}
        /\ NoneTwice(rcvbuf) /\ d \notin In(rcvbuf) \ {0} => NoneTwice(rcvbuf')
    BY <1>0, <2>2, AppendedTo DEF UdpType
  <2>4. UdpType'
    BY <1>0, <1>8, <2>2, <2>3 DEF UdpType, Comes
  <2>5. In(rcvbuf)' = In(rcvbuf') /\ NoneTwice(rcvbuf)' = NoneTwice(rcvbuf')
    BY DEF In, NoneTwice
  <2>6. ~Spoilt => OnePlace'
    <3> SUFFICES ASSUME ~Spoilt PROVE OnePlace'
      OBVIOUS
    <3>1. OnePlace /\ d \in 1 .. sent /\ d \in OnItsWay
      BY <2>2 DEF UdpInv, OnePlace, OnItsWay
    <3>2. d # 0 /\ d \notin In(rcvbuf) /\ d \notin shown
      BY <1>0, <3>1 DEF OnePlace, UdpType
    <3>3. OnItsWay' = OnItsWay \ {d}
      BY <1>8, <2>2, <3>1 DEF OnePlace, OnItsWay, Comes
    <3>4. NoneTwice(rcvbuf') /\ In(rcvbuf') \ {0} \subseteq (1 .. sent) \ (OnItsWay' \cup shown)
      BY <2>3, <3>1, <3>2, <3>3 DEF OnePlace
    <3>5. OnItsWay' \cup shown \cup In(rcvbuf') = OnItsWay \cup shown \cup In(rcvbuf)
      BY <2>3, <3>1, <3>3
    <3> QED
      BY <1>8, <2>1, <2>2, <2>3, <2>5, <3>1, <3>2, <3>3, <3>4, <3>5 DEF OnePlace, Comes
  <2>7. ~Spoilt /\ ~Strange /\ timeouts = 0 => InTurn'
    BY <1>8, <2>1, <2>2, <2>3, <2>5 DEF UdpInv, InTurn, Comes, OnItsWay
  <2> QED
    BY <1>8, <2>1, <2>4, <2>6, <2>7 DEF UdpInv, Comes
<1>9. CASE Mishap
  <2>1. PICK w \in Mishaps :
          /\ mishaps' = Append(mishaps, w)
          /\ w = "lost" => \/ \E d \in requests : requests' = requests \ {d} /\ UNCHANGED answers
                           \/ \E d \in answers : answers' = answers \ {d} /\ UNCHANGED requests
          /\ w = "lost" => UNCHANGED <<rcvbuf, soerror>>
          /\ w = "twice" => /\ \E d \in answers : rcvbuf' = Append(rcvbuf, d)
                            /\ UNCHANGED <<requests, answers, soerror>>
          /\ w = "stranger" => /\ kind # "dgcliconnect" /\ rcvbuf' = Append(rcvbuf, 0)
                               /\ UNCHANGED <<requests, answers, soerror>>
          /\ w = "error" => soerror' = TRUE /\ UNCHANGED <<requests, answers, rcvbuf>>
    BY <1>9 DEF Mishap, Mishaps
  <2>2. UNCHANGED <<pc, timer, kind, sent, recvline, timeouts, shown>>
    BY <1>9 DEF Mishap
  <2>3. /\ mishaps' \in Seq(Mishaps)
        /\ Spoilt' <=> Spoilt \/ w \in {"twice", "error"}
        /\ Strange' <=> Strange \/ w = "stranger"
    BY <1>0, <2>1, HappenedNow DEF UdpType, Spoilt, Strange
  <2>4. CASE w = "lost"
    <3>1. /\ UdpType' /\ OnItsWay' \subseteq OnItsWay
          /\ (requests \cap answers)' \subseteq requests \cap answers
      BY <1>0, <2>1, <2>2, <2>3, <2>4 DEF UdpType, OnItsWay
    <3>2. ~Spoilt => OnePlace'
      BY <2>1, <2>2, <2>3, <2>4, <3>1 DEF UdpInv, OnePlace, In, NoneTwice
    <3>3. ~Spoilt /\ ~Strange /\ timeouts = 0 => InTurn'
      BY <2>1, <2>2, <2>3, <2>4, <3>1 DEF UdpInv, InTurn, In
    <3> QED
      BY <2>1, <2>2, <2>3, <2>4, <3>1, <3>2, <3>3 DEF UdpInv
  <2>5. CASE w = "twice"
    <3>1. rcvbuf' \in Seq(Nat)
      BY <1>0, <2>1, <2>5, AppendedTo DEF UdpType
    <3>2. UdpType'
      BY <1>0, <2>1, <2>2, <2>3, <2>5, <3>1 DEF UdpType
    <3> QED
      BY <2>3, <2>5, <3>2 DEF UdpInv
  <2>6. CASE w = "stranger"
    <3>1. /\ rcvbuf' \in Seq(Nat) /\ In(rcvbuf') = In(rcvbuf) \cup {0}
          /\ NoneTwice(rcvbuf) => NoneTwice(rcvbuf')
      BY <1>0, <2>1, <2>6, AppendedTo DEF UdpType
    <3>2. UdpType' /\ OnItsWay' = OnItsWay
      BY <1>0, <2>1, <2>2, <2>3, <2>6, <3>1 DEF UdpType, OnItsWay
    <3>3. In(rcvbuf)' = In(rcvbuf') /\ NoneTwice(rcvbuf)' = NoneTwice(rcvbuf')
      BY DEF In, NoneTwice
    <3>4. ~Spoilt => OnePlace'
      <4> SUFFICES ASSUME ~Spoilt PROVE OnePlace'
        OBVIOUS
      <4>1. OnePlace /\ 0 \notin 1 .. sent
        BY <1>0 DEF UdpInv, UdpType
      <4>2. In(rcvbuf') \ {0} = In(rcvbuf) \ {0}
        BY <3>1
      <4>3. pc = "sendto" => sent \notin OnItsWay \cup shown \cup In(rcvbuf')
        BY <1>0, <3>1, <4>1 DEF OnePlace, UdpType
      <4> QED
        BY <2>1, <2>2, <2>3, <2>6, <3>1, <3>2, <3>3, <4>1, <4>2, <4>3 DEF OnePlace
    <3> QED
      BY <2>1, <2>2, <2>3, <2>6, <3>2, <3>4 DEF UdpInv
  <2>7. CASE w = "error"
    <3>1. UdpType'
      BY <1>0, <2>1, <2>2, <2>3, <2>7 DEF UdpType
    <3> QED
      BY <2>3, <2>7, <3>1 DEF UdpInv
  <2> QED
    BY <2>4, <2>5, <2>6, <2>7 DEF Mishaps
<1>10. CASE UNCHANGED <<pc, timer, udpVars>>
  <2>1. /\ requests' = requests /\ answers' = answers /\ OnItsWay' = OnItsWay
        /\ In(rcvbuf)' = In(rcvbuf) /\ NoneTwice(rcvbuf)' = NoneTwice(rcvbuf)
    BY <1>10, TheSame
  <2>2. (Spoilt' <=> Spoilt) /\ (Strange' <=> Strange)
    BY <1>10, NothingHappens
  <2>3. UdpType' /\ (OnePlace => OnePlace') /\ (InTurn => InTurn')
    BY <1>0, <1>10, <2>1, <2>2 DEF UdpType, OnePlace, InTurn
  <2> QED
    BY <1>10, <2>2, <2>3 DEF UdpInv
<1> QED
  BY <1>1, <1>2, <1>3, <1>4, <1>5, <1>6, <1>7, <1>8, <1>9, <1>10 DEF UdpNext, DgCli, UdpNetwork

LEMMA UdpMeans == UdpInv => OwnAnswer
BY DEF UdpInv, UdpType, OnePlace, InTurn, OwnAnswer, Spoilt, Strange

(* In every state of a UDP client what it shows is an answer of its own    *)
(* as far as OwnAnswer says so: whatever is lost, the line just sent when  *)
(* there was no timeout and no stranger, and never a line twice.           *)
THEOREM OwnAnswersOnly == UdpSpec => []OwnAnswer
<1> QED
  BY UdpMeans, UdpInitially, UdpKeeps, PTL DEF UdpSpec

-----------------------------------------------------------------------------
(* readline.  What a thread has got, the line it is at, its buffer and what *)
(* is still to be read are its stream; the line at hand has no newline and *)
(* has room for one byte more.                                             *)
Bytes == [of : RlThreads, newline : BOOLEAN]
Cat(a, b) == a \o b
Whole(a, b, c, d) == Cat(Cat(Cat(a, b), c), d)
AtMostLast(l) == \A i \in 1 .. Len(l) - 1 : ~l[i].newline
HasRoom(l) == Len(l) < RlMax - 1 /\ \A i \in 1 .. Len(l) : ~l[i].newline
Told(l) == Len(l) + (IF Len(l) = RlMax - 1 /\ ~l[RlMax - 1].newline THEN 1 ELSE 0)

RlType ==
  /\ stream \in [RlThreads -> Seq(Bytes)] /\ rest \in [RlThreads -> Seq(Bytes)]
  /\ rl \in [RlThreads -> Seq(Bytes)] /\ line \in [RlThreads -> Seq(Bytes)]
  /\ got \in [RlThreads -> Seq(Bytes)]
  /\ rc \in [RlThreads -> Int] /\ at \in [RlThreads -> {"loop", "returned", "over"}]

RlThread(t) ==
  /\ Whole(got[t], line[t], rl[t], rest[t]) = stream[t]
  /\ AtMostLast(line[t])
  /\ at[t] = "loop" => HasRoom(line[t])
  /\ at[t] = "returned" /\ rc[t] >= 0 => rc[t] = Told(line[t])

RlInv == RlType /\ \A t \in RlThreads : RlThread(t)

LEMMA Together ==
  ASSUME NEW a \in Seq(Bytes), NEW b \in Seq(Bytes) PROVE Cat(a, b) \in Seq(Bytes)
BY ConcatProperties DEF Cat

LEMMA Regrouped ==
  ASSUME NEW a \in Seq(Bytes), NEW b \in Seq(Bytes), NEW c \in Seq(Bytes)
  PROVE  Cat(Cat(a, b), c) = Cat(a, Cat(b, c))
BY ConcatAssociative DEF Cat

LEMMA AndNothing == ASSUME NEW a \in Seq(Bytes) PROVE Cat(a, <<>>) = a
BY ConcatEmptySeq DEF Cat

(* A read moves bytes from the stream to the empty buffer.                 *)
LEMMA WholeRead ==
  ASSUME NEW a \in Seq(Bytes), NEW b \in Seq(Bytes), NEW d \in Seq(Bytes), NEW k \in 1 .. Len(d)
  PROVE  /\ SubSeq(d, 1, k) \in Seq(Bytes) /\ SubSeq(d, k + 1, Len(d)) \in Seq(Bytes)
         /\ Whole(a, b, SubSeq(d, 1, k), SubSeq(d, k + 1, Len(d))) = Whole(a, b, <<>>, d)
<1>1. Len(d) \in Nat /\ k \in Int /\ \A i \in 1 .. Len(d) : d[i] \in Bytes
  BY LenProperties
<1>2. SubSeq(d, 1, k) \in Seq(Bytes)
  <2>1. \A i \in 1 .. k : d[i] \in Bytes
    BY <1>1
  <2> QED
    BY <1>1, <2>1, SubSeqProperties
<1>3. SubSeq(d, k + 1, Len(d)) \in Seq(Bytes)
  <2>1. \A i \in k + 1 .. Len(d) : d[i] \in Bytes
    BY <1>1
  <2> QED
    BY <1>1, <2>1, SubSeqProperties
<1>4. Cat(SubSeq(d, 1, k), SubSeq(d, k + 1, Len(d))) = d
  <2>1. 1 \in 1 .. Len(d) + 1 /\ k \in 1 - 1 .. Len(d) /\ Len(d) \in k .. Len(d)
    BY <1>1
  <2>2. SubSeq(d, 1, k) \o SubSeq(d, k + 1, Len(d)) = SubSeq(d, 1, Len(d))
    BY <2>1, ConcatAdjacentSubSeq
  <2> QED
    BY <2>2, SubSeqFull DEF Cat
<1>5. PICK s \in Seq(Bytes), t \in Seq(Bytes) :
        s = SubSeq(d, 1, k) /\ t = SubSeq(d, k + 1, Len(d)) /\ Cat(s, t) = d
  BY <1>2, <1>3, <1>4
<1>6. PICK x \in Seq(Bytes) : x = Cat(a, b)
  BY Together
<1>7. Cat(Cat(x, s), t) = Cat(x, Cat(s, t))
  BY Regrouped
<1>8. Cat(x, <<>>) = x
  BY AndNothing
<1> QED
  BY <1>5, <1>6, <1>7, <1>8 DEF Whole

(* A byte moves from the buffer to the line.                               *)
LEMMA WholeTaken ==
  ASSUME NEW a \in Seq(Bytes), NEW b \in Seq(Bytes), NEW c \in Seq(Bytes), c # <<>>,
         NEW d \in Seq(Bytes)
  PROVE  /\ Head(c) \in Bytes /\ Tail(c) \in Seq(Bytes)
         /\ Append(b, Head(c)) \in Seq(Bytes)
         /\ Len(Append(b, Head(c))) = Len(b) + 1
         /\ Append(b, Head(c))[Len(b) + 1] = Head(c)
         /\ \A i \in 1 .. Len(b) : Append(b, Head(c))[i] = b[i]
         /\ Whole(a, Append(b, Head(c)), Tail(c), d) = Whole(a, b, c, d)
<1>1. /\ Head(c) \in Bytes /\ Tail(c) \in Seq(Bytes) /\ Len(Tail(c)) = Len(c) - 1
      /\ \A i \in 1 .. Len(Tail(c)) : Tail(c)[i] = c[i + 1]
  BY HeadTailProperties
<1>2. Append(b, Head(c)) \in Seq(Bytes)
  BY <1>1, AppendProperties
<1>3. /\ Len(Append(b, Head(c))) = Len(b) + 1
      /\ Append(b, Head(c))[Len(b) + 1] = Head(c)
      /\ \A i \in 1 .. Len(b) : Append(b, Head(c))[i] = b[i]
  BY <1>1
<1>4. Cat(Append(b, Head(c)), Tail(c)) = Cat(b, c)
  <2>1. PICK s \in Seq(Bytes) : s = Append(b, Head(c))
    BY <1>2
  <2>2. PICK t \in Seq(Bytes) : t = Tail(c)
    BY <1>1
  <2>3. Len(b) \in Nat /\ Len(c) \in Nat \ {0} /\ Head(c) = c[1]
    BY EmptySeq, LenProperties
  <2>4. Cat(s, t) \in Seq(Bytes) /\ Cat(b, c) \in Seq(Bytes)
    BY Together
  <2>5. Len(s) = Len(b) + 1 /\ Len(t) = Len(c) - 1
    BY <1>1, <1>3, <2>1, <2>2
  <2>6. /\ Len(Cat(s, t)) = Len(b) + Len(c) /\ Len(Cat(b, c)) = Len(b) + Len(c)
        /\ \A i \in 1 .. Len(b) + Len(c) :
             /\ Cat(s, t)[i] = IF i <= Len(b) + 1 THEN s[i] ELSE t[i - (Len(b) + 1)]
             /\ Cat(b, c)[i] = IF i <= Len(b) THEN b[i] ELSE c[i - Len(b)]
    <3>1. /\ Len(Cat(s, t)) = Len(s) + Len(t)
          /\ \A i \in 1 .. Len(s) + Len(t) :
               Cat(s, t)[i] = IF i <= Len(s) THEN s[i] ELSE t[i - Len(s)]
      BY ConcatProperties DEF Cat
    <3>2. /\ Len(Cat(b, c)) = Len(b) + Len(c)
          /\ \A i \in 1 .. Len(b) + Len(c) :
               Cat(b, c)[i] = IF i <= Len(b) THEN b[i] ELSE c[i - Len(b)]
      BY ConcatProperties DEF Cat
    <3>3. Len(s) + Len(t) = Len(b) + Len(c)
      BY <2>3, <2>5
    <3> QED
      BY <2>5, <3>1, <3>2, <3>3
  <2>7. ASSUME NEW i \in 1 .. Len(b) + Len(c) PROVE Cat(s, t)[i] = Cat(b, c)[i]
    <3>1. CASE i <= Len(b)
      BY <1>3, <2>1, <2>3, <2>6, <3>1
    <3>2. CASE i = Len(b) + 1
      BY <1>3, <2>1, <2>3, <2>6, <3>2
    <3>3. CASE i > Len(b) + 1
      <4>1. i - (Len(b) + 1) \in 1 .. Len(t) /\ (i - (Len(b) + 1)) + 1 = i - Len(b)
        BY <2>3, <2>5, <3>3
      <4>2. t[i - (Len(b) + 1)] = c[i - Len(b)]
        BY <1>1, <2>2, <4>1
      <4> QED
        BY <2>3, <2>6, <3>3, <4>2
    <3> QED
      BY <2>3, <3>1, <3>2, <3>3
  <2> QED
    BY <2>1, <2>2, <2>4, <2>6, <2>7, SeqEqual
<1>5. PICK s \in Seq(Bytes), t \in Seq(Bytes) : s = Append(b, Head(c)) /\ t = Tail(c)
  BY <1>1, <1>2
<1>6. Cat(Cat(a, s), t) = Cat(Cat(a, b), c)
  <2>1. Cat(Cat(a, s), t) = Cat(a, Cat(s, t)) /\ Cat(Cat(a, b), c) = Cat(a, Cat(b, c))
    BY Regrouped
  <2> QED
    BY <1>4, <1>5, <2>1
<1> QED
  BY <1>1, <1>2, <1>3, <1>5, <1>6 DEF Whole

(* A line joins the ones before.                                           *)
LEMMA WholeGot ==
  ASSUME NEW a \in Seq(Bytes), NEW b \in Seq(Bytes), NEW c, NEW d
  PROVE  Cat(a, b) \in Seq(Bytes) /\ Whole(Cat(a, b), <<>>, c, d) = Whole(a, b, c, d)
BY Together, AndNothing DEF Whole

LEMMA RlInitially == RlInit => RlInv
<1> SUFFICES ASSUME RlInit PROVE RlInv
  OBVIOUS
<1>1. PICK s \in [RlThreads -> RlStreams] :
        stream = [t \in RlThreads |-> [i \in DOMAIN s[t] |-> [of |-> t, newline |-> s[t][i]]]]
  BY DEF RlInit
<1>2. ASSUME NEW t \in RlThreads PROVE stream[t] \in Seq(Bytes)
  <2>1. PICK w \in Seq(BOOLEAN) : w = s[t]
    BY RlAssumption
  <2>2. Len(w) \in Nat /\ DOMAIN w = 1 .. Len(w) /\ \A i \in 1 .. Len(w) : w[i] \in BOOLEAN
    BY LenProperties
  <2>3. stream[t] = [i \in 1 .. Len(w) |-> [of |-> t, newline |-> w[i]]]
    BY <1>1, <2>1, <2>2
  <2>4. \A i \in 1 .. Len(w) : [of |-> t, newline |-> w[i]] \in Bytes
    BY <2>2 DEF Bytes
  <2> QED
    BY <2>2, <2>3, <2>4
<1>3. stream \in [RlThreads -> Seq(Bytes)]
  BY <1>1, <1>2
<1>4. <<>> \in Seq(Bytes) /\ Len(<<>>) = 0
  BY EmptySeq
<1>5. RlType
  BY <1>3, <1>4 DEF RlInit, RlType
<1>6. ASSUME NEW t \in RlThreads PROVE RlThread(t)
  <2>1. got[t] = <<>> /\ line[t] = <<>> /\ rl[t] = <<>> /\ rest[t] = stream[t] /\ at[t] = "loop"
    BY DEF RlInit
  <2>2. Whole(<<>>, <<>>, <<>>, stream[t]) = stream[t]
    <3>1. Cat(<<>>, stream[t]) = stream[t]
      BY <1>2, ConcatEmptySeq DEF Cat
    <3>2. Cat(<<>>, <<>>) = <<>>
      BY <1>4, AndNothing
    <3> QED
      BY <3>1, <3>2 DEF Whole
  <2>3. HasRoom(<<>>) /\ AtMostLast(<<>>)
    BY <1>4, RlAssumption DEF HasRoom, AtMostLast
  <2> QED
    BY <2>1, <2>2, <2>3 DEF RlThread
<1> QED
  BY <1>5, <1>6 DEF RlInv

(* Each step is of one thread.                                             *)
LEMMA RlThreadKept ==
  ASSUME NEW t, RlThread(t), stream' = stream,
         got'[t] = got[t], line'[t] = line[t], rl'[t] = rl[t], rest'[t] = rest[t],
         rc'[t] = rc[t], at'[t] = at[t]
  PROVE  RlThread(t)'
BY DEF RlThread

LEMMA RlKeeps == RlInv /\ [Readline]_rlVars => RlInv'
<1> SUFFICES ASSUME RlInv, [Readline]_rlVars PROVE RlInv'
  OBVIOUS
<1>1. RlType /\ \A t \in RlThreads : RlThread(t)
  BY DEF RlInv
<1>2. ASSUME NEW t \in RlThreads, MyRead(t) PROVE RlInv'
  <2>1. PICK k \in 1 .. Len(rest[t]) :
          /\ rl' = [rl EXCEPT ![t] = SubSeq(rest[t], 1, k)]
          /\ rest' = [rest EXCEPT ![t] = SubSeq(@, k + 1, Len(@))]
    <3>1. Len(rest[t]) \in Nat
      BY <1>1 DEF RlType
    <3>2. PICK k \in 1 .. (IF slow THEN 1 ELSE RlBuf) :
            /\ k <= Len(rest[t])
            /\ rl' = [rl EXCEPT ![t] = SubSeq(rest[t], 1, k)]
            /\ rest' = [rest EXCEPT ![t] = SubSeq(@, k + 1, Len(@))]
      BY <1>2 DEF MyRead, Rline
    <3>3. k \in 1 .. Len(rest[t])
      BY <3>1, <3>2, RlAssumption
    <3> QED
      BY <3>2, <3>3
  <2>2. rl[t] = <<>> /\ UNCHANGED <<slow, stream, line, rc, got, at>>
    BY <1>2 DEF MyRead, Rline
  <2>3. PICK a \in Seq(Bytes), b \in Seq(Bytes), d \in Seq(Bytes) :
          a = got[t] /\ b = line[t] /\ d = rest[t]
    BY <1>1 DEF RlType
  <2>4. /\ SubSeq(d, 1, k) \in Seq(Bytes) /\ SubSeq(d, k + 1, Len(d)) \in Seq(Bytes)
        /\ Whole(a, b, SubSeq(d, 1, k), SubSeq(d, k + 1, Len(d))) = Whole(a, b, <<>>, d)
    BY <2>1, <2>3, WholeRead
  <2>5. rl'[t] = SubSeq(d, 1, k) /\ rest'[t] = SubSeq(d, k + 1, Len(d))
    BY <1>1, <2>1, <2>3 DEF RlType
  <2>6. rl' \in [RlThreads -> Seq(Bytes)] /\ rest' \in [RlThreads -> Seq(Bytes)]
    BY <1>1, <2>1, <2>3, <2>4 DEF RlType
  <2>7. RlType'
    BY <1>1, <2>2, <2>6 DEF RlType
  <2>8. RlThread(t)'
    <3>1. Whole(a, b, <<>>, d) = stream[t]
      BY <1>1, <2>2, <2>3 DEF RlThread
    <3> QED
      BY <1>1, <2>2, <2>3, <2>4, <2>5, <3>1 DEF RlThread
  <2>9. ASSUME NEW u \in RlThreads \ {t} PROVE RlThread(u)'
    BY <1>1, <2>1, <2>2, RlThreadKept DEF RlType
  <2> QED
    BY <2>7, <2>8, <2>9 DEF RlInv
<1>3. ASSUME NEW t \in RlThreads, ReadEnds(t) PROVE RlInv'
  <2>1. /\ at[t] = "loop" /\ UNCHANGED <<slow, stream, rest, rl, line, got>>
        /\ Returns(t, Len(line[t])) \/ Returns(t, -1)
    BY <1>3 DEF ReadEnds
  <2>2. Len(line[t]) \in Nat /\ HasRoom(line[t]) /\ AtMostLast(line[t])
    BY <1>1, <2>1 DEF RlType, RlThread
  <2>3. PICK r \in Int : Returns(t, r) /\ (r >= 0 => r = Told(line[t]))
    <3>1. Told(line[t]) = Len(line[t])
      <4>1. Len(line[t]) < RlMax - 1 /\ RlMax \in Nat
        BY <2>2, RlAssumption DEF HasRoom
      <4>2. Len(line[t]) # RlMax - 1
        BY <2>2, <4>1
      <4>3. Told(line[t]) = Len(line[t]) + 0
        BY <4>2, Zenon DEF Told
      <4> QED
        BY <2>2, <4>3
    <3>2. CASE Returns(t, Len(line[t]))
      BY <2>2, <3>1, <3>2
    <3>3. CASE Returns(t, -1)
      <4>1. -1 \in Int /\ ~(-1 >= 0)
        OBVIOUS
      <4> QED
        BY <3>3, <4>1
    <3> QED
      BY <2>1, <3>2, <3>3
  <2>4. rc' = [rc EXCEPT ![t] = r] /\ at' = [at EXCEPT ![t] = "returned"]
    BY <2>3 DEF Returns
  <2>5. RlType' /\ rc'[t] = r /\ at'[t] = "returned"
    BY <1>1, <2>1, <2>4 DEF RlType
  <2>6. RlThread(t)'
    BY <1>1, <2>1, <2>2, <2>3, <2>5 DEF RlThread
  <2>7. ASSUME NEW u \in RlThreads \ {t} PROVE RlThread(u)'
    BY <1>1, <2>1, <2>4, RlThreadKept DEF RlType
  <2> QED
    BY <2>5, <2>6, <2>7 DEF RlInv
<1>4. ASSUME NEW t \in RlThreads, TakeByte(t) PROVE RlInv'
  <2>1. PICK a \in Seq(Bytes), b \in Seq(Bytes), q \in Seq(Bytes), d \in Seq(Bytes) :
          a = got[t] /\ b = line[t] /\ q = rl[t] /\ d = rest[t]
    BY <1>1 DEF RlType
  <2>2. /\ at[t] = "loop" /\ q # <<>>
        /\ line' = [line EXCEPT ![t] = Append(b, Head(q))]
        /\ rl' = [rl EXCEPT ![t] = Tail(q)]
        /\ IF Head(q).newline THEN Returns(t, Len(b) + 1)
           ELSE IF Len(b) + 1 = RlMax - 1 THEN Returns(t, RlMax) ELSE UNCHANGED <<rc, at>>
        /\ UNCHANGED <<slow, stream, rest, got>>
    BY <1>4, <2>1 DEF TakeByte, Rline
  <2>3. PICK s \in Seq(Bytes), y \in Bytes :
          /\ s = Append(b, Head(q)) /\ y = Head(q) /\ Tail(q) \in Seq(Bytes)
          /\ Len(s) = Len(b) + 1 /\ s[Len(b) + 1] = y
          /\ \A i \in 1 .. Len(b) : s[i] = b[i]
          /\ Whole(a, s, Tail(q), d) = Whole(a, b, q, d)
    <3>1. /\ Head(q) \in Bytes /\ Tail(q) \in Seq(Bytes) /\ Append(b, Head(q)) \in Seq(Bytes)
          /\ Len(Append(b, Head(q))) = Len(b) + 1
          /\ Append(b, Head(q))[Len(b) + 1] = Head(q)
          /\ \A i \in 1 .. Len(b) : Append(b, Head(q))[i] = b[i]
          /\ Whole(a, Append(b, Head(q)), Tail(q), d) = Whole(a, b, q, d)
      BY <2>2, WholeTaken
    <3> QED
      BY <3>1, Zenon
  <2>4. /\ line' \in [RlThreads -> Seq(Bytes)] /\ rl' \in [RlThreads -> Seq(Bytes)]
        /\ line'[t] = s /\ rl'[t] = Tail(q)
    BY <1>1, <2>2, <2>3 DEF RlType
  <2>5. Len(b) \in Nat /\ Len(b) < RlMax - 1 /\ \A i \in 1 .. Len(b) : ~b[i].newline
    BY <1>1, <2>1, <2>2 DEF RlThread, HasRoom
  <2>6. AtMostLast(s) /\ Len(s) \in Nat \ {0} /\ s[Len(s)] = y
    BY <2>3, <2>5 DEF AtMostLast
  <2>7. y.newline \in BOOLEAN /\ RlMax \in Nat
    BY RlAssumption DEF Bytes
  <2>8. /\ rc' \in [RlThreads -> Int] /\ at' \in [RlThreads -> {"loop", "returned", "over"}]
        /\ at'[t] = "loop" => HasRoom(s)
        /\ at'[t] = "returned" => rc'[t] = Told(s)
        /\ \A u \in RlThreads \ {t} : rc'[u] = rc[u] /\ at'[u] = at[u]
    <3>1. CASE y.newline
      <4>1. rc' = [rc EXCEPT ![t] = Len(s)] /\ at' = [at EXCEPT ![t] = "returned"]
        BY <2>2, <2>3, <3>1 DEF Returns
      <4>2. Told(s) = Len(s)
        BY <2>6, <2>7, <3>1 DEF Told
      <4> QED
        BY <1>1, <2>6, <4>1, <4>2 DEF RlType
    <3>2. CASE ~y.newline /\ Len(s) = RlMax - 1
      <4>1. rc' = [rc EXCEPT ![t] = RlMax] /\ at' = [at EXCEPT ![t] = "returned"]
        BY <2>2, <2>3, <3>2 DEF Returns
      <4>2. Told(s) = RlMax
        BY <2>6, <2>7, <3>2 DEF Told
      <4> QED
        BY <1>1, <2>7, <4>1, <4>2 DEF RlType
    <3>3. CASE ~y.newline /\ Len(s) # RlMax - 1
      <4>1. UNCHANGED <<rc, at>>
        BY <2>2, <2>3, <3>3
      <4>2. HasRoom(s)
        BY <2>3, <2>5, <2>7, <3>3 DEF HasRoom
      <4> QED
        BY <1>1, <2>2, <4>1, <4>2 DEF RlType
    <3> QED
      BY <3>1, <3>2, <3>3
  <2>9. RlType'
    BY <1>1, <2>2, <2>4, <2>8 DEF RlType
  <2>10. RlThread(t)'
    <3>1. Whole(a, b, q, d) = stream[t]
      BY <1>1, <2>1 DEF RlThread
    <3> QED
      BY <2>1, <2>2, <2>3, <2>4, <2>6, <2>8, <3>1 DEF RlThread
  <2>11. ASSUME NEW u \in RlThreads \ {t} PROVE RlThread(u)'
    BY <1>1, <2>2, <2>8, RlThreadKept DEF RlType
  <2> QED
    BY <2>9, <2>10, <2>11 DEF RlInv
<1>5. ASSUME NEW t \in RlThreads, CallAgain(t) PROVE RlInv'
  <2>1. at[t] = "returned" /\ UNCHANGED <<slow, stream, rest, rl, rc>>
    BY <1>5 DEF CallAgain
  <2>2. CASE rc[t] > 0
    <3>1. PICK a \in Seq(Bytes), b \in Seq(Bytes) : a = got[t] /\ b = line[t]
      BY <1>1 DEF RlType
    <3>2. /\ got' = [got EXCEPT ![t] = Cat(a, b)] /\ line' = [line EXCEPT ![t] = <<>>]
          /\ at' = [at EXCEPT ![t] = "loop"]
      BY <1>5, <2>2, <3>1 DEF CallAgain, Cat
    <3>3. /\ Cat(a, b) \in Seq(Bytes) /\ <<>> \in Seq(Bytes) /\ Len(<<>>) = 0
          /\ Whole(Cat(a, b), <<>>, rl[t], rest[t]) = Whole(a, b, rl[t], rest[t])
      BY WholeGot, EmptySeq
    <3>4. /\ RlType' /\ got'[t] = Cat(a, b) /\ line'[t] = <<>> /\ at'[t] = "loop"
      BY <1>1, <2>1, <3>2, <3>3 DEF RlType
    <3>5. HasRoom(<<>>) /\ AtMostLast(<<>>)
      BY <3>3, RlAssumption DEF HasRoom, AtMostLast
    <3>6. RlThread(t)'
      BY <1>1, <2>1, <3>1, <3>3, <3>4, <3>5 DEF RlThread
    <3>7. ASSUME NEW u \in RlThreads \ {t} PROVE RlThread(u)'
      BY <1>1, <2>1, <3>2, RlThreadKept DEF RlType
    <3> QED
      BY <3>4, <3>6, <3>7 DEF RlInv
  <2>3. CASE ~(rc[t] > 0)
    <3>1. at' = [at EXCEPT ![t] = "over"] /\ UNCHANGED <<got, line>>
      BY <1>5, <2>3 DEF CallAgain
    <3>2. RlType' /\ at'[t] = "over"
      BY <1>1, <2>1, <3>1 DEF RlType
    <3>3. RlThread(t)'
      BY <1>1, <2>1, <3>1, <3>2 DEF RlThread
    <3>4. ASSUME NEW u \in RlThreads \ {t} PROVE RlThread(u)'
      BY <1>1, <2>1, <3>1, RlThreadKept DEF RlType
    <3> QED
      BY <3>2, <3>3, <3>4 DEF RlInv
  <2> QED
    BY <2>2, <2>3
<1>6. CASE UNCHANGED rlVars
  <2>1. RlType'
    BY <1>1, <1>6 DEF RlType, rlVars
  <2>2. ASSUME NEW u \in RlThreads PROVE RlThread(u)'
    BY <1>1, <1>6, RlThreadKept DEF rlVars
  <2> QED
    BY <2>1, <2>2 DEF RlInv
<1> QED
  BY <1>2, <1>3, <1>4, <1>5, <1>6 DEF Readline

LEMMA RlMeans == RlInv => LinesIntact
BY DEF RlInv, RlThread, LinesIntact, Whole, Cat, AtMostLast, Told

(* Whatever the threads' reads interleave to, each has the bytes of its    *)
(* own stream, a line to a call, and is told how many.                     *)
THEOREM LinesAlwaysIntact == RlSpec => []LinesIntact
<1> QED
  BY RlMeans, RlInitially, RlKeeps, PTL DEF RlSpec

-----------------------------------------------------------------------------
(* get_ifi_info: the list is right for every list the kernel may have,     *)
(* every number of changes and failures, and every buffer.                 *)
(* There is always room in the buffer for one entry more than the last     *)
(* ioctl returned, so the same length again means that nothing was cut.    *)
BufferInv ==
  /\ af # "other" /\ layout \in Layouts
  /\ layout # "packed" => build # "sa_len" /\ ~dl
  /\ ifs \in Lists[layout]
  /\ len \in Nat /\ lastlen \in Nat /\ lastlen + 16 <= len
  /\ pc \in {"SIOCGIFCONF", "entries", "listed"}
  /\ pc = "SIOCGIFCONF" => ptr = 0 /\ lastname = "none" /\ sdlname = "none" /\ listed = {}
  /\ pc # "SIOCGIFCONF" => seen \in Lists[layout] /\ buf = seen /\ ptr \in Nat
  /\ pc = "listed" => ptr >= LengthOf(seen)

(* The entries that ptr has been to before it was at p.                    *)
Passed(s, p) == {k \in Reached(s) : s[k].at < p}

(* name is the device of the last of them of family f.                     *)
LastOf(name, s, p, f) ==
  \/ name = "none" /\ \A j \in Passed(s, p) : s[j].family # f
  \/ \E i \in Passed(s, p) : /\ s[i].family = f /\ name = s[i].dev
                             /\ \A j \in Passed(s, p) : i < j => s[j].family # f

RightTo(s, p) == {Mark(s, k) : k \in {j \in Passed(s, p) : Belongs(s, j)}}

AtEntry(s, p) == \E k \in DOMAIN s : s[k].at = p

(* Where ptr can be, and that behind the end there is nothing to follow.   *)
PassInv ==
  pc # "SIOCGIFCONF" /\ (InStep(seen) \/ layout = "ifreq40") =>
    /\ listed \ {Phantom} = RightTo(seen, ptr)
    /\ ptr < LengthOf(seen) => /\ LastOf(lastname, seen, ptr, af)
                               /\ dl => LastOf(sdlname, seen, ptr, "link")
                               /\ ~dl => sdlname = "none"
                               /\ InStep(seen) => AtEntry(seen, ptr)
                               /\ layout = "ifreq40" => ptr % 8 = 0
    /\ InStep(seen) => Phantom \notin listed

IfInv == BufferInv /\ PassInv

-----------------------------------------------------------------------------
LEMMA ListFacts ==
  ASSUME NEW y \in Layouts, NEW s \in Lists[y]
  PROVE  /\ s \in Seq(Entries) /\ Grouped(s) /\ LaidOut(y, s)
         /\ Len(s) \in Nat /\ DOMAIN s = 1 .. Len(s)
         /\ \A k \in 1 .. Len(s) : /\ s[k] \in Entries /\ s[k].dev \notin {"none", "phantom"}
                                   /\ s[k].at \in Nat /\ s[k].size \in 8 .. 11
                                   /\ s[k].at + s[k].size <= LengthOf(s)
         /\ LengthOf(s) \in Nat
  <1>1. s \in Seq(Entries) /\ Grouped(s) /\ LaidOut(y, s)
    BY ListsAssumption
  <1>2. Len(s) \in Nat /\ DOMAIN s = 1 .. Len(s) /\ \A k \in 1 .. Len(s) : s[k] \in Entries
    BY <1>1
  <1>3. \A k \in 1 .. Len(s) : /\ s[k].dev \notin {"none", "phantom"}
                               /\ s[k].at \in Nat /\ s[k].size \in 8 .. 11
    BY <1>2, ListsAssumption DEF Entries
  <1>4. CASE s = <<>>
    BY <1>1, <1>2, <1>4 DEF LengthOf
  <1>5. CASE s # <<>>
    <2>0. Len(s) \in Nat
      BY <1>2
    <2>1. Len(s) \in 1 .. Len(s) /\ LengthOf(s) = s[Len(s)].at + s[Len(s)].size
      BY <1>1, <1>2, <1>5 DEF LengthOf
    <2>2. ASSUME NEW k \in 1 .. Len(s)
          PROVE  s[k].at + s[k].size <= s[Len(s)].at + s[Len(s)].size
      <3>1. CASE k = Len(s)
        BY <1>3, <2>1, <3>1
      <3>2. CASE k < Len(s)
        <4>1. s[k].at + s[k].size <= s[Len(s)].at
          BY <1>1, <1>2, <2>1, <3>2 DEF LaidOut
        <4>2. PICK a, b \in Nat, c, d \in 8 .. 11 : /\ a = s[k].at /\ b = s[Len(s)].at
                                                   /\ c = s[k].size /\ d = s[Len(s)].size
          BY <1>3, <2>1
        <4>3. a + c <= b
          BY <4>1, <4>2
        <4>4. a + c <= b + d
          BY <4>3
        <4> QED
          BY <4>2, <4>4
      <3>3. k = Len(s) \/ k < Len(s)
        BY <2>0
      <3> QED
        BY <3>1, <3>2, <3>3
    <2> QED
      BY <1>1, <1>2, <1>3, <2>1, <2>2
  <1> QED
    BY <1>4, <1>5

(* What a kernel that cuts leaves out is an entry that does not fit.       *)
LEMMA FillsAll ==
  ASSUME layout \in Layouts, ifs \in Lists[layout], len \in Nat, Fills
  PROVE  /\ LengthOf(buf') \in Nat /\ LengthOf(buf') <= len
         /\ LengthOf(buf') + 16 <= len => buf' = ifs
  <1>1. PICK fit \in 0 .. Len(ifs) : /\ Fits(fit) /\ (fit < Len(ifs) => ~Fits(fit + 1))
                                   /\ buf' = SubSeq(ifs, 1, fit)
    BY DEF Fills
  <1>2. ifs \in Seq(Entries) /\ Len(ifs) \in Nat /\ DOMAIN ifs = 1 .. Len(ifs)
    BY ListFacts
  <1>3. ASSUME NEW m \in 1 .. Len(ifs)
        PROVE  LengthOf(SubSeq(ifs, 1, m)) = ifs[m].at + ifs[m].size
    <2>1. Len(SubSeq(ifs, 1, m)) = m /\ SubSeq(ifs, 1, m)[m] = ifs[m]
      BY <1>2
    <2>2. SubSeq(ifs, 1, m) # <<>>
      BY <2>1
    <2> QED
      BY <2>1, <2>2 DEF LengthOf
  <1>4. LengthOf(SubSeq(ifs, 1, 0)) = 0
    BY <1>2 DEF LengthOf
  <1>5. LengthOf(buf') \in Nat /\ LengthOf(buf') <= len
    <2>1. \A k \in 1 .. Len(ifs) : ifs[k].at \in Nat /\ ifs[k].size \in 8 .. 11
      BY ListFacts
    <2> QED
      BY <1>1, <1>2, <1>3, <1>4, <2>1 DEF Fits
  <1>6. ASSUME fit < Len(ifs) PROVE LengthOf(buf') + 16 > len
    <2>1. fit + 1 \in 1 .. Len(ifs) /\ fit \in Nat
      BY <1>2, <1>6
    <2>2. ifs[fit + 1].at + ifs[fit + 1].size > len
      <3>1. LengthOf(SubSeq(ifs, 1, fit + 1)) = ifs[fit + 1].at + ifs[fit + 1].size
        BY <1>3, <2>1
      <3>2. ifs[fit + 1].at \in Nat /\ ifs[fit + 1].size \in 8 .. 11
        BY <2>1, ListFacts
      <3> QED
        BY <1>1, <1>6, <3>1, <3>2 DEF Fits
    <2>3. ifs[fit + 1].at = LengthOf(buf')
      <3>1. ifs[fit + 1].at = IF fit + 1 = 1 THEN 0 ELSE ifs[fit + 1 - 1].at + ifs[fit + 1 - 1].size
        BY <1>2, <2>1, ListFacts DEF LaidOut
      <3>2. CASE fit = 0
        BY <1>1, <1>4, <3>1, <3>2
      <3>3. CASE fit # 0
        BY <1>1, <1>3, <2>1, <3>1, <3>3
      <3> QED
        BY <3>2, <3>3
    <2>4. ifs[fit + 1].size \in 8 .. 11
      BY <2>1, ListFacts
    <2> QED
      BY <1>5, <2>2, <2>3, <2>4
  <1>7. CASE fit = Len(ifs)
    <2>1. SubSeq(ifs, 1, fit) = ifs
      BY <1>2, <1>7
    <2> QED
      BY <1>1, <1>5, <2>1
  <1>8. CASE fit # Len(ifs)
    <2>1. fit < Len(ifs)
      <3>1. Len(ifs) \in Nat
        BY <1>2
      <3> QED
        BY <1>8, <3>1
    <2> QED
      BY <1>5, <1>6, <2>1
  <1> QED
    BY <1>7, <1>8

(* ptr comes to entry k, and then to no other before q: k has been passed, *)
(* after all that stand before it.                                         *)
LEMMA PassesOne ==
  ASSUME NEW s, layout \in Layouts, s \in Lists[layout], NEW k \in Reached(s), NEW q \in Nat,
         s[k].at < q, q <= s[k].at + s[k].size
  PROVE  /\ Passed(s, q) = Passed(s, s[k].at) \cup {k}
         /\ Passed(s, s[k].at) = {j \in Reached(s) : j < k}
  <1>1. Len(s) \in Nat /\ Reached(s) \subseteq 1 .. Len(s) /\ DOMAIN s = 1 .. Len(s)
    BY ListFacts DEF Reached
  <1>2. ASSUME NEW j \in Reached(s)
        PROVE  s[j].at \in Nat /\ s[j].size \in 8 .. 11 /\ j \in Nat
    BY <1>1, ListFacts
  <1>3. ASSUME NEW i \in Reached(s), NEW j \in Reached(s), i < j
        PROVE  s[i].at + s[i].size <= s[j].at
    BY <1>1, <1>3, ListFacts DEF LaidOut
  <1>4. ASSUME NEW j \in Reached(s)
        PROVE  (s[j].at < s[k].at <=> j < k) /\ (s[j].at < q <=> j < k \/ j = k)
    <2>1. PICK a, b \in Nat, c, d \in 8 .. 11 : /\ a = s[j].at /\ b = s[k].at
                                               /\ c = s[j].size /\ d = s[k].size
      BY <1>2
    <2>2. j < k => a + c <= b
      BY <1>3, <2>1
    <2>3. k < j => b + d <= a
      BY <1>3, <2>1
    <2>4. b < q /\ q <= b + d
      BY <2>1
    <2>5. (a < b <=> j < k) /\ (a < q <=> j < k \/ j = k)
      <3>1. CASE j < k
        BY <2>2, <2>4, <3>1
      <3>2. CASE k < j
        BY <1>2, <2>3, <2>4, <3>2
      <3>3. CASE k = j
        BY <1>2, <2>1, <2>4, <3>3
      <3> QED
        BY <1>2, <3>1, <3>2, <3>3
    <2> QED
      BY <2>1, <2>5
  <1> QED
    BY <1>4 DEF Passed

(* The last entry of a family tells whether the device had one: the        *)
(* entries of a device stand together.                                     *)
LEMMA LastTells ==
  ASSUME NEW s, layout \in Layouts, s \in Lists[layout], NEW k \in Reached(s), NEW f, NEW name,
         LastOf(name, s, s[k].at, f), Passed(s, s[k].at) = {j \in Reached(s) : j < k}
  PROVE  (name = s[k].dev) <=> Before(s, k, f)
  <1>1. Grouped(s) /\ Reached(s) \subseteq DOMAIN s /\ s[k].dev # "none"
    BY ListFacts DEF Reached
  <1>2. ASSUME NEW j \in Reached(s) PROVE j \in Nat
    BY ListFacts DEF Reached
  <1>3. CASE name = "none" /\ \A j \in Passed(s, s[k].at) : s[j].family # f
    BY <1>1, <1>3 DEF Before
  <1>4. CASE \E i \in Passed(s, s[k].at) :
               /\ s[i].family = f /\ name = s[i].dev
               /\ \A j \in Passed(s, s[k].at) : i < j => s[j].family # f
    <2> PICK i \in Passed(s, s[k].at) :
               /\ s[i].family = f /\ name = s[i].dev
               /\ \A j \in Passed(s, s[k].at) : i < j => s[j].family # f
      BY <1>4
    <2>1. name = s[k].dev => Before(s, k, f)
      BY DEF Before
    <2>2. ASSUME NEW j \in Reached(s), j < k, s[j].dev = s[k].dev, s[j].family = f
          PROVE  name = s[k].dev
      <3>1. ~(i < j)
        BY <2>2
      <3>2. CASE j = i
        BY <2>2, <3>2
      <3>3. CASE j < i
        BY <1>1, <2>2, <3>3 DEF Grouped
      <3> QED
        BY <1>2, <3>1, <3>2, <3>3
    <2> QED
      BY <2>1, <2>2 DEF Before
  <1> QED
    BY <1>3, <1>4 DEF LastOf

(* One entry further.                                                      *)
LEMMA LastMoves ==
  ASSUME NEW s, layout \in Layouts, s \in Lists[layout], NEW k \in Reached(s), NEW q, NEW f,
         NEW name, NEW next, LastOf(name, s, s[k].at, f),
         Passed(s, s[k].at) = {j \in Reached(s) : j < k},
         Passed(s, q) = Passed(s, s[k].at) \cup {k},
         s[k].family = f => next = s[k].dev, s[k].family # f => next = name
  PROVE  LastOf(next, s, q, f)
  <1>1. ASSUME NEW j \in Passed(s, q) PROVE ~(k < j) /\ (j = k \/ j \in Passed(s, s[k].at))
    BY ListFacts DEF Reached
  <1>2. CASE s[k].family = f
    BY <1>1, <1>2 DEF LastOf
  <1>3. CASE s[k].family # f
    <2>1. CASE name = "none" /\ \A j \in Passed(s, s[k].at) : s[j].family # f
      BY <1>3, <2>1 DEF LastOf
    <2>2. CASE \E i \in Passed(s, s[k].at) :
                 /\ s[i].family = f /\ name = s[i].dev
                 /\ \A j \in Passed(s, s[k].at) : i < j => s[j].family # f
      BY <1>3, <2>2 DEF LastOf
    <2> QED
      BY <2>1, <2>2 DEF LastOf
  <1> QED
    BY <1>2, <1>3

LEMMA RightMoves ==
  ASSUME NEW s, NEW k, NEW p, NEW q, Passed(s, q) = Passed(s, p) \cup {k}
  PROVE  RightTo(s, q) = RightTo(s, p) \cup (IF Belongs(s, k) THEN {Mark(s, k)} ELSE {})
  BY DEF RightTo

-----------------------------------------------------------------------------
LEMMA RoomFacts ==
  ASSUME layout \in Layouts
  PROVE  /\ Ifreq[layout] \in {8, 10}
         /\ Initial * Ifreq[layout] \in Nat /\ Initial * Ifreq[layout] >= 16
         /\ Increment * Ifreq[layout] \in Nat /\ Increment * Ifreq[layout] >= 16
  <1>1. Ifreq[layout] \in {8, 10}
    BY DEF Layouts, Ifreq
  <1>2. CASE Ifreq[layout] = 8
    BY <1>2, BufferAssumption
  <1>3. CASE Ifreq[layout] = 10
    BY <1>3, BufferAssumption
  <1> QED
    BY <1>1, <1>2, <1>3

LEMMA IfInitially == IfInit /\ pc = "SIOCGIFCONF" => IfInv
  <1> SUFFICES ASSUME IfInit, pc = "SIOCGIFCONF" PROVE IfInv
    OBVIOUS
  <1>1. layout \in Layouts /\ len = Initial * Ifreq[layout]
    BY DEF IfInit
  <1>2. len \in Nat /\ len >= 16
    BY <1>1, RoomFacts
  <1> QED
    BY <1>1, <1>2 DEF IfInit, IfInv, BufferInv, PassInv

LEMMA IoctlStep ==
  ASSUME IfInv, IoctlFails \/ Siocgifconf \/ IfChange
  PROVE  IfInv'
  <1>0. layout \in Layouts /\ ifs \in Lists[layout] /\ len \in Nat /\ lastlen \in Nat
    BY DEF IfInv, BufferInv
  <1>1. CASE IoctlFails
    <2>1. len' \in Nat /\ len' >= len
      BY <1>0, <1>1, RoomFacts DEF IoctlFails
    <2>2. /\ pc = "SIOCGIFCONF" /\ UNCHANGED <<pc, ifArgs, ifKernel, lastlen, buf, seen, entryVars>>
      BY <1>1 DEF IoctlFails
    <2> QED
      BY <2>1, <2>2 DEF ifArgs, ifKernel, entryVars, IfInv, BufferInv, PassInv
  <1>2. CASE IfChange
    BY <1>2 DEF IfChange, ifArgs, entryVars, IfInv, BufferInv, PassInv
  <1>3. CASE Siocgifconf
    <2>1. /\ pc = "SIOCGIFCONF" /\ Fills /\ seen' = ifs
          /\ UNCHANGED <<af, doaliases, build, dl, layout, ifs, ptr, lastname, sdlname, listed>>
      BY <1>3 DEF Siocgifconf, ifArgs, ifKernel, entryVars
    <2>2. /\ LengthOf(buf') \in Nat /\ LengthOf(buf') <= len
          /\ LengthOf(buf') + 16 <= len => buf' = ifs
      BY <1>0, <2>1, FillsAll
    <2>3. ptr = 0 /\ lastname = "none" /\ sdlname = "none" /\ listed = {}
      BY <2>1 DEF IfInv, BufferInv
    <2>4. CASE LengthOf(buf') = lastlen
      <3>1. pc' = "entries" /\ UNCHANGED <<len, lastlen>>
        BY <1>3, <2>4 DEF Siocgifconf
      <3>2. buf' = ifs
        BY <2>2, <2>4 DEF IfInv, BufferInv
      <3>3. BufferInv'
        BY <2>1, <2>3, <3>1, <3>2 DEF IfInv, BufferInv
      <3>4. \A k \in DOMAIN ifs : ifs[k].at \in Nat
        BY <1>0, ListFacts
      <3>5. (Passed(seen, ptr) = {})'
        BY <2>1, <2>3, <3>4 DEF Passed, Reached
      <3>6. (ptr < LengthOf(seen) => AtEntry(seen, ptr))'
        <4>1. ASSUME 0 < LengthOf(ifs) PROVE \E k \in DOMAIN ifs : ifs[k].at = 0
          <5>1. ifs # <<>>
            BY <4>1 DEF LengthOf
          <5>2. ifs \in Seq(Entries)
            BY <1>0, ListFacts
          <5>3. 1 \in DOMAIN ifs
            BY <5>1, <5>2
          <5>4. ifs[1].at = 0
            BY <1>0, <5>3, ListFacts DEF LaidOut
          <5> QED
            BY <5>3, <5>4
        <4> QED
          BY <2>1, <2>3, <4>1 DEF AtEntry, LengthOf
      <3>7. (LastOf(lastname, seen, ptr, af) /\ LastOf(sdlname, seen, ptr, "link"))'
        BY <2>1, <2>3, <3>5 DEF LastOf
      <3>8. (RightTo(seen, ptr) = {})'
        BY <3>5 DEF RightTo
      <3>9. ptr' % 8 = 0
        BY <2>1, <2>3
      <3>10. PassInv'
        BY <2>1, <2>3, <3>6, <3>7, <3>8, <3>9 DEF PassInv
      <3> QED
        BY <3>3, <3>10 DEF IfInv
    <2>5. CASE LengthOf(buf') # lastlen
      <3>1. pc' = pc /\ lastlen' = LengthOf(buf') /\ len' = len + Increment * Ifreq[layout]
        BY <1>3, <2>5 DEF Siocgifconf
      <3>2. lastlen' \in Nat /\ len' \in Nat /\ lastlen' + 16 <= len'
        BY <1>0, <2>2, <3>1, RoomFacts
      <3> QED
        BY <2>1, <3>1, <3>2 DEF IfInv, BufferInv, PassInv
    <2> QED
      BY <2>4, <2>5
  <1> QED
    BY <1>1, <1>2, <1>3

(* The arguments, the kernel and the buffer stay as they are in a pass.    *)
LEMMA SameList ==
  ASSUME UNCHANGED <<af, doaliases, build, dl, layout, up, seen>>, NEW name, NEW f, NEW p
  PROVE  /\ InStep(seen)' <=> InStep(seen)
         /\ (LengthOf(seen))' = LengthOf(seen)
         /\ RightTo(seen, ptr)' = RightTo(seen, ptr')
         /\ LastOf(lastname, seen, ptr, af)' <=> LastOf(lastname', seen, ptr', af)
         /\ LastOf(sdlname, seen, ptr, "link")' <=> LastOf(sdlname', seen, ptr', "link")
         /\ AtEntry(seen, ptr)' <=> AtEntry(seen, ptr')
  <1>1. InStep(seen)' <=> InStep(seen)
    BY DEF InStep, StepOver
  <1>2. RightTo(seen, ptr)' = RightTo(seen, ptr')
    BY DEF RightTo, Passed, Reached, Belongs, Mark, Before
  <1>3. LastOf(lastname, seen, ptr, af)' <=> LastOf(lastname', seen, ptr', af)
    BY DEF LastOf, Passed, Reached
  <1>4. LastOf(sdlname, seen, ptr, "link")' <=> LastOf(sdlname', seen, ptr', "link")
    BY DEF LastOf, Passed, Reached
  <1>5. AtEntry(seen, ptr)' <=> AtEntry(seen, ptr')
    BY DEF AtEntry
  <1>6. (LengthOf(seen))' = LengthOf(seen)
    BY DEF LengthOf
  <1> QED
    BY <1>1, <1>2, <1>3, <1>4, <1>5, <1>6

(* How far ptr goes, and that it only comes to the entries it should.      *)
LEMMA StepLength ==
  ASSUME BufferInv, pc = "entries", NEW k \in DOMAIN seen, seen[k].at = ptr
  PROVE  /\ ptr + StepOver(seen[k].family) \in Nat
         /\ InStep(seen) => StepOver(seen[k].family) = seen[k].size
         /\ layout = "ifreq40" => StepOver(seen[k].family) = 8 /\ seen[k].size = 10
         /\ layout = "ifreq40" /\ ptr % 8 = 0 => k \in Reached(seen)
         /\ layout # "ifreq40" => k \in Reached(seen)
  <1>1. seen \in Lists[layout] /\ layout \in Layouts /\ ptr \in Nat
    BY DEF BufferInv
  <1>2. /\ seen[k].family \in {"link", "inet", "inet6"} /\ k \in Nat
        /\ seen[k].size = SizeOf(layout, seen[k].family)
        /\ layout # "packed" => seen[k].family = "inet" /\ seen[k].at = (k - 1) * Ifreq[layout]
    BY <1>1, ListFacts DEF LaidOut, Entries, IfFamilies, SockaddrLen
  <1>3. StepOver(seen[k].family) \in Nat
    BY <1>2 DEF StepOver, SockaddrLen
  <1>4. layout = "ifreq40" => /\ StepOver(seen[k].family) = 8 /\ seen[k].size = 10
                              /\ ptr = (k - 1) * 10
    BY <1>2 DEF BufferInv, StepOver, SizeOf, Ifreq
  <1>5. layout = "ifreq40" /\ ptr % 8 = 0 => k % 4 = 1
    BY <1>2, <1>4
  <1> QED
    BY <1>1, <1>2, <1>3, <1>4, <1>5 DEF InStep, Reached

LEMMA EntryStep ==
  ASSUME IfInv, Entry
  PROVE  IfInv'
  <1>1. PICK k \in DOMAIN seen :
          /\ seen[k].at = ptr /\ ptr < LengthOf(seen)
          /\ ptr' = ptr + StepOver(seen[k].family)
          /\ sdlname' = IF dl /\ seen[k].family = "link" THEN seen[k].dev ELSE sdlname
          /\ lastname' = IF seen[k].family = af /\ (lastname = seen[k].dev => doaliases)
                           THEN seen[k].dev ELSE lastname
          /\ listed' = IF /\ seen[k].family = af /\ (lastname = seen[k].dev => doaliases)
                          /\ seen[k].dev \in up
                         THEN listed \cup {[at |-> ptr, alias |-> lastname = seen[k].dev,
                                            index |-> sdlname = seen[k].dev]}
                         ELSE listed
    BY DEF Entry, IfInv, BufferInv
  <1>2. /\ UNCHANGED <<pc, af, doaliases, build, dl, layout, strict, up, ifs>>
        /\ UNCHANGED <<len, lastlen, buf, seen>> /\ pc = "entries" /\ BufferInv
        /\ layout \in Layouts /\ seen \in Lists[layout] /\ ptr \in Nat
    BY DEF Entry, ifArgs, ifKernel, IfInv, BufferInv
  <1>3. BufferInv'
    BY <1>1, <1>2, StepLength DEF BufferInv
  <1>4. ASSUME InStep(seen) \/ layout = "ifreq40" PROVE PassInv'
    <2>1. /\ listed \ {Phantom} = RightTo(seen, ptr) /\ LastOf(lastname, seen, ptr, af)
          /\ dl => LastOf(sdlname, seen, ptr, "link")
          /\ ~dl => sdlname = "none"
          /\ layout = "ifreq40" => ptr % 8 = 0
          /\ InStep(seen) => Phantom \notin listed
      BY <1>1, <1>2, <1>4 DEF IfInv, PassInv
    <2>2. k \in Reached(seen)
      BY <1>1, <1>2, <2>1, StepLength
    <2>3. seen[k].dev # "none" /\ seen[k].size \in 8 .. 11
      BY <1>1, <1>2, ListFacts
    <2>4. ptr' \in Nat /\ seen[k].at < ptr' /\ ptr' <= seen[k].at + seen[k].size
      BY <1>1, <1>2, <1>4, <2>3, StepLength
    <2>5. /\ Passed(seen, ptr') = Passed(seen, seen[k].at) \cup {k}
          /\ Passed(seen, seen[k].at) = {j \in Reached(seen) : j < k}
      BY <1>2, <2>2, <2>4, PassesOne
    <2>6. (lastname = seen[k].dev) <=> Before(seen, k, af)
      BY <1>1, <1>2, <2>1, <2>2, <2>5, LastTells
    <2>7. (sdlname = seen[k].dev) <=> (dl /\ Before(seen, k, "link"))
      <3>1. dl => ((sdlname = seen[k].dev) <=> Before(seen, k, "link"))
        BY <1>1, <1>2, <2>1, <2>2, <2>5, LastTells
      <3> QED
        BY <2>1, <2>3, <3>1
    <2>8. LastOf(lastname', seen, ptr', af)
      <3>1. CASE seen[k].family = af /\ (lastname = seen[k].dev => doaliases)
        BY <1>1, <1>2, <2>1, <2>2, <2>5, <3>1, LastMoves
      <3>2. CASE seen[k].family = af /\ lastname = seen[k].dev
        BY <1>1, <1>2, <2>1, <2>2, <2>5, <3>2, LastMoves
      <3>3. CASE seen[k].family # af
        BY <1>1, <1>2, <2>1, <2>2, <2>5, <3>3, LastMoves
      <3> QED
        BY <3>1, <3>2, <3>3
    <2>9. dl => LastOf(sdlname', seen, ptr', "link")
      BY <1>1, <1>2, <2>1, <2>2, <2>5, LastMoves
    <2>10. listed' \ {Phantom} = RightTo(seen, ptr') /\ (InStep(seen) => Phantom \notin listed')
      <3> DEFINE made == [at |-> ptr, alias |-> lastname = seen[k].dev,
                          index |-> sdlname = seen[k].dev]
      <3>1. Mark(seen, k) = made
        <4>1. (lastname = seen[k].dev) = Before(seen, k, af)
          BY <2>6 DEF Before
        <4>2. (sdlname = seen[k].dev) = (dl /\ Before(seen, k, "link"))
          BY <2>7 DEF Before
        <4> QED
          BY <1>1, <4>1, <4>2 DEF Mark
      <3>2. made # Phantom
        <4>1. made.at = ptr /\ Phantom.at = -1
          BY DEF Phantom
        <4>2. ptr # -1
          BY <1>2
        <4> QED
          BY <4>1, <4>2
      <3>3. RightTo(seen, ptr') =
              RightTo(seen, ptr) \cup (IF Belongs(seen, k) THEN {Mark(seen, k)} ELSE {})
        BY <1>1, <2>5, RightMoves
      <3>4. listed' = listed \cup (IF Belongs(seen, k) THEN {made} ELSE {})
        <4>1. Belongs(seen, k) <=> /\ seen[k].family = af /\ seen[k].dev \in up
                                   /\ (lastname = seen[k].dev => doaliases)
          BY <2>6 DEF Belongs
        <4>2. CASE Belongs(seen, k)
          BY <1>1, <4>1, <4>2
        <4>3. CASE ~Belongs(seen, k)
          BY <1>1, <4>1, <4>3
        <4> QED
          BY <4>2, <4>3
      <3> HIDE DEF made
      <3> QED
        BY <2>1, <3>1, <3>2, <3>3, <3>4
    <2>11. ~dl => sdlname' = "none"
      BY <1>1, <2>1
    <2>12. InStep(seen) /\ ptr' < LengthOf(seen) => AtEntry(seen, ptr')
      <3> SUFFICES ASSUME InStep(seen), ptr' < LengthOf(seen) PROVE AtEntry(seen, ptr')
        OBVIOUS
      <3>1. ptr' = seen[k].at + seen[k].size
        BY <1>1, <1>2, StepLength
      <3>2. seen \in Seq(Entries) /\ DOMAIN seen = 1 .. Len(seen)
        BY <1>2, ListFacts
      <3>3. Len(seen) \in Nat /\ k \in 1 .. Len(seen)
        BY <1>1, <3>2
      <3>4. CASE k = Len(seen)
        <4>1. seen # <<>>
          BY <3>2, <3>3
        <4>2. LengthOf(seen) = ptr'
          BY <3>1, <3>4, <4>1 DEF LengthOf
        <4> QED
          BY <2>4, <4>2
      <3>5. CASE k # Len(seen)
        <4>1. k + 1 \in 1 .. Len(seen) /\ k + 1 # 1 /\ k + 1 - 1 = k
          BY <3>3, <3>5
        <4>2. seen[k + 1].at = ptr'
          <5>1. seen[k + 1].at =
                  IF k + 1 = 1 THEN 0 ELSE seen[k + 1 - 1].at + seen[k + 1 - 1].size
            <6>1. LaidOut(layout, seen)
              BY <1>2, ListFacts
            <6> QED
              BY <3>2, <4>1, <6>1 DEF LaidOut
          <5> QED
            BY <3>1, <4>1, <5>1
        <4> QED
          BY <3>2, <4>1, <4>2 DEF AtEntry
      <3> QED
        BY <3>4, <3>5
    <2>13. layout = "ifreq40" => ptr' % 8 = 0
      <3>1. layout = "ifreq40" => ptr' = ptr + 8
        BY <1>1, <1>2, StepLength
      <3> QED
        BY <1>2, <2>1, <3>1
    <2> QED
      BY <1>2, <2>8, <2>9, <2>10, <2>11, <2>12, <2>13, SameList DEF PassInv
  <1>5. ASSUME ~(InStep(seen) \/ layout = "ifreq40") PROVE PassInv'
    BY <1>2, <1>5, SameList DEF PassInv
  <1> QED
    BY <1>3, <1>4, <1>5 DEF IfInv

(* Between the entries of 40 bytes ptr passes none that it should come to. *)
LEMMA PassesNone ==
  ASSUME NEW s, layout = "ifreq40", s \in Lists[layout], NEW p \in Nat, NEW q \in Nat,
         p < q, ~AtEntry(s, p), p < LengthOf(s),
         \/ p % 8 = 0 /\ q = p + 8
         \/ p + 4 >= LengthOf(s)
  PROVE  Passed(s, q) = Passed(s, p)
  <1>1. layout \in Layouts
    BY DEF Layouts
  <1>2. ASSUME NEW k \in Reached(s)
        PROVE  /\ k \in Nat /\ k % 4 = 1 /\ s[k].at = (k - 1) * 10
               /\ s[k].at + 10 <= LengthOf(s) /\ s[k].at # p
    <2>1. k \in DOMAIN s /\ k % 4 = 1
      BY DEF Reached
    <2>2. /\ s[k].at = (k - 1) * Ifreq[layout] /\ s[k].size = SizeOf(layout, s[k].family)
          /\ k \in Nat /\ s[k].at + s[k].size <= LengthOf(s)
      BY <1>1, <2>1, ListFacts DEF LaidOut
    <2>3. Ifreq[layout] = 10 /\ s[k].size = 10
      BY <2>2 DEF Ifreq, SizeOf
    <2> QED
      BY <2>1, <2>2, <2>3 DEF AtEntry
  <1>3. LengthOf(s) \in Nat
    BY <1>1, ListFacts
  <1>4. ASSUME NEW k \in Reached(s) PROVE s[k].at < q <=> s[k].at < p
    <2>1. PICK a \in Nat : a = s[k].at /\ a = (k - 1) * 10 /\ a # p /\ a + 10 <= LengthOf(s)
      <3>1. k - 1 \in Nat
        BY <1>2
      <3> QED
        BY <1>2, <3>1
    <2>2. CASE p % 8 = 0 /\ q = p + 8
      <3>1. k \in Nat /\ k % 4 = 1
        BY <1>2
      <3>2. a % 8 = 0
        BY <2>1, <3>1
      <3> QED
        BY <2>1, <2>2, <3>2
    <2>3. CASE p + 4 >= LengthOf(s)
      BY <1>3, <2>1, <2>3
    <2> QED
      BY <2>2, <2>3
  <1> QED
    BY <1>4 DEF Passed

LEMMA AstrayStep ==
  ASSUME IfInv, Astray
  PROVE  IfInv'
  <1>1. PICK f \in IfFamilies \cup {"other"} :
          /\ ptr < LengthOf(seen) /\ ~AtEntry(seen, ptr)
          /\ layout # "packed" /\ ptr + 4 < LengthOf(seen) => f = "other"
          /\ ptr' = ptr + StepOver(f)
          /\ sdlname' = IF dl /\ f = "link" THEN "phantom" ELSE sdlname
          /\ lastname' \in {lastname} \cup (IF f = af THEN {"phantom"} ELSE {})
          /\ listed' \in {listed} \cup (IF f = af THEN {listed \cup {Phantom}} ELSE {})
    BY DEF Astray, AtEntry, IfInv, BufferInv
  <1>2. /\ UNCHANGED <<pc, af, doaliases, build, dl, layout, strict, up, ifs>>
        /\ UNCHANGED <<len, lastlen, buf, seen>> /\ pc = "entries" /\ BufferInv
        /\ layout \in Layouts /\ seen \in Lists[layout] /\ ptr \in Nat
        /\ layout # "packed" => build # "sa_len" /\ ~dl
        /\ LengthOf(seen) \in Nat
    BY ListFacts DEF Astray, ifArgs, ifKernel, IfInv, BufferInv
  <1>3. ~InStep(seen)
    BY <1>1, <1>2 DEF IfInv, PassInv
  <1>4. build # "sa_len"
    <2>1. ASSUME build = "sa_len" PROVE InStep(seen)
      <3>1. layout = "packed"
        BY <1>2, <2>1
      <3>2. \A k \in DOMAIN seen : seen[k].size = SizeOf(layout, seen[k].family)
        <4>1. LaidOut(layout, seen)
          BY <1>2, ListFacts
        <4> QED
          BY <4>1 DEF LaidOut
      <3> QED
        BY <2>1, <3>1, <3>2 DEF InStep, StepOver, SizeOf
    <2> QED
      BY <1>3, <2>1
  <1>5. StepOver(f) \in {8, 11}
    <2>2. CASE build = "IPV6" /\ f = "inet6"
      <3>1. SockaddrLen[f] = 7
        BY <2>2 DEF SockaddrLen
      <3>2. StepOver(f) = 11
        BY <2>2, <3>1 DEF StepOver
      <3> QED
        BY <3>2
    <2>3. CASE build # "sa_len" /\ ~(build = "IPV6" /\ f = "inet6")
      <3>1. StepOver(f) = 8
        BY <2>3 DEF StepOver
      <3> QED
        BY <3>1
    <2> QED
      BY <1>4, <2>2, <2>3
  <1>6. ptr' \in Nat /\ ptr + 8 <= ptr'
    BY <1>1, <1>2, <1>5
  <1>7. BufferInv'
    BY <1>1, <1>2, <1>6 DEF BufferInv
  <1>8. ASSUME layout = "ifreq40" PROVE PassInv'
    <2>1. /\ listed \ {Phantom} = RightTo(seen, ptr) /\ LastOf(lastname, seen, ptr, af)
          /\ ptr % 8 = 0 /\ ~dl /\ sdlname = "none"
      BY <1>1, <1>2, <1>8 DEF IfInv, PassInv
    <2>2. f = "other" => ptr' = ptr + 8
      BY <1>1, <1>4 DEF StepOver
    <2>3. f = "other" \/ ptr + 4 >= LengthOf(seen)
      BY <1>1, <1>2, <1>8
    <2>4. Passed(seen, ptr') = Passed(seen, ptr)
      BY <1>1, <1>2, <1>6, <1>8, <2>1, <2>2, <2>3, PassesNone
    <2>5. listed' \ {Phantom} = RightTo(seen, ptr')
      <3>1. listed' \ {Phantom} = listed \ {Phantom}
        BY <1>1
      <3> QED
        BY <2>1, <2>4, <3>1 DEF RightTo
    <2>6. ptr' < LengthOf(seen) => /\ LastOf(lastname', seen, ptr', af) /\ ptr' % 8 = 0
                                   /\ sdlname' = "none"
      <3> SUFFICES ASSUME ptr' < LengthOf(seen)
                   PROVE  /\ LastOf(lastname', seen, ptr', af) /\ ptr' % 8 = 0
                          /\ sdlname' = "none"
        OBVIOUS
      <3>1. f = "other"
        BY <1>2, <1>6, <2>3
      <3>2. f # af
        BY <1>2, <3>1 DEF BufferInv
      <3>3. lastname' = lastname /\ sdlname' = sdlname
        BY <1>1, <2>1, <3>2
      <3> QED
        BY <1>2, <2>1, <2>2, <2>4, <3>1, <3>3 DEF LastOf
    <2> QED
      BY <1>2, <1>3, <1>8, <2>1, <2>5, <2>6, SameList DEF PassInv
  <1>9. ASSUME layout # "ifreq40" PROVE PassInv'
    BY <1>2, <1>3, <1>9, SameList DEF PassInv
  <1> QED
    BY <1>7, <1>8, <1>9 DEF IfInv

LEMMA ListedStep ==
  ASSUME IfInv, Listed
  PROVE  IfInv'
  <1>1. /\ pc' = "listed" /\ pc = "entries" /\ ptr >= LengthOf(buf) /\ buf = seen
        /\ UNCHANGED <<af, doaliases, build, dl, layout, strict, up, ifs, len, lastlen, buf, seen>>
        /\ UNCHANGED <<ptr, lastname, sdlname, listed>>
    BY DEF Listed, ifVars, ifArgs, ifKernel, entryVars, IfInv, BufferInv
  <1>2. BufferInv'
    BY <1>1 DEF LengthOf, IfInv, BufferInv
  <1>3. PassInv'
    BY <1>1, SameList DEF IfInv, PassInv
  <1> QED
    BY <1>2, <1>3 DEF IfInv

LEMMA IfKeeps == IfInv /\ [IfNext]_<<pc, timer, ifVars>> => IfInv'
  <1> SUFFICES ASSUME IfInv, [IfNext]_<<pc, timer, ifVars>> PROVE IfInv'
    OBVIOUS
  <1>1. CASE UNCHANGED <<pc, timer, ifVars>>
    <2>1. UNCHANGED <<pc, af, doaliases, build, dl, layout, strict, up, ifs, len, lastlen, buf,
                      seen, ptr, lastname, sdlname, listed>>
      BY <1>1 DEF ifVars, ifArgs, ifKernel, entryVars
    <2>2. BufferInv'
      BY <2>1 DEF IfInv, BufferInv, LengthOf
    <2>3. PassInv'
      BY <2>1, SameList DEF IfInv, PassInv
    <2> QED
      BY <2>2, <2>3 DEF IfInv
  <1> QED
    BY <1>1, IoctlStep, EntryStep, AstrayStep, ListedStep DEF IfNext, GetIfi

(* Behind the end every entry has been passed that ptr comes to.           *)
LEMMA IfMeans == IfInv => ListIsRight
  <1> SUFFICES ASSUME IfInv, pc = "listed"
               PROVE  /\ InStep(seen) => listed = Right(seen)
                      /\ layout = "ifreq40" => listed \ {Phantom} = Right(seen)
    BY DEF ListIsRight
  <1>1. /\ layout \in Layouts /\ seen \in Lists[layout] /\ ptr \in Nat
        /\ ptr >= LengthOf(seen)
    BY DEF IfInv, BufferInv
  <1>2. LengthOf(seen) \in Nat
    BY <1>1, ListFacts
  <1>3. ASSUME NEW k \in Reached(seen) PROVE seen[k].at < ptr
    <2>1. k \in DOMAIN seen
      BY DEF Reached
    <2>2. PICK a \in Nat, b \in 8 .. 11 : a = seen[k].at /\ b = seen[k].size
      BY <1>1, <2>1, ListFacts
    <2>3. a + b <= LengthOf(seen)
      BY <1>1, <2>1, <2>2, ListFacts
    <2> QED
      BY <1>1, <1>2, <2>2, <2>3
  <1>4. RightTo(seen, ptr) = Right(seen)
    BY <1>3 DEF RightTo, Right, Passed
  <1>5. InStep(seen) \/ layout = "ifreq40" => listed \ {Phantom} = Right(seen)
    BY <1>1, <1>4 DEF IfInv, PassInv
  <1>6. InStep(seen) => Phantom \notin listed
    BY DEF IfInv, PassInv
  <1> QED
    BY <1>5, <1>6

(* Whatever the kernel cuts off or changes between two calls, the list     *)
(* that get_ifi_info returns holds each interface of the last ioctl once,  *)
(* and each with its own marks, where the steps of ptr are those of the    *)
(* entries; and every fourth of them where a struct ifreq has 40 bytes.    *)
THEOREM ListAlwaysRight == IfSpec => []ListIsRight
  <1> QED
    BY IfInitially, IfKeeps, IfMeans, PTL DEF IfSpec


-----------------------------------------------------------------------------
(* All of them: one program runs, keeps its own invariant and leaves alone *)
(* what belongs to the others; their properties look at the step it is at, *)
(* and no two programs have a step of the same name that a property is     *)
(* about.                                                                  *)
PingPcs == {"first", "recvmsg", "errno", "failed", "gettimeofday", "proc", "print", "discard"}
NoPcs == {"none"}

OwnInv ==
  /\ program = "traceroute" => TraceInv
  /\ program = "ping" => PingInv /\ pc \in PingPcs
  /\ program = "udpcksum" => CksumInv
  /\ program = "udp" => UdpInv
  /\ program = "connect" => ConnInv
  /\ program = "open" => OpenInv
  /\ program = "interfaces" => IfInv
  /\ program \in {"heartbeat", "readline"} => pc \in NoPcs

(* What does not depend on the step, and what has not begun.               *)
OthersInv ==
  /\ SentInv /\ HeartInv /\ PeerInv /\ RlInv
  /\ program # "traceroute" => reached = 0
  /\ program # "connect" => ~stray /\ hs = "none"

SmallInv == program \in Programs /\ OwnInv /\ OthersInv

LEMMA StepOf ==
  ASSUME [SmallNext]_smallVars
  PROVE  /\ program' = program
         /\ program = "traceroute" => [Next]_vars
         /\ program = "ping" => [PingNext]_<<pc, timer, pingVars>>
         /\ program = "udpcksum" => [CksumNext]_<<pc, timer, cksumVars>>
         /\ program = "heartbeat" => [HeartNext]_heartVars
         /\ program = "udp" => [UdpNext]_<<pc, timer, udpVars>>
         /\ program = "connect" => [ConnNext]_connAll
         /\ program = "open" => [OpenNext]_openAll
         /\ program = "interfaces" => [IfNext]_<<pc, timer, ifVars>>
         /\ program = "readline" => [Readline]_rlVars
<1>1. CASE SmallNext
  <2>1. CASE Threads
    BY <2>1 DEF Threads, As, Next, PingNext, CksumNext, HeartNext, UdpNext, ConnNext, OpenNext,
                OpenSteps, IfNext
  <2>2. CASE Clock
    BY <2>2 DEF Clock, As, Next, PingNext, CksumNext, HeartNext, HeartWorld, UdpNext, ConnNext
  <2>3. CASE Others
    BY <2>3 DEF Others, As, UdpNext, ConnNext, OpenNext, OpenSteps
  <2>4. CASE Chance
    BY <2>4 DEF Chance, As, Next, PingNext, CksumNext, HeartNext, HeartWorld, UdpNext, OpenNext,
                IfNext
  <2> QED
    BY <1>1, <2>1, <2>2, <2>3, <2>4 DEF SmallNext
<1>2. CASE UNCHANGED smallVars
  BY <1>2 DEF smallVars, vars, connAll, openAll
<1> QED
  BY <1>1, <1>2

LEMMA LeftAlone ==
  ASSUME [SmallNext]_smallVars
  PROVE  /\ program # "traceroute" => UNCHANGED traceVars
         /\ program # "udpcksum" => UNCHANGED cksumVars
         /\ program # "heartbeat" => UNCHANGED heartVars
         /\ program # "connect" => UNCHANGED connVars
         /\ program # "readline" => UNCHANGED rlVars
         /\ program \in {"heartbeat", "readline"} => UNCHANGED <<pc, timer>>
<1>1. CASE SmallNext
  <2>1. CASE Threads
    BY <2>1 DEF Threads, As
  <2>2. CASE Clock
    BY <2>2 DEF Clock, As
  <2>3. CASE Others
    BY <2>3 DEF Others, As
  <2>4. CASE Chance
    BY <2>4 DEF Chance, As
  <2> QED
    BY <1>1, <2>1, <2>2, <2>3, <2>4 DEF SmallNext
<1>2. CASE UNCHANGED smallVars
  BY <1>2 DEF smallVars
<1> QED
  BY <1>1, <1>2

LEMMA PingStepsOn == pc \in PingPcs /\ [PingNext]_<<pc, timer, pingVars>> => pc' \in PingPcs
BY DEF PingPcs, PingNext, Readloop, First, Errno, Failed, Recvmsg, Gettimeofday, Proc,
       ProcReturns, PingAlrm, World, Tick, Arrive, pingVars

LEMMA SentAlone == SentInv /\ UNCHANGED cksumVars => SentInv'
<1> SUFFICES ASSUME SentInv, UNCHANGED cksumVars PROVE SentInv'
  OBVIOUS
<1>1. UNCHANGED <<zerosum, query, ui_sum, nsent>>
  BY DEF cksumVars, queryVars
<1>2. Checksum' = Checksum
  BY <1>1 DEF Checksum, in_cksum, Fold, Sum
<1> QED
  BY <1>1, <1>2 DEF SentInv

LEMMA SmallInitially == SmallInit => SmallInv
<1> SUFFICES ASSUME SmallInit PROVE SmallInv
  OBVIOUS
<1>1. /\ program \in Programs /\ TraceInit /\ PingInit /\ CksumInit /\ UdpInit /\ ConnInit
      /\ OpenInit /\ IfInit /\ RlInit
  BY DEF SmallInit
<1>2. Programs = {"traceroute", "ping", "udpcksum", "heartbeat", "udp", "connect", "open",
                  "interfaces", "readline"}
  BY DEF Programs, Start
<1>3. /\ program = "traceroute" => pc = "probe" /\ timer = FALSE
      /\ program = "ping" => pc = "first"
      /\ program = "udpcksum" => pc = "setjmp" /\ timer = FALSE
      /\ program = "udp" => pc = "fgets"
      /\ program = "connect" => pc = ConnStart[call] /\ timer \in {FALSE, call = "connect_timeo"}
      /\ program = "open" => pc = "socketpair"
      /\ program = "interfaces" => pc = "SIOCGIFCONF"
      /\ program \in {"heartbeat", "readline"} => pc = "none"
  <2>1. /\ pc = IF program = "connect" THEN ConnStart[call] ELSE Start[program]
        /\ timer \in {FALSE, program = "connect" /\ call = "connect_timeo"}
    BY DEF SmallInit
  <2>2. /\ Start["traceroute"] = "probe" /\ Start["ping"] = "first"
        /\ Start["udpcksum"] = "setjmp" /\ Start["udp"] = "fgets"
        /\ Start["open"] = "socketpair" /\ Start["interfaces"] = "SIOCGIFCONF"
        /\ Start["heartbeat"] = "none" /\ Start["readline"] = "none"
    BY DEF Start
  <2>3. program # "connect" => pc = Start[program] /\ timer = FALSE
    BY <2>1
  <2>4. program = "connect" => pc = ConnStart[call] /\ timer \in {FALSE, call = "connect_timeo"}
    BY <2>1
  <2> QED
    BY <2>2, <2>3, <2>4
<1>4. OwnInv
  <2>1. program = "traceroute" => TraceInv
    BY <1>1, <1>3, TraceInitially DEF Init
  <2>2. program = "ping" => PingInv /\ pc \in PingPcs
    BY <1>1, <1>3, PingInitially DEF PingPcs
  <2> QED
    BY <1>1, <1>3, <2>1, <2>2, CksumInitially, UdpInitially, ConnInitially, OpenInitially,
       IfInitially DEF OwnInv, NoPcs
<1>5. HeartInit
  <2>1. CASE program = "heartbeat"
    BY <2>1 DEF SmallInit
  <2>2. CASE program # "heartbeat"
    <3>1. Any(HeartArgs) \in HeartArgs
      BY HeartAssumption DEF Any
    <3>2. [s \in Sides |-> Any(HeartArgs)] \in [Sides -> HeartArgs]
      BY <3>1
    <3> QED
      BY <2>2, <3>2 DEF SmallInit, HeartInit
  <2> QED
    BY <2>1, <2>2
<1>6. reached = 0 /\ ~stray /\ hs = "none"
  BY <1>1 DEF TraceInit, ConnInit
<1> QED
  BY <1>1, <1>4, <1>5, <1>6, SentInitially, HeartInitially, PeerInitially, RlInitially
  DEF SmallInv, OthersInv

LEMMA SmallKeeps == SmallInv /\ [SmallNext]_smallVars => SmallInv'
<1> SUFFICES ASSUME SmallInv, [SmallNext]_smallVars PROVE SmallInv'
  OBVIOUS
<1>1. program' = program
  BY StepOf
<1>2. OwnInv'
  <2>1. CASE program \in {"traceroute", "ping", "udpcksum", "udp"}
    BY <1>1, <2>1, StepOf, TraceKeeps, PingKeeps, PingStepsOn, CksumKeeps, UdpKeeps
    DEF SmallInv, OwnInv
  <2>2. CASE program \in {"connect", "open", "interfaces"}
    BY <1>1, <2>2, StepOf, ConnKeeps, OpenKeeps, IfKeeps DEF SmallInv, OwnInv
  <2>3. CASE program \in {"heartbeat", "readline"}
    BY <1>1, <2>3, LeftAlone DEF SmallInv, OwnInv, NoPcs
  <2> QED
    BY <2>1, <2>2, <2>3 DEF SmallInv, Programs, Start
<1>3. SentInv'
  BY StepOf, LeftAlone, SentKeeps, SentAlone DEF SmallInv, OthersInv
<1>4. HeartInv' /\ PeerInv'
  BY StepOf, LeftAlone, HeartKeeps, PeerKeeps DEF SmallInv, OthersInv
<1>5. RlInv'
  BY StepOf, LeftAlone, RlKeeps DEF SmallInv, OthersInv
<1>6. program # "traceroute" => reached' = 0
  BY LeftAlone DEF SmallInv, OthersInv, traceVars
<1>7. program # "connect" => ~stray' /\ hs' = "none"
  BY LeftAlone DEF SmallInv, OthersInv, connVars, connHistory
<1> QED
  BY <1>1, <1>2, <1>3, <1>4, <1>5, <1>6, <1>7 DEF SmallInv, OthersInv

(* A step that a property is about is a step of its program alone.         *)
LEMMA StepsApart ==
  ASSUME SmallInv
  PROVE  /\ pc \in {"report", "exit"} => program = "traceroute"
         /\ pc = "print" => program = "ping"
         /\ pc \in {"noresponse", "answered"} => program = "udpcksum"
         /\ pc = "fputs" => program = "udp"
         /\ pc = "result" => program = "connect"
         /\ pc \in {"returned", "over"} => program = "open"
         /\ pc = "listed" => program = "interfaces"
<1>1. /\ program = "traceroute" => pc \in TracePcs
      /\ program = "ping" => pc \in PingPcs
      /\ program \in {"heartbeat", "readline"} => pc \in NoPcs
  BY DEF SmallInv, OwnInv, TraceInv, TraceType
<1>2. /\ program = "udpcksum" => pc \in {"setjmp", "alarm", "udp_read", "canjump", "alarm0",
                                         "jumped", "answered", "noresponse", "err_quit"}
      /\ program = "udp" => pc \in {"fgets", "sendto", "recvfrom", "fputs", "ended"}
  BY DEF SmallInv, OwnInv, CksumInv, UdpInv, UdpType
<1>3. program = "connect" =>
        pc \in {"F_SETFL", "connect_nonb", "select", "SO_ERROR", "done", "result", "Signal",
                "alarm", "aborted", "connect", "asleep", "alarm0", "signal", "socket"}
  BY DEF SmallInv, OwnInv, ConnInv, ConnTypeInv, NonbInv, TimeoInv, DaytimeInv
<1>4. /\ program = "open" => pc \in Waiting \cup {"WIFEXITED", "close", "returned", "over"}
      /\ program = "interfaces" => pc \in {"SIOCGIFCONF", "entries", "listed"}
  BY DEF SmallInv, OwnInv, OpenInv, ParentInv, IfInv, BufferInv
<1> QED
  BY <1>1, <1>2, <1>3, <1>4 DEF SmallInv, Programs, Start, TracePcs, PingPcs, NoPcs, Waiting

(* The promises of the programs, as the run of all of them states them.    *)
EveryPromise ==
  /\ ResultIsOurs /\ StopsAtDestination /\ RttIsExact /\ ThreeTimeouts /\ Verifies
  /\ SilenceMeasured /\ LivePeerKept /\ OwnAnswer /\ ConnectTells /\ DescriptorOrError
  /\ ListIsRight /\ LinesIntact

LEMMA SmallMeans == SmallInv => EveryPromise
<1> SUFFICES ASSUME SmallInv PROVE EveryPromise
  OBVIOUS
<1>1. ResultIsOurs
  BY StepsApart, ResultsKept DEF SmallInv, OwnInv, ResultIsOurs
<1>2. StopsAtDestination
  BY StepsApart, StopKept DEF SmallInv, OwnInv, OthersInv, StopsAtDestination
<1>3. RttIsExact
  BY StepsApart, PingMeans DEF SmallInv, OwnInv, RttIsExact
<1>4. ThreeTimeouts
  BY StepsApart, CksumMeans DEF SmallInv, OwnInv, ThreeTimeouts
<1>5. OwnAnswer
  BY StepsApart, UdpMeans DEF SmallInv, OwnInv, OwnAnswer
<1>6. ConnectTells
  BY StepsApart, ConnMeans DEF SmallInv, OwnInv, OthersInv, ConnectTells
<1>7. DescriptorOrError
  BY StepsApart, OpenMeans DEF SmallInv, OwnInv, DescriptorOrError
<1>8. ListIsRight
  BY StepsApart, IfMeans DEF SmallInv, OwnInv, ListIsRight
<1>9. Verifies /\ SilenceMeasured /\ LivePeerKept /\ LinesIntact
  BY SentMeans, HeartMeasures, RlMeans
  DEF SmallInv, OthersInv, PeerInv, Kept, LivePeerKept
<1> QED
  BY <1>1, <1>2, <1>3, <1>4, <1>5, <1>6, <1>7, <1>8, <1>9 DEF EveryPromise

(* Each program keeps all its promises in the composition that the run     *)
(* checks, where the programs share the alarm clock and the step counter,  *)
(* as it does alone.                                                       *)
THEOREM EveryPromiseKept == SmallSpec => []EveryPromise
<1> QED
  BY SmallInitially, SmallKeeps, SmallMeans, PTL DEF SmallSpec

-----------------------------------------------------------------------------
(* Where an alarm and where a reply is lost.                               *)
LEMMA AlarmLostHow ==
  TraceInv /\ [Next]_vars /\ ~AlarmLost /\ AlarmLost' => pc = "enter"
<1> SUFFICES ASSUME TraceInv, [Next]_vars, ~AlarmLost, AlarmLost', pc # "enter" PROVE FALSE
  OBVIOUS
<1>1. /\ pc' = "recvfrom" /\ gotalarm' /\ ~timer' /\ rcvq' = <<>>
      /\ pc = "recvfrom" => ~gotalarm \/ timer \/ rcvq # <<>>
  BY DEF AlarmLost
<1>2. CASE Trace
  BY <1>1, <1>2 DEF Trace, SendProbe, NextTtl, StartTimer, TimedOut, NotTimedOut, Recvfrom,
                    Packet, Report
<1>3. CASE SigAlrm
  BY <1>1, <1>3 DEF SigAlrm, netVars
<1>4. CASE Network
  <2>1. PICK m : rcvq' = Append(rcvq, m)
    BY <1>4 DEF Network, Deliver, Stray
  <2>2. rcvq \in Seq(IcmpPackets)
    BY DEF TraceInv, TraceType
  <2>3. rcvq' # <<>>
    BY <2>1, <2>2
  <2> QED
    BY <1>1, <2>3
<1>5. CASE UNCHANGED vars
  BY <1>1, <1>5 DEF vars, traceVars, netVars
<1> QED
  BY <1>2, <1>3, <1>4, <1>5 DEF Next

(* traceroute: an alarm that rings is noticed, but for the one that rings  *)
(* after the test of gotalarm and before recvfrom sleeps (recv_v4.c,       *)
(* recv_v6.c), with any number of packets on their way.                    *)
THEOREM AlarmsLostAtEntry == SmallSpec => LostOnlyAtEntry
<1>1. SmallInv /\ [SmallNext]_smallVars =>
        [program = "traceroute" /\ ~AlarmLost /\ AlarmLost' => pc = "enter"]_smallVars
  BY StepOf, AlarmLostHow DEF SmallInv, OwnInv
<1> QED
  BY <1>1, SmallInitially, SmallKeeps, PTL DEF SmallSpec, LostOnlyAtEntry

(* A packet is in hand from the udp_read that took it.                     *)
InHand == ui # NoPacket => program = "udpcksum" /\ pc \in {"canjump", "alarm0", "answered"}

LEMMA InHandKept == SmallInv /\ InHand /\ [SmallNext]_smallVars => InHand'
<1> SUFFICES ASSUME SmallInv, InHand, [SmallNext]_smallVars PROVE InHand'
  OBVIOUS
<1>1. CASE program # "udpcksum"
  BY <1>1, StepOf, LeftAlone DEF InHand, cksumVars
<1>2. CASE program = "udpcksum"
  <2>1. CksumInv /\ [CksumNext]_<<pc, timer, cksumVars>> /\ program' = "udpcksum"
    BY <1>2, StepOf DEF SmallInv, OwnInv
  <2>2. CASE TestUdp
    BY <1>2, <2>1, <2>2 DEF InHand, CksumInv, TestUdp, SendQuery, Alarm, UdpRead, Canjump, AlarmOff,
                      Jumped, cksumVars, queryVars
  <2>3. CASE JumpAlrm
    BY <1>2, <2>1, <2>3 DEF InHand, CksumInv, JumpAlrm
  <2>4. CASE CaptureAny
    BY <1>2, <2>1, <2>4 DEF InHand, CaptureAny, Capture
  <2>5. CASE UNCHANGED <<pc, timer, cksumVars>>
    BY <1>2, <2>1, <2>5 DEF InHand, cksumVars
  <2> QED
    BY <2>1, <2>2, <2>3, <2>4, <2>5 DEF CksumNext
<1> QED
  BY <1>1, <1>2

LEMMA DroppedHow ==
  ASSUME SmallInv, InHand, [SmallNext]_smallVars, ui # NoPacket, ui' = NoPacket
  PROVE  pc = "canjump"
<1>1. CksumInv /\ [CksumNext]_<<pc, timer, cksumVars>> /\ pc \in {"canjump", "alarm0", "answered"}
  BY StepOf DEF SmallInv, OwnInv, InHand
<1>2. JumpAlrm
  BY <1>1 DEF CksumNext, TestUdp, SendQuery, Alarm, UdpRead, Canjump, AlarmOff, Jumped, CaptureAny,
              Capture, cksumVars, queryVars
<1> QED
  BY <1>1, <1>2 DEF CksumInv, JumpAlrm

(* udpcksum: the jump of sig_alrm drops a reply in hand only between       *)
(* udp_read's return and the assignment that clears canjump (udpread.c,    *)
(* udpcksum.c).                                                            *)
THEOREM RepliesDroppedBeforeCleared == SmallSpec => DroppedOnlyBeforeCleared
<1>1. SmallInit => InHand
  BY DEF SmallInit, CksumInit, InHand
<1>2. SmallInv /\ InHand /\ [SmallNext]_smallVars =>
        [ui # NoPacket /\ ui' = NoPacket => pc = "canjump"]_smallVars
  BY DroppedHow
<1> QED
  BY <1>1, <1>2, InHandKept, SmallInitially, SmallKeeps, PTL
  DEF SmallSpec, DroppedOnlyBeforeCleared
=============================================================================

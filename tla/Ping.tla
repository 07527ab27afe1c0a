-------------------------------- MODULE Ping --------------------------------
(***************************************************************************)
(* ping/: readloop() reads the raw socket for ever, while sig_alrm() sends *)
(* an echo request each second.  A request carries the time it was sent,   *)
(* and the reply brings it back.                                           *)
(***************************************************************************)
EXTENDS AlarmProcess, Integers, Sequences

CONSTANTS USec,           \* microseconds to a second, scaled down
          MaxClock,       \* bound: microseconds the program runs
          PingCap,        \* packets the raw socket holds
          PingStrays      \* bound: packets of others, and duplicates

ASSUME PingAssumption == /\ USec \in Nat \ {0} /\ MaxClock \in Nat
                         /\ PingCap \in Nat /\ PingStrays \in Nat

VARIABLES clock, due,     \* now; when the alarm is to ring
          sentAt,         \* sentAt[seq + 1]: history of the requests
          echoes,         \* replies on their way
          sockq, others,  \* packets in the socket; counter of PingStrays
          msg, n,         \* recvbuf, and what recvmsg returned
          errno, tval, rtt

timeVars == <<clock, due>>
pingNet == <<echoes, sockq, others>>
pingVars == <<timeVars, sentAt, pingNet, msg, n, errno, tval, rtt>>

Tv(t) == [sec |-> t \div USec, usec |-> t % USec]
Ticks(tv) == tv.sec * USec + tv.usec
Garbage == [kind |-> "other", seq |-> 0, tv |-> Tv(0), at |-> 0]

(* tv_sub(): the difference, with a borrow.                                *)
TvSub(out, in) ==
  LET borrow == IF out.usec < in.usec THEN 1 ELSE 0
  IN  [sec |-> out.sec - borrow - in.sec, usec |-> out.usec - in.usec + borrow * USec]

PingInit ==
  /\ clock = 0 /\ due = 0 /\ sentAt = <<>>
  /\ echoes = {} /\ sockq = <<>> /\ others = 0
  /\ msg = Garbage /\ n = 0 /\ errno = "none" /\ tval = Tv(0) /\ rtt = Tv(0)

-----------------------------------------------------------------------------
Tick ==
  /\ clock < MaxClock /\ clock' = clock + 1
  /\ UNCHANGED <<pc, timer, due, sentAt, pingNet, msg, n, errno, tval, rtt>>

Arrive(m) ==
  /\ Len(sockq) < PingCap
  /\ sockq' = Append(sockq, [m EXCEPT !.at = clock])
  /\ \/ m \in echoes /\ echoes' = echoes \ {m} /\ UNCHANGED others
     \/ others < PingStrays /\ others' = others + 1 /\ UNCHANGED echoes
  /\ UNCHANGED <<pc, timer, timeVars, sentAt, msg, n, errno, tval, rtt>>

(* A packet that is passed over: to another process (by icmp_id), too      *)
(* short to hold a time, or of another type.                               *)
World == Tick \/ \E m \in echoes \cup {Garbage} : Arrive(m)

-----------------------------------------------------------------------------
(* send_v4 and send_v6, and alarm(1).                                      *)
Request == [kind |-> "echo", seq |-> Len(sentAt), tv |-> Tv(clock), at |-> 0]
Send == /\ sentAt' = Append(sentAt, clock)
        /\ timer' = TRUE /\ due' = clock + USec

First ==
  /\ pc = "first"
  /\ Send
  /\ echoes' = {Request}
  /\ pc' = "recvmsg"
  /\ UNCHANGED <<clock, sockq, others, msg, n, errno, tval, rtt>>

(* The handler may interrupt recvmsg, and its sendto may fail and leave an *)
(* errno of its own.                                                       *)
PingAlrm ==
  /\ timer /\ clock >= due
  /\ Send
  /\ \/ echoes' = echoes \cup {Request} /\ UNCHANGED errno
     \/ errno' = "ENETUNREACH" /\ UNCHANGED echoes
  /\ IF pc = "recvmsg" /\ sockq = <<>>
       THEN n' = -1 /\ pc' = "errno" ELSE UNCHANGED <<n, pc>>
  /\ UNCHANGED <<clock, sockq, others, msg, tval, rtt>>

(* recvmsg has returned -1, and the library sets errno after the handler.  *)
Errno ==
  /\ pc = "errno"
  /\ errno' = "EINTR"
  /\ pc' = "failed"
  /\ UNCHANGED <<timer, timeVars, sentAt, pingNet, msg, n, tval, rtt>>

(* err_sys() only prints: after an error other than EINTR, which the next  *)
(* SIGALRM may put there, recvbuf is looked at with the size -1.           *)
Failed ==
  /\ pc = "failed"
  /\ pc' = IF errno = "EINTR" THEN "recvmsg" ELSE "gettimeofday"
  /\ UNCHANGED <<timer, pingVars>>

Recvmsg ==
  /\ pc = "recvmsg" /\ sockq # <<>>
  /\ msg' = Head(sockq) /\ sockq' = Tail(sockq) /\ n' = 1
  /\ pc' = "gettimeofday"
  /\ UNCHANGED <<timer, timeVars, sentAt, echoes, others, errno, tval, rtt>>

Gettimeofday ==
  /\ pc = "gettimeofday"
  /\ tval' = Tv(clock)
  /\ pc' = "proc"
  /\ UNCHANGED <<timer, timeVars, sentAt, pingNet, msg, n, errno, rtt>>

(* proc_v4 and proc_v6: n is 1 for a packet as long as its kind says.      *)
MutIsReply == msg.kind = "echo"                         \* len is not looked at
IsReply == n > 0 /\ msg.kind = "echo"

Proc ==
  /\ pc = "proc"
  /\ IF IsReply THEN rtt' = TvSub(tval, msg.tv) /\ pc' = "print"
                ELSE pc' = "discard" /\ UNCHANGED rtt
  /\ UNCHANGED <<timer, timeVars, sentAt, pingNet, msg, n, errno, tval>>

ProcReturns ==
  /\ pc \in {"print", "discard"}
  /\ pc' = "recvmsg"
  /\ n' = 0 /\ tval' = Tv(0) /\ rtt' = Tv(0)           \* dead variables
  /\ UNCHANGED <<timer, timeVars, sentAt, pingNet, msg, errno>>

Readloop == First \/ Errno \/ Failed \/ Recvmsg \/ Gettimeofday \/ Proc \/ ProcReturns
PingNext == Readloop \/ PingAlrm \/ World
PingSpec == PingInit /\ pc = "first" /\ timer = FALSE /\ [][PingNext]_<<pc, timer, pingVars>>
-----------------------------------------------------------------------------
(* The round trip that is printed is that of this request.                 *)
RttIsExact ==
  pc = "print" => /\ n > 0
                  /\ rtt.usec \in 0 .. USec - 1
                  /\ Ticks(rtt) = Ticks(tval) - sentAt[msg.seq + 1]
                  /\ Ticks(tval) >= msg.at /\ msg.at >= sentAt[msg.seq + 1]
=============================================================================

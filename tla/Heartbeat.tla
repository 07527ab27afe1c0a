------------------------------ MODULE Heartbeat ------------------------------
(***************************************************************************)
(* oob/heartbeatcli.c and heartbeartserv.c: two processes at the ends of a *)
(* connection.  The client's SIGALRM sends an urgent byte, the server's    *)
(* SIGURG sends it back, the client's SIGURG takes it; each side counts    *)
(* its alarms since the last byte and gives up when they are too many.     *)
(* Both call heartbeat_...() at time 0.  Handlers take no time beside a    *)
(* second, but either may interrupt the other.                             *)
(***************************************************************************)
EXTENDS Integers

CONSTANTS HeartArgs,      \* arguments of the calls: [nsec, max]
          Delay           \* seconds a byte takes at most, one way

ASSUME HeartAssumption == /\ HeartArgs \subseteq [nsec : Int, max : Int] /\ HeartArgs # {}
                          /\ Delay \in Nat

VARIABLES state,          \* "up", "gaveup", or "dead": host or network failed
          nsec, maxnprobes, nProbes,
          alarmIn, rung,  \* seconds to the alarm; SIGALRM is pending
          loaded,         \* what sig_alrm's ++nProbes has read, None outside
          wire,           \* urgent bytes: to whom, and the seconds left
          silent,         \* history: seconds since the last byte came
          raced           \* history: a byte came inside ++nProbes

heartVars == <<state, nsec, maxnprobes, nProbes, alarmIn, rung, loaded, wire, silent, raced>>

Sides == {"cli", "serv"}
Peer(s) == IF s = "cli" THEN "serv" ELSE "cli"
None == -1

(* Lines 13 to 25 of both: the limits are set right, the first alarm set.  *)
Heartbeat(a) ==
  /\ nsec = [s \in Sides |-> IF a[s].nsec < 1 THEN 1 ELSE a[s].nsec]
  /\ maxnprobes = [s \in Sides |-> IF a[s].max < nsec[s] THEN nsec[s] ELSE a[s].max]
  /\ state = [s \in Sides |-> "up"] /\ nProbes = [s \in Sides |-> 0]
  /\ alarmIn = nsec /\ rung = [s \in Sides |-> FALSE]
  /\ loaded = [s \in Sides |-> None] /\ wire = {}
  /\ silent = [s \in Sides |-> 0] /\ raced = [s \in Sides |-> FALSE]
HeartInit == \E a \in [Sides -> HeartArgs] : Heartbeat(a)

-----------------------------------------------------------------------------
Urgent(s) == [to |-> Peer(s), left |-> Delay]

(* sig_urg: the reset is its last statement, so an alarm that interrupts   *)
(* it does what one before it does.  A recv that fails with EWOULDBLOCK    *)
(* (the byte is not there yet) makes no difference.                        *)
MutSigUrg(s) ==                         \* no nProbes = 0
  /\ state[s] = "up"
  /\ \E b \in wire : /\ b.to = s
                     /\ wire' = (wire \ {b}) \cup (IF s = "serv" THEN {Urgent(s)} ELSE {})
  /\ silent' = [silent EXCEPT ![s] = 0]
  /\ raced' = [raced EXCEPT ![s] = @ \/ loaded[s] # None]
  /\ UNCHANGED <<state, nsec, maxnprobes, nProbes, alarmIn, rung, loaded>>
SigUrg(s) ==
  /\ state[s] = "up"
  /\ \E b \in wire : /\ b.to = s
                     /\ wire' = (wire \ {b}) \cup (IF s = "serv" THEN {Urgent(s)} ELSE {})
  /\ nProbes' = [nProbes EXCEPT ![s] = 0]
  /\ silent' = [silent EXCEPT ![s] = 0]
  /\ raced' = [raced EXCEPT ![s] = @ \/ loaded[s] # None]
  /\ UNCHANGED <<state, nsec, maxnprobes, alarmIn, rung, loaded>>

(* sig_alrm: SIGURG may come between the load and the store of ++nProbes.  *)
AlrmLoad(s) ==
  /\ state[s] = "up" /\ rung[s]
  /\ rung' = [rung EXCEPT ![s] = FALSE]
  /\ loaded' = [loaded EXCEPT ![s] = nProbes[s]]
  /\ UNCHANGED <<state, nsec, maxnprobes, nProbes, alarmIn, wire, silent, raced>>

MutAlrmTest(s) ==                       \* ++nProbes >= maxnprobes
  /\ state[s] = "up" /\ loaded[s] # None
  /\ nProbes' = [nProbes EXCEPT ![s] = loaded[s] + 1]
  /\ loaded' = [loaded EXCEPT ![s] = None]
  /\ IF loaded[s] + 1 >= maxnprobes[s]
       THEN /\ state' = [state EXCEPT ![s] = "gaveup"]
            /\ UNCHANGED <<alarmIn, wire>>
       ELSE /\ alarmIn' = [alarmIn EXCEPT ![s] = nsec[s]]
            /\ wire' = wire \cup (IF s = "cli" THEN {Urgent(s)} ELSE {})
            /\ UNCHANGED state
  /\ UNCHANGED <<nsec, maxnprobes, rung, silent, raced>>
AlrmTest(s) ==
  /\ state[s] = "up" /\ loaded[s] # None
  /\ nProbes' = [nProbes EXCEPT ![s] = loaded[s] + 1]
  /\ loaded' = [loaded EXCEPT ![s] = None]
  /\ IF loaded[s] + 1 > maxnprobes[s]
       THEN /\ state' = [state EXCEPT ![s] = "gaveup"]
            /\ UNCHANGED <<alarmIn, wire>>
       ELSE /\ alarmIn' = [alarmIn EXCEPT ![s] = nsec[s]]
            /\ wire' = wire \cup (IF s = "cli" THEN {Urgent(s)} ELSE {})
            /\ UNCHANGED state
  /\ UNCHANGED <<nsec, maxnprobes, rung, silent, raced>>

-----------------------------------------------------------------------------
(* A host is cut off, with what was on its way to it.                      *)
Die(s) ==
  /\ state[s] = "up"
  /\ state' = [state EXCEPT ![s] = "dead"]
  /\ UNCHANGED <<nsec, maxnprobes, nProbes, alarmIn, rung, loaded, wire, silent, raced>>

(* A second passes: no handler is running or due, no byte is overdue.      *)
Second ==
  /\ \E s \in Sides : state[s] = "up"
  /\ \A s \in Sides : state[s] = "up" => ~rung[s] /\ loaded[s] = None
  /\ \A b \in wire : state[b.to] = "up" => b.left > 0
  /\ alarmIn' = [s \in Sides |-> IF state[s] = "up" THEN alarmIn[s] - 1 ELSE alarmIn[s]]
  /\ rung' = [s \in Sides |-> state[s] = "up" /\ alarmIn[s] = 1]
  /\ silent' = [s \in Sides |-> IF state[s] = "up" THEN silent[s] + 1 ELSE silent[s]]
  /\ wire' = {[b EXCEPT !.left = @ - 1] : b \in {c \in wire : state[c.to] = "up"}}
  /\ UNCHANGED <<state, nsec, maxnprobes, nProbes, loaded, raced>>

Handlers == \E s \in Sides : SigUrg(s) \/ AlrmLoad(s) \/ AlrmTest(s)
HeartWorld == Second \/ \E s \in Sides : Die(s)
HeartNext == Handlers \/ HeartWorld
HeartSpec == HeartInit /\ [][HeartNext]_heartVars
-----------------------------------------------------------------------------
(* Nobody waits longer than maxnprobes + 1 periods for a byte, and nobody  *)
(* gives up before maxnprobes of them have passed in silence, unless the   *)
(* reset of nProbes was overwritten by the store of ++nProbes.             *)
SilenceMeasured ==
  \A s \in Sides :
    /\ state[s] # "dead" => silent[s] <= (maxnprobes[s] + 1) * nsec[s]
    /\ state[s] = "gaveup" => silent[s] >= maxnprobes[s] * nsec[s] \/ raced[s]

(* A peer that is there is never given up, if the limits leave room for    *)
(* what a byte takes: to and fro for the client, and for the server the    *)
(* client's period as well; but for the same race.                         *)
RoomFor(s) == IF s = "cli" THEN 2 * Delay < maxnprobes["cli"] * nsec["cli"]
              ELSE nsec["cli"] + Delay < maxnprobes["serv"] * nsec["serv"]
LivePeerKept ==
  \A s \in Sides : state[s] = "gaveup" /\ state[Peer(s)] = "up" => ~RoomFor(s) \/ raced[s]
=============================================================================

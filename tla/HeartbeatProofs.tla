--------------------------- MODULE HeartbeatProofs ---------------------------
(***************************************************************************)
(* The heartbeat measures the silence of the peer for all arguments and    *)
(* all delays.                                                             *)
(***************************************************************************)
EXTENDS Heartbeat, TLAPS

USE HeartAssumption

HeartType ==
  /\ state \in [Sides -> {"up", "gaveup", "dead"}]
  /\ nsec \in [Sides -> Nat \ {0}] /\ maxnprobes \in [Sides -> Nat \ {0}]
  /\ nProbes \in [Sides -> Nat] /\ alarmIn \in [Sides -> Int]
  /\ rung \in [Sides -> BOOLEAN] /\ loaded \in [Sides -> Int]
  /\ silent \in [Sides -> Nat] /\ raced \in [Sides -> BOOLEAN]

(* An alarm is set, pending, or being handled.                             *)
AlarmInv(s) ==
  /\ alarmIn[s] \in 0 .. nsec[s]
  /\ rung[s] => alarmIn[s] = 0 /\ loaded[s] = None
  /\ loaded[s] # None => alarmIn[s] = 0 /\ loaded[s] \in 0 .. maxnprobes[s]
  /\ alarmIn[s] = 0 => rung[s] \/ loaded[s] # None
  /\ nProbes[s] \in 0 .. maxnprobes[s]

(* With n alarms counted, and t seconds since the last of them, the        *)
(* silence has lasted n periods and t seconds, but for the part of a       *)
(* period that came before the first.                                      *)
Counted(s, n, t) ==
  /\ silent[s] <= n * nsec[s] + t
  /\ raced[s] \/ n = 0 \/ silent[s] >= n * nsec[s] - nsec[s] + t

CountInv(s) ==
  /\ loaded[s] = None => Counted(s, nProbes[s], nsec[s] - alarmIn[s])
  /\ loaded[s] # None => Counted(s, loaded[s], nsec[s])

GaveUpInv(s) ==
  /\ silent[s] <= maxnprobes[s] * nsec[s] + nsec[s]
  /\ raced[s] \/ silent[s] >= maxnprobes[s] * nsec[s]

SideInv(s) == /\ state[s] = "up" => AlarmInv(s) /\ CountInv(s)
              /\ state[s] = "gaveup" => GaveUpInv(s)

HeartInv == HeartType /\ \A s \in Sides : SideInv(s)

-----------------------------------------------------------------------------
LEMMA Products ==
  ASSUME NEW m \in Nat, NEW n \in Nat, NEW k \in Nat
  PROVE  /\ n * k \in Nat /\ 0 * k = 0 /\ (n + 1) * k = n * k + k
         /\ m <= n => m * k <= n * k
  <1>1. n * k \in Nat /\ 0 * k = 0 /\ (n + 1) * k = n * k + k
    OBVIOUS
  <1>2. ASSUME m <= n PROVE m * k <= n * k
    <2>1. (n - m) * k >= 0
      BY <1>2
    <2>2. (n - m) * k = n * k - m * k
      OBVIOUS
    <2> QED
      BY <2>1, <2>2
  <1> QED
    BY <1>1, <1>2

LEMMA HeartInitially == HeartInit => HeartInv
  <1> SUFFICES ASSUME NEW a \in [Sides -> HeartArgs], Heartbeat(a) PROVE HeartInv
    BY DEF HeartInit
  <1>1. \A s \in Sides : a[s].nsec \in Int /\ a[s].max \in Int
    OBVIOUS
  <1>2. HeartType
    BY <1>1 DEF Heartbeat, HeartType, None
  <1>3. ASSUME NEW s \in Sides PROVE SideInv(s)
    <2>1. 0 * nsec[s] = 0
      BY <1>2 DEF HeartType
    <2> QED
      BY <1>2, <2>1 DEF Heartbeat, HeartType, SideInv, AlarmInv, CountInv, Counted, None
  <1> QED
    BY <1>2, <1>3 DEF HeartInv

(* What a step leaves alone keeps its invariant.                           *)
LEMMA SideKept ==
  ASSUME NEW s \in Sides, SideInv(s), state'[s] = state[s] \/ state'[s] = "dead",
         nsec'[s] = nsec[s], maxnprobes'[s] = maxnprobes[s], nProbes'[s] = nProbes[s],
         alarmIn'[s] = alarmIn[s], rung'[s] = rung[s], loaded'[s] = loaded[s],
         silent'[s] = silent[s], raced'[s] = raced[s]
  PROVE  SideInv(s)'
  BY DEF SideInv, AlarmInv, CountInv, Counted, GaveUpInv

LEMMA SigUrgStep ==
  ASSUME HeartInv, NEW r \in Sides, SigUrg(r)
  PROVE  HeartInv'
  <1>1. HeartType'
    BY DEF SigUrg, HeartInv, HeartType
  <1>2. ASSUME NEW s \in Sides, s # r PROVE SideInv(s)'
    BY <1>2, SideKept DEF SigUrg, HeartInv, HeartType
  <1>3. SideInv(r)'
    <2>1. \A n \in Nat : n * nsec[r] \in Nat /\ 0 * nsec[r] = 0
      BY Products DEF HeartInv, HeartType
    <2>2. /\ state'[r] = "up" /\ nProbes'[r] = 0 /\ silent'[r] = 0 /\ nsec'[r] = nsec[r]
          /\ maxnprobes'[r] = maxnprobes[r] /\ alarmIn'[r] = alarmIn[r]
          /\ rung'[r] = rung[r] /\ loaded'[r] = loaded[r] /\ nsec[r] \in Nat
          /\ loaded[r] # None => raced'[r]
      BY DEF SigUrg, HeartInv, HeartType
    <2>3. AlarmInv(r) /\ maxnprobes[r] \in Nat
      BY DEF SigUrg, HeartInv, HeartType, SideInv
    <2>4. AlarmInv(r)'
      BY <2>2, <2>3 DEF AlarmInv
    <2>5. CountInv(r)'
      <3>1. CASE loaded[r] = None
        BY <2>1, <2>2, <2>3, <3>1 DEF AlarmInv, CountInv, Counted
      <3>2. CASE loaded[r] # None
        <4>1. loaded[r] \in Nat /\ loaded[r] * nsec[r] \in Nat
          BY <2>1, <2>3, <3>2 DEF AlarmInv
        <4> QED
          BY <2>2, <3>2, <4>1 DEF CountInv, Counted
      <3> QED
        BY <3>1, <3>2
    <2> QED
      BY <2>2, <2>4, <2>5 DEF SideInv
  <1> QED
    BY <1>1, <1>2, <1>3 DEF HeartInv

LEMMA AlrmLoadStep ==
  ASSUME HeartInv, NEW r \in Sides, AlrmLoad(r)
  PROVE  HeartInv'
  <1>1. HeartType'
    BY DEF AlrmLoad, HeartInv, HeartType
  <1>2. ASSUME NEW s \in Sides, s # r PROVE SideInv(s)'
    BY <1>2, SideKept DEF AlrmLoad, HeartInv, HeartType
  <1>3. SideInv(r)'
    BY DEF AlrmLoad, HeartInv, HeartType, SideInv, AlarmInv, CountInv, Counted, None
  <1> QED
    BY <1>1, <1>2, <1>3 DEF HeartInv

LEMMA AlrmTestStep ==
  ASSUME HeartInv, NEW r \in Sides, AlrmTest(r)
  PROVE  HeartInv'
  <1>0. /\ loaded[r] \in 0 .. maxnprobes[r] /\ nsec[r] \in Nat \ {0} /\ maxnprobes[r] \in Nat
        /\ Counted(r, loaded[r], nsec[r])
    BY DEF AlrmTest, HeartInv, HeartType, SideInv, AlarmInv, CountInv
  <1>1. HeartType'
    BY <1>0 DEF AlrmTest, HeartInv, HeartType, None
  <1>2. ASSUME NEW s \in Sides, s # r PROVE SideInv(s)'
    BY <1>2, SideKept DEF AlrmTest, HeartInv, HeartType
  <1>3. SideInv(r)'
    <2>1. /\ (loaded[r] + 1) * nsec[r] = loaded[r] * nsec[r] + nsec[r]
          /\ loaded[r] * nsec[r] \in Nat /\ 0 * nsec[r] = 0
      BY <1>0, Products
    <2>2. CASE loaded[r] + 1 > maxnprobes[r]
      <3>1. loaded[r] = maxnprobes[r]
        BY <1>0, <2>2
      <3> QED
        BY <1>0, <2>1, <2>2, <3>1
        DEF AlrmTest, HeartInv, HeartType, SideInv, Counted, GaveUpInv
    <2>3. CASE loaded[r] + 1 <= maxnprobes[r]
      <3>1. /\ state'[r] = "up" /\ nProbes'[r] = loaded[r] + 1 /\ loaded'[r] = None
            /\ alarmIn'[r] = nsec[r] /\ nsec'[r] = nsec[r] /\ rung'[r] = rung[r]
            /\ silent'[r] = silent[r] /\ raced'[r] = raced[r]
            /\ maxnprobes'[r] = maxnprobes[r]
        BY <1>0, <2>3 DEF AlrmTest, HeartInv, HeartType
      <3>2. AlarmInv(r)'
        BY <1>0, <2>3, <3>1 DEF AlrmTest, HeartInv, HeartType, SideInv, AlarmInv, None
      <3>3. CountInv(r)'
        BY <1>0, <2>1, <3>1 DEF HeartInv, HeartType, CountInv, Counted, None
      <3> QED
        BY <3>1, <3>2, <3>3 DEF SideInv
    <2> QED
      BY <1>0, <2>2, <2>3
  <1> QED
    BY <1>1, <1>2, <1>3 DEF HeartInv

LEMMA SecondStep ==
  ASSUME HeartInv, Second
  PROVE  HeartInv'
  <1>1. HeartType'
    BY DEF Second, HeartInv, HeartType
  <1>2. ASSUME NEW s \in Sides PROVE SideInv(s)'
    <2>1. CASE state[s] = "up"
      <3>1. /\ alarmIn[s] \in 1 .. nsec[s] /\ nsec[s] \in Nat /\ loaded[s] = None
            /\ alarmIn'[s] = alarmIn[s] - 1 /\ silent'[s] = silent[s] + 1
        BY <2>1 DEF Second, HeartInv, HeartType, SideInv, AlarmInv
      <3>2. AlarmInv(s)'
        <4>1. /\ nsec'[s] = nsec[s] /\ loaded'[s] = None /\ nProbes'[s] = nProbes[s]
              /\ maxnprobes'[s] = maxnprobes[s] /\ nProbes[s] \in 0 .. maxnprobes[s]
              /\ alarmIn'[s] \in 0 .. nsec[s]
          BY <2>1, <3>1 DEF Second, HeartInv, SideInv, AlarmInv
        <4>2. rung'[s] <=> alarmIn'[s] = 0
          <5>1. rung'[s] <=> alarmIn[s] = 1
            BY <2>1 DEF Second
          <5>2. alarmIn[s] = 1 <=> alarmIn'[s] = 0
            BY <3>1
          <5> QED
            BY <5>1, <5>2
        <4> QED
          BY <4>1, <4>2 DEF AlarmInv
      <3>3. nProbes[s] * nsec[s] \in Nat
        BY Products DEF HeartInv, HeartType
      <3>4. CountInv(s)'
        BY <2>1, <3>1, <3>3 DEF Second, HeartInv, HeartType, SideInv, CountInv, Counted, None
      <3> QED
        BY <2>1, <3>2, <3>4 DEF Second, SideInv
    <2>2. CASE state[s] # "up"
      BY <2>2 DEF Second, HeartInv, HeartType, SideInv, GaveUpInv
    <2> QED
      BY <2>1, <2>2
  <1> QED
    BY <1>1, <1>2 DEF HeartInv

LEMMA DieStep ==
  ASSUME HeartInv, NEW r \in Sides, Die(r)
  PROVE  HeartInv'
  <1>1. HeartType'
    BY DEF Die, HeartInv, HeartType
  <1>2. ASSUME NEW s \in Sides PROVE SideInv(s)'
    BY <1>2, SideKept DEF Die, HeartInv, HeartType
  <1> QED
    BY <1>1, <1>2 DEF HeartInv

LEMMA HeartKeeps == HeartInv /\ [HeartNext]_heartVars => HeartInv'
  <1> SUFFICES ASSUME HeartInv, [HeartNext]_heartVars PROVE HeartInv'
    OBVIOUS
  <1>1. CASE UNCHANGED heartVars
    BY <1>1 DEF heartVars, HeartInv, HeartType, SideInv, AlarmInv, CountInv, Counted, GaveUpInv
  <1> QED
    BY <1>1, SigUrgStep, AlrmLoadStep, AlrmTestStep, SecondStep, DieStep
    DEF HeartNext, Handlers, HeartWorld

LEMMA HeartInvariance == HeartSpec => []HeartInv
  BY HeartInitially, HeartKeeps, PTL DEF HeartSpec

LEMMA HeartMeasures == HeartInv => SilenceMeasured
  <1> SUFFICES ASSUME HeartInv, NEW s \in Sides
               PROVE  /\ state[s] # "dead" => silent[s] <= (maxnprobes[s] + 1) * nsec[s]
                      /\ state[s] = "gaveup" =>
                           silent[s] >= maxnprobes[s] * nsec[s] \/ raced[s]
    BY DEF SilenceMeasured
  <1>1. /\ nsec[s] \in Nat /\ maxnprobes[s] \in Nat /\ nProbes[s] \in Nat
        /\ silent[s] \in Nat /\ state[s] \in {"up", "gaveup", "dead"}
    BY DEF HeartInv, HeartType
  <1>2. /\ (maxnprobes[s] + 1) * nsec[s] = maxnprobes[s] * nsec[s] + nsec[s]
        /\ maxnprobes[s] * nsec[s] \in Nat
    BY <1>1, Products
  <1>3. ASSUME NEW n \in 0 .. maxnprobes[s]
        PROVE  n * nsec[s] <= maxnprobes[s] * nsec[s]
    BY <1>1, Products
  <1>4. CASE state[s] = "up" /\ loaded[s] = None
    <2>1. nProbes[s] * nsec[s] <= maxnprobes[s] * nsec[s] /\ nProbes[s] * nsec[s] \in Nat
      BY <1>1, <1>3, <1>4, Products DEF HeartInv, SideInv, AlarmInv
    <2> QED
      BY <1>1, <1>2, <1>4, <2>1 DEF HeartInv, SideInv, AlarmInv, CountInv, Counted
  <1>5. CASE state[s] = "up" /\ loaded[s] # None
    <2>1. loaded[s] \in 0 .. maxnprobes[s] /\ Counted(s, loaded[s], nsec[s])
      BY <1>5 DEF HeartInv, SideInv, AlarmInv, CountInv
    <2>2. loaded[s] * nsec[s] <= maxnprobes[s] * nsec[s] /\ loaded[s] * nsec[s] \in Nat
      BY <1>1, <1>3, <2>1, Products
    <2> QED
      BY <1>1, <1>2, <1>5, <2>1, <2>2 DEF Counted
  <1>6. CASE state[s] = "gaveup"
    BY <1>1, <1>2, <1>6 DEF HeartInv, SideInv, GaveUpInv
  <1> QED
    BY <1>1, <1>4, <1>5, <1>6

(* Nobody waits longer than maxnprobes + 1 periods, and nobody gives up    *)
(* before maxnprobes of them, for all limits and delays; the one exception *)
(* is a reset of nProbes that the store of ++nProbes overwrites.           *)
THEOREM SilenceAlwaysMeasured == HeartSpec => []SilenceMeasured
  BY HeartInvariance, HeartMeasures, PTL

-----------------------------------------------------------------------------
(* A side that has counted alarms since the last byte waits for the byte   *)
(* that answers the first of them; Age is the time since that alarm.       *)
Count(s) == IF loaded[s] = None THEN nProbes[s] ELSE loaded[s]
Age(s) == IF loaded[s] = None THEN nProbes[s] * nsec[s] - alarmIn[s] ELSE loaded[s] * nsec[s]
Waits(s) == /\ state[s] = "up" /\ state[Peer(s)] = "up"
            /\ ~raced[s] /\ Count(s) # 0

WireInv == wire \subseteq [to : Sides, left : 0 .. Delay]

(* The client's first byte is on its way there or back.                    *)
ClientWaits ==
  Waits("cli") =>
    \E b \in wire : \/ b.to = "serv" /\ b.left + Age("cli") <= Delay
                    \/ b.to = "cli" /\ b.left + Age("cli") <= 2 * Delay

(* The client has not had an alarm since the server's first one, or has    *)
(* sent a byte.                                                            *)
ServerWaits ==
  Waits("serv") =>
    \/ alarmIn["cli"] + Age("serv") <= nsec["cli"]
    \/ \E b \in wire : b.to = "serv" /\ b.left + Age("serv") <= nsec["cli"] + Delay

Kept(s) == state[s] = "gaveup" /\ state[Peer(s)] = "up" => ~RoomFor(s) \/ raced[s]

PeerInv == WireInv /\ ClientWaits /\ ServerWaits /\ \A s \in Sides : Kept(s)

LEMMA AgeType ==
  ASSUME HeartInv, NEW s \in Sides
  PROVE  /\ Age(s) \in Int /\ nsec[s] \in Nat /\ maxnprobes[s] \in Nat /\ alarmIn[s] \in Int
         /\ state[s] = "up" => Count(s) \in Nat /\ alarmIn[s] \in 0 .. nsec[s]
         /\ Peer(s) \in Sides /\ Delay \in Nat
  <1>1. \A n \in Int : n * nsec[s] \in Int
    BY DEF HeartInv, HeartType
  <1> QED
    BY <1>1 DEF HeartInv, HeartType, SideInv, AlarmInv, Age, Count, Peer, Sides

LEMMA AgeSame ==
  ASSUME NEW s \in Sides, loaded'[s] = loaded[s], nProbes'[s] = nProbes[s],
         nsec'[s] = nsec[s], alarmIn'[s] = alarmIn[s]
  PROVE  Age(s)' = Age(s) /\ Count(s)' = Count(s)
  BY DEF Age, Count

LEMMA AgeLoad ==
  ASSUME HeartInv, NEW r \in Sides, AlrmLoad(r), NEW s \in Sides
  PROVE  Age(s)' = Age(s) /\ Count(s)' = Count(s)
  <1>1. CASE s = r
    <2>1. /\ loaded[r] = None /\ loaded'[r] = nProbes[r] /\ nProbes[r] # None
          /\ nsec'[r] = nsec[r] /\ alarmIn[r] = 0
      BY DEF AlrmLoad, HeartInv, HeartType, SideInv, AlarmInv, None
    <2>2. nProbes[r] * nsec[r] \in Int
      BY DEF HeartInv, HeartType
    <2> QED
      BY <1>1, <2>1, <2>2 DEF Age, Count
  <1>2. CASE s # r
    BY <1>2, AgeSame DEF AlrmLoad, HeartInv, HeartType
  <1> QED
    BY <1>1, <1>2

LEMMA AgeTest ==
  ASSUME HeartInv, NEW r \in Sides, AlrmTest(r), loaded[r] + 1 <= maxnprobes[r]
  PROVE  /\ Age(r)' = Age(r) /\ (Count(r) = 0 => Age(r) = 0)
         /\ \A s \in Sides : s # r => Age(s)' = Age(s) /\ Count(s)' = Count(s)
  <1>1. /\ loaded[r] \in Nat /\ loaded[r] # None /\ nsec[r] \in Nat /\ nsec'[r] = nsec[r]
        /\ nProbes'[r] = loaded[r] + 1 /\ loaded'[r] = None /\ alarmIn'[r] = nsec[r]
    BY DEF AlrmTest, HeartInv, HeartType, SideInv, AlarmInv
  <1>2. /\ (loaded[r] + 1) * nsec[r] = loaded[r] * nsec[r] + nsec[r]
        /\ loaded[r] * nsec[r] \in Nat /\ 0 * nsec[r] = 0
    BY <1>1, Products
  <1>3. Age(r)' = Age(r) /\ (Count(r) = 0 => Age(r) = 0)
    BY <1>1, <1>2 DEF Age, Count
  <1>4. ASSUME NEW s \in Sides, s # r
        PROVE  Age(s)' = Age(s) /\ Count(s)' = Count(s)
    BY <1>4, AgeSame DEF AlrmTest, HeartInv, HeartType
  <1> QED
    BY <1>3, <1>4

LEMMA AgeSecond ==
  ASSUME HeartInv, Second, NEW s \in Sides, state[s] = "up"
  PROVE  Age(s)' = Age(s) + 1 /\ Count(s)' = Count(s)
  <1>1. /\ loaded[s] = None /\ loaded'[s] = None /\ nProbes'[s] = nProbes[s]
        /\ nsec'[s] = nsec[s] /\ alarmIn'[s] = alarmIn[s] - 1 /\ alarmIn[s] \in Int
    BY DEF Second, HeartInv, HeartType
  <1>2. nProbes[s] * nsec[s] \in Int
    BY DEF HeartInv, HeartType
  <1> QED
    BY <1>1, <1>2 DEF Age, Count

-----------------------------------------------------------------------------
LEMMA PeerInitially == HeartInit => PeerInv
  <1> SUFFICES ASSUME NEW a \in [Sides -> HeartArgs], Heartbeat(a) PROVE PeerInv
    BY DEF HeartInit
  <1> QED
    BY DEF Heartbeat, PeerInv, WireInv, ClientWaits, ServerWaits, Waits, Count, Kept, Sides, None

LEMMA KeptStays ==
  ASSUME NEW s \in Sides, Kept(s), state'[s] = "gaveup" => state[s] = "gaveup",
         state'[Peer(s)] = "up" => state[Peer(s)] = "up",
         UNCHANGED <<nsec, maxnprobes>>, raced[s] => raced'[s]
  PROVE  Kept(s)'
  BY DEF Kept, RoomFor

LEMMA SigUrgPeer ==
  ASSUME HeartInv, PeerInv, NEW r \in Sides, SigUrg(r)
  PROVE  PeerInv'
  <1> PICK c \in wire : /\ c.to = r
                        /\ wire' = (wire \ {c}) \cup (IF r = "serv" THEN {Urgent(r)} ELSE {})
    BY DEF SigUrg
  <1>1. Urgent("serv") = [to |-> "cli", left |-> Delay]
    BY DEF Urgent, Peer
  <1>2. WireInv'
    BY <1>1 DEF PeerInv, WireInv, Sides
  <1>3. /\ UNCHANGED <<state, nsec, maxnprobes, alarmIn, rung, loaded>>
        /\ \A s \in Sides : s # r => nProbes'[s] = nProbes[s] /\ raced'[s] = raced[s]
        /\ nProbes'[r] = 0 /\ (raced[r] => raced'[r]) /\ (loaded[r] # None => raced'[r])
    BY DEF SigUrg, HeartInv, HeartType
  <1>4. \A s \in Sides : Kept(s)'
    BY <1>3, KeptStays DEF PeerInv
  <1>5. ~Waits(r)'
    BY <1>3 DEF Waits, Count
  <1>6. \A s \in Sides : s # r => Age(s)' = Age(s) /\ Count(s)' = Count(s)
    BY <1>3, AgeSame
  <1>7. CASE r = "serv"
    <2>1. ClientWaits'
      <3> SUFFICES ASSUME Waits("cli")'
                   PROVE  (\E b \in wire : \/ b.to = "serv" /\ b.left + Age("cli") <= Delay
                                           \/ b.to = "cli" /\ b.left + Age("cli") <= 2 * Delay)'
        BY DEF ClientWaits
      <3>1. Waits("cli") /\ Age("cli")' = Age("cli") /\ Age("cli") \in Int /\ Delay \in Nat
        BY <1>3, <1>6, <1>7, AgeType DEF Waits, Sides, Peer
      <3> PICK b \in wire : \/ b.to = "serv" /\ b.left + Age("cli") <= Delay
                            \/ b.to = "cli" /\ b.left + Age("cli") <= 2 * Delay
        BY <3>1 DEF PeerInv, ClientWaits
      <3>2. CASE b # c
        BY <3>1, <3>2
      <3>3. CASE b = c
        <4>1. b.left \in Nat /\ b.to = "serv" /\ b.left + Age("cli") <= Delay
          BY <1>7, <3>3 DEF PeerInv, WireInv
        <4>2. Delay + Age("cli") <= 2 * Delay
          BY <3>1, <4>1
        <4>3. [to |-> "cli", left |-> Delay] \in wire'
          BY <1>1, <1>7
        <4> QED
          BY <3>1, <4>2, <4>3
      <3> QED
        BY <3>2, <3>3
    <2> QED
      BY <1>2, <1>4, <1>5, <1>7, <2>1 DEF PeerInv, ServerWaits
  <1>8. CASE r = "cli"
    <2>1. ServerWaits'
      <3>1. Age("serv")' = Age("serv") /\ Waits("serv")' = Waits("serv")
        BY <1>3, <1>6, <1>8 DEF Waits, Sides, Peer
      <3> QED
        BY <1>3, <1>8, <3>1 DEF PeerInv, ServerWaits
    <2> QED
      BY <1>2, <1>4, <1>5, <1>8, <2>1 DEF PeerInv, ClientWaits
  <1> QED
    BY <1>7, <1>8 DEF Sides

LEMMA AlrmLoadPeer ==
  ASSUME HeartInv, PeerInv, NEW r \in Sides, AlrmLoad(r)
  PROVE  PeerInv'
  <1>1. UNCHANGED <<state, nsec, maxnprobes, alarmIn, wire, raced>>
    BY DEF AlrmLoad
  <1>2. \A s \in Sides : Age(s)' = Age(s) /\ Count(s)' = Count(s)
    BY AgeLoad
  <1>3. \A s \in Sides : Waits(s)' = Waits(s)
    BY <1>1, <1>2 DEF Waits
  <1> QED
    BY <1>1, <1>2, <1>3, KeptStays
    DEF PeerInv, WireInv, ClientWaits, ServerWaits, Sides

(* The alarm that gives up comes maxnprobes periods after the first that   *)
(* was counted, by when the answer to that one is due.                     *)
LEMMA GivesUpPeer ==
  ASSUME HeartInv, PeerInv, NEW r \in Sides, AlrmTest(r), loaded[r] + 1 > maxnprobes[r]
  PROVE  PeerInv'
  <1>1. /\ UNCHANGED <<nsec, maxnprobes, alarmIn, wire, raced>>
        /\ state' = [state EXCEPT ![r] = "gaveup"] /\ state[r] = "up"
    BY DEF AlrmTest
  <1>2. /\ loaded[r] = maxnprobes[r] /\ loaded[r] # None /\ loaded[r] # 0
        /\ maxnprobes[r] \in Nat /\ nsec[r] \in Nat /\ maxnprobes[r] * nsec[r] \in Nat
        /\ Count(r) # 0 /\ Age(r) = maxnprobes[r] * nsec[r]
    BY Products DEF AlrmTest, HeartInv, HeartType, SideInv, AlarmInv, Count, Age
  <1>3. state'[r] = "gaveup" /\ \A s \in Sides : state'[s] = "up" => state[s] = "up" /\ s # r
    BY <1>1 DEF HeartInv, HeartType
  <1>4. ~Waits("cli")' /\ ~Waits("serv")'
    BY <1>3 DEF Waits, Sides, Peer
  <1>5. ASSUME state[Peer(r)] = "up", ~raced[r] PROVE ~RoomFor(r)
    <2>1. Waits(r)
      BY <1>1, <1>2, <1>5 DEF Waits
    <2>2. \A b \in wire : b.left \in Nat
      BY DEF PeerInv, WireInv
    <2>3. CASE r = "cli"
      BY <1>2, <2>1, <2>2, <2>3 DEF PeerInv, ClientWaits, RoomFor
    <2>4. CASE r = "serv"
      <3>1. alarmIn["cli"] \in Nat /\ nsec["cli"] \in Nat
        BY <1>5, <2>4, AgeType DEF Peer, Sides
      <3> QED
        BY <1>2, <2>1, <2>2, <2>4, <3>1 DEF PeerInv, ServerWaits, RoomFor
    <2> QED
      BY <2>3, <2>4 DEF Sides
  <1>6. ASSUME NEW s \in Sides PROVE Kept(s)'
    <2>1. CASE s = r
      BY <1>1, <1>3, <1>5, <2>1, AgeType DEF Kept, RoomFor
    <2>2. CASE s # r
      <3>1. state'[s] = state[s]
        BY <1>1, <2>2 DEF HeartInv, HeartType
      <3> QED
        BY <1>1, <1>3, <3>1, KeptStays, AgeType DEF PeerInv
    <2> QED
      BY <2>1, <2>2
  <1> QED
    BY <1>1, <1>4, <1>6 DEF PeerInv, WireInv, ClientWaits, ServerWaits

LEMMA AlrmTestPeer ==
  ASSUME HeartInv, PeerInv, NEW r \in Sides, AlrmTest(r), loaded[r] + 1 <= maxnprobes[r]
  PROVE  PeerInv'
  <1>1. /\ UNCHANGED <<state, nsec, maxnprobes, raced>> /\ state[r] = "up" /\ wire \subseteq wire'
        /\ wire' = wire \cup (IF r = "cli" THEN {Urgent(r)} ELSE {})
        /\ alarmIn'[r] = nsec[r] /\ \A s \in Sides : s # r => alarmIn'[s] = alarmIn[s]
    BY AgeType DEF AlrmTest, HeartInv, HeartType
  <1>2. /\ Age(r)' = Age(r) /\ (Count(r) = 0 => Age(r) = 0)
        /\ \A s \in Sides : s # r => Age(s)' = Age(s) /\ Count(s)' = Count(s)
    BY AgeTest
  <1>3. Urgent("cli") = [to |-> "serv", left |-> Delay]
    BY DEF Urgent, Peer
  <1>4. WireInv'
    BY <1>1, <1>3 DEF PeerInv, WireInv, Sides
  <1>5. \A s \in Sides : Kept(s)'
    BY <1>1, KeptStays DEF PeerInv
  <1>6. Delay \in Nat /\ \A s \in Sides : Age(s) \in Int /\ nsec[s] \in Nat
    BY AgeType
  <1>7. CASE r = "cli"
    <2>1. [to |-> "serv", left |-> Delay] \in wire'
      BY <1>1, <1>3, <1>7
    <2>2. ClientWaits'
      <3>1. CASE Count("cli") = 0
        BY <1>2, <1>6, <1>7, <2>1, <3>1 DEF ClientWaits
      <3>2. CASE Count("cli") # 0
        BY <1>1, <1>2, <1>7, <3>2 DEF PeerInv, ClientWaits, Waits
      <3> QED
        BY <3>1, <3>2
    <2>3. ServerWaits'
      <3>1. /\ Age("serv")' = Age("serv") /\ Waits("serv")' = Waits("serv")
            /\ nsec'["cli"] = nsec["cli"]
        BY <1>1, <1>2, <1>7 DEF Waits, Sides, Peer
      <3>2. alarmIn["cli"] \in Nat
        BY <1>1, <1>7, AgeType
      <3>3. CASE alarmIn["cli"] + Age("serv") <= nsec["cli"]
        <4>1. Delay + Age("serv") <= nsec["cli"] + Delay
          BY <1>6, <3>2, <3>3 DEF Sides
        <4> QED
          BY <2>1, <3>1, <4>1 DEF ServerWaits
      <3>4. CASE \E b \in wire : b.to = "serv" /\ b.left + Age("serv") <= nsec["cli"] + Delay
        BY <1>1, <3>1, <3>4 DEF ServerWaits
      <3> QED
        BY <3>1, <3>3, <3>4 DEF PeerInv, ServerWaits
    <2> QED
      BY <1>4, <1>5, <2>2, <2>3 DEF PeerInv
  <1>8. CASE r = "serv"
    <2>1. wire' = wire /\ alarmIn'["cli"] = alarmIn["cli"] /\ nsec'["cli"] = nsec["cli"]
      BY <1>1, <1>8 DEF Sides
    <2>2. ClientWaits'
      <3>1. Age("cli")' = Age("cli") /\ Waits("cli")' = Waits("cli")
        BY <1>1, <1>2, <1>8 DEF Waits, Sides, Peer
      <3> QED
        BY <2>1, <3>1 DEF PeerInv, ClientWaits
    <2>3. ServerWaits'
      <3>1. CASE Count("serv") = 0
        <4>1. Waits("serv")' => alarmIn["cli"] <= nsec["cli"] /\ alarmIn["cli"] \in Int
          BY <1>1, AgeType DEF Waits, Sides, Peer
        <4> QED
          BY <1>2, <1>8, <2>1, <3>1, <4>1 DEF ServerWaits
      <3>2. CASE Count("serv") # 0
        BY <1>1, <1>2, <1>8, <2>1, <3>2 DEF PeerInv, ServerWaits, Waits
      <3> QED
        BY <3>1, <3>2
    <2> QED
      BY <1>4, <1>5, <2>2, <2>3 DEF PeerInv
  <1> QED
    BY <1>7, <1>8 DEF Sides

LEMMA SecondPeer ==
  ASSUME HeartInv, PeerInv, Second
  PROVE  PeerInv'
  <1>1. UNCHANGED <<state, nsec, maxnprobes, raced>>
    BY DEF Second
  <1>2. ASSUME NEW b \in wire, state[b.to] = "up"
        PROVE  /\ b.left \in 1 .. Delay
               /\ \E d \in wire' : d.to = b.to /\ d.left = b.left - 1
    <2>1. b \in [to : Sides, left : 0 .. Delay] /\ b.left > 0
      BY <1>2 DEF Second, PeerInv, WireInv
    <2>2. [b EXCEPT !.left = @ - 1] \in wire'
      BY <1>2 DEF Second
    <2>3. /\ [b EXCEPT !.left = @ - 1].to = b.to
          /\ [b EXCEPT !.left = @ - 1].left = b.left - 1
      BY <2>1
    <2> QED
      BY <2>1, <2>2, <2>3
  <1>3. WireInv'
    <2> SUFFICES ASSUME NEW d \in wire' PROVE d \in [to : Sides, left : 0 .. Delay]
      BY DEF WireInv
    <2> PICK b \in wire : state[b.to] = "up" /\ d = [b EXCEPT !.left = @ - 1]
      BY DEF Second
    <2>1. b \in [to : Sides, left : 0 .. Delay] /\ b.left \in 1 .. Delay
      BY <1>2 DEF PeerInv, WireInv
    <2>2. b.left - 1 \in 0 .. Delay
      BY <2>1 DEF Sides
    <2> QED
      BY <2>1, <2>2
  <1>4. \A s \in Sides : Kept(s)'
    BY <1>1, KeptStays DEF PeerInv
  <1>5. ClientWaits'
    <2> SUFFICES ASSUME Waits("cli")'
                 PROVE  (\E b \in wire : \/ b.to = "serv" /\ b.left + Age("cli") <= Delay
                                         \/ b.to = "cli" /\ b.left + Age("cli") <= 2 * Delay)'
      BY DEF ClientWaits
    <2>1. /\ state["cli"] = "up" /\ state["serv"] = "up" /\ ~raced["cli"]
          /\ Age("cli")' = Age("cli") + 1 /\ Count("cli")' = Count("cli")
          /\ Age("cli") \in Int /\ Delay \in Nat
      BY <1>1, AgeSecond, AgeType DEF Waits, Sides, Peer
    <2> PICK b \in wire : \/ b.to = "serv" /\ b.left + Age("cli") <= Delay
                          \/ b.to = "cli" /\ b.left + Age("cli") <= 2 * Delay
      BY <2>1 DEF PeerInv, ClientWaits, Waits, Peer
    <2>2. b.to \in Sides
      BY DEF PeerInv, WireInv
    <2>3. b.left \in Nat /\ \E d \in wire' : d.to = b.to /\ d.left = b.left - 1
      BY <1>2, <2>1, <2>2 DEF Sides
    <2> QED
      BY <2>1, <2>3
  <1>6. ServerWaits'
    <2> SUFFICES ASSUME Waits("serv")'
                 PROVE  (\/ alarmIn["cli"] + Age("serv") <= nsec["cli"]
                         \/ \E b \in wire : /\ b.to = "serv"
                                            /\ b.left + Age("serv") <= nsec["cli"] + Delay)'
      BY DEF ServerWaits
    <2>1. /\ state["cli"] = "up" /\ state["serv"] = "up" /\ ~raced["serv"]
          /\ Age("serv")' = Age("serv") + 1 /\ Count("serv")' = Count("serv")
          /\ Age("serv") \in Int /\ Delay \in Nat /\ alarmIn["cli"] \in Int
          /\ nsec["cli"] \in Nat /\ nsec'["cli"] = nsec["cli"]
          /\ alarmIn'["cli"] = alarmIn["cli"] - 1
      BY <1>1, AgeSecond, AgeType DEF Second, Waits, Sides, Peer
    <2>2. CASE alarmIn["cli"] + Age("serv") <= nsec["cli"]
      BY <2>1, <2>2
    <2>3. CASE \E b \in wire : b.to = "serv" /\ b.left + Age("serv") <= nsec["cli"] + Delay
      <3> PICK b \in wire : b.to = "serv" /\ b.left + Age("serv") <= nsec["cli"] + Delay
        BY <2>3
      <3>1. b.left \in Nat /\ \E d \in wire' : d.to = b.to /\ d.left = b.left - 1
        BY <1>2, <2>1
      <3> QED
        BY <2>1, <3>1
    <2> QED
      BY <2>1, <2>2, <2>3 DEF PeerInv, ServerWaits, Waits, Peer
  <1> QED
    BY <1>3, <1>4, <1>5, <1>6 DEF PeerInv

LEMMA DiePeer ==
  ASSUME HeartInv, PeerInv, NEW r \in Sides, Die(r)
  PROVE  PeerInv'
  <1>1. /\ UNCHANGED <<nsec, maxnprobes, nProbes, alarmIn, loaded, wire, raced>>
        /\ state[r] = "up" /\ state' = [state EXCEPT ![r] = "dead"]
    BY DEF Die
  <1>2. /\ \A s \in Sides : state'[s] = "up" => state[s] = "up" /\ s # r
        /\ \A s \in Sides : state'[s] = "gaveup" => state[s] = "gaveup"
    BY <1>1 DEF HeartInv, HeartType
  <1>3. ~Waits("cli")' /\ ~Waits("serv")'
    BY <1>2 DEF Waits, Sides, Peer
  <1>4. \A s \in Sides : Kept(s)'
    BY <1>1, <1>2, KeptStays, AgeType DEF PeerInv
  <1> QED
    BY <1>1, <1>3, <1>4 DEF PeerInv, WireInv, ClientWaits, ServerWaits

LEMMA PeerKeeps == HeartInv /\ PeerInv /\ [HeartNext]_heartVars => PeerInv'
  <1> SUFFICES ASSUME HeartInv, PeerInv, [HeartNext]_heartVars PROVE PeerInv'
    OBVIOUS
  <1>1. CASE UNCHANGED heartVars
    BY <1>1 DEF heartVars, PeerInv, WireInv, ClientWaits, ServerWaits, Waits, Count, Age, Kept,
                RoomFor
  <1>2. ASSUME NEW r \in Sides, AlrmTest(r) PROVE PeerInv'
    <2>1. loaded[r] \in Int /\ maxnprobes[r] \in Int
      BY DEF HeartInv, HeartType
    <2>2. loaded[r] + 1 > maxnprobes[r] \/ loaded[r] + 1 <= maxnprobes[r]
      BY <2>1
    <2> QED
      BY <1>2, <2>2, GivesUpPeer, AlrmTestPeer
  <1> QED
    BY <1>1, <1>2, SigUrgPeer, AlrmLoadPeer, SecondPeer, DiePeer
    DEF HeartNext, Handlers, HeartWorld

LEMMA PeerInvariance == HeartSpec => []PeerInv
  BY PeerInitially, PeerKeeps, HeartInvariance, PTL DEF HeartSpec

(* A peer that is there is given up only if the limits leave no room for   *)
(* the way of a byte, whatever the two periods are and however they lie    *)
(* to each other; but for the race inside ++nProbes.                       *)
THEOREM LivePeerIsKept == HeartSpec => []LivePeerKept
  <1>1. PeerInv => LivePeerKept
    BY DEF PeerInv, Kept, LivePeerKept
  <1> QED
    BY <1>1, PeerInvariance, PTL
=============================================================================

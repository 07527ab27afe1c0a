---------------------------- MODULE SmallPrograms ----------------------------
(***************************************************************************)
(* The programs and functions that one process, or a pair, runs on its     *)
(* own: each behaviour is one of them, in its environment.                 *)
(***************************************************************************)
EXTENDS Traceroute, Ping, UdpCksum, Heartbeat, UdpClients, ConnectCalls, MyOpen, GetIfiInfo,
        ThreadReadline

VARIABLE program

Start == [traceroute |-> "probe", ping |-> "first", udpcksum |-> "setjmp", heartbeat |-> "none",
          udp |-> "fgets", connect |-> "connect", open |-> "socketpair",
          interfaces |-> "SIOCGIFCONF", readline |-> "none"]
Programs == DOMAIN Start

smallVars == <<pc, timer, program, traceVars, pingVars, cksumVars, heartVars, udpVars, connVars,
               openVars, ifVars, rlVars>>

Any(S) == CHOOSE x \in S : TRUE

(* The parameters of the programs that do not run have one value.          *)
SmallInit ==
  /\ program \in Programs
  /\ TraceInit /\ (program # "traceroute" => family = Any(Families) /\ dist = Any(Dists))
  /\ PingInit
  /\ CksumInit /\ (program # "udpcksum" => zerosum /\ query = [k \in 1 .. QueryLen |-> 0])
  /\ IF program = "heartbeat" THEN HeartInit ELSE Heartbeat([s \in Sides |-> Any(HeartArgs)])
  /\ UdpInit /\ (program # "udp" => kind = Any(UdpKinds))
  /\ ConnInit /\ (program # "connect" => /\ call = Any(ConnCalls) /\ addrs = 0
                                       /\ ~limit /\ ~solaris)
  /\ OpenInit
  /\ IfInit /\ (program # "interfaces" => /\ af = "inet" /\ ~doaliases /\ strict /\ up = {}
                                          /\ layout = "packed" /\ build = "IPV6" /\ ~dl
                                          /\ ifs = Any(Lists["packed"]))
  /\ RlInit /\ (program # "readline" => slow /\ \A t \in RlThreads : stream[t] = <<>>)
  /\ pc = IF program = "connect" THEN ConnStart[call] ELSE Start[program]
  /\ timer \in {FALSE, program = "connect" /\ call = "connect_timeo"}

As(p, A) ==
  /\ program = p /\ A /\ UNCHANGED program
  /\ p \in {"heartbeat", "readline"} => UNCHANGED <<pc, timer>>
  /\ p # "traceroute" => UNCHANGED traceVars
  /\ p # "ping" => UNCHANGED pingVars
  /\ p # "udpcksum" => UNCHANGED cksumVars
  /\ p # "heartbeat" => UNCHANGED heartVars
  /\ p # "udp" => UNCHANGED udpVars
  /\ p # "connect" => UNCHANGED connVars
  /\ p # "open" => UNCHANGED openVars
  /\ p # "interfaces" => UNCHANGED ifVars
  /\ p # "readline" => UNCHANGED rlVars

Threads == \/ As("traceroute", Trace) \/ As("ping", Readloop) \/ As("udpcksum", TestUdp)
           \/ As("heartbeat", Handlers) \/ As("udp", DgCli) \/ As("connect", Connect)
           \/ As("open", MyOpen) \/ As("interfaces", GetIfi) \/ As("readline", Readline)

(* The alarm clock, and other timers.                                      *)
Clock == \/ As("traceroute", SigAlrm) \/ As("ping", PingAlrm) \/ As("udpcksum", JumpAlrm)
         \/ As("heartbeat", Second) \/ As("udp", RecvTimeout) \/ As("connect", ConnAlrm)

(* What else comes about: the other process, datagrams that are not lost,  *)
(* a handshake, which the kernel gives up at last.                         *)
Others == As("udp", UdpNetwork) \/ As("connect", Handshake) \/ As("open", Child)

(* What may never come.                                                    *)
Chance == \/ As("traceroute", Network) \/ As("ping", World) \/ As("udpcksum", CaptureAny)
          \/ As("heartbeat", \E s \in Sides : Die(s)) \/ As("udp", Mishap) \/ As("open", Kill)
          \/ As("interfaces", IfChange)

SmallNext == Threads \/ Clock \/ Others \/ Chance

(* The machine does not stand still while a thread can run, a timer is to  *)
(* ring or a datagram that is not lost is on its way.                      *)
Due(p, A) == program = p /\ A
SmallFairness ==
  /\ WF_<<pc, timer, traceVars>>(Due("traceroute", Trace \/ SigAlrm))
  /\ WF_<<pc, timer, cksumVars>>(Due("udpcksum", TestUdp \/ JumpAlrm))
  /\ WF_heartVars(Due("heartbeat", Handlers \/ Second))
  /\ WF_<<pc, timer, udpVars>>(Due("udp", DgCli \/ RecvTimeout \/ UdpNetwork))
  /\ WF_<<pc, timer, connVars>>(Due("connect", Connect \/ ConnAlrm \/ Handshake))
  /\ WF_<<pc, timer, openVars>>(Due("open", MyOpen \/ Child))
  /\ WF_<<pc, timer, ifVars>>(Due("interfaces", GetIfi))
  /\ WF_rlVars(Due("readline", Readline))
SmallSpec == SmallInit /\ [][SmallNext]_smallVars /\ SmallFairness
-----------------------------------------------------------------------------
Ended ==
  CASE program = "udpcksum" -> CksumEnded
    [] program = "udp" -> UdpEnds
    [] program = "connect" -> pc \in {"result", "aborted"}
    [] program = "interfaces" -> pc = "listed"
    [] program = "readline" -> \A t \in RlThreads : at[t] = "over"
    [] program = "open" -> pc = "over"
    [] program = "traceroute" -> pc = "exit"
    [] OTHER -> TRUE

(* traceroute loses its alarm when it rings between the test of gotalarm   *)
(* and recvfrom, and nowhere else.                                         *)
LostOnlyAtEntry ==
  [][program = "traceroute" /\ ~AlarmLost /\ AlarmLost' => pc = "enter"]_smallVars

(* udpcksum has no such gap; what its jump costs is a reply that was       *)
(* captured, when the alarm rings before canjump is cleared.               *)
DroppedOnlyBeforeCleared == [][ui # NoPacket /\ ui' = NoPacket => pc = "canjump"]_smallVars

(* Every program ends, whatever its environment does, but for traceroute   *)
(* when its alarm is lost, and for a UDP client without a timeout when its *)
(* datagram is.  The heartbeat, which does not end, gives up on a peer     *)
(* that is dead.                                                           *)
EndsUnlessAlarmLost ==
  /\ <>(Ended \/ (program = "traceroute" /\ AlarmLost))
  /\ LostOnlyAtEntry /\ DroppedOnlyBeforeCleared
  /\ <>[](program = "heartbeat" =>
            \A s \in Sides : state[s] = "dead" => state[Peer(s)] # "up")
=============================================================================

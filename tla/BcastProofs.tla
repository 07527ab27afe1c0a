----------------------------- MODULE BcastProofs -----------------------------
(***************************************************************************)
(* Proofs about the broadcasting clients: each of the four implements      *)
(* BcastRounds, shows the replies it has read, and loses an alarm only in  *)
(* its window.                                                             *)
(***************************************************************************)
EXTENDS BcastClients, TLAPS

Counters ==
  /\ round \in Nat /\ arrived \in Nat /\ sock \in Nat
  /\ heard \in Nat /\ printed \in Nat /\ pipe \in Nat
Flags ==
  /\ timer \in BOOLEAN /\ expired \in BOOLEAN /\ pending \in BOOLEAN
  /\ emulated \in BOOLEAN /\ blocked \in BOOLEAN /\ n \in {-1, 0, 1}
  /\ jmpset \in BOOLEAN
TypeInv == Counters /\ Flags

(* The alarm of a round is in one place at most: not yet set, in the       *)
(* clock, pending, and then handled.  No round begins with one left over.  *)
Clock ==
  /\ timer => Collecting /\ pc # "alarm" /\ ~expired
  /\ pending => Collecting /\ pc # "alarm" /\ expired
  /\ pc = "alarm" => ~expired

(* One reply is in hand exactly while it is printed.                       *)
InHand == heard = printed + (IF pc = "print" THEN 1 ELSE 0)

RecvInv ==
  /\ pc \in {"fgets", "done", "alarm", "loop", "recvfrom", "print"}
  /\ InHand

(* SIGALRM is blocked in a round, but inside pselect.c; what its select    *)
(* returned as EINTR is the alarm of this round.                           *)
Opened == {"opened", "select", "selected"}
PselectInv ==
  /\ pc \in {"fgets", "done", "alarm", "loop", "pselect", "recvfrom", "print"} \cup Opened
  /\ InHand
  /\ pc \in Opened => emulated
  /\ Collecting /\ pc # "alarm" /\ pc \notin Opened => blocked
  /\ pc = "selected" /\ n = -1 => expired /\ ~pending

(* At most one reply lost in each round that is over; until the first      *)
(* sigsetjmp the client is in its first round.                             *)
LongjmpInv ==
  /\ pc \in {"fgets", "done", "alarm", "loop", "recvfrom", "print", "crash"}
  /\ heard <= printed + round - (IF Collecting /\ pc # "print" THEN 1 ELSE 0)
  /\ ~jmpset => /\ heard = 0
                /\ pc = "fgets" => round = 0
                /\ pc \in {"alarm", "loop"} => round = 1
                /\ pc \notin {"recvfrom", "print"}

(* The byte in the pipe is the alarm of this round, and select reported    *)
(* the pipe only if it was there.                                          *)
PipeInv ==
  /\ pc \in {"fgets", "done", "alarm", "loop", "select", "socket", "print", "pipe"}
  /\ InHand
  /\ pipe \in {0, 1}
  /\ pipe = 1 => Collecting /\ expired /\ ~pending
  /\ pc \in {"socket", "print", "pipe"} /\ "pipe" \in rset => pipe = 1

IInv ==
  /\ TypeInv /\ Clock /\ variant \in Variants
  /\ variant = "recvfrom" => RecvInv
  /\ variant = "pselect" => PselectInv
  /\ variant = "longjmp" => LongjmpInv
  /\ variant = "pipe" => PipeInv

(* What a step must do besides keeping the invariant.                      *)
RoundStep == [Rounds!Next]_<<round, Collecting, expired>>
LostStep == ~AlarmLost /\ AlarmLost' => Window

LEMMA Initially == Init => IInv /\ Rounds!Init
<1> USE DEF Init, Pselect!Init, Pselect!EnvInit, Longjmp!Init, Pipe!Init, Collecting
<1>1. Init => Counters
  BY DEF Counters
<1>4. Init => Flags
  <2>1. Init => emulated \in BOOLEAN
    OBVIOUS
  <2> QED
    BY <2>1 DEF Flags
<1>5. Init => Clock
  BY DEF Clock
<1>2. Init => RecvInv /\ PselectInv /\ LongjmpInv /\ PipeInv
  BY DEF RecvInv, PselectInv, LongjmpInv, PipeInv, InHand, Opened
<1>3. Init => Rounds!Init
  BY DEF Rounds!Init
<1> QED
  BY <1>1, <1>2, <1>3, <1>4, <1>5 DEF IInv, TypeInv

(* The clock and the network, whichever client is linked.                  *)
LEMMA EnvKeeps ==
  ASSUME IInv, Quietly(Expire) \/ Quietly(Reply)
  PROVE  IInv' /\ RoundStep /\ LostStep
<1> USE DEF Quietly, clockVars, replyVars, pselectVars, pipeVars, Collecting
<1>1. Counters'
  BY DEF IInv, TypeInv, Counters, Expire, Reply
<1>8. Flags'
  BY DEF IInv, TypeInv, Flags, Expire, Reply
<1>9. Clock'
  BY DEF IInv, Clock, Expire, Reply
<1>2. (variant = "recvfrom" => RecvInv)'
  BY DEF IInv, TypeInv, Counters, Flags, Clock, RecvInv, InHand, Expire, Reply
<1>3. (variant = "pselect" => PselectInv)'
  BY DEF IInv, TypeInv, Counters, Flags, Clock, PselectInv, InHand, Opened, Expire, Reply
<1>4. (variant = "longjmp" => LongjmpInv)'
  BY DEF IInv, TypeInv, Counters, Flags, Clock, LongjmpInv, Expire, Reply
<1>5. (variant = "pipe" => PipeInv)'
  BY DEF IInv, TypeInv, Counters, Flags, Clock, PipeInv, InHand, Expire, Reply
<1>6. RoundStep
  BY DEF IInv, Clock, Expire, Reply, RoundStep, Rounds!Next, Rounds!Expire
<1>7. LostStep
  BY DEF IInv, Clock, Expire, Reply, LostStep, AlarmLost, Recv!AlarmLost, Recv!Collecting,
     Pselect!AlarmLost, Pselect!Collecting, Longjmp!AlarmLost
<1> QED
  BY <1>1, <1>2, <1>3, <1>4, <1>5, <1>6, <1>7, <1>8, <1>9 DEF IInv, TypeInv

LEMMA RecvKeeps ==
  ASSUME IInv, variant = "recvfrom", Recv!Client \/ Recv!Signal,
         UNCHANGED <<variant, pselectVars, jmpset, pipeVars>>
  PROVE  IInv' /\ RoundStep /\ LostStep
<1> USE DEF clockVars, replyVars, pselectVars, pipeVars, Collecting, IInv, TypeInv, Counters, Flags, Clock,
            RecvInv, InHand, RoundStep, Rounds!Next, LostStep, AlarmLost, Window,
            Recv!AlarmLost, Recv!Collecting, Recv!Window, Recv!clockVars, Recv!replyVars
<1>1. CASE Recv!Broadcast
  <2> USE <1>1 DEF Recv!Broadcast, Rounds!Begin
  <2>1. Counters'
    OBVIOUS
  <2>6. Flags'
    OBVIOUS
  <2>2. Clock'
    OBVIOUS
  <2>3. RecvInv'
    OBVIOUS
  <2>4. RoundStep
    OBVIOUS
  <2>5. LostStep
    OBVIOUS
  <2> QED
    BY <2>1, <2>2, <2>3, <2>4, <2>5, <2>6
<1>2. CASE Recv!EndOfInput
  BY <1>2 DEF Recv!EndOfInput
<1>3. CASE Recv!StartAlarm
  BY <1>3 DEF Recv!StartAlarm
<1>4. CASE Recv!Enter
  BY <1>4 DEF Recv!Enter, Recv!Move
<1>5. CASE Recv!TakeReply
  BY <1>5 DEF Recv!TakeReply, Recv!Recvfrom
<1>6. CASE Recv!Show
  BY <1>6 DEF Recv!Show, Recv!ShowReply
<1>7. CASE Recv!Signal
  BY <1>7 DEF Recv!Signal, Recv!Alarmed, Rounds!End
<1> QED
  BY <1>1, <1>2, <1>3, <1>4, <1>5, <1>6, <1>7 DEF Recv!Client, Recv!Outer

LEMMA PselectKeeps ==
  ASSUME IInv, variant = "pselect", Pselect!Client \/ Pselect!Signal,
         UNCHANGED <<variant, jmpset, pipeVars>>
  PROVE  IInv' /\ RoundStep /\ LostStep
<1> USE DEF clockVars, replyVars, pipeVars, Collecting, IInv, TypeInv, Counters, Flags, Clock,
            PselectInv, InHand, Opened, RoundStep, Rounds!Next, LostStep, AlarmLost, Window,
            Pselect!AlarmLost, Pselect!Collecting, Pselect!Window, Pselect!clockVars,
            Pselect!replyVars, Pselect!ownVars
<1>1. CASE Pselect!Broadcast /\ UNCHANGED Pselect!ownVars
  <2> USE <1>1 DEF Pselect!Broadcast, Rounds!Begin
  <2>1. Counters'
    OBVIOUS
  <2>6. Flags'
    OBVIOUS
  <2>2. Clock'
    OBVIOUS
  <2>3. PselectInv'
    OBVIOUS
  <2>4. RoundStep
    OBVIOUS
  <2>5. LostStep
    OBVIOUS
  <2> QED
    BY <2>1, <2>2, <2>3, <2>4, <2>5, <2>6
<1>2. CASE Pselect!EndOfInput /\ UNCHANGED Pselect!ownVars
  BY <1>2 DEF Pselect!EndOfInput
<1>3. CASE Pselect!Start
  BY <1>3 DEF Pselect!Start, Pselect!StartAlarm
<1>4. CASE Pselect!Pselect
  BY <1>4 DEF Pselect!Pselect, Pselect!Move
<1>5. CASE Pselect!PselectReady
  BY <1>5 DEF Pselect!PselectReady, Pselect!Move
<1>6. CASE Pselect!OpenMask
  BY <1>6 DEF Pselect!OpenMask, Pselect!Move
<1>7. CASE Pselect!Select
  BY <1>7 DEF Pselect!Select, Pselect!Move
<1>8. CASE Pselect!SelectReady
  BY <1>8 DEF Pselect!SelectReady, Pselect!Move
<1>9. CASE Pselect!CloseMask
  BY <1>9 DEF Pselect!CloseMask, Pselect!Move, Rounds!End
<1>10. CASE Pselect!TakeReply
  BY <1>10 DEF Pselect!TakeReply, Pselect!Recvfrom
<1>11. CASE Pselect!Show
  BY <1>11 DEF Pselect!Show, Pselect!ShowReply
<1>12. CASE Pselect!Signal
  <2>1. CASE pc = "pselect"
    BY <1>12, <2>1 DEF Pselect!Signal, Pselect!Alarmed, Rounds!End
  <2>2. CASE pc = "select"
    BY <1>12, <2>2 DEF Pselect!Signal, Pselect!Alarmed
  <2>3. CASE pc \notin {"pselect", "select"}
    BY <1>12, <2>3 DEF Pselect!Signal, Pselect!Alarmed
  <2> QED
    BY <2>1, <2>2, <2>3
<1> QED
  BY <1>1, <1>2, <1>3, <1>4, <1>5, <1>6, <1>7, <1>8, <1>9, <1>10, <1>11, <1>12
     DEF Pselect!Client, Pselect!OuterStep

LEMMA LongjmpKeeps ==
  ASSUME IInv, variant = "longjmp", Longjmp!Client \/ Longjmp!Signal,
         UNCHANGED <<variant, pselectVars, pipeVars>>
  PROVE  IInv' /\ RoundStep /\ LostStep
<1> USE DEF clockVars, replyVars, pselectVars, pipeVars, Collecting, IInv, TypeInv, Counters, Flags, Clock,
            LongjmpInv, RoundStep, Rounds!Next, LostStep, AlarmLost, Window,
            Longjmp!AlarmLost, Longjmp!Window, Longjmp!clockVars, Longjmp!replyVars
<1>1. CASE Longjmp!Broadcast /\ UNCHANGED jmpset
  <2> USE <1>1 DEF Longjmp!Broadcast, Rounds!Begin
  <2>1. Counters'
    OBVIOUS
  <2>6. Flags'
    OBVIOUS
  <2>2. Clock'
    OBVIOUS
  <2>3. LongjmpInv'
    OBVIOUS
  <2>4. RoundStep
    OBVIOUS
  <2>5. LostStep
    OBVIOUS
  <2> QED
    BY <2>1, <2>2, <2>3, <2>4, <2>5, <2>6
<1>2. CASE Longjmp!EndOfInput /\ UNCHANGED jmpset
  BY <1>2 DEF Longjmp!EndOfInput
<1>3. CASE Longjmp!StartAlarm /\ UNCHANGED jmpset
  BY <1>3 DEF Longjmp!StartAlarm
<1>4. CASE Longjmp!Setjmp
  BY <1>4 DEF Longjmp!Setjmp, Longjmp!Move
<1>5. CASE Longjmp!TakeReply
  BY <1>5 DEF Longjmp!TakeReply, Longjmp!Recvfrom
<1>6. CASE Longjmp!Show
  BY <1>6 DEF Longjmp!Show, Longjmp!ShowReply
<1>7. CASE Longjmp!Signal
  <2> USE <1>7 DEF Longjmp!Signal, Longjmp!Alarmed, Rounds!End
  <2>1. Counters'
    OBVIOUS
  <2>6. Flags'
    OBVIOUS
  <2>2. Clock'
    OBVIOUS
  <2>3. LongjmpInv'
    OBVIOUS
  <2>4. RoundStep
    OBVIOUS
  <2>5. LostStep
    OBVIOUS
  <2> QED
    BY <2>1, <2>2, <2>3, <2>4, <2>5, <2>6
<1> QED
  BY <1>1, <1>2, <1>3, <1>4, <1>5, <1>6, <1>7 DEF Longjmp!Client, Longjmp!Outer

LEMMA PipeKeeps ==
  ASSUME IInv, variant = "pipe", Pipe!Client \/ Pipe!Signal,
         UNCHANGED <<variant, pselectVars, jmpset>>
  PROVE  IInv' /\ RoundStep /\ LostStep
<1> USE DEF clockVars, replyVars, pselectVars, Collecting, IInv, TypeInv, Counters, Flags, Clock,
            PipeInv, InHand, RoundStep, Rounds!Next, LostStep, AlarmLost,
            Pipe!clockVars, Pipe!replyVars
<1>1. CASE Pipe!Broadcast /\ UNCHANGED <<pipe, rset>>
  <2> USE <1>1 DEF Pipe!Broadcast, Rounds!Begin
  <2>1. Counters'
    OBVIOUS
  <2>6. Flags'
    OBVIOUS
  <2>2. Clock'
    OBVIOUS
  <2>3. PipeInv'
    OBVIOUS
  <2>4. RoundStep
    OBVIOUS
  <2>5. LostStep
    OBVIOUS
  <2> QED
    BY <2>1, <2>2, <2>3, <2>4, <2>5, <2>6
<1>2. CASE Pipe!EndOfInput /\ UNCHANGED <<pipe, rset>>
  BY <1>2 DEF Pipe!EndOfInput
<1>3. CASE Pipe!StartAlarm /\ UNCHANGED <<pipe, rset>>
  BY <1>3 DEF Pipe!StartAlarm
<1>4. CASE Pipe!Enter
  BY <1>4 DEF Pipe!Enter, Pipe!Move
<1>5. CASE Pipe!Select
  BY <1>5 DEF Pipe!Select, Pipe!ReadySet, Pipe!Move
<1>6. CASE Pipe!TakeReply
  BY <1>6 DEF Pipe!TakeReply, Pipe!Recvfrom
<1>7. CASE Pipe!SkipSocket
  BY <1>7 DEF Pipe!SkipSocket, Pipe!Move
<1>8. CASE Pipe!Show
  BY <1>8 DEF Pipe!Show, Pipe!ShowReply
<1>9. CASE Pipe!TimerExpired
  BY <1>9 DEF Pipe!TimerExpired, Pipe!Move, Rounds!End
<1>10. CASE Pipe!NotExpired
  BY <1>10 DEF Pipe!NotExpired, Pipe!Move
<1>11. CASE Pipe!Signal
  <2> USE <1>11 DEF Pipe!Signal, Pipe!Alarmed
  <2>1. Counters'
    OBVIOUS
  <2>6. Flags'
    OBVIOUS
  <2>2. Clock'
    OBVIOUS
  <2>3. PipeInv'
    OBVIOUS
  <2>4. RoundStep
    OBVIOUS
  <2>5. LostStep
    OBVIOUS
  <2> QED
    BY <2>1, <2>2, <2>3, <2>4, <2>5, <2>6
<1> QED
  BY <1>1, <1>2, <1>3, <1>4, <1>5, <1>6, <1>7, <1>8, <1>9, <1>10, <1>11
     DEF Pipe!Client, Pipe!Outer

LEMMA Keeps ==
  ASSUME IInv, [Next]_vars
  PROVE  IInv' /\ RoundStep /\ [LostStep]_vars
<1>1. CASE Client \/ Signal
  BY <1>1, RecvKeeps, PselectKeeps, LongjmpKeeps, PipeKeeps DEF Client, Signal, Linked
<1>2. CASE Quietly(Expire) \/ Quietly(Reply)
  BY <1>2, EnvKeeps
<1>3. CASE UNCHANGED vars
  BY <1>3 DEF vars, envVars, clockVars, replyVars, pselectVars, pipeVars, IInv, TypeInv, Counters, Flags, Clock,
     RecvInv, PselectInv, LongjmpInv, PipeInv, InHand, Opened, Collecting, RoundStep
<1> QED
  BY <1>1, <1>2, <1>3 DEF Next

-----------------------------------------------------------------------------
LEMMA InvariantHolds == Spec => []IInv
BY Initially, Keeps, PTL DEF Spec

(* Every reply that recvfrom returned is printed before the round is over, *)
(* wherever SIGALRM came in; the jump of dgclibcast5 costs one at most for *)
(* each round, the one that was read and not yet printed.                  *)
THEOREM EveryReplyShown == Spec => []RepliesShown
<1>1. IInv => RepliesShown
  <2> SUFFICES ASSUME IInv PROVE RepliesShown
    OBVIOUS
  <2> USE DEF IInv, RepliesShown, Collecting
  <2>1. CASE variant = "longjmp"
    BY <2>1 DEF TypeInv, Counters, LongjmpInv, Longjmp!LosesAtMostOne, Longjmp!Collecting
  <2>2. CASE variant # "longjmp"
    BY <2>2, VariantAssumption DEF TypeInv, Counters, RecvInv, PselectInv, PipeInv, InHand
  <2> QED
    BY <2>1, <2>2
<1> QED
  BY <1>1, InvariantHolds, PTL

(* Each of the four dg_cli() implements BcastRounds: a round is ended by   *)
(* its own alarm, never by a signal, a jmpbuf or a byte in the pipe that   *)
(* is left of an earlier one.                                              *)
THEOREM RoundsImplemented == Spec => ImplementsRounds
BY Initially, Keeps, InvariantHolds, PTL DEF Spec, ImplementsRounds, Rounds!Spec, RoundStep, Rounds!vars

(* An alarm does harm only in the window of the implementation: outside    *)
(* recvfrom in dgcclibcast1, around the select of pselect.c, before the    *)
(* first sigsetjmp of dgclibcast5, and nowhere with a kernel's pselect or  *)
(* with the pipe.                                                          *)
THEOREM LostOnlyThere == Spec => LostOnlyInWindow
BY Keeps, InvariantHolds, PTL DEF Spec, LostOnlyInWindow, LostStep
=============================================================================

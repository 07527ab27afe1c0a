---------------------------- MODULE BcastClients ----------------------------
(***************************************************************************)
(* The four dg_cli() of bcast/, one of which is linked into the program,   *)
(* and what is expected of all of them.                                    *)
(***************************************************************************)
EXTENDS BcastEnv

CONSTANT Variants       \* the implementations looked at

ASSUME VariantAssumption == Variants \subseteq {"recvfrom", "pselect", "longjmp", "pipe"}

VARIABLES variant, emulated, blocked, n, jmpset, pipe, rset

pselectVars == <<emulated, blocked, n>>
pipeVars == <<pipe, rset>>
vars == <<envVars, variant, pselectVars, jmpset, pipeVars>>

Recv == INSTANCE BcastRecvfrom
Pselect == INSTANCE BcastPselect
Longjmp == INSTANCE BcastLongjmp
Pipe == INSTANCE BcastPipe

Init == /\ variant \in Variants
        /\ Recv!Init /\ Pselect!Init /\ Longjmp!Init /\ Pipe!Init
        /\ variant # "pselect" => ~emulated

(* The step A, B, C or D of the implementation that is linked.             *)
Linked(A, B, C, D) ==
  /\ \/ variant = "recvfrom" /\ A /\ UNCHANGED <<pselectVars, jmpset, pipeVars>>
     \/ variant = "pselect" /\ B /\ UNCHANGED <<jmpset, pipeVars>>
     \/ variant = "longjmp" /\ C /\ UNCHANGED <<pselectVars, pipeVars>>
     \/ variant = "pipe" /\ D /\ UNCHANGED <<pselectVars, jmpset>>
  /\ UNCHANGED variant

Client == Linked(Recv!Client, Pselect!Client, Longjmp!Client, Pipe!Client)
Signal == Linked(Recv!Signal, Pselect!Signal, Longjmp!Signal, Pipe!Signal)
Quietly(A) == A /\ UNCHANGED <<variant, pselectVars, jmpset, pipeVars>>

Next == Client \/ Signal \/ Quietly(Expire) \/ Quietly(Reply)

(* The client runs, the clock runs, and a pending signal that is not       *)
(* blocked is delivered.                                                   *)
Spec == Init /\ [][Next]_vars
        /\ WF_vars(Client) /\ WF_vars(Signal) /\ WF_vars(Quietly(Expire))
-----------------------------------------------------------------------------
(* Every reply taken from the socket is shown by the end of the round,     *)
(* although the alarm may interrupt the client anywhere.  The jump of      *)
(* dgclibcast5 may discard the reply in hand, but not more.                *)
RepliesShown ==
  IF variant = "longjmp" THEN Longjmp!LosesAtMostOne ELSE ~Collecting => heard = printed

(* A round lasts until its own alarm: nothing that is left of one round    *)
(* (a signal, a jmpbuf, a byte in a pipe) cuts the next one short.         *)
Rounds == INSTANCE BcastRounds WITH open <- Collecting
ImplementsRounds == Rounds!Spec

(* Every round comes to its end whenever the alarm goes off, but for an    *)
(* alarm that does harm, which it does only in its window: it is lost      *)
(* outside recvfrom in dgcclibcast1 and around the select of pselect.c in  *)
(* dgclibcast4, it crashes dgclibcast5 before the first sigsetjmp, and     *)
(* it is never lost with a kernel's pselect or with the pipe.              *)
AlarmLost == \/ variant = "recvfrom" /\ Recv!AlarmLost
             \/ variant = "pselect" /\ Pselect!AlarmLost
             \/ variant = "longjmp" /\ Longjmp!AlarmLost
Window == \/ variant = "recvfrom" /\ Recv!Window
          \/ variant = "pselect" /\ Pselect!Window
          \/ variant = "longjmp" /\ Longjmp!Window
RoundsEndUnlessLost == Collecting ~> (~Collecting \/ AlarmLost)
LostOnlyInWindow == [][~AlarmLost /\ AlarmLost' => Window]_vars

(* The comment of dgcclibcast1, line 27, "waited long enough for replies": *)
(* the alarm ends the round.  (Not when it goes off outside recvfrom.)     *)
WaitedLongEnough == (Collecting /\ expired) ~> ~Collecting
=============================================================================

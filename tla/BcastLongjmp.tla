---------------------------- MODULE BcastLongjmp ----------------------------
(***************************************************************************)
(* bcast/dgclibcast5.c: the handler of SIGALRM jumps out of whatever the   *)
(* client is doing, back to the sigsetjmp of line 26, which ends the round.*)
(***************************************************************************)
EXTENDS BcastEnv

VARIABLE jmpset         \* jmpbuf has been filled in

vars == <<envVars, jmpset>>
Init == EnvInit /\ jmpset = FALSE

Setjmp == Move("loop", "recvfrom") /\ jmpset' = TRUE
TakeReply == Recvfrom("recvfrom", "print") /\ UNCHANGED jmpset
Show == ShowReply("print", "loop") /\ UNCHANGED jmpset

(* siglongjmp through a jmpbuf that was never filled in is undefined; what *)
(* the build does is crash.  A jmpbuf of an earlier round is still good:   *)
(* dg_cli has not returned.                                                *)
Signal == Alarmed(IF jmpset THEN "fgets" ELSE "crash") /\ UNCHANGED jmpset

Client == Setjmp \/ TakeReply \/ Show \/ (Outer /\ UNCHANGED jmpset)
Next == Client \/ Signal \/ ((Expire \/ Reply) /\ UNCHANGED jmpset)

(* The jump may discard the reply in hand, never more than one per round.  *)
LosesAtMostOne ==
  heard - printed <= round - (IF Collecting /\ pc # "print" /\ ~expired THEN 1 ELSE 0)

(* An alarm crashes the client, and only between the alarm(5) of the first *)
(* round and the first sigsetjmp.                                          *)
AlarmLost == pc = "crash"
Window == round = 1 /\ pc = "loop" /\ heard = 0
=============================================================================

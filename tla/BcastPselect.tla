---------------------------- MODULE BcastPselect ----------------------------
(***************************************************************************)
(* bcast/dgclibcast4.c: SIGALRM is blocked except while the client waits   *)
(* in pselect.  ~emulated is a kernel's pselect, which swaps the mask and  *)
(* waits in one step; emulated is bcast/pselect.c, which calls             *)
(* sigprocmask, select and sigprocmask.                                    *)
(***************************************************************************)
EXTENDS BcastEnv

VARIABLES emulated,     \* which pselect() is linked
          blocked,      \* SIGALRM is in the signal mask
          n             \* what select returned: 1, or -1 for EINTR

ownVars == <<emulated, blocked, n>>
vars == <<envVars, ownVars>>
Init == EnvInit /\ emulated \in BOOLEAN /\ blocked = FALSE /\ n = 0

(* Lines 27-31: the mask is set after sendto, before alarm(5).             *)
Start == StartAlarm /\ blocked' = TRUE /\ UNCHANGED <<emulated, n>>
OuterStep == Start \/ ((Broadcast \/ EndOfInput) /\ UNCHANGED ownVars)

(* The kernel's pselect: the mask is open exactly while it sleeps.         *)
Pselect == ~emulated /\ Move("loop", "pselect") /\ UNCHANGED ownVars
PselectReady == sock > 0 /\ Move("pselect", "recvfrom") /\ UNCHANGED ownVars

(* pselect.c.                                                              *)
OpenMask == emulated /\ Move("loop", "opened") /\ blocked' = FALSE /\ UNCHANGED <<emulated, n>>
Select == Move("opened", "select") /\ UNCHANGED ownVars
SelectReady == sock > 0 /\ Move("select", "selected") /\ n' = 1 /\ UNCHANGED <<emulated, blocked>>
MutCloseMaskForgotten == /\ Move("selected", IF n < 0 THEN "fgets" ELSE "recvfrom")
                         /\ UNCHANGED ownVars
CloseMask == /\ Move("selected", IF n < 0 THEN "fgets" ELSE "recvfrom")
             /\ blocked' = TRUE
             /\ UNCHANGED <<emulated, n>>

TakeReply == Recvfrom("recvfrom", "print") /\ UNCHANGED ownVars
Show == ShowReply("print", "loop") /\ UNCHANGED ownVars

(* The handler does nothing; a call that sleeps returns EINTR.             *)
Signal ==
  /\ pc = "pselect" \/ ~blocked
  /\ CASE pc = "pselect" -> Alarmed("fgets") /\ UNCHANGED n
       [] pc = "select"  -> Alarmed("selected") /\ n' = -1
       [] OTHER          -> Alarmed(pc) /\ UNCHANGED n
  /\ UNCHANGED <<emulated, blocked>>

Client == OuterStep \/ Pselect \/ PselectReady \/ OpenMask \/ Select \/ SelectReady
          \/ CloseMask \/ TakeReply \/ Show
Next == Client \/ Signal \/ ((Expire \/ Reply) /\ UNCHANGED ownVars)

(* The handler has run and select was not told: nothing ends the round.    *)
AlarmLost == Collecting /\ expired /\ ~pending /\ ~(pc = "selected" /\ n = -1)

(* Where the alarm can be lost: the mask is open and the client is not in  *)
(* select, before line 18 and before line 19 of pselect.c.                 *)
Window == emulated /\ pc \in {"opened", "selected"}
=============================================================================

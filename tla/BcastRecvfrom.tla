---------------------------- MODULE BcastRecvfrom ----------------------------
(***************************************************************************)
(* bcast/dgcclibcast1.c: waits in recvfrom and relies on SIGALRM to end it *)
(* with EINTR, as it does where signal() installs SIGALRM without          *)
(* SA_RESTART.  (The signal() of glibc restarts recvfrom: no alarm ends a  *)
(* round there, and what is shown here is the better case.)                *)
(***************************************************************************)
EXTENDS BcastEnv

vars == envVars
Init == EnvInit

Enter == Move("loop", "recvfrom")
TakeReply == Recvfrom("recvfrom", "print")
Show == ShowReply("print", "loop")

(* The handler does nothing.  Only a recvfrom that sleeps notices.         *)
Signal == Alarmed(IF pc = "recvfrom" THEN "fgets" ELSE pc)

Client == Outer \/ Enter \/ TakeReply \/ Show
Next == Client \/ Signal \/ Expire \/ Reply

(* The handler has run and the round goes on: nothing will end it.         *)
AlarmLost == Collecting /\ expired /\ ~pending

(* Where the alarm can be lost.                                            *)
Window == pc # "recvfrom"
=============================================================================

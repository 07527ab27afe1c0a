------------------------------ MODULE BcastPipe ------------------------------
(***************************************************************************)
(* bcast/dgclibcast6.c: the handler of SIGALRM writes a byte into a pipe,  *)
(* and the client waits for the socket and the pipe with select.           *)
(***************************************************************************)
EXTENDS BcastEnv

VARIABLES pipe,         \* bytes in pipefd
          rset          \* what select reported, a subset of {"sock", "pipe"}

vars == <<envVars, pipe, rset>>
Init == EnvInit /\ pipe = 0 /\ rset = {}

ReadySet == {f \in {"sock", "pipe"} : (f = "sock" /\ sock > 0) \/ (f = "pipe" /\ pipe > 0)}

Enter == Move("loop", "select") /\ UNCHANGED <<pipe, rset>>
Select == /\ ReadySet # {}
          /\ Move("select", "socket")
          /\ rset' = ReadySet
          /\ UNCHANGED pipe
MutTakeReplyDropped ==
  "sock" \in rset /\ Recvfrom("socket", "pipe") /\ UNCHANGED <<pipe, rset>>
TakeReply == /\ "sock" \in rset
             /\ Recvfrom("socket", "print")
             /\ UNCHANGED <<pipe, rset>>
SkipSocket == /\ "sock" \notin rset
              /\ Move("socket", "pipe")
              /\ UNCHANGED <<pipe, rset>>
Show == ShowReply("print", "pipe") /\ UNCHANGED <<pipe, rset>>
MutTimerExpiredLeavesByte ==            \* breaks without reading the pipe
  /\ "pipe" \in rset
  /\ Move("pipe", "fgets")
  /\ UNCHANGED <<pipe, rset>>
TimerExpired == /\ "pipe" \in rset
                /\ Move("pipe", "fgets")
                /\ pipe' = pipe - 1
                /\ UNCHANGED rset
NotExpired == /\ "pipe" \notin rset
              /\ Move("pipe", "loop")
              /\ UNCHANGED <<pipe, rset>>

(* select is never restarted: EINTR goes back to the top of the loop.      *)
MutSignalNoByte == Alarmed(pc) /\ UNCHANGED <<pipe, rset>>
Signal == /\ Alarmed(IF pc = "select" THEN "loop" ELSE pc)
          /\ pipe' = pipe + 1
          /\ UNCHANGED rset

Client == Enter \/ Select \/ TakeReply \/ SkipSocket \/ Show \/ TimerExpired
          \/ NotExpired \/ (Outer /\ UNCHANGED <<pipe, rset>>)
Next == Client \/ Signal \/ ((Expire \/ Reply) /\ UNCHANGED <<pipe, rset>>)
=============================================================================

----------------------------- MODULE StrCliStop -----------------------------
(***************************************************************************)
(* lib/str_cli.c (and tcpcliserv/tcpcli01.c): send a line, wait for the    *)
(* reply, print it, fetch the next line.  A unit of EchoPeer is a line.    *)
(***************************************************************************)
EXTENDS EchoPeer

VARIABLES pc, sendline, recvline

clientVars == <<pc, sendline, recvline>>

Entry == "fgets"
Locals == sendline = <<>> /\ recvline = <<>>

Fgets ==
  /\ pc = "fgets" /\ stdin # <<>>
  /\ sendline' = Take(stdin, 1) /\ stdin' = Tail(stdin)
  /\ pc' = "written"
  /\ UNCHANGED <<typed, eof, netVars, serverVars, outVars, recvline>>

EndOfInput ==
  /\ pc = "fgets" /\ stdin = <<>> /\ eof
  /\ pc' = "normal"
  /\ UNCHANGED <<peerVars, sendline, recvline>>

(* ECONNRESET cannot be pending here: all that was sent before was         *)
(* answered, so a server that ended since has sent a FIN.                  *)
Written ==
  /\ pc = "written" /\ UpRoom > 0
  /\ PutUp(sendline) /\ sendline' = <<>>
  /\ pc' = "readline"
  /\ UNCHANGED <<userVars, upFin, down, downFin, serverVars, outVars, recvline>>

BrokenPipe ==
  /\ pc = "written" /\ PutKills
  /\ pc' = "killed"
  /\ UNCHANGED <<peerVars, sendline, recvline>>

Readline ==
  /\ pc = "readline" /\ down # <<>>
  /\ recvline' = Take(down, 1) /\ down' = Tail(down)
  /\ pc' = "fputs"
  /\ UNCHANGED <<userVars, up, upFin, downFin, rst, serverVars, outVars, sendline>>

MutServerTerminatedPrints ==            \* tests for < 0 instead of == 0
  /\ pc = "readline" /\ AtEOF
  /\ pc' = "fputs"
  /\ UNCHANGED <<peerVars, sendline, recvline>>
ServerTerminated ==
  /\ pc = "readline" /\ AtEOF
  /\ pc' = "premature"
  /\ UNCHANGED <<peerVars, sendline, recvline>>

(* readline returns -1 for a reset, which only == 0 is tested against: the *)
(* line before is printed again.                                           *)
ReadlineError ==
  /\ pc = "readline" /\ AtReset
  /\ pc' = "fputs"
  /\ UNCHANGED <<userVars, up, upFin, down, downFin, serverVars, outVars, sendline,
                 recvline>>

Fputs ==
  /\ pc = "fputs" /\ OutRoom > 0
  /\ out' = out \o recvline
  /\ pc' = "fgets"
  /\ UNCHANGED <<userVars, netVars, serverVars, shown, sendline, recvline>>

Client == Fgets \/ EndOfInput \/ Written \/ BrokenPipe \/ Readline \/ ServerTerminated
          \/ ReadlineError \/ Fputs
-----------------------------------------------------------------------------
Returned == pc \in {"normal", "premature", "killed"}
ToSend == sendline
Recvd == IF pc = "fputs" THEN recvline ELSE <<>>

(* A wrong line (the previous one again) is printed only after a reset,    *)
(* and only once: the next line sent raises SIGPIPE.                       *)
StaleOnlyAfterReset ==
  \E k \in 0 .. Len(out) :
    /\ Take(out, k) = Numbers(k)
    /\ Len(out) - k <= IF rst = "spent" THEN 1 ELSE 0
=============================================================================

---------------------------- MODULE StrCliThread ----------------------------
(***************************************************************************)
(* threads/strclithread.c: str_cli() as two threads, copyto() from stdin   *)
(* to the socket and the main thread from the socket to stdout.  When the  *)
(* main thread returns the process ends.                                   *)
(***************************************************************************)
EXTENDS EchoPeer

VARIABLES main, recvline,       \* the main thread
          copy, sendline        \* copyto()

mainVars == <<main, recvline>>
copyVars == <<copy, sendline>>

Locals == main = "create" /\ recvline = <<>> /\ copy = "none" /\ sendline = <<>>

(* pthread_create, which may fail: main does not look, and reads what will *)
(* never come.                                                             *)
Create ==
  /\ main = "create"
  /\ main' = "readline" /\ copy' \in {"fgets", "failed"}
  /\ UNCHANGED <<peerVars, recvline, sendline>>

Readline ==
  /\ main = "readline" /\ TakeDown(1)
  /\ recvline' = Take(down, 1)
  /\ main' = "fputs"
  /\ UNCHANGED <<userVars, up, upFin, downFin, rst, serverVars, outVars, copyVars>>

Fputs ==
  /\ main = "fputs" /\ OutRoom > 0
  /\ out' = out \o recvline
  /\ main' = "readline"
  /\ UNCHANGED <<userVars, netVars, serverVars, shown, recvline, copyVars>>

(* readline is no longer > 0: end of file, or an error.                    *)
Return ==
  /\ main = "readline"
  /\ (AtEOF /\ UNCHANGED rst) \/ AtReset
  /\ main' = "returned"
  /\ UNCHANGED <<userVars, up, upFin, down, downFin, serverVars, outVars, recvline, copyVars>>

Fgets ==
  /\ copy = "fgets" /\ stdin # <<>>
  /\ sendline' = Take(stdin, 1) /\ stdin' = Tail(stdin)
  /\ copy' = "writen"
  /\ UNCHANGED <<typed, eof, netVars, serverVars, outVars, mainVars>>

Writen ==
  /\ copy = "writen" /\ UpRoom > 0
  /\ PutUp(sendline) /\ sendline' = <<>>
  /\ copy' = "fgets"
  /\ UNCHANGED <<userVars, upFin, down, downFin, serverVars, outVars, mainVars>>

WritenError ==
  /\ copy = "writen" /\ PutFails
  /\ sendline' = <<>> /\ copy' = "fgets"
  /\ UNCHANGED <<userVars, up, upFin, down, downFin, serverVars, outVars, mainVars>>

(* SIGPIPE kills the process, both threads of it.                          *)
BrokenPipe ==
  /\ copy = "writen" /\ PutKills
  /\ main' = "killed"
  /\ UNCHANGED <<peerVars, recvline, copyVars>>

MutShutdownBoth ==                      \* close instead of shutdown
  /\ copy = "fgets" /\ stdin = <<>> /\ eof
  /\ upFin' = TRUE /\ downFin' = TRUE
  /\ copy' = "ended"
  /\ UNCHANGED <<userVars, up, down, rst, serverVars, outVars, mainVars, sendline>>
Shutdown ==
  /\ copy = "fgets" /\ stdin = <<>> /\ eof
  /\ upFin' = TRUE
  /\ copy' = "ended"
  /\ UNCHANGED <<userVars, up, down, downFin, rst, serverVars, outVars, mainVars, sendline>>

Alive == main \notin {"returned", "killed"}
MainThread == Create \/ Readline \/ Fputs \/ Return
CopyThread == Alive /\ (Fgets \/ Writen \/ WritenError \/ BrokenPipe \/ Shutdown)

-----------------------------------------------------------------------------
Returned == ~Alive
NoCopier == copy = "failed"
ToSend == sendline
Recvd == IF main = "fputs" THEN recvline ELSE <<>>

(* The main thread returns only when copyto() has sent its FIN.            *)
ReturnsComplete == main = "returned" => copy = "ended" /\ AllShown
=============================================================================

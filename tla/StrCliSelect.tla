---------------------------- MODULE StrCliSelect ----------------------------
(***************************************************************************)
(* select/strcliselect02.c: str_cli() with select() and blocking calls.    *)
(* As the code stands, the write to stdout (line 34) is inside the branch  *)
(* for end of file, behind its return and exit, so it is never reached.    *)
(***************************************************************************)
EXTENDS EchoPeer

VARIABLES pc, stdineof, rset,
          buf           \* what written() has still to write

clientVars == <<pc, stdineof, rset, buf>>

Entry == "select"
Locals == stdineof = FALSE /\ rset = {} /\ buf = <<>>

Ready == (IF ~stdineof /\ (stdin # <<>> \/ eof) THEN {"stdin"} ELSE {})
         \cup (IF SockReadable THEN {"sock"} ELSE {})

Select ==
  /\ pc = "select" /\ Ready # {}
  /\ rset' = Ready
  /\ pc' = "sock"
  /\ UNCHANGED <<peerVars, stdineof, buf>>

(* Lines 22-36; a read error (n = -1) is passed over like data.            *)
SockData ==
  /\ pc = "sock" /\ "sock" \in rset
  /\ \/ TakeDown(MAXLINE) /\ UNCHANGED rst
     \/ AtReset /\ UNCHANGED down
  /\ pc' = "stdin"
  /\ UNCHANGED <<userVars, up, upFin, downFin, serverVars, outVars, stdineof, rset, buf>>

SockEOF ==
  /\ pc = "sock" /\ "sock" \in rset /\ AtEOF
  /\ pc' = IF stdineof THEN "normal" ELSE "premature"
  /\ UNCHANGED <<peerVars, stdineof, rset, buf>>

NoSock ==
  /\ pc = "sock" /\ "sock" \notin rset
  /\ pc' = "stdin"
  /\ UNCHANGED <<peerVars, stdineof, rset, buf>>

(* Lines 38-50.                                                            *)
StdinData ==
  /\ pc = "stdin" /\ "stdin" \in rset /\ stdin # <<>>
  /\ buf' = Take(stdin, MAXLINE)
  /\ stdin' = Drop(stdin, MAXLINE)
  /\ pc' = "written"
  /\ UNCHANGED <<typed, eof, netVars, serverVars, outVars, stdineof, rset>>

StdinEOF ==
  /\ pc = "stdin" /\ "stdin" \in rset /\ stdin = <<>>
  /\ stdineof' = TRUE /\ upFin' = TRUE
  /\ pc' = "select"
  /\ UNCHANGED <<userVars, up, down, downFin, rst, serverVars, outVars, rset, buf>>

NoStdin ==
  /\ pc = "stdin" /\ "stdin" \notin rset
  /\ pc' = "select"
  /\ UNCHANGED <<peerVars, stdineof, rset, buf>>

(* written(): it waits while the connection is full, and nobody reads.     *)
Written ==
  /\ pc = "written" /\ UpRoom > 0
  /\ PutUp(Take(buf, 1)) /\ buf' = Tail(buf)
  /\ pc' = IF Len(buf) = 1 THEN "select" ELSE "written"
  /\ UNCHANGED <<userVars, upFin, down, downFin, serverVars, outVars, stdineof, rset>>

WrittenError ==
  /\ pc = "written" /\ PutFails
  /\ buf' = <<>> /\ pc' = "select"
  /\ UNCHANGED <<userVars, up, upFin, down, downFin, serverVars, outVars, stdineof, rset>>

BrokenPipe ==
  /\ pc = "written" /\ PutKills
  /\ pc' = "killed"
  /\ UNCHANGED <<peerVars, stdineof, rset, buf>>

Client == Select \/ SockData \/ SockEOF \/ NoSock \/ StdinData \/ StdinEOF \/ NoStdin
          \/ Written \/ WrittenError \/ BrokenPipe
-----------------------------------------------------------------------------
Returned == pc \in {"normal", "premature", "killed"}
ToSend == buf

(* Client and server wait for each other to read.                          *)
Deadlocked == /\ pc = "written" /\ UpRoom = 0
              /\ ~crashed /\ srv # <<>> /\ Len(down) = downCap
=============================================================================

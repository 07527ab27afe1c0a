---------------------------- MODULE StrCliStdio ----------------------------
(***************************************************************************)
(* select/strcliselect01.c: str_cli() with select(), but with fgets and    *)
(* readline behind it.  Both read ahead into buffers of their own (stdio's *)
(* and read_buf of lib/readline.c), where select does not look.  A unit of *)
(* EchoPeer is a line.                                                     *)
(***************************************************************************)
EXTENDS EchoPeer

VARIABLES pc, rset, sendline, recvline,
          iobuf,        \* lines in the stdio buffer of fp
          rdbuf         \* lines in the buffer of readline

clientVars == <<pc, rset, sendline, recvline, iobuf, rdbuf>>

Entry == "select"
Locals == rset = {} /\ sendline = <<>> /\ recvline = <<>>
          /\ iobuf = <<>> /\ rdbuf = <<>>

MutReadyNoSock == IF stdin # <<>> \/ eof THEN {"stdin"} ELSE {}
Ready == (IF stdin # <<>> \/ eof THEN {"stdin"} ELSE {})
         \cup (IF SockReadable THEN {"sock"} ELSE {})

Select ==
  /\ pc = "select" /\ Ready # {}
  /\ rset' = Ready
  /\ pc' = "sock"
  /\ UNCHANGED <<peerVars, sendline, recvline, iobuf, rdbuf>>

(* readline (line 21): one line from its buffer, which is filled when it   *)
(* is empty.  -1 is not looked at: recvline is printed as it is.           *)
Readline ==
  /\ pc = "sock" /\ "sock" \in rset
  /\ \/ /\ rdbuf # <<>>
        /\ recvline' = Take(rdbuf, 1) /\ rdbuf' = Tail(rdbuf)
        /\ UNCHANGED <<down, rst>>
     \/ /\ rdbuf = <<>> /\ TakeDown(MAXLINE)
        /\ recvline' = Take(down, 1) /\ rdbuf' = Tail(Take(down, MAXLINE))
        /\ UNCHANGED rst
     \/ /\ rdbuf = <<>> /\ AtReset
        /\ UNCHANGED <<down, recvline, rdbuf>>
  /\ pc' = "fputs"
  /\ UNCHANGED <<userVars, up, upFin, downFin, serverVars, outVars, rset, sendline, iobuf>>

ServerTerminated ==
  /\ pc = "sock" /\ "sock" \in rset /\ rdbuf = <<>> /\ AtEOF
  /\ pc' = "premature"
  /\ UNCHANGED <<peerVars, rset, sendline, recvline, iobuf, rdbuf>>

Fputs ==
  /\ pc = "fputs" /\ OutRoom > 0
  /\ out' = out \o recvline
  /\ pc' = "stdin"
  /\ UNCHANGED <<userVars, netVars, serverVars, shown, rset, sendline, recvline,
                 iobuf, rdbuf>>

NoSock ==
  /\ pc = "sock" /\ "sock" \notin rset
  /\ pc' = "stdin"
  /\ UNCHANGED <<peerVars, rset, sendline, recvline, iobuf, rdbuf>>

(* fgets (line 32): one line from the stdio buffer, filled when empty.     *)
Fgets ==
  /\ pc = "stdin" /\ "stdin" \in rset
  /\ LET have == IF iobuf # <<>> THEN iobuf ELSE Take(stdin, MAXLINE)
     IN  /\ have # <<>>
         /\ sendline' = Take(have, 1) /\ iobuf' = Tail(have)
         /\ stdin' = IF iobuf # <<>> THEN stdin ELSE Drop(stdin, MAXLINE)
  /\ pc' = "writen"
  /\ UNCHANGED <<typed, eof, netVars, serverVars, outVars, rset, recvline, rdbuf>>

AllDone ==
  /\ pc = "stdin" /\ "stdin" \in rset /\ iobuf = <<>> /\ stdin = <<>> /\ eof
  /\ pc' = "normal"
  /\ UNCHANGED <<peerVars, rset, sendline, recvline, iobuf, rdbuf>>

NoStdin ==
  /\ pc = "stdin" /\ "stdin" \notin rset
  /\ pc' = "select"
  /\ UNCHANGED <<peerVars, rset, sendline, recvline, iobuf, rdbuf>>

Writen ==
  /\ pc = "writen" /\ UpRoom > 0
  /\ PutUp(sendline) /\ sendline' = <<>>
  /\ pc' = "select"
  /\ UNCHANGED <<userVars, upFin, down, downFin, serverVars, outVars, rset, recvline,
                 iobuf, rdbuf>>

WritenError ==
  /\ pc = "writen" /\ PutFails
  /\ sendline' = <<>> /\ pc' = "select"
  /\ UNCHANGED <<userVars, up, upFin, down, downFin, serverVars, outVars, rset,
                 recvline, iobuf, rdbuf>>

BrokenPipe ==
  /\ pc = "writen" /\ PutKills
  /\ pc' = "killed"
  /\ UNCHANGED <<peerVars, rset, sendline, recvline, iobuf, rdbuf>>

Client == Select \/ Readline \/ ServerTerminated \/ Fputs \/ NoSock \/ Fgets \/ AllDone
          \/ NoStdin \/ Writen \/ WritenError \/ BrokenPipe
-----------------------------------------------------------------------------
Returned == pc \in {"normal", "premature", "killed"}
ToSend == sendline \o iobuf
Recvd == (IF pc = "fputs" THEN recvline ELSE <<>>) \o rdbuf

(* select waits while lines sleep in one of the hidden buffers.            *)
Asleep == pc = "select" /\ Ready = {} /\ (iobuf # <<>> \/ rdbuf # <<>>)
Deadlocked == /\ pc = "writen" /\ UpRoom = 0
              /\ ~crashed /\ srv # <<>> /\ Len(down) = downCap
=============================================================================

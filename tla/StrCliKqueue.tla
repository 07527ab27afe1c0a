---------------------------- MODULE StrCliKqueue ----------------------------
(***************************************************************************)
(* advio/str_cli_kqueue04.c: str_cli() with kqueue and blocking calls.     *)
(* Of a regular file kqueue reports the units left, and reports nothing at *)
(* the end of the file: the client takes a read of all that was left for   *)
(* the end of its input (line 50).                                         *)
(***************************************************************************)
EXTENDS EchoPeer

VARIABLES pc, isfile, stdineof, registered,
          kev,          \* events still to handle
          left,         \* kev.data of the event for stdin
          n,            \* what the last read of stdin returned
          obuf, ibuf    \* being written to stdout, to the socket

clientVars == <<pc, isfile, stdineof, registered, kev, left, n, obuf, ibuf>>

(* The input is a terminal or pipe, or a file that is there from the start.*)
FileInput ==
  /\ typed \in 0 .. MaxFile /\ stdin = Numbers(typed) /\ eof = TRUE
  /\ up = <<>> /\ upFin = FALSE /\ srv = <<>> /\ crashed = FALSE
  /\ down = <<>> /\ downFin = FALSE /\ rst = "none" /\ out = <<>> /\ shown = 0
Entry == "kevent"
Locals ==
  /\ isfile \in BOOLEAN
  /\ stdineof = FALSE /\ registered = TRUE
  /\ kev = <<>> /\ left = 0 /\ n = 0 /\ obuf = <<>> /\ ibuf = <<>>

StdinEvent == registered /\ (stdin # <<>> \/ (eof /\ ~isfile))
Events == (IF StdinEvent THEN {"stdin"} ELSE {}) \cup (IF SockReadable THEN {"sock"} ELSE {})
Orders == {s \in {<<>>, <<"stdin">>, <<"sock">>, <<"stdin", "sock">>, <<"sock", "stdin">>} :
             {s[j] : j \in 1 .. Len(s)} = Events}

Kevent ==
  /\ pc = "kevent" /\ kev = <<>> /\ Events # {}
  /\ kev' \in Orders
  /\ left' = Len(stdin)
  /\ pc' = "event"
  /\ UNCHANGED <<peerVars, isfile, stdineof, registered, n, obuf, ibuf>>

NoMoreEvents ==
  /\ pc = "event" /\ kev = <<>>
  /\ pc' = "kevent"
  /\ UNCHANGED <<peerVars, isfile, stdineof, registered, kev, left, n, obuf, ibuf>>

Event(id) == pc = "event" /\ kev # <<>> /\ Head(kev) = id

(* Lines 26-41; after a read error (n = -1) the write to stdout fails too. *)
SockData ==
  /\ Event("sock") /\ TakeDown(MAXLINE)
  /\ obuf' = Take(down, MAXLINE)
  /\ kev' = Tail(kev)
  /\ pc' = "stdout"
  /\ UNCHANGED <<userVars, up, upFin, downFin, rst, serverVars, outVars, isfile,
                 stdineof, registered, left, n, ibuf>>

SockReset ==
  /\ Event("sock") /\ AtReset
  /\ kev' = Tail(kev)
  /\ UNCHANGED <<userVars, up, upFin, down, downFin, serverVars, outVars, pc, isfile,
                 stdineof, registered, left, n, obuf, ibuf>>

SockEOF ==
  /\ Event("sock") /\ AtEOF
  /\ pc' = IF stdineof THEN "normal" ELSE "premature"
  /\ UNCHANGED <<peerVars, isfile, stdineof, registered, kev, left, n, obuf, ibuf>>

WriteStdout ==
  /\ pc = "stdout" /\ OutRoom > 0
  /\ out' = Append(out, Head(obuf)) /\ obuf' = Tail(obuf)
  /\ pc' = IF Len(obuf) = 1 THEN "event" ELSE "stdout"
  /\ UNCHANGED <<userVars, netVars, serverVars, shown, isfile, stdineof, registered,
                 kev, left, n, ibuf>>

(* Lines 43-58.                                                            *)
StdinRead ==
  /\ Event("stdin")
  /\ stdin # <<>> \/ eof
  /\ ibuf' = Take(stdin, MAXLINE) /\ n' = Len(Take(stdin, MAXLINE))
  /\ stdin' = Drop(stdin, MAXLINE)
  /\ kev' = Tail(kev)
  /\ pc' = IF stdin = <<>> THEN "eof?" ELSE "writen"
  /\ UNCHANGED <<typed, eof, netVars, serverVars, outVars, isfile, stdineof,
                 registered, left, obuf>>

Writen ==
  /\ pc = "writen" /\ UpRoom > 0
  /\ PutUp(Take(ibuf, 1)) /\ ibuf' = Tail(ibuf)
  /\ pc' = IF Len(ibuf) = 1 THEN "eof?" ELSE "writen"
  /\ UNCHANGED <<userVars, upFin, down, downFin, serverVars, outVars, isfile,
                 stdineof, registered, kev, left, n, obuf>>

WritenError ==
  /\ pc = "writen" /\ PutFails
  /\ ibuf' = <<>> /\ pc' = "eof?"
  /\ UNCHANGED <<userVars, up, upFin, down, downFin, serverVars, outVars, isfile,
                 stdineof, registered, kev, left, n, obuf>>

BrokenPipe ==
  /\ pc = "writen" /\ PutKills
  /\ pc' = "killed"
  /\ UNCHANGED <<peerVars, isfile, stdineof, registered, kev, left, n, obuf, ibuf>>

MutAtEndShortRead == n < MAXLINE        \* a short read is taken for the end
AtEnd == n = 0 \/ (isfile /\ n = left)

CheckEnd ==
  /\ pc = "eof?"
  /\ IF AtEnd THEN stdineof' = TRUE /\ upFin' = TRUE /\ registered' = FALSE
              ELSE UNCHANGED <<stdineof, upFin, registered>>
  /\ pc' = "event"
  /\ UNCHANGED <<userVars, up, down, downFin, rst, serverVars, outVars, isfile, kev,
                 left, n, obuf, ibuf>>

Client == Kevent \/ NoMoreEvents \/ SockData \/ SockReset \/ SockEOF \/ WriteStdout
          \/ StdinRead \/ Writen \/ WritenError \/ BrokenPipe \/ CheckEnd
-----------------------------------------------------------------------------
Returned == pc \in {"normal", "premature", "killed"}
ToSend == ibuf
Recvd == obuf
Deadlocked == /\ pc = "writen" /\ UpRoom = 0
              /\ ~crashed /\ srv # <<>> /\ Len(down) = downCap
=============================================================================

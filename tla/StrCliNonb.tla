----------------------------- MODULE StrCliNonb -----------------------------
(***************************************************************************)
(* nonblock/strclinonb.c: str_cli() with non-blocking descriptors and two  *)
(* buffers, to[] (stdin to socket) and fr[] (socket to stdout).            *)
(*                                                                         *)
(*   select -> stdin -> sockin -> stdout -> sockout -> select              *)
(***************************************************************************)
EXTENDS EchoPeer

VARIABLES pc,           \* the stage, or how str_cli returned
          to, toiptr, tooptr, fr, friptr, froptr,
          stdineof, rset, wset

bufVars == <<to, toiptr, tooptr, fr, friptr, froptr>>

Cells == 0 .. MAXLINE - 1
(* The units of a buffer from its out pointer up to its in pointer.        *)
Content(b, o, k) == [j \in 1 .. k - o |-> b[o + j - 1]]
(* The buffer after k units of data were stored from pointer p on.         *)
Store(b, p, data) == [c \in Cells |-> IF p <= c /\ c < p + Len(data) THEN data[c - p + 1]
                                      ELSE b[c]]

Entry == "select"
Locals ==
  /\ to = [c \in Cells |-> 0] /\ toiptr = 0 /\ tooptr = 0
  /\ fr = [c \in Cells |-> 0] /\ friptr = 0 /\ froptr = 0
  /\ stdineof = FALSE /\ rset = {} /\ wset = {}

If(cond, x) == IF cond THEN {x} ELSE {}

(* Lines 47-58.                                                            *)
MutWantReadAlways == If(~stdineof, "stdin") \cup {"sock"}
WantRead == If(~stdineof /\ toiptr < MAXLINE, "stdin") \cup If(friptr < MAXLINE, "sock")
WantWrite == If(tooptr # toiptr, "sock") \cup If(froptr # friptr, "stdout")
CanRead == If(stdin # <<>> \/ eof, "stdin") \cup If(SockReadable, "sock")
CanWrite == If(UpRoom > 0 \/ rst # "none", "sock") \cup If(OutRoom > 0, "stdout")

Select ==
  /\ pc = "select"
  /\ rset' = WantRead \cap CanRead
  /\ wset' = WantWrite \cap CanWrite
  /\ rset' \cup wset' # {}
  /\ pc' = "stdin"
  /\ UNCHANGED <<peerVars, bufVars, stdineof>>

(* A stage whose FD_ISSET (or count) says no.                              *)
Skip(stage, next, cond) ==
  /\ pc = stage /\ ~cond
  /\ pc' = next
  /\ UNCHANGED <<peerVars, bufVars, stdineof, rset, wset>>

-----------------------------------------------------------------------------
(* Lines 60-85.  The read asks for the room that is left in to[].          *)
StdinData ==
  /\ pc = "stdin" /\ "stdin" \in rset
  /\ LET k == Smaller(Len(stdin), MAXLINE - toiptr)
     IN  /\ k > 0
         /\ to' = Store(to, toiptr, Take(stdin, k))
         /\ toiptr' = toiptr + k
         /\ stdin' = Drop(stdin, k)
  /\ wset' = wset \cup {"sock"}
  /\ pc' = "sockin"
  /\ UNCHANGED <<typed, eof, netVars, serverVars, outVars, tooptr, fr, friptr,
                 froptr, stdineof, rset>>

(* read returns 0 at the end of input, and also when it asks for nothing.  *)
StdinEOF ==
  /\ pc = "stdin" /\ "stdin" \in rset
  /\ stdin = <<>> \/ toiptr = MAXLINE
  /\ stdineof' = TRUE
  /\ upFin' = (upFin \/ tooptr = toiptr)
  /\ pc' = "sockin"
  /\ UNCHANGED <<userVars, up, down, downFin, rst, serverVars, outVars, bufVars,
                 rset, wset>>

(* Lines 87-115.                                                           *)
SockData ==
  /\ pc = "sockin" /\ "sock" \in rset
  /\ LET k == Smaller(Len(down), MAXLINE - friptr)
     IN  /\ TakeDown(k)
         /\ fr' = Store(fr, friptr, Take(down, k))
         /\ friptr' = friptr + k
  /\ wset' = wset \cup {"stdout"}
  /\ pc' = "stdout"
  /\ UNCHANGED <<userVars, up, upFin, downFin, rst, serverVars, outVars, to,
                 toiptr, tooptr, froptr, stdineof, rset>>

SockEOF ==
  /\ pc = "sockin" /\ "sock" \in rset /\ AtEOF
  /\ pc' = IF stdineof THEN "normal" ELSE "premature"
  /\ UNCHANGED <<peerVars, bufVars, stdineof, rset, wset>>

SockReset ==
  /\ pc = "sockin" /\ "sock" \in rset /\ AtReset
  /\ pc' = "readerror"
  /\ UNCHANGED <<userVars, up, upFin, down, downFin, serverVars, outVars, bufVars,
                 stdineof, rset, wset>>

(* Lines 117-134.  write takes what there is room for, or EWOULDBLOCK.     *)
WriteStdout == "stdout" \in wset /\ friptr > froptr

MutStdoutDataRewinds ==                \* back to the beginning after any write
  /\ pc = "stdout" /\ WriteStdout
  /\ out' = out \o Content(fr, froptr, froptr + Smaller(friptr - froptr, OutRoom))
  /\ froptr' = 0 /\ friptr' = 0
  /\ pc' = "sockout"
  /\ UNCHANGED <<userVars, netVars, serverVars, shown, to, toiptr, tooptr, fr,
                 stdineof, rset, wset>>

StdoutData ==
  /\ pc = "stdout" /\ WriteStdout
  /\ LET k == Smaller(friptr - froptr, OutRoom)
         drained == froptr + k = friptr
     IN  /\ out' = out \o Content(fr, froptr, froptr + k)
         /\ froptr' = IF drained THEN 0 ELSE froptr + k
         /\ friptr' = IF drained THEN 0 ELSE friptr
  /\ pc' = "sockout"
  /\ UNCHANGED <<userVars, netVars, serverVars, shown, to, toiptr, tooptr, fr,
                 stdineof, rset, wset>>

(* Lines 136-158.                                                          *)
WriteSock == "sock" \in wset /\ toiptr > tooptr

MutSockOutNoFin ==                    \* no shutdown at line 155
  /\ pc = "sockout" /\ WriteSock
  /\ LET k == Smaller(toiptr - tooptr, UpRoom)
         drained == tooptr + k = toiptr
     IN  /\ PutUp(Content(to, tooptr, tooptr + k))
         /\ tooptr' = IF drained THEN 0 ELSE tooptr + k
         /\ toiptr' = IF drained THEN 0 ELSE toiptr
         /\ UNCHANGED upFin
  /\ pc' = "select"
  /\ UNCHANGED <<userVars, down, downFin, serverVars, outVars, to, fr, friptr,
                 froptr, stdineof, rset, wset>>

SockOut ==
  /\ pc = "sockout" /\ WriteSock
  /\ LET k == Smaller(toiptr - tooptr, UpRoom)
         drained == tooptr + k = toiptr
     IN  /\ PutUp(Content(to, tooptr, tooptr + k))
         /\ tooptr' = IF drained THEN 0 ELSE tooptr + k
         /\ toiptr' = IF drained THEN 0 ELSE toiptr
         /\ upFin' = (upFin \/ (drained /\ stdineof))
  /\ pc' = "select"
  /\ UNCHANGED <<userVars, down, downFin, serverVars, outVars, to, fr, friptr,
                 froptr, stdineof, rset, wset>>

SockOutError ==
  /\ pc = "sockout" /\ WriteSock /\ PutFails
  /\ pc' = "writeerror"
  /\ UNCHANGED <<userVars, up, upFin, down, downFin, serverVars, outVars, bufVars,
                 stdineof, rset, wset>>

BrokenPipe ==
  /\ pc = "sockout" /\ WriteSock /\ PutKills
  /\ pc' = "killed"
  /\ UNCHANGED <<peerVars, bufVars, stdineof, rset, wset>>

Client == \/ Select \/ StdinData \/ StdinEOF \/ SockData \/ SockEOF \/ SockReset
          \/ StdoutData \/ SockOut \/ SockOutError \/ BrokenPipe
          \/ Skip("stdin", "sockin", "stdin" \in rset)
          \/ Skip("sockin", "stdout", "sock" \in rset)
          \/ Skip("stdout", "sockout", WriteStdout)
          \/ Skip("sockout", "select", WriteSock)
clientVars == <<pc, bufVars, stdineof, rset, wset>>

-----------------------------------------------------------------------------
Returned == pc \in {"normal", "premature", "readerror", "writeerror", "killed"}
ToSend == Content(to, tooptr, toiptr)
Recvd == Content(fr, froptr, friptr)

(* The pointers of each buffer stay in order and inside it, and a read is  *)
(* never asked for zero units, which would look like the end of the input  *)
(* or of the connection.                                                   *)
RoomToRead == /\ tooptr <= toiptr /\ toiptr <= MAXLINE
              /\ froptr <= friptr /\ friptr <= MAXLINE
              /\ pc = "stdin" /\ "stdin" \in rset => toiptr < MAXLINE
              /\ pc = "sockin" /\ "sock" \in rset => friptr < MAXLINE

(* What normal termination leaves unshown is exactly what is in fr[].      *)
OnlyFrIsLost == pc = "normal" => out \o Recvd = Numbers(typed) /\ stdin = <<>>
=============================================================================

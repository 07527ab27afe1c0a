---------------------------- MODULE EchoClients ----------------------------
(***************************************************************************)
(* The six str_cli() of the repository, one of which is linked into the    *)
(* client, and what is expected of them: nothing is lost or reordered, the *)
(* FIN follows the last line, and the client comes to its end.             *)
(***************************************************************************)
EXTENDS EchoPeer

CONSTANT Variants       \* the implementations looked at

ASSUME VariantsAssumption ==
  Variants \subseteq {"nonb", "stop", "select", "stdio", "thread", "kqueue"}

VARIABLES variant, pc, stdineof, rset,
          to, toiptr, tooptr, fr, friptr, froptr, wset,         \* nonb
          sendline, recvline,                   \* stop, stdio, thread
          buf,                                  \* select
          iobuf, rdbuf,                         \* stdio
          main, copy,                           \* thread
          isfile, registered, kev, left, n, obuf, ibuf          \* kqueue

loopVars == <<stdineof, rset>>
nonbVars == <<to, toiptr, tooptr, fr, friptr, froptr, wset>>
lineVars == <<sendline, recvline>>
stdioVars == <<iobuf, rdbuf>>
threadVars == <<main, copy>>
kqVars == <<isfile, registered, kev, left, n, obuf, ibuf>>
clientVars == <<pc, loopVars, nonbVars, lineVars, buf, stdioVars, threadVars, kqVars>>
vars == <<peerVars, downCap, variant, clientVars>>

Nonb == INSTANCE StrCliNonb
Stop == INSTANCE StrCliStop
Select == INSTANCE StrCliSelect
Stdio == INSTANCE StrCliStdio
Thread == INSTANCE StrCliThread
Kqueue == INSTANCE StrCliKqueue

Init ==
  /\ variant \in Variants /\ downCap \in DownCaps
  /\ pc = CASE variant = "nonb" -> Nonb!Entry     [] variant = "stop" -> Stop!Entry
            [] variant = "select" -> Select!Entry [] variant = "stdio" -> Stdio!Entry
            [] variant = "thread" -> "thread"     [] variant = "kqueue" -> Kqueue!Entry
  /\ Nonb!Locals /\ Stop!Locals /\ Select!Locals /\ Stdio!Locals /\ Thread!Locals
  /\ Kqueue!Locals
  /\ variant # "kqueue" => ~isfile
  /\ IF isfile THEN Kqueue!FileInput ELSE PeerInit

Client ==
  /\ \/ /\ variant = "nonb" /\ Nonb!Client
        /\ UNCHANGED <<lineVars, buf, stdioVars, threadVars, kqVars>>
     \/ /\ variant = "stop" /\ Stop!Client
        /\ UNCHANGED <<loopVars, nonbVars, buf, stdioVars, threadVars, kqVars>>
     \/ /\ variant = "select" /\ Select!Client
        /\ UNCHANGED <<nonbVars, lineVars, stdioVars, threadVars, kqVars>>
     \/ /\ variant = "stdio" /\ Stdio!Client
        /\ UNCHANGED <<stdineof, nonbVars, buf, threadVars, kqVars>>
     \/ /\ variant = "kqueue" /\ Kqueue!Client
        /\ UNCHANGED <<rset, nonbVars, lineVars, buf, stdioVars, threadVars>>
  /\ UNCHANGED <<variant, downCap>>

ByThread(A) ==
  /\ variant = "thread" /\ A
  /\ UNCHANGED <<variant, downCap, pc, loopVars, nonbVars, buf, stdioVars, kqVars>>
MainThread == ByThread(Thread!MainThread)
CopyThread == ByThread(Thread!CopyThread)

Around(A) == A /\ UNCHANGED <<variant, downCap, clientVars>>

Next == Client \/ MainThread \/ CopyThread \/ Around(Environment)

(* Each thread of the client runs, and so does the echo server; stdout is  *)
(* read.  The user need not type or end the input, no process need crash.  *)
Spec == Init /\ [][Next]_vars
        /\ WF_vars(Client) /\ WF_vars(MainThread) /\ WF_vars(CopyThread)
        /\ WF_vars(Around(Drain)) /\ WF_vars(Around(Server))
-----------------------------------------------------------------------------
(* What the client that is linked holds, and where it is.                  *)
Of(a, b, c, d, e, f) ==
  CASE variant = "nonb" -> a  [] variant = "stop" -> b   [] variant = "select" -> c
    [] variant = "stdio" -> d [] variant = "thread" -> e [] variant = "kqueue" -> f
ToSend == Of(Nonb!ToSend, Stop!ToSend, Select!ToSend, Stdio!ToSend, Thread!ToSend,
             Kqueue!ToSend)
Recvd == Of(Nonb!Recvd, Stop!Recvd, <<>>, Stdio!Recvd, Thread!Recvd, Kqueue!Recvd)
Returned == Of(Nonb!Returned, Stop!Returned, Select!Returned, Stdio!Returned,
               Thread!Returned, Kqueue!Returned)

(* Client and server each wait for the other to read.  That is excused     *)
(* only where the connection towards the client is small beside the        *)
(* buffers, as it holds less than what the client may write between two    *)
(* reads; and never in strclinonb, which does not block in a write, nor    *)
(* with threads, one of which always reads.                                *)
TooSmall(written) == downCap + 2 <= Smaller(UpCap, MAXLINE) + written
Deadlocked == Of(FALSE, FALSE, Select!Deadlocked /\ TooSmall(MAXLINE),
                 Stdio!Deadlocked /\ TooSmall(1), FALSE,
                 Kqueue!Deadlocked /\ TooSmall(2 * MAXLINE))

(* Partial reads and writes, EWOULDBLOCK, pointers that are reset, lines   *)
(* read ahead and events out of order lose and reorder nothing: as long as *)
(* the server lives, what was typed is in order somewhere on the way       *)
(* round.  (strcliselect02 throws away what it receives.)                  *)
NothingLost ==
  ~crashed /\ variant # "select" => Pipeline(Recvd, ToSend) = Numbers(typed)

(* The client sends its FIN only when all input has been sent: after the   *)
(* FIN nothing is left to write.  In particular a read of kev.data units   *)
(* is the last of a file, for files of any length.                         *)
FinAfterAll == upFin => eof /\ stdin = <<>> /\ ToSend = <<>>

(* The pointers of both buffers of strclinonb.c stay in order and inside,  *)
(* and read is never asked for zero units: the 0 returned would look like  *)
(* the end of the input or of the connection.                              *)
RoomToRead == variant = "nonb" => Nonb!RoomToRead

(* When the client returns for the end of its input with the server alive, *)
(* everything has been echoed, and both threads are done.  strclinonb      *)
(* leaves exactly what is in fr[].  (The two select versions are excluded: *)
(* strcliselect01 does not wait, strcliselect02 never shows anything.)     *)
NormalIsEchoed ==
  ~crashed => CASE variant = "nonb" -> Nonb!OnlyFrIsLost
                [] variant \in {"stop", "kqueue"} -> pc = "normal" => AllShown
                [] variant = "thread" -> Thread!ReturnsComplete
                [] OTHER -> TRUE

(* A wrong line (the previous one again) is printed only after a reset,    *)
(* and only once: the next line sent raises SIGPIPE.                       *)
StaleOnlyAfterReset == variant = "stop" => Stop!StaleOnlyAfterReset

(* The end of the input ends the client, whatever is full in between,      *)
(* unless client and server are deadlocked, kqueue is given an empty file, *)
(* for which no event ever comes, or pthread_create failed.                *)
Terminates ==
  eof ~> \/ Returned \/ Deadlocked \/ (isfile /\ typed = 0)
         \/ variant = "thread" /\ Thread!NoCopier

(* Without waiting for the end of the input every line comes back, unless  *)
(* the server crashes, client and server are deadlocked, the line sleeps   *)
(* in a buffer select does not see, the client gives up at the end of its  *)
(* input with lines on their way, or pthread_create failed.                *)
EveryLineEchoed ==
  Len(out) < typed ~> \/ Len(out) = typed \/ crashed \/ Deadlocked \/ variant = "select"
                      \/ variant = "stdio" /\ (eof \/ Stdio!Asleep)
                      \/ variant = "nonb" /\ pc = "normal"
                      \/ variant = "thread" /\ Thread!NoCopier

(* The comment of strclinonb.c, line 101, "normal termination": everything *)
(* that was typed has been echoed to stdout.                               *)
NormalIsComplete == pc = "normal" /\ ~crashed => AllShown
=============================================================================

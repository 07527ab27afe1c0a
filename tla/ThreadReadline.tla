---------------------------- MODULE ThreadReadline ----------------------------
(***************************************************************************)
(* threads/readline.c: readline() with a buffer for each thread, and       *)
(* lib/readline1.c, which reads one byte at a time and keeps none.  Each   *)
(* thread reads lines from a stream of its own until there are no more.    *)
(* A byte is its thread and whether it is a newline.                       *)
(***************************************************************************)
EXTENDS AlarmProcess, Integers, Sequences

CONSTANTS RlThreads,
          RlStreams,      \* what a stream may hold: sequences of BOOLEAN
          RlBuf,          \* MAXLINE
          RlMax           \* maxlen

ASSUME RlAssumption == /\ RlStreams \subseteq Seq(BOOLEAN) /\ <<>> \in RlStreams
                       /\ RlBuf \in Nat \ {0} /\ RlMax \in Nat \ {0, 1}

VARIABLES slow,           \* readline1.c
          stream, rest,   \* what there was, and what has not been read
          rl,             \* rl_buf from rl_bufptr on, for each key
          line, rc,       \* the bytes stored, and what readline returns
          got,            \* history: the lines before, one after the other
          at              \* per thread: "loop", "returned", "over"

rlVars == <<slow, stream, rest, rl, line, rc, got, at>>

RlInit ==
  /\ slow \in BOOLEAN
  /\ \E s \in [RlThreads -> RlStreams] :
       stream = [t \in RlThreads |-> [i \in DOMAIN s[t] |-> [of |-> t, newline |-> s[t][i]]]]
  /\ rest = stream
  /\ rl = [t \in RlThreads |-> <<>>] /\ line = [t \in RlThreads |-> <<>>]
  /\ rc = [t \in RlThreads |-> 0] /\ got = [t \in RlThreads |-> <<>>]
  /\ at = [t \in RlThreads |-> "loop"]

-----------------------------------------------------------------------------
(* pthread_getspecific: the buffer of the calling thread.                  *)
MutRline(t) == CHOOSE u \in RlThreads : TRUE            \* a static buffer
Rline(t) == t

(* my_read finds its buffer empty.  EINTR reads again.                     *)
MyRead(t) ==
  /\ at[t] = "loop" /\ rl[Rline(t)] = <<>> /\ rest[t] # <<>>
  /\ \E n \in 1 .. (IF slow THEN 1 ELSE RlBuf) :
       /\ n <= Len(rest[t])
       /\ rl' = [rl EXCEPT ![Rline(t)] = SubSeq(rest[t], 1, n)]
       /\ rest' = [rest EXCEPT ![t] = SubSeq(@, n + 1, Len(@))]
  /\ UNCHANGED <<slow, stream, line, rc, got, at>>

Returns(t, r) == rc' = [rc EXCEPT ![t] = r] /\ at' = [at EXCEPT ![t] = "returned"]

(* End of file, n-1 bytes read; or an error.                               *)
ReadEnds(t) ==
  /\ at[t] = "loop" /\ rl[Rline(t)] = <<>>
  /\ \/ rest[t] = <<>> /\ Returns(t, Len(line[t]))
     \/ Returns(t, -1)
  /\ UNCHANGED <<slow, stream, rest, rl, line, got>>

(* One byte.  A full line returns maxlen, though it holds one byte less.   *)
TakeByte(t) ==
  /\ at[t] = "loop" /\ rl[Rline(t)] # <<>>
  /\ LET c == Head(rl[Rline(t)])
     IN  /\ line' = [line EXCEPT ![t] = Append(@, c)]
         /\ rl' = [rl EXCEPT ![Rline(t)] = Tail(@)]
         /\ IF c.newline THEN Returns(t, Len(line[t]) + 1)
            ELSE IF Len(line[t]) + 1 = RlMax - 1 THEN Returns(t, RlMax)
            ELSE UNCHANGED <<rc, at>>
  /\ UNCHANGED <<slow, stream, rest, got>>

(* The caller asks for the next line until there is none.                  *)
CallAgain(t) ==
  /\ at[t] = "returned"
  /\ IF rc[t] > 0 THEN /\ got' = [got EXCEPT ![t] = @ \o line[t]]
                       /\ line' = [line EXCEPT ![t] = <<>>]
                       /\ at' = [at EXCEPT ![t] = "loop"]
                  ELSE at' = [at EXCEPT ![t] = "over"] /\ UNCHANGED <<got, line>>
  /\ UNCHANGED <<slow, stream, rest, rl, rc>>

Readline == \E t \in RlThreads : MyRead(t) \/ ReadEnds(t) \/ TakeByte(t) \/ CallAgain(t)
RlSpec == RlInit /\ [][Readline]_rlVars
-----------------------------------------------------------------------------
(* Every thread gets the bytes of its own stream, in order, one line to a  *)
(* call, whatever the others read meanwhile; and is told how many, but for *)
(* a line that does not fit, which counts one more than it holds.          *)
LinesIntact ==
  \A t \in RlThreads :
    /\ got[t] \o line[t] \o rl[t] \o rest[t] = stream[t]
    /\ \A i \in 1 .. Len(line[t]) - 1 : ~line[t][i].newline
    /\ at[t] = "returned" /\ rc[t] >= 0 =>
         rc[t] = Len(line[t]) + (IF Len(line[t]) = RlMax - 1 /\ ~line[t][RlMax - 1].newline
                                   THEN 1 ELSE 0)
=============================================================================

--------------------------- MODULE EchoClientsProofs ---------------------------
(***************************************************************************)
(* Proofs about the six str_cli(): nothing is lost or reordered between    *)
(* the keyboard and the screen, and the FIN follows the last line.         *)
(***************************************************************************)
EXTENDS EchoClients, SequenceTheorems, TLAPS

(* a \o b, where only its laws are used.                                   *)
Cat(a, b) == a \o b

(* The way round without the server's hands: back from it, and to it.      *)
Left == Cat(Cat(out, Recvd), down)
Right == Cat(Cat(up, ToSend), stdin)

(* s is 1, 2, 3, ...                                                       *)
Counts(s) == \A i \in 1 .. Len(s) : s[i] = i

Results == {"none", "sent", "reset", "pipe", "spent"}

TypeInv ==
  /\ variant \in Variants
  /\ typed \in Nat /\ shown \in 0 .. Len(out)
  /\ eof \in BOOLEAN /\ upFin \in BOOLEAN /\ downFin \in BOOLEAN /\ crashed \in BOOLEAN
  /\ rst \in Results
  /\ stdin \in Seq(Nat) /\ up \in Seq(Nat) /\ srv \in Seq(Nat) /\ down \in Seq(Nat)
  /\ out \in Seq(Nat) /\ ToSend \in Seq(Nat) /\ Recvd \in Seq(Nat)

(* After the FIN of the server there is nothing on its side; it comes      *)
(* early only when the server has crashed, and only then is there a RST.   *)
PeerInv ==
  /\ rst # "none" => crashed
  /\ crashed => downFin
  /\ downFin => srv = <<>> /\ up = <<>>
  /\ downFin /\ ~crashed => upFin

-----------------------------------------------------------------------------
(* What holds of the client that is linked.                                *)
AtTheEnd == downFin /\ down = <<>>

NonbInv ==
  /\ pc \in {"select", "stdin", "sockin", "stdout", "sockout",
             "normal", "premature", "readerror", "writeerror", "killed"}
  /\ to \in [0 .. MAXLINE - 1 -> Nat] /\ fr \in [0 .. MAXLINE - 1 -> Nat]
  /\ tooptr \in 0 .. toiptr /\ toiptr \in 0 .. MAXLINE
  /\ froptr \in 0 .. friptr /\ friptr \in 0 .. MAXLINE
  /\ stdineof \in BOOLEAN
  /\ Len(up) <= UpCap /\ Len(out) - shown <= OutCap
  /\ pc = "stdin" /\ "stdin" \in rset => toiptr < MAXLINE /\ (stdin # <<>> \/ eof)
  /\ pc \in {"stdin", "sockin"} /\ "sock" \in rset => friptr < MAXLINE
  /\ stdineof => eof /\ stdin = <<>>
  /\ upFin => stdineof /\ tooptr = toiptr
  /\ pc = "normal" => AtTheEnd

(* One line is under way while the client waits for it, none else.         *)
StopInv ==
  /\ pc \in {"fgets", "written", "readline", "fputs", "normal", "premature", "killed"}
  /\ sendline \in Seq(Nat) /\ recvline \in Seq(Nat) /\ Len(recvline) <= 1
  /\ pc \notin {"written", "killed"} => sendline = <<>>
  /\ pc = "written" => Len(sendline) = 1
  /\ ~upFin
  /\ pc = "normal" => eof /\ stdin = <<>>
  /\ pc \in {"premature", "killed"} => crashed
  /\ ~crashed /\ pc = "readline" => Len(up) + Len(srv) + Len(down) = 1
  /\ ~crashed /\ pc # "readline" => up = <<>> /\ srv = <<>> /\ down = <<>>

(* What is printed is right as long as no reset was reported; then one     *)
(* wrong line at most.                                                     *)
OneWrong == \E k \in 0 .. Len(out) : Counts(Take(out, k)) /\ Len(out) - k <= 1
StaleInv ==
  /\ rst # "spent" => Counts(Left)
  /\ rst = "spent" => /\ pc # "readline" /\ (pc = "fputs" => Counts(out))
                      /\ OneWrong

SelectInv ==
  /\ pc \in {"select", "sock", "stdin", "written", "normal", "premature", "killed"}
  /\ buf \in Seq(Nat)
  /\ pc \notin {"written", "killed"} => buf = <<>>
  /\ pc = "written" => buf # <<>>
  /\ pc \in {"sock", "stdin"} /\ "stdin" \in rset => stdin # <<>> \/ eof

StdioInv ==
  /\ pc \in {"select", "sock", "fputs", "stdin", "writen", "normal", "premature", "killed"}
  /\ sendline \in Seq(Nat) /\ recvline \in Seq(Nat)
  /\ iobuf \in Seq(Nat) /\ rdbuf \in Seq(Nat)
  /\ pc \notin {"writen", "killed"} => sendline = <<>>
  /\ ~upFin

ThreadInv ==
  /\ main \in {"create", "readline", "fputs", "returned", "killed"}
  /\ copy \in {"none", "fgets", "failed", "writen", "ended"}
  /\ main = "create" => copy = "none"
  /\ sendline \in Seq(Nat) /\ recvline \in Seq(Nat)
  /\ copy # "writen" => sendline = <<>>
  /\ upFin => copy = "ended"
  /\ main = "returned" => AtTheEnd

(* kev.data is right until the read it is for; a read of all of it is the  *)
(* last.                                                                   *)
Expected == \E j \in 1 .. Len(kev) : kev[j] = "stdin"
KqueueInv ==
  /\ pc \in {"kevent", "event", "stdout", "writen", "eof?", "normal", "premature", "killed"}
  /\ kev \in Seq({"stdin", "sock"})
  /\ \A i, j \in 1 .. Len(kev) : kev[i] = kev[j] => i = j
  /\ obuf \in Seq(Nat) /\ ibuf \in Seq(Nat) /\ n \in Nat /\ left \in Nat
  /\ pc = "stdout" <=> obuf # <<>>
  /\ pc \notin {"writen", "killed"} => ibuf = <<>>
  /\ pc = "writen" => ibuf # <<>>
  /\ isfile => eof
  /\ isfile /\ Expected => left = Len(stdin)
  /\ pc \in {"writen", "eof?"} =>
       /\ ~Expected
       /\ n = 0 => eof /\ stdin = <<>>
       /\ isfile /\ n = left => stdin = <<>>
  /\ pc = "normal" => AtTheEnd

LocalInv ==
  /\ variant = "nonb" => NonbInv
  /\ variant = "stop" => StopInv /\ StaleInv
  /\ variant = "select" => SelectInv
  /\ variant = "stdio" => StdioInv
  /\ variant = "thread" => ThreadInv
  /\ variant = "kqueue" => KqueueInv

IInv == TypeInv /\ PeerInv /\ NothingLost /\ FinAfterAll /\ LocalInv

-----------------------------------------------------------------------------
(* Sequences: what the helpers of EchoPeer give.                           *)
LEMMA Joined ==
  ASSUME NEW a \in Seq(Nat), NEW b \in Seq(Nat)
  PROVE  Cat(a, b) \in Seq(Nat) /\ Len(Cat(a, b)) = Len(a) + Len(b)
BY ConcatProperties DEF Cat

LEMMA Associated ==
  ASSUME NEW a \in Seq(Nat), NEW b \in Seq(Nat), NEW c \in Seq(Nat)
  PROVE  Cat(Cat(a, b), c) = Cat(a, Cat(b, c))
BY ConcatAssociative DEF Cat

LEMMA WithNothing ==
  ASSUME NEW a \in Seq(Nat)
  PROVE  Cat(a, <<>>) = a /\ Cat(<<>>, a) = a
BY ConcatEmptySeq DEF Cat

LEMMA NothingInBoth ==
  ASSUME NEW a \in Seq(Nat), NEW b \in Seq(Nat), Cat(a, b) = <<>>
  PROVE  a = <<>> /\ b = <<>>
BY ConcatEqualIffEmpty DEF Cat

LEMMA Cut ==
  ASSUME NEW s \in Seq(Nat), NEW k \in Nat
  PROVE  /\ Take(s, k) \in Seq(Nat) /\ Drop(s, k) \in Seq(Nat)
         /\ Cat(Take(s, k), Drop(s, k)) = s
         /\ Len(Take(s, k)) = Smaller(k, Len(s))
<1>0. PICK m \in 0 .. Len(s) : m = Smaller(k, Len(s))
  BY DEF Smaller
<1>1. Take(s, k) = SubSeq(s, 1, m) /\ (\A i \in 1 .. m : s[i] \in Nat)
  BY <1>0 DEF Take
<1>2. Take(s, k) \in Seq(Nat) /\ Len(Take(s, k)) = m
  BY <1>0, <1>1, SubSeqProperties
<1>3. Drop(s, k) = SubSeq(s, m + 1, Len(s))
  <2>1. CASE k <= Len(s)
    <3>1. m = k
      BY <1>0, <2>1 DEF Smaller
    <3> QED
      BY <3>1 DEF Drop
  <2>2. CASE k > Len(s)
    <3>1. m = Len(s) /\ m + 1 \in Int /\ k + 1 \in Int /\ Len(s) \in Int
          /\ Len(s) < k + 1 /\ Len(s) < m + 1
      BY <1>0, <2>2 DEF Smaller
    <3>2. SubSeq(s, k + 1, Len(s)) = <<>> /\ SubSeq(s, m + 1, Len(s)) = <<>>
      BY <3>1, SubSeqEmpty
    <3> QED
      BY <3>2 DEF Drop
  <2> QED
    BY <2>1, <2>2
<1>4. Drop(s, k) \in Seq(Nat)
  BY <1>0, <1>3, SubSeqProperties
<1>5. Cat(SubSeq(s, 1, m), SubSeq(s, m + 1, Len(s))) = s
  <2>1. SubSeq(s, 1, m) \o SubSeq(s, m + 1, Len(s)) = SubSeq(s, 1, Len(s))
    <3>1. 1 \in 1 .. Len(s) + 1 /\ m \in 1 - 1 .. Len(s) /\ Len(s) \in m .. Len(s)
      BY <1>0
    <3> QED
      BY <3>1, ConcatAdjacentSubSeq
  <2> QED
    BY <2>1, SubSeqFull DEF Cat
<1> QED
  BY <1>0, <1>1, <1>2, <1>3, <1>4, <1>5

LEMMA CutOne ==
  ASSUME NEW s \in Seq(Nat), s # <<>>
  PROVE  /\ Take(s, 1) = <<Head(s)>> /\ Head(s) \in Nat
         /\ Take(s, 1) \in Seq(Nat) /\ Len(Take(s, 1)) = 1 /\ Cat(Take(s, 1), Tail(s)) = s
         /\ Tail(s) \in Seq(Nat) /\ Drop(s, 1) = Tail(s)
         /\ <<Head(s)>> \in Seq(Nat) /\ Cat(<<Head(s)>>, Tail(s)) = s
         /\ Len(Tail(s)) = Len(s) - 1
<1>1. Len(s) \in Nat \ {0} /\ s[1] \in Nat /\ Head(s) = s[1]
  OBVIOUS
<1>2. Tail(s) \in Seq(Nat) /\ Drop(s, 1) = Tail(s) /\ Len(Tail(s)) = Len(s) - 1
  BY <1>1, TailIsSubSeq, HeadTailProperties DEF Drop
<1>3. Take(s, 1) = <<Head(s)>> /\ <<Head(s)>> \in Seq(Nat)
  <2>1. Take(s, 1) \in Seq(Nat) /\ Len(Take(s, 1)) = 1 /\ Take(s, 1)[1] = s[1]
    <3>1. Take(s, 1) = SubSeq(s, 1, 1)
      BY <1>1 DEF Take, Smaller
    <3>2. \A i \in 1 .. 1 : s[i] \in Nat
      BY <1>1
    <3>3. /\ SubSeq(s, 1, 1) \in Seq(Nat)
          /\ Len(SubSeq(s, 1, 1)) = IF 1 <= 1 THEN 1 - 1 + 1 ELSE 0
          /\ \A i \in 1 .. 1 - 1 + 1 : SubSeq(s, 1, 1)[i] = s[1 + i - 1]
      BY <3>2, SubSeqProperties
    <3>4. /\ Len(SubSeq(s, 1, 1)) = 1
          /\ SubSeq(s, 1, 1)[1] = s[1]
      <4>1. 1 \in 1 .. 1 - 1 + 1
        OBVIOUS
      <4> QED
        BY <3>3, <4>1
    <3> QED
      BY <3>1, <3>3, <3>4
  <2>2. <<s[1]>> \in Seq(Nat) /\ Len(<<s[1]>>) = 1 /\ <<s[1]>>[1] = s[1]
    BY <1>1
  <2>3. Take(s, 1) = <<s[1]>>
    BY <2>1, <2>2, SeqEqual
  <2> QED
    BY <1>1, <2>2, <2>3
<1>4. Cat(Take(s, 1), Drop(s, 1)) = s
  BY Cut
<1> QED
  BY <1>1, <1>2, <1>3, <1>4

LEMMA Added ==
  ASSUME NEW s \in Seq(Nat), NEW x \in Nat
  PROVE  Append(s, x) = Cat(s, <<x>>) /\ Append(s, x) \in Seq(Nat) /\ <<x>> \in Seq(Nat)
BY AppendIsConcat, AppendProperties DEF Cat

(* What counts is Numbers, and so is its beginning.                        *)
LEMMA CountsNumbers ==
  /\ \A k \in Nat : Numbers(k) \in Seq(Nat) /\ Len(Numbers(k)) = k /\ Counts(Numbers(k))
  /\ \A s \in Seq(Nat) : Counts(s) <=> s = Numbers(Len(s))
  /\ \A k \in Nat : Numbers(k + 1) = Cat(Numbers(k), <<k + 1>>)
  /\ Numbers(0) = <<>>
<1>1. ASSUME NEW k \in Nat
      PROVE  Numbers(k) \in Seq(Nat) /\ Len(Numbers(k)) = k /\ Counts(Numbers(k))
  BY DEF Numbers, Counts
<1>2. ASSUME NEW s \in Seq(Nat) PROVE Counts(s) <=> s = Numbers(Len(s))
  <2>1. Len(s) \in Nat
    OBVIOUS
  <2>2. Counts(s) => s = Numbers(Len(s))
    BY <2>1 DEF Counts, Numbers
  <2> QED
    BY <1>1, <2>1, <2>2
<1>3. ASSUME NEW k \in Nat PROVE Numbers(k + 1) = Numbers(k) \o <<k + 1>>
  <2>1. /\ Numbers(k) \o <<k + 1>> \in Seq(Nat) /\ Len(Numbers(k) \o <<k + 1>>) = k + 1
        /\ \A i \in 1 .. k + 1 : (Numbers(k) \o <<k + 1>>)[i] =
                                   IF i <= k THEN Numbers(k)[i] ELSE <<k + 1>>[i - k]
    <3>0. <<k + 1>> \in Seq(Nat) /\ Len(<<k + 1>>) = 1
      OBVIOUS
    <3>1. PICK o \in Seq(Nat) : o = <<k + 1>> /\ Len(o) = 1
      BY <3>0
    <3>2. PICK t \in Seq(Nat) : t = Numbers(k) /\ Len(t) = k
      BY <1>1
    <3>3. /\ t \o o \in Seq(Nat) /\ Len(t \o o) = Len(t) + Len(o)
          /\ \A i \in 1 .. Len(t) + Len(o) : (t \o o)[i] =
                IF i <= Len(t) THEN t[i] ELSE o[i - Len(t)]
      BY <3>1, <3>2, ConcatProperties
    <3> QED
      BY <3>1, <3>2, <3>3
  <2>2. Counts(Numbers(k) \o <<k + 1>>)
    <3>1. PICK t \in Seq(Nat) : t = Numbers(k) \o <<k + 1>>
      BY <2>1
    <3>2. \A i \in 1 .. k : Numbers(k)[i] = i
      BY DEF Numbers
    <3>3. \A i \in 1 .. k + 1 : t[i] = i
      BY <2>1, <3>1, <3>2
    <3> QED
      BY <2>1, <3>1, <3>3 DEF Counts
  <2> QED
    BY <1>2, <2>1, <2>2
<1>4. Numbers(0) = <<>>
  BY <1>1
<1> QED
  BY <1>1, <1>2, <1>3, <1>4 DEF Cat

LEMMA CountsPrefix ==
  ASSUME NEW a \in Seq(Nat), NEW b \in Seq(Nat), Counts(Cat(a, b))
  PROVE  Counts(a)
<1>1. \A i \in 1 .. Len(a) : i \in 1 .. Len(a) + Len(b) /\ Cat(a, b)[i] = a[i]
  BY ConcatProperties DEF Cat
<1> QED
  BY <1>1, Joined DEF Counts

LEMMA AssociatedTwice ==
  ASSUME NEW p \in Seq(Nat), NEW e \in Seq(Nat), NEW f \in Seq(Nat), NEW g \in Seq(Nat)
  PROVE  Cat(Cat(Cat(p, e), f), g) = Cat(p, Cat(Cat(e, f), g))
BY Associated, Joined

(* The whole way round.                                                    *)
Round == Cat(Cat(Left, srv), Right)

LEMMA Whole ==
  ASSUME TypeInv
  PROVE  /\ Pipeline(Recvd, ToSend) = Round
         /\ Left \in Seq(Nat) /\ Right \in Seq(Nat)
         /\ Left = Cat(out, Cat(Recvd, down)) /\ Right = Cat(up, Cat(ToSend, stdin))
<1>1. Left \in Seq(Nat) /\ Right \in Seq(Nat)
  BY Joined DEF TypeInv, Left, Right
<1>2. PICK p \in Seq(Nat) : p = Cat(Left, srv)
  BY <1>1, Joined DEF TypeInv
<1>3. up \in Seq(Nat) /\ ToSend \in Seq(Nat) /\ stdin \in Seq(Nat)
  BY DEF TypeInv
<1>4. Cat(Cat(Cat(p, up), ToSend), stdin) = Cat(p, Cat(Cat(up, ToSend), stdin))
  BY <1>3, AssociatedTwice
<1>5. Pipeline(Recvd, ToSend) = Cat(Cat(Cat(Cat(Left, srv), up), ToSend), stdin)
  BY DEF Pipeline, Left, Cat
<1>6. Right = Cat(up, Cat(ToSend, stdin))
  BY <1>3, Associated DEF Right
<1>7. Left = Cat(out, Cat(Recvd, down))
  BY Associated DEF TypeInv, Left
<1> QED
  BY <1>1, <1>2, <1>4, <1>5, <1>6, <1>7 DEF Round, Right

LEMMA WholeNext ==
  ASSUME TypeInv'
  PROVE  /\ Pipeline(Recvd, ToSend)' = Round'
         /\ Left' \in Seq(Nat) /\ Right' \in Seq(Nat)
         /\ Left' = Cat(out', Cat(Recvd', down')) /\ Right' = Cat(up', Cat(ToSend', stdin'))
<1>1. Left' \in Seq(Nat) /\ Right' \in Seq(Nat)
  BY Joined DEF TypeInv, Left, Right
<1>2. PICK p \in Seq(Nat) : p = Cat(Left', srv')
  BY <1>1, Joined DEF TypeInv
<1>3. up' \in Seq(Nat) /\ ToSend' \in Seq(Nat) /\ stdin' \in Seq(Nat)
  BY DEF TypeInv
<1>4. Cat(Cat(Cat(p, up'), ToSend'), stdin') = Cat(p, Cat(Cat(up', ToSend'), stdin'))
  BY <1>3, AssociatedTwice
<1>5. Pipeline(Recvd, ToSend)' = Cat(Cat(Cat(Cat(Left', srv'), up'), ToSend'), stdin')
  BY DEF Pipeline, Left, Cat
<1>6. Right' = Cat(up', Cat(ToSend', stdin'))
  BY <1>3, Associated DEF Right
<1>7. Left' = Cat(out', Cat(Recvd', down'))
  BY Associated DEF TypeInv, Left
<1> QED
  BY <1>1, <1>2, <1>4, <1>5, <1>6, <1>7 DEF Round, Right


-----------------------------------------------------------------------------
(* What a step of any of the clients does to the round.                    *)
Moves ==
  /\ UNCHANGED <<variant, typed, eof, srv, crashed, downFin>>
  /\ upFin => upFin'
  /\ upFin' => eof /\ stdin' = <<>> /\ ToSend' = <<>>
  /\ rst' # "none" => crashed
  /\ crashed => up' = up
  /\ ~crashed => Right' = Right
  /\ ~crashed /\ variant # "select" => Left' = Left

LEMMA ClientKeeps ==
  ASSUME IInv, Moves, TypeInv', LocalInv'
  PROVE  IInv'
<1>1. PeerInv'
  <2>1. ASSUME downFin, ~crashed PROVE up' = <<>>
    <3>1. up = <<>> /\ ToSend = <<>> /\ stdin = <<>>
      BY <2>1 DEF IInv, PeerInv, FinAfterAll
    <3>2. Right = <<>>
      <4>1. <<>> \in Seq(Nat)
        OBVIOUS
      <4> QED
        BY <3>1, <4>1, WithNothing DEF Right
    <3>3. up' \in Seq(Nat) /\ ToSend' \in Seq(Nat) /\ stdin' \in Seq(Nat)
      BY DEF TypeInv
    <3>4. Cat(Cat(up', ToSend'), stdin') = <<>>
      BY <2>1, <3>2 DEF Moves, Right
    <3>5. Cat(up', ToSend') = <<>>
      BY <3>3, <3>4, Joined, NothingInBoth
    <3> QED
      BY <3>3, <3>5, NothingInBoth
  <2> QED
    BY <2>1 DEF IInv, PeerInv, Moves
<1>2. NothingLost'
  <2>1. ~crashed /\ variant # "select" => Round' = Round
    BY DEF Moves, Round
  <2> QED
    BY <2>1, Whole, WholeNext DEF IInv, NothingLost, Moves
<1>3. FinAfterAll'
  BY DEF FinAfterAll, Moves
<1> QED
  BY <1>1, <1>2, <1>3 DEF IInv

(* The client that is linked.                                              *)
LEMMA Linked ==
  /\ variant = "nonb" => ToSend = Nonb!ToSend /\ Recvd = Nonb!Recvd
  /\ variant = "stop" => ToSend = Stop!ToSend /\ Recvd = Stop!Recvd
  /\ variant = "select" => ToSend = Select!ToSend /\ Recvd = <<>>
  /\ variant = "stdio" => ToSend = Stdio!ToSend /\ Recvd = Stdio!Recvd
  /\ variant = "thread" => ToSend = Thread!ToSend /\ Recvd = Thread!Recvd
  /\ variant = "kqueue" => ToSend = Kqueue!ToSend /\ Recvd = Kqueue!Recvd
BY DEF ToSend, Recvd, Of

LEMMA LinkedNext ==
  /\ variant' = "nonb" => ToSend' = Nonb!ToSend' /\ Recvd' = Nonb!Recvd'
  /\ variant' = "stop" => ToSend' = Stop!ToSend' /\ Recvd' = Stop!Recvd'
  /\ variant' = "select" => ToSend' = Select!ToSend' /\ Recvd' = <<>>
  /\ variant' = "stdio" => ToSend' = Stdio!ToSend' /\ Recvd' = Stdio!Recvd'
  /\ variant' = "thread" => ToSend' = Thread!ToSend' /\ Recvd' = Thread!Recvd'
  /\ variant' = "kqueue" => ToSend' = Kqueue!ToSend' /\ Recvd' = Kqueue!Recvd'
BY DEF ToSend, Recvd, Of

-----------------------------------------------------------------------------
(* str_cli(), one line at a time.                                          *)
LEMMA TakeBack ==
  ASSUME NEW a \in Seq(Nat), NEW b \in Seq(Nat)
  PROVE  Take(Cat(a, b), Len(a)) = a
<1>1. PICK s \in Seq(Nat) : s = Cat(a, b) /\ Len(s) = Len(a) + Len(b)
  BY Joined
<1>2. Len(a) \in Nat /\ Len(b) \in Nat
  OBVIOUS
<1>3. /\ Take(s, Len(a)) \in Seq(Nat) /\ Len(Take(s, Len(a))) = Len(a)
      /\ Take(s, Len(a)) = SubSeq(s, 1, Len(a))
  <2>1. Smaller(Len(a), Len(s)) = Len(a)
    BY <1>1, <1>2 DEF Smaller
  <2>2. Take(s, Len(a)) \in Seq(Nat) /\ Len(Take(s, Len(a))) = Smaller(Len(a), Len(s))
    BY <1>2, Cut
  <2> QED
    BY <2>1, <2>2 DEF Take
<1>4. \A i \in 1 .. Len(a) : SubSeq(s, 1, Len(a))[i] = s[i]
  BY <1>1, <1>2
<1>5. \A i \in 1 .. Len(a) : s[i] = a[i]
  BY <1>1, <1>2, ConcatProperties DEF Cat
<1> QED
  BY <1>1, <1>3, <1>4, <1>5, SeqEqual

LEMMA StopHelpers ==
  /\ \A s, k : Stop!Take(s, k) = Take(s, k)
  /\ \A k : Stop!Numbers(k) = Numbers(k)
  /\ Stop!UpRoom = UpRoom /\ Stop!OutRoom = OutRoom
  /\ Stop!AtEOF = AtEOF
BY DEF Stop!Take, Take, Stop!Smaller, Smaller, Stop!Numbers, Numbers, Stop!UpRoom, UpRoom,
       Stop!OutRoom, OutRoom, Stop!AtEOF, AtEOF

LEMMA StopKeeps ==
  ASSUME IInv, variant = "stop", Stop!Client,
         UNCHANGED <<variant, loopVars, nonbVars, buf, stdioVars, threadVars, kqVars>>
  PROVE  IInv'
<1>1. StopInv /\ StaleInv /\ TypeInv /\ PeerInv /\ NothingLost /\ FinAfterAll
  BY DEF IInv, LocalInv
<1>2. /\ variant' = "stop" /\ ToSend = sendline /\ ToSend' = sendline'
      /\ Recvd = (IF pc = "fputs" THEN recvline ELSE <<>>)
      /\ Recvd' = (IF pc' = "fputs" THEN recvline' ELSE <<>>)
  BY Linked, LinkedNext DEF Stop!ToSend, Stop!Recvd
<1>3. /\ out \in Seq(Nat) /\ down \in Seq(Nat) /\ up \in Seq(Nat) /\ stdin \in Seq(Nat)
      /\ sendline \in Seq(Nat) /\ recvline \in Seq(Nat) /\ <<>> \in Seq(Nat)
  BY <1>1 DEF TypeInv, StopInv
<1>4. SUFFICES TypeInv' /\ Moves /\ StopInv' /\ StaleInv'
  BY <1>2, ClientKeeps DEF LocalInv
<1> USE DEF Stop!serverVars, Stop!netVars, Stop!outVars, Stop!userVars, Stop!peerVars
<1>5. CASE Stop!Fgets
  <2>1. /\ pc = "fgets" /\ pc' = "written" /\ stdin # <<>> /\ sendline = <<>>
        /\ sendline' = Take(stdin, 1) /\ stdin' = Tail(stdin)
        /\ UNCHANGED <<variant, typed, eof, up, upFin, down, downFin, rst, srv, crashed, out,
                       shown, recvline>>
    BY <1>1, <1>5, StopHelpers DEF Stop!Fgets, StopInv
  <2>2. /\ sendline' \in Seq(Nat) /\ Len(sendline') = 1 /\ stdin' \in Seq(Nat)
        /\ Cat(sendline', stdin') = stdin
    BY <1>3, <2>1, CutOne
  <2>5. TypeInv'
    BY <1>1, <1>2, <1>3, <2>1, <2>2 DEF TypeInv
  <2>3. Right' = Right
    <3>1. Cat(sendline, stdin) = Cat(sendline', stdin')
      BY <1>3, <2>1, <2>2, WithNothing
    <3> QED
      BY <1>1, <1>2, <2>1, <2>5, <3>1, Whole, WholeNext
  <2>4. Left' = Left
    BY <1>2, <2>1 DEF Left
  <2>6. Moves
    BY <1>1, <2>1, <2>3, <2>4 DEF Moves, PeerInv, StopInv
  <2>7. StopInv' /\ StaleInv'
    BY <1>1, <2>1, <2>2, <2>4 DEF StopInv, StaleInv, OneWrong
  <2> QED
    BY <2>5, <2>6, <2>7
<1>6. CASE Stop!EndOfInput \/ Stop!ServerTerminated \/ Stop!BrokenPipe
  <2>1. /\ UNCHANGED <<variant, typed, stdin, eof, up, upFin, down, downFin, rst, srv, crashed,
                       out, shown, sendline, recvline>>
        /\ pc # "fputs" /\ pc' # "fputs" /\ pc' # "readline"
        /\ pc' \in {"normal", "premature", "killed"}
        /\ sendline = <<>> \/ pc' = "killed"
        /\ pc' = "normal" => eof /\ stdin = <<>> /\ pc # "readline"
        /\ pc' = "premature" => downFin
        /\ pc' = "killed" => rst # "none"
        /\ pc = "readline" => pc' = "premature"
    BY <1>1, <1>6 DEF Stop!EndOfInput, Stop!ServerTerminated, Stop!BrokenPipe, Stop!AtEOF,
       Stop!PutKills, StopInv
  <2>2. Right' = Right /\ Left' = Left
    BY <1>2, <2>1 DEF Right, Left
  <2>3. TypeInv'
    BY <1>1, <1>2, <1>3, <2>1 DEF TypeInv
  <2>4. Moves
    BY <1>1, <2>1, <2>2 DEF Moves, PeerInv, StopInv
  <2>5. StopInv' /\ StaleInv'
    BY <1>1, <2>1, <2>2 DEF StopInv, StaleInv, OneWrong, PeerInv
  <2> QED
    BY <2>3, <2>4, <2>5
<1>7. CASE Stop!Written
  <2>1. /\ pc = "written" /\ pc' = "readline" /\ sendline' = <<>>
        /\ rst \in {"none", "sent"}
        /\ up' = (IF crashed THEN up ELSE up \o sendline) /\ rst' = (IF crashed THEN "sent" ELSE rst)
        /\ UNCHANGED <<variant, typed, stdin, eof, upFin, down, downFin, srv, crashed, out,
                       shown, recvline>>
    BY <1>7 DEF Stop!Written, Stop!PutUp
  <2>2. up' \in Seq(Nat) /\ (~crashed => Cat(up', sendline') = Cat(up, sendline))
    <3>1. Cat(up, sendline) \in Seq(Nat)
      BY <1>3, Joined
    <3>2. ~crashed => up' = Cat(up, sendline)
      BY <2>1 DEF Cat
    <3> QED
      BY <1>3, <2>1, <3>1, <3>2, WithNothing
  <2>3. ~crashed => Right' = Right
    BY <1>2, <2>1, <2>2 DEF Right
  <2>4. Left' = Left
    BY <1>2, <2>1 DEF Left
  <2>5. TypeInv'
    BY <1>1, <1>2, <1>3, <2>1, <2>2 DEF TypeInv, Results
  <2>6. Moves
    BY <1>1, <2>1, <2>3, <2>4 DEF Moves, PeerInv, StopInv
  <2>7. ~crashed => Len(up') + Len(srv) + Len(down) = 1
    <3>1. ~crashed => up = <<>> /\ srv = <<>> /\ down = <<>> /\ Len(sendline) = 1
      BY <1>1, <2>1 DEF StopInv
    <3>2. ~crashed => up' = sendline
      BY <1>3, <2>1, <3>1, WithNothing DEF Cat
    <3> QED
      BY <1>3, <2>1, <3>1, <3>2
  <2>8. StopInv' /\ StaleInv'
    BY <1>1, <1>3, <2>1, <2>4, <2>7 DEF StopInv, StaleInv
  <2> QED
    BY <2>5, <2>6, <2>8
<1>8. CASE Stop!Readline
  <2>1. /\ pc = "readline" /\ pc' = "fputs" /\ down # <<>>
        /\ recvline' = Take(down, 1) /\ down' = Tail(down)
        /\ UNCHANGED <<variant, typed, stdin, eof, up, upFin, downFin, rst, srv, crashed, out,
                       shown, sendline>>
    BY <1>8, StopHelpers DEF Stop!Readline
  <2>2. /\ recvline' \in Seq(Nat) /\ Len(recvline') = 1 /\ down' \in Seq(Nat)
        /\ Cat(recvline', down') = down /\ Len(down') = Len(down) - 1
    BY <1>3, <2>1, CutOne
  <2>5. TypeInv'
    BY <1>1, <1>2, <1>3, <2>1, <2>2 DEF TypeInv
  <2>3. Left' = Left
    <3>1. Cat(<<>>, down) = Cat(recvline', down')
      BY <1>3, <2>1, <2>2, WithNothing
    <3> QED
      BY <1>1, <1>2, <2>1, <2>5, <3>1, Whole, WholeNext
  <2>4. Right' = Right
    BY <1>2, <2>1 DEF Right
  <2>6. Moves
    BY <1>1, <2>1, <2>3, <2>4 DEF Moves, PeerInv, StopInv
  <2>7. ~crashed => up = <<>> /\ srv = <<>> /\ down' = <<>>
    <3>1. Len(up) \in Nat /\ Len(srv) \in Nat /\ Len(down) \in Nat /\ Len(down') \in Nat
      BY <1>1, <2>2 DEF TypeInv
    <3>2. ~crashed => Len(up) = 0 /\ Len(srv) = 0 /\ Len(down') = 0
      BY <1>1, <2>1, <2>2, <3>1 DEF StopInv
    <3>3. up \in Seq(Nat) /\ srv \in Seq(Nat) /\ down' \in Seq(Nat)
      BY <1>1, <2>2 DEF TypeInv
    <3> QED
      BY <3>2, <3>3
  <2>8. StopInv'
    <3>1. recvline' \in Seq(Nat) /\ Len(recvline') <= 1
      BY <2>2
    <3>2. pc' = "fputs" /\ UNCHANGED <<sendline, upFin, crashed, up, srv>> /\ sendline = <<>> /\ ~upFin
      BY <1>1, <2>1 DEF StopInv
    <3> QED
      BY <1>3, <2>7, <3>1, <3>2 DEF StopInv
  <2>9. StaleInv'
    BY <1>1, <2>1, <2>3 DEF StaleInv
  <2> QED
    BY <2>5, <2>6, <2>8, <2>9
<1>9. CASE Stop!ReadlineError
  <2>1. /\ pc = "readline" /\ pc' = "fputs" /\ down = <<>> /\ rst # "none" /\ rst # "spent"
        /\ rst' = "spent"
        /\ UNCHANGED <<variant, typed, stdin, eof, up, upFin, down, downFin, srv, crashed, out,
                       shown, sendline, recvline>>
    BY <1>9 DEF Stop!ReadlineError, Stop!AtReset, Stop!Reported
  <2>2. crashed /\ Right' = Right
    BY <1>1, <1>2, <2>1 DEF PeerInv, Right
  <2>3. Counts(out) /\ OneWrong
    <3>1. Left = out
      BY <1>2, <1>3, <2>1, WithNothing DEF Left
    <3>2. Take(out, Len(out)) = out
      BY <1>3, TakeBack, WithNothing
    <3>3. Counts(out) /\ Len(out) \in 0 .. Len(out) /\ Len(out) - Len(out) <= 1
      BY <1>1, <1>3, <2>1, <3>1 DEF StaleInv
    <3> QED
      BY <3>2, <3>3 DEF OneWrong
  <2>4. TypeInv'
    BY <1>1, <1>2, <1>3, <2>1 DEF TypeInv, Results
  <2>5. Moves
    BY <1>1, <2>1, <2>2 DEF Moves, StopInv
  <2>6. StopInv' /\ StaleInv'
    BY <1>1, <2>1, <2>2, <2>3 DEF StopInv, StaleInv, OneWrong
  <2> QED
    BY <2>4, <2>5, <2>6
<1>10. CASE Stop!Fputs
  <2>1. /\ pc = "fputs" /\ pc' = "fgets" /\ out' = Cat(out, recvline)
        /\ UNCHANGED <<variant, typed, stdin, eof, up, upFin, down, downFin, rst, srv, crashed,
                       shown, sendline, recvline>>
    BY <1>10 DEF Stop!Fputs, Cat
  <2>2. out' \in Seq(Nat) /\ Len(out') = Len(out) + Len(recvline)
    BY <1>3, <2>1, Joined
  <2>3. Left' = Left /\ Right' = Right
    BY <1>2, <2>1, <2>2, WithNothing DEF Left, Right
  <2>4. TypeInv'
    BY <1>1, <1>2, <1>3, <2>1, <2>2 DEF TypeInv
  <2>5. Moves
    BY <1>1, <2>1, <2>3 DEF Moves, PeerInv, StopInv
  <2>6. rst = "spent" => OneWrong'
    <3>1. Take(out', Len(out)) = out
      BY <1>3, <2>1, TakeBack
    <3>2. Len(out) \in 0 .. Len(out') /\ Len(out') - Len(out) <= 1
      BY <1>1, <1>3, <2>2 DEF StopInv
    <3> QED
      BY <1>1, <2>1, <3>1, <3>2 DEF StaleInv, OneWrong
  <2>7. StopInv' /\ StaleInv'
    BY <1>1, <2>1, <2>3, <2>6 DEF StopInv, StaleInv
  <2> QED
    BY <2>4, <2>5, <2>7
<1> QED
  BY <1>5, <1>6, <1>7, <1>8, <1>9, <1>10 DEF Stop!Client

-----------------------------------------------------------------------------
(* select with stdio: two buffers more.                                    *)
LEMMA CutLine ==
  ASSUME NEW s \in Seq(Nat), s # <<>>, NEW k \in Nat \ {0}
  PROVE  /\ Take(s, k) # <<>> /\ Take(s, k) \in Seq(Nat)
         /\ Take(Take(s, k), 1) = Take(s, 1)
<1>1. Take(s, k) \in Seq(Nat) /\ Len(Take(s, k)) = Smaller(k, Len(s)) /\ Len(s) \in Nat \ {0}
  <2>1. Len(s) \in Nat \ {0} /\ k \in Nat
    OBVIOUS
  <2>2. Take(s, k) \in Seq(Nat) /\ Len(Take(s, k)) = Smaller(k, Len(s))
    BY <2>1, Cut
  <2> QED
    BY <2>1, <2>2
<1>2. Smaller(k, Len(s)) \in Nat \ {0}
  BY <1>1 DEF Smaller
<1>3. PICK t \in Seq(Nat) : t = Take(s, k) /\ Len(t) \in Nat \ {0}
  BY <1>1, <1>2
<1>4. t[1] = s[1]
  <2>1. t = SubSeq(s, 1, Smaller(k, Len(s)))
    BY <1>3 DEF Take
  <2> QED
    BY <1>1, <1>2, <2>1
<1>5. Take(t, 1) = <<Head(t)>> /\ Take(s, 1) = <<Head(s)>> /\ t # <<>>
  BY <1>3, CutOne
<1> QED
  BY <1>3, <1>4, <1>5

LEMMA StdioHelpers ==
  /\ \A s, k : Stdio!Take(s, k) = Take(s, k) /\ Stdio!Drop(s, k) = Drop(s, k)
  /\ Stdio!UpRoom = UpRoom /\ Stdio!OutRoom = OutRoom
BY DEF Stdio!Take, Take, Stdio!Smaller, Smaller, Stdio!Drop, Drop, Stdio!UpRoom, UpRoom,
       Stdio!OutRoom, OutRoom

LEMMA StdioKeeps ==
  ASSUME IInv, variant = "stdio", Stdio!Client,
         UNCHANGED <<variant, stdineof, nonbVars, buf, threadVars, kqVars>>
  PROVE  IInv'
<1>1. StdioInv /\ TypeInv /\ PeerInv /\ FinAfterAll
  BY DEF IInv, LocalInv
<1>2. /\ variant' = "stdio" /\ ToSend = Cat(sendline, iobuf) /\ ToSend' = Cat(sendline', iobuf')
      /\ Recvd = Cat(IF pc = "fputs" THEN recvline ELSE <<>>, rdbuf)
      /\ Recvd' = Cat(IF pc' = "fputs" THEN recvline' ELSE <<>>, rdbuf')
  BY Linked, LinkedNext DEF Stdio!ToSend, Stdio!Recvd, Cat
<1>3. /\ out \in Seq(Nat) /\ down \in Seq(Nat) /\ up \in Seq(Nat) /\ stdin \in Seq(Nat)
      /\ sendline \in Seq(Nat) /\ recvline \in Seq(Nat)
      /\ iobuf \in Seq(Nat) /\ rdbuf \in Seq(Nat) /\ <<>> \in Seq(Nat)
      /\ MAXLINE \in Nat \ {0}
  BY <1>1, PeerAssumption DEF TypeInv, StdioInv
<1>4. SUFFICES TypeInv' /\ Moves /\ StdioInv'
  BY <1>2, ClientKeeps DEF LocalInv
<1> USE DEF Stdio!serverVars, Stdio!netVars, Stdio!outVars, Stdio!userVars, Stdio!peerVars
<1>5. CASE Stdio!Select \/ Stdio!ServerTerminated \/ Stdio!NoSock \/ Stdio!AllDone
           \/ Stdio!NoStdin \/ Stdio!BrokenPipe
  <2>1. /\ UNCHANGED <<variant, typed, stdin, eof, up, upFin, down, downFin, rst, srv, crashed,
                       out, shown, sendline, recvline, iobuf, rdbuf>>
        /\ pc # "fputs" /\ pc' \in {"sock", "premature", "stdin", "normal", "select", "killed"}
        /\ sendline = <<>> \/ pc' = "killed"
    BY <1>1, <1>5 DEF Stdio!Select, Stdio!ServerTerminated, Stdio!NoSock, Stdio!AllDone,
       Stdio!NoStdin, Stdio!BrokenPipe, StdioInv
  <2>2. ToSend' = ToSend /\ Recvd' = Recvd
    BY <1>2, <2>1
  <2>3. TypeInv'
    BY <1>1, <2>1, <2>2 DEF TypeInv
  <2>4. Moves
    BY <1>1, <2>1, <2>2 DEF Moves, PeerInv, StdioInv, Left, Right
  <2>5. StdioInv'
    BY <1>1, <2>1 DEF StdioInv
  <2> QED
    BY <2>3, <2>4, <2>5
<1>6. CASE Stdio!Readline
  <2>1. /\ pc = "sock" /\ pc' = "fputs"
        /\ UNCHANGED <<variant, typed, stdin, eof, up, upFin, downFin, srv, crashed,
                       out, shown, sendline, iobuf>>
        /\ \/ /\ rdbuf # <<>> /\ recvline' = Take(rdbuf, 1) /\ rdbuf' = Tail(rdbuf)
              /\ UNCHANGED <<down, rst>>
           \/ /\ rdbuf = <<>> /\ down # <<>> /\ down' = Drop(down, MAXLINE)
              /\ recvline' = Take(down, 1) /\ rdbuf' = Tail(Take(down, MAXLINE))
              /\ UNCHANGED rst
           \/ /\ rdbuf = <<>> /\ rst # "none" /\ rst' = "spent"
              /\ UNCHANGED <<down, recvline, rdbuf>>
    BY <1>6, StdioHelpers DEF Stdio!Readline, Stdio!TakeDown, Stdio!AtReset, Stdio!Reported
  <2>2. /\ recvline' \in Seq(Nat) /\ rdbuf' \in Seq(Nat) /\ down' \in Seq(Nat)
        /\ rst' = rst \/ (crashed /\ rst' = "spent")
        /\ rst' # "none" => crashed
        /\ ~crashed => Cat(Cat(recvline', rdbuf'), down') = Cat(rdbuf, down)
    <3>1. CASE rdbuf # <<>> /\ recvline' = Take(rdbuf, 1) /\ rdbuf' = Tail(rdbuf)
               /\ UNCHANGED <<down, rst>>
      BY <1>1, <1>3, <3>1, CutOne DEF PeerInv
    <3>2. CASE rdbuf = <<>> /\ down # <<>> /\ down' = Drop(down, MAXLINE)
               /\ recvline' = Take(down, 1) /\ rdbuf' = Tail(Take(down, MAXLINE))
               /\ UNCHANGED rst
      <4>1. PICK t \in Seq(Nat) : t = Take(down, MAXLINE)
        BY <1>3, Cut
      <4>2. t # <<>> /\ recvline' = Take(t, 1) /\ rdbuf' = Tail(t)
        BY <1>3, <3>2, <4>1, CutLine
      <4>3. recvline' \in Seq(Nat) /\ rdbuf' \in Seq(Nat) /\ Cat(recvline', rdbuf') = t
        BY <4>2, CutOne
      <4>4. down' \in Seq(Nat) /\ Cat(t, down') = down
        BY <1>3, <3>2, <4>1, Cut
      <4>5. Cat(rdbuf, down) = down
        BY <1>3, <3>2, WithNothing
      <4> QED
        BY <1>1, <3>2, <4>3, <4>4, <4>5 DEF PeerInv
    <3>3. CASE rdbuf = <<>> /\ rst # "none" /\ rst' = "spent" /\ UNCHANGED <<down, recvline, rdbuf>>
      BY <1>1, <1>3, <3>3 DEF PeerInv
    <3> QED
      BY <2>1, <3>1, <3>2, <3>3
  <2>3. ToSend' = ToSend /\ Recvd = rdbuf /\ Recvd' = Cat(recvline', rdbuf') /\ Recvd' \in Seq(Nat)
    BY <1>2, <1>3, <2>1, <2>2, WithNothing, Joined
  <2>4. TypeInv'
    BY <1>1, <2>1, <2>2, <2>3 DEF TypeInv, Results
  <2>5. ~crashed => Left' = Left
    BY <1>1, <2>1, <2>2, <2>3, <2>4, Whole, WholeNext
  <2>6. Moves
    BY <1>1, <2>1, <2>2, <2>3, <2>5 DEF Moves, PeerInv, StdioInv, Right
  <2>7. StdioInv'
    BY <1>1, <2>1, <2>2 DEF StdioInv
  <2> QED
    BY <2>4, <2>6, <2>7
<1>7. CASE Stdio!Fputs
  <2>1. /\ pc = "fputs" /\ pc' = "stdin" /\ out' = Cat(out, recvline)
        /\ UNCHANGED <<variant, typed, stdin, eof, up, upFin, down, downFin, rst, srv, crashed,
                       shown, sendline, recvline, iobuf, rdbuf>>
    BY <1>7 DEF Stdio!Fputs, Cat
  <2>2. out' \in Seq(Nat) /\ Len(out') = Len(out) + Len(recvline)
    BY <1>3, <2>1, Joined
  <2>3. /\ ToSend' = ToSend /\ Recvd = Cat(recvline, rdbuf) /\ Recvd' = rdbuf
        /\ Cat(out', Recvd') = Cat(out, Recvd)
    BY <1>2, <1>3, <2>1, WithNothing, Associated
  <2>4. TypeInv'
    <3>1. Len(out) \in Nat /\ Len(recvline) \in Nat
      BY <1>3
    <3>2. shown' \in 0 .. Len(out')
      BY <1>1, <2>1, <2>2, <3>1 DEF TypeInv
    <3> QED
      BY <1>1, <1>3, <2>1, <2>2, <2>3, <3>2 DEF TypeInv
  <2>5. Moves
    BY <1>1, <2>1, <2>3 DEF Moves, PeerInv, StdioInv, Left, Right
  <2>6. StdioInv'
    BY <1>1, <2>1 DEF StdioInv
  <2> QED
    BY <2>4, <2>5, <2>6
<1>8. CASE Stdio!Fgets
  <2>1. PICK have : /\ have = (IF iobuf # <<>> THEN iobuf ELSE Take(stdin, MAXLINE))
                    /\ have # <<>> /\ sendline' = Take(have, 1) /\ iobuf' = Tail(have)
    BY <1>8, StdioHelpers DEF Stdio!Fgets
  <2>2. /\ pc = "stdin" /\ pc' = "writen" /\ sendline = <<>>
        /\ stdin' = (IF iobuf # <<>> THEN stdin ELSE Drop(stdin, MAXLINE))
        /\ UNCHANGED <<variant, typed, eof, up, upFin, down, downFin, rst, srv, crashed,
                       out, shown, recvline, rdbuf>>
    BY <1>1, <1>8, StdioHelpers DEF Stdio!Fgets, StdioInv
  <2>3. have \in Seq(Nat) /\ stdin' \in Seq(Nat) /\ Cat(have, stdin') = Cat(iobuf, stdin)
    BY <1>3, <2>1, <2>2, Cut, WithNothing
  <2>4. sendline' \in Seq(Nat) /\ iobuf' \in Seq(Nat) /\ Cat(sendline', iobuf') = have
    BY <2>1, <2>3, CutOne
  <2>5. ToSend = iobuf /\ ToSend' = have /\ Recvd' = Recvd
    BY <1>2, <1>3, <2>2, <2>4, WithNothing
  <2>6. TypeInv'
    BY <1>1, <2>2, <2>3, <2>5 DEF TypeInv
  <2>7. Right' = Right
    BY <1>1, <2>2, <2>3, <2>5, <2>6, Whole, WholeNext
  <2>8. Moves
    BY <1>1, <2>2, <2>5, <2>7 DEF Moves, PeerInv, StdioInv, Left
  <2>9. StdioInv'
    BY <1>1, <2>2, <2>4 DEF StdioInv
  <2> QED
    BY <2>6, <2>8, <2>9
<1>9. CASE Stdio!Writen
  <2>1. /\ pc = "writen" /\ pc' = "select" /\ sendline' = <<>>
        /\ up' = (IF crashed THEN up ELSE up \o sendline) /\ rst' = (IF crashed THEN "sent" ELSE rst)
        /\ UNCHANGED <<variant, typed, stdin, eof, upFin, down, downFin, srv, crashed, out,
                       shown, recvline, iobuf, rdbuf>>
    BY <1>9 DEF Stdio!Writen, Stdio!PutUp
  <2>2. ToSend = Cat(sendline, iobuf) /\ ToSend' = iobuf /\ Recvd' = Recvd
    BY <1>2, <1>3, <2>1, WithNothing
  <2>3. up' \in Seq(Nat) /\ (~crashed => Cat(up', ToSend') = Cat(up, ToSend))
    <3>1. Cat(up, sendline) \in Seq(Nat) /\ Cat(Cat(up, sendline), iobuf) = Cat(up, Cat(sendline, iobuf))
      BY <1>3, Joined, Associated
    <3>2. ~crashed => up' = Cat(up, sendline)
      BY <2>1 DEF Cat
    <3> QED
      BY <1>3, <2>1, <2>2, <3>1, <3>2
  <2>4. TypeInv'
    BY <1>1, <1>3, <2>1, <2>2, <2>3 DEF TypeInv, Results
  <2>5. Moves
    BY <1>1, <2>1, <2>2, <2>3 DEF Moves, PeerInv, StdioInv, Left, Right
  <2>6. StdioInv'
    BY <1>1, <1>3, <2>1 DEF StdioInv
  <2> QED
    BY <2>4, <2>5, <2>6
<1>10. CASE Stdio!WritenError
  <2>1. /\ pc = "writen" /\ pc' = "select" /\ sendline' = <<>> /\ rst = "reset" /\ rst' = "spent"
        /\ UNCHANGED <<variant, typed, stdin, eof, up, upFin, down, downFin, srv, crashed, out,
                       shown, recvline, iobuf, rdbuf>>
    BY <1>10 DEF Stdio!WritenError, Stdio!PutFails
  <2>2. crashed /\ ToSend' = iobuf /\ Recvd' = Recvd
    BY <1>1, <1>2, <1>3, <2>1, WithNothing DEF PeerInv
  <2>3. TypeInv'
    BY <1>1, <1>3, <2>1, <2>2 DEF TypeInv, Results
  <2>4. Moves
    BY <1>1, <2>1, <2>2 DEF Moves, StdioInv
  <2>5. StdioInv'
    BY <1>1, <1>3, <2>1 DEF StdioInv
  <2> QED
    BY <2>3, <2>4, <2>5
<1> QED
  BY <1>5, <1>6, <1>7, <1>8, <1>9, <1>10 DEF Stdio!Client

-----------------------------------------------------------------------------
(* select with raw calls: what comes back is thrown away.                  *)
LEMMA SelectHelpers ==
  /\ \A s, k : Select!Take(s, k) = Take(s, k) /\ Select!Drop(s, k) = Drop(s, k)
  /\ Select!UpRoom = UpRoom
BY DEF Select!Take, Take, Select!Smaller, Smaller, Select!Drop, Drop, Select!UpRoom, UpRoom

LEMMA SelectKeeps ==
  ASSUME IInv, variant = "select", Select!Client,
         UNCHANGED <<variant, nonbVars, lineVars, stdioVars, threadVars, kqVars>>
  PROVE  IInv'
<1>1. SelectInv /\ TypeInv /\ PeerInv /\ FinAfterAll
  BY DEF IInv, LocalInv
<1>2. /\ variant' = "select" /\ ToSend = buf /\ ToSend' = buf'
      /\ Recvd = <<>> /\ Recvd' = <<>>
  BY Linked, LinkedNext DEF Select!ToSend
<1>3. /\ down \in Seq(Nat) /\ up \in Seq(Nat) /\ stdin \in Seq(Nat)
      /\ buf \in Seq(Nat) /\ <<>> \in Seq(Nat) /\ MAXLINE \in Nat \ {0}
  BY <1>1, PeerAssumption DEF TypeInv, SelectInv
<1>4. SUFFICES TypeInv' /\ Moves /\ SelectInv'
  BY <1>2, ClientKeeps DEF LocalInv
<1> USE DEF Select!serverVars, Select!netVars, Select!outVars, Select!userVars, Select!peerVars
<1>5. CASE Select!Select \/ Select!SockEOF \/ Select!NoSock \/ Select!NoStdin \/ Select!BrokenPipe
  <2>1. /\ UNCHANGED <<variant, typed, stdin, eof, up, upFin, down, downFin, rst, srv, crashed,
                       out, shown, buf>>
        /\ pc' \in {"sock", "premature", "stdin", "normal", "select", "killed"}
        /\ buf = <<>> \/ pc' = "killed"
        /\ rset' = rset \/ ("stdin" \in rset' => stdin # <<>> \/ eof)
        /\ rset' # rset \/ pc \in {"sock", "stdin"} \/ pc' \notin {"sock", "stdin"}
           \/ ("stdin" \in rset' => stdin # <<>> \/ eof)
    BY <1>1, <1>5 DEF Select!Select, Select!SockEOF, Select!NoSock, Select!NoStdin,
       Select!BrokenPipe, Select!Ready, SelectInv
  <2>3. TypeInv'
    BY <1>1, <1>2, <2>1 DEF TypeInv
  <2>4. Moves
    BY <1>1, <1>2, <2>1 DEF Moves, PeerInv, FinAfterAll, Right
  <2>5. SelectInv'
    BY <1>1, <2>1 DEF SelectInv
  <2> QED
    BY <2>3, <2>4, <2>5
<1>6. CASE Select!SockData
  <2>1. /\ pc = "sock" /\ pc' = "stdin" /\ buf = <<>>
        /\ UNCHANGED <<variant, typed, stdin, eof, up, upFin, downFin, srv, crashed, out, shown,
                       buf, rset>>
        /\ \/ down' = Drop(down, MAXLINE) /\ rst' = rst
           \/ down' = down /\ rst # "none" /\ rst' = "spent"
    BY <1>1, <1>6, SelectHelpers DEF Select!SockData, Select!TakeDown, Select!AtReset,
       Select!Reported, SelectInv
  <2>2. down' \in Seq(Nat) /\ rst' \in Results /\ (rst' # "none" => crashed)
    BY <1>1, <1>3, <2>1, Cut DEF PeerInv, TypeInv, Results
  <2>3. TypeInv'
    BY <1>1, <1>2, <2>1, <2>2 DEF TypeInv
  <2>4. Moves
    BY <1>1, <1>2, <2>1, <2>2 DEF Moves, FinAfterAll, Right
  <2>5. SelectInv'
    BY <1>1, <2>1 DEF SelectInv
  <2> QED
    BY <2>3, <2>4, <2>5
<1>7. CASE Select!StdinData
  <2>1. /\ pc = "stdin" /\ pc' = "written" /\ stdin # <<>> /\ buf = <<>>
        /\ buf' = Take(stdin, MAXLINE) /\ stdin' = Drop(stdin, MAXLINE)
        /\ UNCHANGED <<variant, typed, eof, up, upFin, down, downFin, rst, srv, crashed, out,
                       shown>>
    BY <1>1, <1>7, SelectHelpers DEF Select!StdinData, SelectInv
  <2>2. buf' # <<>> /\ buf' \in Seq(Nat) /\ stdin' \in Seq(Nat) /\ Cat(buf', stdin') = stdin
    BY <1>3, <2>1, Cut, CutLine
  <2>3. TypeInv'
    BY <1>1, <1>2, <2>1, <2>2 DEF TypeInv
  <2>4. Right' = Right
    <3>1. Cat(buf, stdin) = Cat(buf', stdin')
      BY <1>3, <2>1, <2>2, WithNothing
    <3> QED
      BY <1>1, <1>2, <2>1, <2>3, <3>1, Whole, WholeNext
  <2>5. Moves
    BY <1>1, <1>2, <2>1, <2>4 DEF Moves, PeerInv, FinAfterAll
  <2>6. SelectInv'
    BY <1>1, <2>1, <2>2 DEF SelectInv
  <2> QED
    BY <2>3, <2>5, <2>6
<1>8. CASE Select!StdinEOF
  <2>1. /\ pc = "stdin" /\ pc' = "select" /\ stdin = <<>> /\ eof /\ buf = <<>> /\ upFin'
        /\ upFin' \in BOOLEAN
        /\ UNCHANGED <<variant, typed, stdin, eof, up, down, downFin, rst, srv, crashed, out,
                       shown, buf>>
    BY <1>1, <1>8 DEF Select!StdinEOF, SelectInv
  <2>3. TypeInv'
    BY <1>1, <1>2, <2>1 DEF TypeInv
  <2>4. Moves
    BY <1>1, <1>2, <2>1 DEF Moves, PeerInv, Right
  <2>5. SelectInv'
    BY <1>1, <2>1 DEF SelectInv
  <2> QED
    BY <2>3, <2>4, <2>5
<1>9. CASE Select!Written
  <2>1. /\ pc = "written" /\ buf # <<>> /\ buf' = Tail(buf)
        /\ pc' = (IF Len(buf) = 1 THEN "select" ELSE "written")
        /\ up' = (IF crashed THEN up ELSE up \o Take(buf, 1))
        /\ rst' = (IF crashed THEN "sent" ELSE rst)
        /\ UNCHANGED <<variant, typed, stdin, eof, upFin, down, downFin, srv, crashed, out,
                       shown>>
    BY <1>1, <1>9, SelectHelpers DEF Select!Written, Select!PutUp, SelectInv
  <2>2. PICK t \in Seq(Nat) : t = Take(buf, 1) /\ Cat(t, Tail(buf)) = buf
    BY <1>3, <2>1, CutOne
  <2>3. buf' \in Seq(Nat) /\ Len(buf') = Len(buf) - 1 /\ Len(buf) \in Nat
    BY <1>3, <2>1, CutOne
  <2>4. up' \in Seq(Nat) /\ (~crashed => Cat(up', buf') = Cat(up, buf))
    <3>1. Cat(up, t) \in Seq(Nat)
      BY <1>3, <2>2, Joined
    <3>3. Cat(Cat(up, t), buf') = Cat(up, Cat(t, buf'))
      BY <1>3, <2>2, <2>3, Associated
    <3>2. ~crashed => up' = Cat(up, t)
      BY <2>1, <2>2 DEF Cat
    <3> QED
      BY <1>3, <2>1, <2>2, <3>1, <3>2, <3>3
  <2>5. TypeInv'
    BY <1>1, <1>2, <2>1, <2>3, <2>4 DEF TypeInv, Results
  <2>6. upFin' => eof /\ stdin' = <<>> /\ buf' = <<>>
    BY <1>1, <1>2, <2>1 DEF FinAfterAll
  <2>7. Moves
    BY <1>1, <1>2, <2>1, <2>4, <2>6 DEF Moves, PeerInv, Right
  <2>8. SelectInv'
    <3>1. \A s \in Seq(Nat) : Len(s) = 0 <=> s = <<>>
      OBVIOUS
    <3>2. Len(buf) = 1 <=> Len(buf') = 0
      BY <2>3
    <3> QED
      BY <2>1, <2>3, <3>1, <3>2 DEF SelectInv
  <2> QED
    BY <2>5, <2>7, <2>8
<1>10. CASE Select!WrittenError
  <2>1. /\ pc = "written" /\ pc' = "select" /\ buf' = <<>> /\ rst = "reset" /\ rst' = "spent"
        /\ UNCHANGED <<variant, typed, stdin, eof, up, upFin, down, downFin, srv, crashed, out,
                       shown>>
    BY <1>10 DEF Select!WrittenError, Select!PutFails
  <2>2. crashed
    BY <1>1, <2>1 DEF PeerInv
  <2>3. TypeInv'
    BY <1>1, <1>2, <1>3, <2>1 DEF TypeInv, Results
  <2>4. Moves
    BY <1>1, <1>2, <2>1, <2>2 DEF Moves, FinAfterAll
  <2>5. SelectInv'
    BY <1>1, <1>3, <2>1 DEF SelectInv
  <2> QED
    BY <2>3, <2>4, <2>5
<1> QED
  BY <1>5, <1>6, <1>7, <1>8, <1>9, <1>10 DEF Select!Client

-----------------------------------------------------------------------------
(* Two threads.                                                            *)
LEMMA ThreadHelpers ==
  /\ \A s, k : Thread!Take(s, k) = Take(s, k) /\ Thread!Drop(s, k) = Drop(s, k)
  /\ Thread!UpRoom = UpRoom /\ Thread!OutRoom = OutRoom
BY DEF Thread!Take, Take, Thread!Smaller, Smaller, Thread!Drop, Drop, Thread!UpRoom, UpRoom,
       Thread!OutRoom, OutRoom

LEMMA ThreadKeeps ==
  ASSUME IInv, variant = "thread", Thread!MainThread \/ Thread!CopyThread,
         UNCHANGED <<variant, pc, loopVars, nonbVars, buf, stdioVars, kqVars>>
  PROVE  IInv'
<1>1. ThreadInv /\ TypeInv /\ PeerInv /\ FinAfterAll
  BY DEF IInv, LocalInv
<1>2. /\ variant' = "thread" /\ ToSend = sendline /\ ToSend' = sendline'
      /\ Recvd = (IF main = "fputs" THEN recvline ELSE <<>>)
      /\ Recvd' = (IF main' = "fputs" THEN recvline' ELSE <<>>)
  BY Linked, LinkedNext DEF Thread!ToSend, Thread!Recvd
<1>3. /\ out \in Seq(Nat) /\ down \in Seq(Nat) /\ up \in Seq(Nat) /\ stdin \in Seq(Nat)
      /\ sendline \in Seq(Nat) /\ recvline \in Seq(Nat) /\ <<>> \in Seq(Nat)
  BY <1>1 DEF TypeInv, ThreadInv
<1>4. SUFFICES TypeInv' /\ Moves /\ ThreadInv'
  BY <1>2, ClientKeeps DEF LocalInv
<1> USE DEF Thread!serverVars, Thread!netVars, Thread!outVars, Thread!userVars, Thread!peerVars,
            Thread!mainVars, Thread!copyVars
<1>5. CASE Thread!Create
  <2>1. /\ main = "create" /\ main' = "readline" /\ copy' \in {"fgets", "failed"}
        /\ UNCHANGED <<variant, typed, stdin, eof, up, upFin, down, downFin, rst, srv, crashed,
                       out, shown, sendline, recvline>>
    BY <1>5 DEF Thread!Create
  <2>2. TypeInv'
    BY <1>1, <1>2, <1>3, <2>1 DEF TypeInv
  <2>3. Moves
    BY <1>1, <1>2, <2>1 DEF Moves, PeerInv, FinAfterAll, Left, Right
  <2>4. ThreadInv'
    BY <1>1, <2>1 DEF ThreadInv
  <2> QED
    BY <2>2, <2>3, <2>4
<1>6. CASE Thread!Readline
  <2>1. /\ main = "readline" /\ main' = "fputs" /\ down # <<>>
        /\ recvline' = Take(down, 1) /\ down' = Drop(down, 1)
        /\ UNCHANGED <<variant, typed, stdin, eof, up, upFin, downFin, rst, srv, crashed, out,
                       shown, copy, sendline>>
    BY <1>6, ThreadHelpers DEF Thread!Readline, Thread!TakeDown
  <2>2. recvline' \in Seq(Nat) /\ down' \in Seq(Nat) /\ Cat(recvline', down') = down
    BY <1>3, <2>1, CutOne
  <2>3. TypeInv'
    BY <1>1, <1>2, <1>3, <2>1, <2>2 DEF TypeInv
  <2>4. Left' = Left
    <3>1. Cat(<<>>, down) = Cat(recvline', down')
      BY <1>3, <2>2, WithNothing
    <3> QED
      BY <1>1, <1>2, <2>1, <2>3, <3>1, Whole, WholeNext
  <2>5. Moves
    BY <1>1, <1>2, <2>1, <2>4 DEF Moves, PeerInv, FinAfterAll, Right
  <2>6. ThreadInv'
    BY <1>1, <2>1, <2>2 DEF ThreadInv
  <2> QED
    BY <2>3, <2>5, <2>6
<1>7. CASE Thread!Fputs
  <2>1. /\ main = "fputs" /\ main' = "readline" /\ out' = Cat(out, recvline)
        /\ UNCHANGED <<variant, typed, stdin, eof, up, upFin, down, downFin, rst, srv, crashed,
                       shown, copy, sendline, recvline>>
    BY <1>7 DEF Thread!Fputs, Cat
  <2>2. out' \in Seq(Nat) /\ Len(out') = Len(out) + Len(recvline)
    BY <1>3, <2>1, Joined
  <2>3. Cat(out', <<>>) = Cat(out, recvline)
    BY <2>1, <2>2, WithNothing
  <2>4. TypeInv'
    <3>1. shown' \in 0 .. Len(out')
      BY <1>1, <1>3, <2>1, <2>2 DEF TypeInv
    <3> QED
      BY <1>1, <1>2, <1>3, <2>1, <2>2, <3>1 DEF TypeInv
  <2>5. Moves
    BY <1>1, <1>2, <2>1, <2>3 DEF Moves, PeerInv, FinAfterAll, Left, Right
  <2>6. ThreadInv'
    BY <1>1, <2>1 DEF ThreadInv
  <2> QED
    BY <2>4, <2>5, <2>6
<1>8. CASE Thread!Return
  <2>1. /\ main = "readline" /\ main' = "returned" /\ down = <<>>
        /\ \/ downFin /\ rst' = rst
           \/ rst # "none" /\ rst' = "spent"
        /\ UNCHANGED <<variant, typed, stdin, eof, up, upFin, down, downFin, srv, crashed, out,
                       shown, copy, sendline, recvline>>
    BY <1>8 DEF Thread!Return, Thread!AtEOF, Thread!AtReset, Thread!Reported
  <2>2. downFin /\ (rst' # "none" => crashed) /\ rst' \in Results
    BY <1>1, <2>1 DEF PeerInv, TypeInv, Results
  <2>3. TypeInv'
    BY <1>1, <1>2, <1>3, <2>1, <2>2 DEF TypeInv
  <2>4. Moves
    BY <1>1, <1>2, <2>1, <2>2 DEF Moves, FinAfterAll, Left, Right
  <2>5. ThreadInv'
    BY <1>1, <2>1, <2>2 DEF ThreadInv, AtTheEnd
  <2> QED
    BY <2>3, <2>4, <2>5
<1>9. CASE Thread!Alive /\ Thread!Fgets
  <2>1. /\ copy = "fgets" /\ copy' = "writen" /\ stdin # <<>> /\ sendline = <<>>
        /\ sendline' = Take(stdin, 1) /\ stdin' = Tail(stdin) /\ main # "returned"
        /\ UNCHANGED <<variant, typed, eof, up, upFin, down, downFin, rst, srv, crashed, out,
                       shown, main, recvline>>
    BY <1>1, <1>9, ThreadHelpers DEF Thread!Fgets, Thread!Alive, ThreadInv
  <2>2. sendline' \in Seq(Nat) /\ stdin' \in Seq(Nat) /\ Cat(sendline', stdin') = stdin
    BY <1>3, <2>1, CutOne
  <2>3. TypeInv'
    BY <1>1, <1>2, <1>3, <2>1, <2>2 DEF TypeInv
  <2>4. Right' = Right
    <3>1. Cat(sendline, stdin) = Cat(sendline', stdin')
      BY <1>3, <2>1, <2>2, WithNothing
    <3> QED
      BY <1>1, <1>2, <2>1, <2>3, <3>1, Whole, WholeNext
  <2>5. Moves
    BY <1>1, <1>2, <2>1, <2>4 DEF Moves, PeerInv, ThreadInv, Left
  <2>6. ThreadInv'
    BY <1>1, <2>1, <2>2 DEF ThreadInv
  <2> QED
    BY <2>3, <2>5, <2>6
<1>10. CASE Thread!Alive /\ Thread!Writen
  <2>1. /\ copy = "writen" /\ copy' = "fgets" /\ sendline' = <<>> /\ main # "returned"
        /\ up' = (IF crashed THEN up ELSE up \o sendline) /\ rst' = (IF crashed THEN "sent" ELSE rst)
        /\ UNCHANGED <<variant, typed, stdin, eof, upFin, down, downFin, srv, crashed, out,
                       shown, main, recvline>>
    BY <1>10 DEF Thread!Writen, Thread!PutUp, Thread!Alive
  <2>2. up' \in Seq(Nat) /\ (~crashed => Cat(up', sendline') = Cat(up, sendline))
    <3>1. Cat(up, sendline) \in Seq(Nat)
      BY <1>3, Joined
    <3>2. ~crashed => up' = Cat(up, sendline)
      BY <2>1 DEF Cat
    <3> QED
      BY <1>3, <2>1, <3>1, <3>2, WithNothing
  <2>3. TypeInv'
    BY <1>1, <1>2, <1>3, <2>1, <2>2 DEF TypeInv, Results
  <2>4. Moves
    BY <1>1, <1>2, <2>1, <2>2 DEF Moves, PeerInv, ThreadInv, Left, Right
  <2>5. ThreadInv'
    BY <1>1, <1>3, <2>1 DEF ThreadInv
  <2> QED
    BY <2>3, <2>4, <2>5
<1>11. CASE Thread!Alive /\ Thread!WritenError
  <2>1. /\ copy = "writen" /\ copy' = "fgets" /\ sendline' = <<>> /\ main # "returned"
        /\ rst = "reset" /\ rst' = "spent"
        /\ UNCHANGED <<variant, typed, stdin, eof, up, upFin, down, downFin, srv, crashed, out,
                       shown, main, recvline>>
    BY <1>11 DEF Thread!WritenError, Thread!PutFails, Thread!Alive
  <2>2. crashed
    BY <1>1, <2>1 DEF PeerInv
  <2>3. TypeInv'
    BY <1>1, <1>2, <1>3, <2>1 DEF TypeInv, Results
  <2>4. Moves
    BY <1>1, <1>2, <2>1, <2>2 DEF Moves, ThreadInv
  <2>5. ThreadInv'
    BY <1>1, <1>3, <2>1 DEF ThreadInv
  <2> QED
    BY <2>3, <2>4, <2>5
<1>12. CASE Thread!Alive /\ Thread!BrokenPipe
  <2>1. /\ copy = "writen" /\ main' = "killed" /\ rst # "none"
        /\ UNCHANGED <<variant, typed, stdin, eof, up, upFin, down, downFin, rst, srv, crashed,
                       out, shown, recvline, copy, sendline>>
    BY <1>12 DEF Thread!BrokenPipe, Thread!PutKills
  <2>2. crashed
    BY <1>1, <2>1 DEF PeerInv
  <2>3. TypeInv'
    BY <1>1, <1>2, <1>3, <2>1 DEF TypeInv
  <2>4. Moves
    BY <1>1, <1>2, <2>1, <2>2 DEF Moves, FinAfterAll
  <2>5. ThreadInv'
    BY <1>1, <2>1 DEF ThreadInv
  <2> QED
    BY <2>3, <2>4, <2>5
<1>13. CASE Thread!Alive /\ Thread!Shutdown
  <2>1. /\ copy = "fgets" /\ copy' = "ended" /\ stdin = <<>> /\ eof /\ sendline = <<>>
        /\ upFin' = TRUE /\ main # "create"
        /\ UNCHANGED <<variant, typed, stdin, eof, up, down, downFin, rst, srv, crashed,
                       out, shown, main, recvline, sendline>>
    BY <1>1, <1>13 DEF Thread!Shutdown, ThreadInv
  <2>3. TypeInv'
    BY <1>1, <1>2, <1>3, <2>1 DEF TypeInv
  <2>4. Moves
    BY <1>1, <1>2, <2>1 DEF Moves, PeerInv, Left, Right
  <2>5. ThreadInv'
    BY <1>1, <2>1 DEF ThreadInv, AtTheEnd
  <2> QED
    BY <2>3, <2>4, <2>5
<1> QED
  BY <1>5, <1>6, <1>7, <1>8, <1>9, <1>10, <1>11, <1>12, <1>13
     DEF Thread!MainThread, Thread!CopyThread

-----------------------------------------------------------------------------
(* kqueue.                                                                 *)
LEMMA KqueueHelpers ==
  /\ \A s, k : Kqueue!Take(s, k) = Take(s, k) /\ Kqueue!Drop(s, k) = Drop(s, k)
  /\ Kqueue!UpRoom = UpRoom /\ Kqueue!OutRoom = OutRoom
BY DEF Kqueue!Take, Take, Kqueue!Smaller, Smaller, Kqueue!Drop, Drop, Kqueue!UpRoom, UpRoom,
       Kqueue!OutRoom, OutRoom

(* No event twice.                                                         *)
Once(k) == \A i, j \in 1 .. Len(k) : k[i] = k[j] => i = j

LEMMA EventsLeft ==
  ASSUME NEW k \in Seq({"stdin", "sock"}), k # <<>>, Once(k)
  PROVE  /\ Tail(k) \in Seq({"stdin", "sock"}) /\ Once(Tail(k))
         /\ (\E j \in 1 .. Len(Tail(k)) : Tail(k)[j] = "stdin")
              => Head(k) # "stdin" /\ (\E j \in 1 .. Len(k) : k[j] = "stdin")
         /\ Head(k) = "stdin" => \E j \in 1 .. Len(k) : k[j] = "stdin"
<1>1. /\ Tail(k) \in Seq({"stdin", "sock"}) /\ Len(Tail(k)) = Len(k) - 1 /\ Len(k) \in Nat \ {0}
      /\ Head(k) = k[1] /\ \A j \in 1 .. Len(k) - 1 : Tail(k)[j] = k[j + 1]
  BY HeadTailProperties
<1>2. Once(Tail(k))
  BY <1>1 DEF Once
<1>3. \A j \in 1 .. Len(Tail(k)) : Tail(k)[j] = "stdin" =>
        /\ j + 1 \in 1 .. Len(k) /\ k[j + 1] = "stdin" /\ k[1] # "stdin"
  BY <1>1 DEF Once
<1>4. 1 \in 1 .. Len(k)
  BY <1>1
<1> QED
  BY <1>1, <1>2, <1>3, <1>4

LEMMA OneOrTwo ==
  ASSUME NEW S, NEW a \in S, NEW b \in S
  PROVE  /\ <<a>> \in Seq(S) /\ Len(<<a>>) = 1
         /\ <<a, b>> \in Seq(S) /\ Len(<<a, b>>) = 2 /\ <<a, b>>[1] = a /\ <<a, b>>[2] = b
OBVIOUS

LEMMA OrdersOnce ==
  ASSUME NEW k \in Kqueue!Orders
  PROVE  k \in Seq({"stdin", "sock"}) /\ Once(k)
<1>1. k \in {<<>>, <<"stdin">>, <<"sock">>, <<"stdin", "sock">>, <<"sock", "stdin">>}
  BY DEF Kqueue!Orders
<1>2. CASE k = <<>>
  BY <1>2 DEF Once
<1>3. CASE k = <<"stdin">> \/ k = <<"sock">>
  <2>1. k \in Seq({"stdin", "sock"}) /\ Len(k) = 1
    <3>1. PICK S : S = {"stdin", "sock"}
      OBVIOUS
    <3> QED
      BY <1>3, <3>1, OneOrTwo
  <2> QED
    BY <2>1 DEF Once
<1>4. CASE k = <<"stdin", "sock">> \/ k = <<"sock", "stdin">>
  <2>1. k \in Seq({"stdin", "sock"}) /\ Len(k) = 2 /\ k[1] # k[2]
    <3>1. PICK S : S = {"stdin", "sock"}
      OBVIOUS
    <3>2. PICK a \in S, b \in S : k = <<a, b>> /\ a # b
      BY <1>4, <3>1
    <3>3. k \in Seq(S) /\ Len(k) = 2 /\ k[1] = a /\ k[2] = b
      BY <3>2, OneOrTwo
    <3> QED
      BY <3>1, <3>2, <3>3
  <2> QED
    BY <2>1 DEF Once
<1> QED
  BY <1>1, <1>2, <1>3, <1>4

LEMMA KqueueKeeps ==
  ASSUME IInv, variant = "kqueue", Kqueue!Client,
         UNCHANGED <<variant, rset, nonbVars, lineVars, buf, stdioVars, threadVars>>
  PROVE  IInv'
<1>1. KqueueInv /\ TypeInv /\ PeerInv /\ FinAfterAll
  BY DEF IInv, LocalInv
<1>2. /\ variant' = "kqueue" /\ ToSend = ibuf /\ ToSend' = ibuf'
      /\ Recvd = obuf /\ Recvd' = obuf'
  BY Linked, LinkedNext DEF Kqueue!ToSend, Kqueue!Recvd
<1>3. /\ out \in Seq(Nat) /\ down \in Seq(Nat) /\ up \in Seq(Nat) /\ stdin \in Seq(Nat)
      /\ ibuf \in Seq(Nat) /\ obuf \in Seq(Nat) /\ <<>> \in Seq(Nat) /\ MAXLINE \in Nat \ {0}
      /\ kev \in Seq({"stdin", "sock"}) /\ Once(kev)
  BY <1>1, PeerAssumption DEF TypeInv, KqueueInv, Once
<1>4. SUFFICES TypeInv' /\ Moves /\ KqueueInv'
  BY <1>2, ClientKeeps DEF LocalInv
<1>0. \A s \in Seq(Nat) : (Len(s) = 0 <=> s = <<>>) /\ Len(s) \in Nat
  OBVIOUS
<1>5. kev # <<>> /\ kev' = Tail(kev) =>
        /\ kev' \in Seq({"stdin", "sock"}) /\ Once(kev') /\ (Expected' => Expected)
        /\ Head(kev) = "stdin" => Expected /\ ~Expected'
  BY <1>3, EventsLeft DEF Expected
<1> USE DEF Kqueue!serverVars, Kqueue!netVars, Kqueue!outVars, Kqueue!userVars, Kqueue!peerVars
<1>6. CASE Kqueue!Kevent
  <2>1. /\ pc = "kevent" /\ pc' = "event" /\ kev' \in Kqueue!Orders /\ left' = Len(stdin)
        /\ UNCHANGED <<variant, typed, stdin, eof, up, upFin, down, downFin, rst, srv, crashed,
                       out, shown, isfile, n, obuf, ibuf>>
    BY <1>6 DEF Kqueue!Kevent
  <2>2. kev' \in Seq({"stdin", "sock"}) /\ Once(kev') /\ left' \in Nat
    BY <1>0, <1>3, <2>1, OrdersOnce
  <2>3. TypeInv'
    BY <1>1, <1>2, <1>3, <2>1 DEF TypeInv
  <2>4. Moves
    BY <1>1, <1>2, <2>1 DEF Moves, PeerInv, FinAfterAll, Left, Right
  <2>5. KqueueInv'
    BY <1>1, <2>1, <2>2 DEF KqueueInv, Once
  <2> QED
    BY <2>3, <2>4, <2>5
<1>7. CASE Kqueue!NoMoreEvents \/ Kqueue!SockEOF \/ Kqueue!BrokenPipe
  <2>1. /\ UNCHANGED <<variant, typed, stdin, eof, up, upFin, down, downFin, rst, srv, crashed,
                       out, shown, isfile, kev, left, n, obuf, ibuf>>
        /\ pc \in {"event", "writen"} /\ pc' \in {"kevent", "normal", "premature", "killed"}
        /\ pc = "writen" => pc' = "killed"
        /\ pc' = "normal" => AtTheEnd
    BY <1>7 DEF Kqueue!NoMoreEvents, Kqueue!SockEOF, Kqueue!BrokenPipe, Kqueue!Event,
       Kqueue!AtEOF, AtTheEnd
  <2>3. TypeInv'
    BY <1>1, <1>2, <1>3, <2>1 DEF TypeInv
  <2>4. Moves
    BY <1>1, <1>2, <2>1 DEF Moves, PeerInv, FinAfterAll, Left, Right
  <2>5. KqueueInv'
    BY <1>1, <2>1 DEF KqueueInv, Expected, AtTheEnd
  <2> QED
    BY <2>3, <2>4, <2>5
<1>8. CASE Kqueue!SockData
  <2>1. /\ pc = "event" /\ pc' = "stdout" /\ down # <<>> /\ kev # <<>> /\ kev' = Tail(kev)
        /\ down' = Drop(down, MAXLINE) /\ obuf' = Take(down, MAXLINE) /\ obuf = <<>>
        /\ UNCHANGED <<variant, typed, stdin, eof, up, upFin, downFin, rst, srv, crashed,
                       out, shown, isfile, left, n, ibuf>>
    BY <1>1, <1>8, KqueueHelpers DEF Kqueue!SockData, Kqueue!TakeDown, Kqueue!Event, KqueueInv
  <2>2. /\ obuf' \in Seq(Nat) /\ obuf' # <<>> /\ down' \in Seq(Nat)
        /\ Cat(obuf', down') = down
    BY <1>3, <2>1, Cut, CutLine
  <2>3. TypeInv'
    BY <1>1, <1>2, <1>3, <2>1, <2>2 DEF TypeInv
  <2>4. Left' = Left
    <3>1. Cat(obuf, down) = Cat(obuf', down')
      BY <1>3, <2>1, <2>2, WithNothing
    <3> QED
      BY <1>1, <1>2, <2>1, <2>3, <3>1, Whole, WholeNext
  <2>5. Moves
    BY <1>1, <1>2, <2>1, <2>4 DEF Moves, PeerInv, FinAfterAll, Right
  <2>6. KqueueInv'
    BY <1>1, <1>5, <2>1, <2>2 DEF KqueueInv, Once
  <2> QED
    BY <2>3, <2>5, <2>6
<1>9. CASE Kqueue!SockReset
  <2>1. /\ pc = "event" /\ pc' = pc /\ kev # <<>> /\ kev' = Tail(kev)
        /\ rst # "none" /\ rst' = "spent"
        /\ UNCHANGED <<variant, typed, stdin, eof, up, upFin, down, downFin, srv, crashed,
                       out, shown, isfile, left, n, ibuf, obuf>>
    BY <1>9 DEF Kqueue!SockReset, Kqueue!AtReset, Kqueue!Reported, Kqueue!Event
  <2>2. crashed
    BY <1>1, <2>1 DEF PeerInv
  <2>3. TypeInv'
    BY <1>1, <1>2, <1>3, <2>1 DEF TypeInv, Results
  <2>4. Moves
    BY <1>1, <1>2, <2>1, <2>2 DEF Moves, FinAfterAll
  <2>5. KqueueInv'
    BY <1>1, <1>5, <2>1 DEF KqueueInv, Once
  <2> QED
    BY <2>3, <2>4, <2>5
<1>10. CASE Kqueue!WriteStdout
  <2>1. /\ pc = "stdout" /\ obuf # <<>> /\ obuf' = Tail(obuf) /\ out' = Append(out, Head(obuf))
        /\ pc' = (IF Len(obuf) = 1 THEN "event" ELSE "stdout")
        /\ UNCHANGED <<variant, typed, stdin, eof, up, upFin, down, downFin, rst, srv, crashed,
                       shown, isfile, kev, left, n, ibuf>>
    BY <1>1, <1>10 DEF Kqueue!WriteStdout, KqueueInv
  <2>2. PICK t \in Seq(Nat) : /\ t = <<Head(obuf)>> /\ Head(obuf) \in Nat
                             /\ Cat(t, Tail(obuf)) = obuf
    BY <1>3, <2>1, CutOne
  <2>3. obuf' \in Seq(Nat) /\ Len(obuf') = Len(obuf) - 1 /\ Len(obuf) \in Nat
    BY <1>3, <2>1, CutOne
  <2>4. out' = Cat(out, t) /\ out' \in Seq(Nat)
    BY <1>3, <2>1, <2>2, Added
  <2>5. Len(out') = Len(out) + 1
    BY <1>3, <2>1, <2>2, AppendProperties
  <2>6. TypeInv'
    <3>1. shown' \in 0 .. Len(out')
      BY <1>0, <1>1, <1>3, <2>1, <2>5 DEF TypeInv
    <3> QED
      BY <1>1, <1>2, <1>3, <2>1, <2>3, <2>4, <3>1 DEF TypeInv
  <2>7. Left' = Left
    <3>0. out \in Seq(Nat) /\ t \in Seq(Nat) /\ obuf' \in Seq(Nat)
      BY <1>3, <2>2, <2>3
    <3>1. Cat(Cat(out, t), obuf') = Cat(out, Cat(t, obuf'))
      BY <3>0, Associated
    <3> QED
      BY <1>2, <2>1, <2>2, <2>4, <3>1 DEF Left
  <2>8. Moves
    BY <1>1, <1>2, <2>1, <2>7 DEF Moves, PeerInv, FinAfterAll, Right
  <2>9. KqueueInv'
    <3>1. Len(obuf) = 1 <=> Len(obuf') = 0
      BY <2>3
    <3>2. obuf' = <<>> <=> Len(obuf') = 0
      BY <1>0, <2>3
    <3> QED
      BY <1>1, <2>1, <2>3, <3>1, <3>2 DEF KqueueInv, Expected
  <2> QED
    BY <2>6, <2>8, <2>9
<1>11. CASE Kqueue!StdinRead
  <2>1. /\ pc = "event" /\ kev # <<>> /\ kev' = Tail(kev) /\ Head(kev) = "stdin"
        /\ stdin # <<>> \/ eof
        /\ ibuf = <<>>
        /\ stdin' = Drop(stdin, MAXLINE) /\ ibuf' = Take(stdin, MAXLINE)
        /\ n' = Len(Take(stdin, MAXLINE))
        /\ pc' = (IF stdin = <<>> THEN "eof?" ELSE "writen")
        /\ UNCHANGED <<variant, typed, eof, up, upFin, down, downFin, rst, srv, crashed,
                       out, shown, isfile, left, obuf>>
    BY <1>1, <1>11, KqueueHelpers DEF Kqueue!StdinRead, Kqueue!Event, KqueueInv
  <2>2. PICK b \in Seq(Nat), r \in Seq(Nat) : b = ibuf' /\ r = stdin' /\ Cat(b, r) = stdin
    BY <1>3, <2>1, Cut
  <2>3. Len(stdin) = Len(b) + Len(r) /\ n' = Len(b)
    <3>1. Len(Cat(b, r)) = Len(b) + Len(r)
      BY Joined
    <3> QED
      BY <2>1, <2>2, <3>1
  <2>4. TypeInv'
    BY <1>1, <1>2, <1>3, <2>1, <2>2 DEF TypeInv
  <2>5. ibuf = <<>>
    BY <1>1, <2>1 DEF KqueueInv
  <2>6. Right' = Right
    <3>1. Cat(ibuf, stdin) = Cat(ibuf', stdin')
      BY <1>3, <2>2, <2>5, WithNothing
    <3> QED
      BY <1>1, <1>2, <2>1, <2>4, <3>1, Whole, WholeNext
  <2>7. stdin = <<>> => b = <<>> /\ r = <<>>
    BY <1>0, <2>3
  <2>8. stdin # <<>> => b # <<>>
    BY <1>3, <2>1, <2>2, CutLine
  <2>9. Moves
    BY <1>1, <1>2, <2>1, <2>2, <2>6, <2>7 DEF Moves, PeerInv, FinAfterAll, Left
  <2>10. n' = 0 => eof /\ stdin' = <<>>
    BY <1>0, <2>1, <2>2, <2>3, <2>7, <2>8
  <2>11. isfile /\ n' = left => stdin' = <<>>
    <3>1. isfile => left = Len(stdin)
      BY <1>1, <1>5, <2>1 DEF KqueueInv
    <3> QED
      BY <1>0, <2>2, <2>3, <3>1
  <2>12. KqueueInv'
    <3>1. n' \in Nat /\ ibuf' \in Seq(Nat) /\ (pc' = "eof?" => ibuf' = <<>>)
          /\ (pc' = "writen" => ibuf' # <<>>)
      BY <1>0, <2>1, <2>2, <2>3, <2>7, <2>8
    <3>2. ~Expected' /\ kev' \in Seq({"stdin", "sock"}) /\ Once(kev')
      BY <1>5, <2>1
    <3> QED
      BY <1>1, <2>1, <2>10, <2>11, <3>1, <3>2 DEF KqueueInv, Once
  <2> QED
    BY <2>4, <2>9, <2>12
<1>12. CASE Kqueue!Writen
  <2>1. /\ pc = "writen" /\ ibuf # <<>> /\ ibuf' = Tail(ibuf)
        /\ pc' = (IF Len(ibuf) = 1 THEN "eof?" ELSE "writen")
        /\ up' = (IF crashed THEN up ELSE up \o Take(ibuf, 1))
        /\ rst' = (IF crashed THEN "sent" ELSE rst)
        /\ UNCHANGED <<variant, typed, stdin, eof, upFin, down, downFin, srv, crashed, out,
                       shown, isfile, kev, left, n, obuf>>
    BY <1>1, <1>12, KqueueHelpers DEF Kqueue!Writen, Kqueue!PutUp, KqueueInv
  <2>2. PICK t \in Seq(Nat) : t = Take(ibuf, 1) /\ Cat(t, Tail(ibuf)) = ibuf
    BY <1>3, <2>1, CutOne
  <2>3. ibuf' \in Seq(Nat) /\ Len(ibuf') = Len(ibuf) - 1 /\ Len(ibuf) \in Nat
    BY <1>3, <2>1, CutOne
  <2>4. up' \in Seq(Nat) /\ (~crashed => Cat(up', ibuf') = Cat(up, ibuf))
    <3>1. Cat(up, t) \in Seq(Nat)
      BY <1>3, <2>2, Joined
    <3>2. Cat(Cat(up, t), ibuf') = Cat(up, Cat(t, ibuf'))
      BY <1>3, <2>2, <2>3, Associated
    <3>3. ~crashed => up' = Cat(up, t)
      BY <2>1, <2>2 DEF Cat
    <3> QED
      BY <1>3, <2>1, <2>2, <3>1, <3>2, <3>3
  <2>5. TypeInv'
    BY <1>1, <1>2, <2>1, <2>3, <2>4 DEF TypeInv, Results
  <2>6. upFin' => eof /\ stdin' = <<>> /\ ibuf' = <<>>
    BY <1>1, <1>2, <2>1 DEF FinAfterAll
  <2>7. Moves
    BY <1>1, <1>2, <2>1, <2>4, <2>6 DEF Moves, PeerInv, Left, Right
  <2>8. KqueueInv'
    <3>1. Len(ibuf) = 1 <=> Len(ibuf') = 0
      BY <2>3
    <3>2. ibuf' = <<>> <=> Len(ibuf') = 0
      BY <1>0, <2>3
    <3> QED
      BY <1>1, <2>1, <2>3, <3>1, <3>2 DEF KqueueInv, Expected
  <2> QED
    BY <2>5, <2>7, <2>8
<1>13. CASE Kqueue!WritenError
  <2>1. /\ pc = "writen" /\ pc' = "eof?" /\ ibuf' = <<>> /\ rst = "reset" /\ rst' = "spent"
        /\ UNCHANGED <<variant, typed, stdin, eof, up, upFin, down, downFin, srv, crashed, out,
                       shown, isfile, kev, left, n, obuf>>
    BY <1>13 DEF Kqueue!WritenError, Kqueue!PutFails
  <2>2. crashed
    BY <1>1, <2>1 DEF PeerInv
  <2>3. TypeInv'
    BY <1>1, <1>2, <1>3, <2>1 DEF TypeInv, Results
  <2>4. Moves
    BY <1>1, <1>2, <2>1, <2>2 DEF Moves, FinAfterAll
  <2>5. KqueueInv'
    BY <1>1, <1>3, <2>1 DEF KqueueInv, Expected
  <2> QED
    BY <2>3, <2>4, <2>5
<1>14. CASE Kqueue!CheckEnd
  <2>1. /\ pc = "eof?" /\ pc' = "event" /\ ibuf = <<>>
        /\ upFin' = upFin \/ (upFin' = TRUE /\ (n = 0 \/ (isfile /\ n = left)))
        /\ UNCHANGED <<variant, typed, stdin, eof, up, down, downFin, rst, srv, crashed, out,
                       shown, isfile, kev, left, n, ibuf, obuf>>
    BY <1>1, <1>14 DEF Kqueue!CheckEnd, Kqueue!AtEnd, KqueueInv
  <2>2. upFin' => eof /\ stdin = <<>> /\ ibuf = <<>>
    BY <1>1, <1>2, <2>1 DEF KqueueInv, FinAfterAll
  <2>3. TypeInv'
    BY <1>1, <1>2, <1>3, <2>1 DEF TypeInv
  <2>4. Moves
    BY <1>1, <1>2, <2>1, <2>2 DEF Moves, PeerInv, Left, Right
  <2>5. KqueueInv'
    BY <1>1, <2>1 DEF KqueueInv, Expected
  <2> QED
    BY <2>3, <2>4, <2>5
<1> QED
  BY <1>6, <1>7, <1>8, <1>9, <1>10, <1>11, <1>12, <1>13, <1>14 DEF Kqueue!Client

-----------------------------------------------------------------------------
(* Non-blocking I/O: the part of a buffer between its two pointers.        *)
LEMMA NonbHelpers ==
  /\ \A s, k : Nonb!Take(s, k) = Take(s, k) /\ Nonb!Drop(s, k) = Drop(s, k)
  /\ \A a, b : Nonb!Smaller(a, b) = Smaller(a, b)
  /\ Nonb!UpRoom = UpRoom /\ Nonb!OutRoom = OutRoom
BY DEF Nonb!Take, Take, Nonb!Smaller, Smaller, Nonb!Drop, Drop, Nonb!UpRoom, UpRoom,
       Nonb!OutRoom, OutRoom

LEMMA Contents ==
  ASSUME NEW b \in [0 .. MAXLINE - 1 -> Nat], NEW k \in 0 .. MAXLINE, NEW o \in 0 .. k
  PROVE  /\ Nonb!Content(b, o, k) \in Seq(Nat) /\ Len(Nonb!Content(b, o, k)) = k - o
         /\ \A j \in 1 .. k - o : Nonb!Content(b, o, k)[j] = b[o + j - 1]
         /\ o = k => Nonb!Content(b, o, k) = <<>>
<1>1. MAXLINE \in Nat \ {0}
  BY PeerAssumption
<1>2. k \in Nat /\ o \in Nat /\ k - o \in Nat /\ k <= MAXLINE /\ o <= k
  BY <1>1
<1>3. \A j \in 1 .. k - o : o + j - 1 \in 0 .. MAXLINE - 1
  BY <1>1, <1>2
<1>4. Nonb!Content(b, o, k) = [j \in 1 .. k - o |-> b[o + j - 1]]
  BY DEF Nonb!Content
<1>5. \A j \in 1 .. k - o : b[o + j - 1] \in Nat
  BY <1>3
<1>6. Nonb!Content(b, o, k) \in Seq(Nat) /\ Len(Nonb!Content(b, o, k)) = k - o
  BY <1>2, <1>4, <1>5
<1>7. o = k => Nonb!Content(b, o, k) = <<>>
  BY <1>6
<1> QED
  BY <1>4, <1>6, <1>7

LEMMA ContentSplit ==
  ASSUME NEW b \in [0 .. MAXLINE - 1 -> Nat], NEW k \in 0 .. MAXLINE, NEW o \in 0 .. k,
         NEW m \in o .. k
  PROVE  Nonb!Content(b, o, k) = Cat(Nonb!Content(b, o, m), Nonb!Content(b, m, k))
<1>1. MAXLINE \in Nat \ {0}
  BY PeerAssumption
<1>2. m \in 0 .. MAXLINE /\ o \in 0 .. m /\ m \in 0 .. k
  BY <1>1
<1>3. PICK w \in Seq(Nat) : /\ w = Nonb!Content(b, o, k) /\ Len(w) = k - o
                            /\ \A j \in 1 .. k - o : w[j] = b[o + j - 1]
  BY Contents
<1>4. PICK x \in Seq(Nat) : /\ x = Nonb!Content(b, o, m) /\ Len(x) = m - o
                            /\ \A j \in 1 .. m - o : x[j] = b[o + j - 1]
  BY <1>2, Contents
<1>5. PICK y \in Seq(Nat) : /\ y = Nonb!Content(b, m, k) /\ Len(y) = k - m
                            /\ \A j \in 1 .. k - m : y[j] = b[m + j - 1]
  BY <1>2, Contents
<1>6. PICK z \in Seq(Nat) :
         /\ z = x \o y /\ Len(z) = Len(x) + Len(y)
         /\ \A i \in 1 .. Len(x) + Len(y) : z[i] = IF i <= Len(x) THEN x[i] ELSE y[i - Len(x)]
  <2>1. /\ x \o y \in Seq(Nat) /\ Len(x \o y) = Len(x) + Len(y)
        /\ \A i \in 1 .. Len(x) + Len(y) : (x \o y)[i] =
              IF i <= Len(x) THEN x[i] ELSE y[i - Len(x)]
    BY ConcatProperties
  <2> QED
    BY <2>1
<1>7. Len(w) = Len(z)
  BY <1>1, <1>3, <1>4, <1>5, <1>6
<1>8. ASSUME NEW i \in 1 .. k - o PROVE w[i] = z[i]
  <2>0. /\ i \in Int /\ m - o \in Int /\ i \in 1 .. Len(x) + Len(y) /\ Len(x) = m - o
        /\ z[i] = IF i <= Len(x) THEN x[i] ELSE y[i - Len(x)]
    <3>1. Len(x) + Len(y) = k - o
      BY <1>1, <1>2, <1>4, <1>5
    <3>2. i \in Int /\ m - o \in Int /\ i \in 1 .. Len(x) + Len(y) /\ Len(x) = m - o
      BY <1>1, <1>2, <1>4, <3>1
    <3> QED
      BY <1>6, <3>2
  <2>1. CASE i <= m - o
    BY <1>1, <1>2, <1>3, <1>4, <1>5, <1>6, <2>1
  <2>2. CASE i > m - o
    <3>1. i - (m - o) \in 1 .. k - m /\ m + (i - (m - o)) - 1 = o + i - 1
      BY <1>1, <1>2, <2>2
    <3>2. z[i] = y[i - (m - o)]
      BY <2>0, <2>2
    <3> QED
      BY <1>3, <1>5, <3>1, <3>2
  <2> QED
    BY <2>0, <2>1, <2>2
<1>9. w = z
  BY <1>3, <1>6, <1>7, <1>8, SeqEqual
<1> QED
  BY <1>3, <1>4, <1>5, <1>6, <1>9 DEF Cat

LEMMA StoreAdds ==
  ASSUME NEW b \in [0 .. MAXLINE - 1 -> Nat], NEW p \in 0 .. MAXLINE, NEW o \in 0 .. p,
         NEW d \in Seq(Nat), p + Len(d) <= MAXLINE
  PROVE  /\ Nonb!Store(b, p, d) \in [0 .. MAXLINE - 1 -> Nat]
         /\ Nonb!Content(Nonb!Store(b, p, d), o, p + Len(d)) = Cat(Nonb!Content(b, o, p), d)
<1>1. MAXLINE \in Nat \ {0} /\ Len(d) \in Nat /\ p \in Nat /\ o \in Nat /\ o <= p
  BY PeerAssumption
<1>2. PICK s : /\ s = Nonb!Store(b, p, d)
               /\ s = [c \in 0 .. MAXLINE - 1 |->
                         IF p <= c /\ c < p + Len(d) THEN d[c - p + 1] ELSE b[c]]
  BY DEF Nonb!Store, Nonb!Cells
<1>3. \A c \in 0 .. MAXLINE - 1 : p <= c /\ c < p + Len(d) => d[c - p + 1] \in Nat
  <2>1. \A c \in 0 .. MAXLINE - 1 : p <= c /\ c < p + Len(d) => c - p + 1 \in 1 .. Len(d)
    BY <1>1
  <2> QED
    BY <2>1
<1>4. s \in [0 .. MAXLINE - 1 -> Nat]
  BY <1>2, <1>3
<1>5. p + Len(d) \in 0 .. MAXLINE /\ p \in o .. p + Len(d) /\ o \in 0 .. p + Len(d)
      /\ p \in 0 .. p + Len(d)
  BY <1>1
<1>6. Nonb!Content(s, o, p + Len(d)) = Cat(Nonb!Content(s, o, p), Nonb!Content(s, p, p + Len(d)))
  BY <1>4, <1>5, ContentSplit
<1>7. Nonb!Content(s, o, p) = Nonb!Content(b, o, p)
  <2>1. \A j \in 1 .. p - o : s[o + j - 1] = b[o + j - 1]
    <3>1. \A j \in 1 .. p - o : o + j - 1 \in 0 .. MAXLINE - 1 /\ o + j - 1 < p
      BY <1>1
    <3> QED
      BY <1>1, <1>2, <3>1
  <2> QED
    BY <2>1 DEF Nonb!Content
<1>8. Nonb!Content(s, p, p + Len(d)) = d
  <2>0. PICK q \in 0 .. MAXLINE : q = p + Len(d) /\ p \in 0 .. q
    BY <1>5
  <2>1. PICK t \in Seq(Nat) : /\ t = Nonb!Content(s, p, q) /\ Len(t) = q - p
                              /\ \A j \in 1 .. q - p : t[j] = s[p + j - 1]
    BY <1>4, <2>0, Contents
  <2>2. q - p = Len(d)
    BY <1>1, <2>0
  <2>3. \A j \in 1 .. Len(d) : s[p + j - 1] = d[j]
    <3>1. \A j \in 1 .. Len(d) : /\ p + j - 1 \in 0 .. MAXLINE - 1 /\ p <= p + j - 1
                                 /\ p + j - 1 < p + Len(d) /\ (p + j - 1) - p + 1 = j
      BY <1>1
    <3> QED
      BY <1>2, <3>1
  <2>4. t = d
    BY <2>1, <2>2, <2>3, SeqEqual
  <2> QED
    BY <2>0, <2>1, <2>4
<1> QED
  BY <1>2, <1>4, <1>6, <1>7, <1>8

LEMMA CutSmaller ==
  ASSUME NEW s \in Seq(Nat), NEW room \in Nat, NEW k, k = Smaller(Len(s), room)
  PROVE  /\ k \in Nat /\ k <= room /\ Take(s, k) \in Seq(Nat) /\ Drop(s, k) \in Seq(Nat)
         /\ Len(Take(s, k)) = k /\ Cat(Take(s, k), Drop(s, k)) = s
<1>1. k \in Nat /\ k <= room /\ k <= Len(s) /\ Len(s) \in Nat
  BY DEF Smaller
<1>2. Smaller(k, Len(s)) = k
  BY <1>1 DEF Smaller
<1> QED
  BY <1>1, <1>2, Cut

LEMMA NonbKeeps ==
  ASSUME IInv, variant = "nonb", Nonb!Client,
         UNCHANGED <<variant, lineVars, buf, stdioVars, threadVars, kqVars>>
  PROVE  IInv'
<1>1. NonbInv /\ TypeInv /\ PeerInv /\ FinAfterAll
  BY DEF IInv, LocalInv
<1>2. /\ variant' = "nonb"
      /\ ToSend = Nonb!Content(to, tooptr, toiptr) /\ ToSend' = Nonb!Content(to', tooptr', toiptr')
      /\ Recvd = Nonb!Content(fr, froptr, friptr) /\ Recvd' = Nonb!Content(fr', froptr', friptr')
  BY Linked, LinkedNext DEF Nonb!ToSend, Nonb!Recvd
<1>3. /\ out \in Seq(Nat) /\ down \in Seq(Nat) /\ up \in Seq(Nat) /\ stdin \in Seq(Nat)
      /\ <<>> \in Seq(Nat) /\ ToSend \in Seq(Nat) /\ Recvd \in Seq(Nat)
      /\ MAXLINE \in Nat \ {0} /\ UpCap \in Nat \ {0} /\ OutCap \in Nat \ {0}
  BY <1>1, PeerAssumption DEF TypeInv
<1>0. /\ to \in [0 .. MAXLINE - 1 -> Nat] /\ fr \in [0 .. MAXLINE - 1 -> Nat]
      /\ toiptr \in 0 .. MAXLINE /\ tooptr \in 0 .. toiptr
      /\ friptr \in 0 .. MAXLINE /\ froptr \in 0 .. friptr
  BY <1>1 DEF NonbInv
<1>n. /\ MAXLINE \in Nat \ {0} /\ UpCap \in Nat \ {0} /\ OutCap \in Nat \ {0}
      /\ toiptr \in Nat /\ tooptr \in Nat /\ tooptr <= toiptr /\ toiptr <= MAXLINE
      /\ friptr \in Nat /\ froptr \in Nat /\ froptr <= friptr /\ friptr <= MAXLINE
      /\ Len(up) \in Nat /\ Len(out) \in Nat /\ shown \in Nat /\ shown <= Len(out)
      /\ Len(up) <= UpCap /\ Len(out) - shown <= OutCap
  <2>1. Len(up) \in Nat /\ Len(out) \in Nat
    BY <1>3
  <2>2. shown \in 0 .. Len(out) /\ Len(up) <= UpCap /\ Len(out) - shown <= OutCap
    BY <1>1 DEF NonbInv, TypeInv
  <2> QED
    BY <1>0, <1>3, <2>1, <2>2
<1>4. SUFFICES TypeInv' /\ Moves /\ NonbInv'
  BY <1>2, ClientKeeps DEF LocalInv
<1> USE DEF Nonb!serverVars, Nonb!netVars, Nonb!outVars, Nonb!userVars, Nonb!peerVars, Nonb!bufVars
<1>5. CASE \/ Nonb!SockEOF \/ Nonb!BrokenPipe
           \/ Nonb!Skip("stdin", "sockin", "stdin" \in rset)
           \/ Nonb!Skip("sockin", "stdout", "sock" \in rset)
           \/ Nonb!Skip("stdout", "sockout", Nonb!WriteStdout)
           \/ Nonb!Skip("sockout", "select", Nonb!WriteSock)
  <2>1. /\ UNCHANGED <<variant, typed, stdin, eof, up, upFin, down, downFin, rst, srv, crashed,
                       out, shown, to, toiptr, tooptr, fr, friptr, froptr, stdineof, rset>>
        /\ pc' \in {"select", "sockin", "stdout", "sockout", "normal", "premature", "killed"}
        /\ pc' = "sockin" => pc = "stdin"
        /\ pc' = "normal" => AtTheEnd
    BY <1>5 DEF Nonb!SockEOF, Nonb!BrokenPipe, Nonb!Skip, Nonb!AtEOF, AtTheEnd
  <2>2. TypeInv'
    BY <1>1, <1>2, <2>1 DEF TypeInv
  <2>3. Moves
    BY <1>1, <1>2, <2>1 DEF Moves, PeerInv, FinAfterAll, Left, Right
  <2>4. NonbInv'
    BY <1>1, <2>1 DEF NonbInv, AtTheEnd
  <2> QED
    BY <2>2, <2>3, <2>4
<1>6. CASE Nonb!Select
  <2>1. /\ UNCHANGED <<variant, typed, stdin, eof, up, upFin, down, downFin, rst, srv, crashed,
                       out, shown, to, toiptr, tooptr, fr, friptr, froptr, stdineof>>
        /\ pc' = "stdin"
        /\ "stdin" \in rset' => toiptr < MAXLINE /\ (stdin # <<>> \/ eof)
        /\ "sock" \in rset' => friptr < MAXLINE
    BY <1>6 DEF Nonb!Select, Nonb!WantRead, Nonb!CanRead, Nonb!If
  <2>2. TypeInv'
    BY <1>1, <1>2, <2>1 DEF TypeInv
  <2>3. Moves
    BY <1>1, <1>2, <2>1 DEF Moves, PeerInv, FinAfterAll, Left, Right
  <2>4. NonbInv'
    BY <1>1, <2>1 DEF NonbInv
  <2> QED
    BY <2>2, <2>3, <2>4
<1>7. CASE Nonb!StdinData
  <2>1. PICK k : /\ k = Smaller(Len(stdin), MAXLINE - toiptr) /\ k > 0
                 /\ to' = Nonb!Store(to, toiptr, Take(stdin, k)) /\ toiptr' = toiptr + k
                 /\ stdin' = Drop(stdin, k)
    BY <1>7, NonbHelpers DEF Nonb!StdinData
  <2>2. /\ pc = "stdin" /\ pc' = "sockin"
        /\ UNCHANGED <<variant, typed, eof, up, upFin, down, downFin, rst, srv, crashed, out, shown,
                       tooptr, fr, friptr, froptr, stdineof, rset>>
    BY <1>7 DEF Nonb!StdinData
  <2>3. MAXLINE - toiptr \in Nat
    BY <1>0, <1>3
  <2>4. PICK t \in Seq(Nat) : /\ t = Take(stdin, k) /\ Len(t) = k /\ k \in Nat
                              /\ k <= MAXLINE - toiptr /\ stdin' \in Seq(Nat)
                              /\ Cat(t, stdin') = stdin
    BY <1>3, <2>1, <2>3, CutSmaller
  <2>5. toiptr + Len(t) <= MAXLINE /\ toiptr' = toiptr + Len(t)
    <3>1. Len(t) = k /\ k \in Nat /\ k <= MAXLINE - toiptr
      BY <2>4
    <3>2. toiptr' = toiptr + k
      BY <2>1
    <3> QED
      BY <1>n, <3>1, <3>2
  <2>6. to' \in [0 .. MAXLINE - 1 -> Nat] /\ ToSend' = Cat(ToSend, t)
    <3>1. /\ Nonb!Store(to, toiptr, t) \in [0 .. MAXLINE - 1 -> Nat]
          /\ Nonb!Content(Nonb!Store(to, toiptr, t), tooptr, toiptr + Len(t))
               = Cat(Nonb!Content(to, tooptr, toiptr), t)
      BY <1>0, <2>5, StoreAdds
    <3> QED
      BY <1>2, <2>1, <2>2, <2>4, <2>5, <3>1
  <2>7. ToSend' \in Seq(Nat)
    BY <1>3, <2>4, <2>6, Joined
  <2>8. TypeInv'
    BY <1>1, <1>2, <2>2, <2>4, <2>7 DEF TypeInv
  <2>9. Right' = Right
    <3>1. Cat(Cat(ToSend, t), stdin') = Cat(ToSend, Cat(t, stdin'))
      BY <1>3, <2>4, Associated
    <3> QED
      BY <1>1, <2>2, <2>4, <2>6, <2>8, <3>1, Whole, WholeNext
  <2>10. stdin # <<>>
    BY <1>3, <2>1, <2>3 DEF Smaller
  <2>11. Moves
    BY <1>1, <1>2, <2>2, <2>9, <2>10 DEF Moves, PeerInv, FinAfterAll, Left
  <2>12. NonbInv'
    <3>1. toiptr' \in 0 .. MAXLINE /\ tooptr' \in 0 .. toiptr'
      BY <1>0, <1>3, <2>2, <2>4, <2>5
    <3> QED
      BY <1>1, <2>2, <2>6, <2>10, <3>1 DEF NonbInv, FinAfterAll
  <2> QED
    BY <2>8, <2>11, <2>12
<1>8. CASE Nonb!StdinEOF
  <2>1. /\ pc = "stdin" /\ pc' = "sockin" /\ "stdin" \in rset
        /\ stdin = <<>> \/ toiptr = MAXLINE
        /\ stdineof' = TRUE /\ upFin' = (upFin \/ tooptr = toiptr)
        /\ UNCHANGED <<variant, typed, stdin, eof, up, down, downFin, rst, srv, crashed, out, shown,
                       to, toiptr, tooptr, fr, friptr, froptr, rset>>
    BY <1>8 DEF Nonb!StdinEOF
  <2>2. stdin = <<>> /\ eof
    BY <1>0, <1>1, <1>3, <2>1 DEF NonbInv
  <2>3. TypeInv'
    BY <1>1, <1>2, <2>1 DEF TypeInv
  <2>4. upFin' => tooptr = toiptr /\ ToSend' = <<>>
    <3>1. tooptr = toiptr => ToSend = <<>>
      BY <1>0, <1>2, Contents
    <3> QED
      BY <1>1, <1>2, <2>1, <3>1 DEF NonbInv
  <2>5. Moves
    BY <1>1, <1>2, <2>1, <2>2, <2>4 DEF Moves, PeerInv, Left, Right
  <2>6. NonbInv'
    BY <1>1, <2>1, <2>2, <2>4 DEF NonbInv
  <2> QED
    BY <2>3, <2>5, <2>6
<1>9. CASE Nonb!SockData
  <2>1. PICK k : /\ k = Smaller(Len(down), MAXLINE - friptr)
                 /\ fr' = Nonb!Store(fr, friptr, Take(down, k)) /\ friptr' = friptr + k
                 /\ down' = Drop(down, k)
    BY <1>9, NonbHelpers DEF Nonb!SockData, Nonb!TakeDown
  <2>2. /\ pc = "sockin" /\ pc' = "stdout"
        /\ UNCHANGED <<variant, typed, stdin, eof, up, upFin, downFin, rst, srv, crashed, out, shown,
                       to, toiptr, tooptr, froptr, stdineof, rset>>
    BY <1>9 DEF Nonb!SockData
  <2>3. MAXLINE - friptr \in Nat
    BY <1>0, <1>3
  <2>4. PICK t \in Seq(Nat) : /\ t = Take(down, k) /\ Len(t) = k /\ k \in Nat
                              /\ k <= MAXLINE - friptr /\ down' \in Seq(Nat)
                              /\ Cat(t, down') = down
    BY <1>3, <2>1, <2>3, CutSmaller
  <2>5. friptr + Len(t) <= MAXLINE /\ friptr' = friptr + Len(t)
    <3>1. Len(t) = k /\ k \in Nat /\ k <= MAXLINE - friptr
      BY <2>4
    <3>2. friptr' = friptr + k
      BY <2>1
    <3> QED
      BY <1>n, <3>1, <3>2
  <2>6. fr' \in [0 .. MAXLINE - 1 -> Nat] /\ Recvd' = Cat(Recvd, t)
    <3>1. /\ Nonb!Store(fr, friptr, t) \in [0 .. MAXLINE - 1 -> Nat]
          /\ Nonb!Content(Nonb!Store(fr, friptr, t), froptr, friptr + Len(t))
               = Cat(Nonb!Content(fr, froptr, friptr), t)
      BY <1>0, <2>5, StoreAdds
    <3> QED
      BY <1>2, <2>1, <2>2, <2>4, <2>5, <3>1
  <2>7. Recvd' \in Seq(Nat)
    BY <1>3, <2>4, <2>6, Joined
  <2>8. TypeInv'
    BY <1>1, <1>2, <2>2, <2>4, <2>7 DEF TypeInv
  <2>9. Left' = Left
    <3>1. Cat(Cat(Recvd, t), down') = Cat(Recvd, Cat(t, down'))
      BY <1>3, <2>4, Associated
    <3> QED
      BY <1>1, <2>2, <2>4, <2>6, <2>8, <3>1, Whole, WholeNext
  <2>10. Moves
    BY <1>1, <1>2, <2>2, <2>9 DEF Moves, PeerInv, FinAfterAll, Right
  <2>11. NonbInv'
    <3>1. friptr' \in 0 .. MAXLINE /\ froptr' \in 0 .. friptr'
      BY <1>0, <1>3, <2>2, <2>4, <2>5
    <3> QED
      BY <1>1, <2>2, <2>6, <3>1 DEF NonbInv
  <2> QED
    BY <2>8, <2>10, <2>11
<1>10. CASE Nonb!SockReset \/ Nonb!SockOutError
  <2>1. /\ pc' \in {"readerror", "writeerror"} /\ rst # "none" /\ rst' = "spent"
        /\ UNCHANGED <<variant, typed, stdin, eof, up, upFin, down, downFin, srv, crashed, out, shown,
                       to, toiptr, tooptr, fr, friptr, froptr, stdineof, rset>>
    BY <1>10 DEF Nonb!SockReset, Nonb!SockOutError, Nonb!AtReset, Nonb!PutFails, Nonb!Reported
  <2>2. crashed
    BY <1>1, <2>1 DEF PeerInv
  <2>3. TypeInv'
    BY <1>1, <1>2, <2>1 DEF TypeInv, Results
  <2>4. Moves
    BY <1>1, <1>2, <2>1, <2>2 DEF Moves, FinAfterAll
  <2>5. NonbInv'
    BY <1>1, <2>1 DEF NonbInv
  <2> QED
    BY <2>3, <2>4, <2>5
<1>11. CASE Nonb!StdoutData
  <2>1. PICK k : /\ k = Smaller(friptr - froptr, OutRoom)
                 /\ out' = out \o Nonb!Content(fr, froptr, froptr + k)
                 /\ froptr' = (IF froptr + k = friptr THEN 0 ELSE froptr + k)
                 /\ friptr' = (IF froptr + k = friptr THEN 0 ELSE friptr)
    BY <1>11, NonbHelpers DEF Nonb!StdoutData
  <2>2. /\ pc = "stdout" /\ pc' = "sockout"
        /\ UNCHANGED <<variant, typed, stdin, eof, up, upFin, down, downFin, rst, srv, crashed, shown,
                       to, toiptr, tooptr, fr, stdineof, rset>>
    BY <1>11 DEF Nonb!StdoutData
  <2>3. k \in Nat /\ froptr + k <= friptr /\ k <= OutCap - (Len(out) - shown)
    BY <1>n, <2>1 DEF OutRoom, Smaller
  <2>4. PICK m \in froptr .. friptr : m = froptr + k
    BY <1>0, <1>3, <2>3
  <2>5. PICK t \in Seq(Nat) : t = Nonb!Content(fr, froptr, m) /\ Len(t) = k
    <3>1. m \in 0 .. MAXLINE /\ froptr \in 0 .. m /\ m - froptr = k
      BY <1>0, <1>3, <2>3, <2>4
    <3> QED
      BY <1>0, <3>1, Contents
  <2>6. PICK w \in Seq(Nat) : w = Nonb!Content(fr, m, friptr) /\ Recvd = Cat(t, w)
    <3>1. m \in 0 .. friptr
      BY <1>0, <1>3, <2>4
    <3> QED
      BY <1>0, <1>2, <2>4, <2>5, <3>1, Contents, ContentSplit
  <2>7. Recvd' = w
    <3>1. CASE m = friptr
      <4>1. 0 \in 0 .. MAXLINE /\ 0 \in 0 .. 0 /\ m \in 0 .. friptr
        BY <1>0, <1>3, <2>4
      <4>2. Nonb!Content(fr, 0, 0) = <<>> /\ w = <<>>
        BY <1>0, <2>6, <3>1, <4>1, Contents
      <4> QED
        BY <1>2, <2>1, <2>2, <2>4, <3>1, <4>2
    <3>2. CASE m # friptr
      BY <1>2, <2>1, <2>2, <2>4, <2>6, <3>2
    <3> QED
      BY <3>1, <3>2
  <2>8. out' = Cat(out, t) /\ out' \in Seq(Nat) /\ Len(out') = Len(out) + k
    <3>1. out' = Cat(out, t)
      BY <2>1, <2>4, <2>5 DEF Cat
    <3> QED
      BY <1>3, <2>5, <3>1, Joined
  <2>9. TypeInv'
    <3>0. Len(out') = Len(out) + k /\ shown' = shown
      BY <2>2, <2>8
    <3>1. shown' \in 0 .. Len(out')
      BY <1>n, <2>3, <3>0
    <3> QED
      BY <1>1, <1>2, <2>2, <2>6, <2>7, <2>8, <3>1 DEF TypeInv
  <2>10. Left' = Left
    <3>1. Cat(Cat(out, t), w) = Cat(out, Cat(t, w))
      BY <1>3, <2>5, <2>6, Associated
    <3> QED
      BY <2>2, <2>6, <2>7, <2>8, <3>1 DEF Left
  <2>11. Moves
    BY <1>1, <1>2, <2>2, <2>10 DEF Moves, PeerInv, FinAfterAll, Right
  <2>12. NonbInv'
    <3>1. friptr' \in 0 .. MAXLINE /\ froptr' \in 0 .. friptr' /\ Len(out') - shown' <= OutCap
      <4>0. Len(out') = Len(out) + k /\ shown' = shown
        BY <2>2, <2>8
      <4>1. Len(out') - shown' <= OutCap
        BY <1>n, <2>3, <4>0
      <4>2. froptr' \in Nat /\ friptr' \in Nat /\ froptr' <= friptr' /\ friptr' <= MAXLINE
        BY <1>n, <2>1, <2>3
      <4> QED
        BY <1>n, <4>1, <4>2
    <3> QED
      BY <1>1, <2>2, <3>1 DEF NonbInv
  <2> QED
    BY <2>9, <2>11, <2>12
<1>12. CASE Nonb!SockOut
  <2>1. PICK k : /\ k = Smaller(toiptr - tooptr, UpRoom)
                 /\ up' = (IF crashed THEN up ELSE up \o Nonb!Content(to, tooptr, tooptr + k))
                 /\ rst' = (IF crashed THEN "sent" ELSE rst)
                 /\ tooptr' = (IF tooptr + k = toiptr THEN 0 ELSE tooptr + k)
                 /\ toiptr' = (IF tooptr + k = toiptr THEN 0 ELSE toiptr)
                 /\ upFin' = (upFin \/ (tooptr + k = toiptr /\ stdineof))
    BY <1>12, NonbHelpers DEF Nonb!SockOut, Nonb!PutUp
  <2>2. /\ pc = "sockout" /\ pc' = "select" /\ toiptr > tooptr
        /\ UNCHANGED <<variant, typed, stdin, eof, down, downFin, srv, crashed, out, shown,
                       to, fr, friptr, froptr, stdineof, rset>>
    BY <1>12 DEF Nonb!SockOut, Nonb!WriteSock
  <2>3. k \in Nat /\ tooptr + k <= toiptr /\ (~crashed => k <= UpCap - Len(up))
    BY <1>n, <2>1 DEF UpRoom, Smaller
  <2>4. PICK m \in tooptr .. toiptr : m = tooptr + k
    BY <1>0, <1>3, <2>3
  <2>5. PICK t \in Seq(Nat) : t = Nonb!Content(to, tooptr, m) /\ Len(t) = k
    <3>1. m \in 0 .. MAXLINE /\ tooptr \in 0 .. m /\ m - tooptr = k
      BY <1>0, <1>3, <2>3, <2>4
    <3> QED
      BY <1>0, <3>1, Contents
  <2>6. PICK w \in Seq(Nat) : w = Nonb!Content(to, m, toiptr) /\ ToSend = Cat(t, w)
    <3>1. m \in 0 .. toiptr
      BY <1>0, <1>3, <2>4
    <3> QED
      BY <1>0, <1>2, <2>4, <2>5, <3>1, Contents, ContentSplit
  <2>7. ToSend' = w /\ (m = toiptr => w = <<>>)
    <3>1. CASE m = toiptr
      <4>1. 0 \in 0 .. MAXLINE /\ 0 \in 0 .. 0 /\ m \in 0 .. toiptr
        BY <1>0, <1>3, <2>4
      <4>2. Nonb!Content(to, 0, 0) = <<>> /\ w = <<>>
        BY <1>0, <2>6, <3>1, <4>1, Contents
      <4> QED
        BY <1>2, <2>1, <2>2, <2>4, <3>1, <4>2
    <3>2. CASE m # toiptr
      BY <1>2, <2>1, <2>2, <2>4, <2>6, <3>2
    <3> QED
      BY <3>1, <3>2
  <2>8. /\ up' \in Seq(Nat) /\ Len(up') <= UpCap
        /\ ~crashed => Cat(up', w) = Cat(up, Cat(t, w))
    <3>1. Cat(up, t) \in Seq(Nat) /\ Len(Cat(up, t)) = Len(up) + k
      BY <1>3, <2>5, Joined
    <3>2. Cat(Cat(up, t), w) = Cat(up, Cat(t, w))
      BY <1>3, <2>5, <2>6, Associated
    <3>3. up' = IF crashed THEN up ELSE Cat(up, t)
      BY <2>1, <2>4, <2>5 DEF Cat
    <3>4. Len(up) <= UpCap
      BY <1>1 DEF NonbInv
    <3> QED
      BY <1>0, <1>3, <2>3, <3>1, <3>2, <3>3, <3>4
  <2>9. ~upFin /\ (upFin' => stdineof /\ tooptr' = toiptr' /\ eof /\ stdin = <<>> /\ ToSend' = <<>>)
    <3>1. ~upFin /\ (stdineof => eof /\ stdin = <<>>)
      BY <1>1, <1>n, <2>2 DEF NonbInv
    <3> QED
      BY <2>1, <2>4, <2>7, <3>1
  <2>10. TypeInv'
    BY <1>1, <1>2, <2>1, <2>2, <2>6, <2>7, <2>8 DEF TypeInv, Results
  <2>11. ~crashed => Right' = Right
    BY <1>1, <2>2, <2>6, <2>7, <2>8 DEF Right
  <2>12. Moves
    BY <1>1, <1>2, <2>1, <2>2, <2>9, <2>11 DEF Moves, PeerInv, Left
  <2>13. NonbInv'
    <3>1. toiptr' \in 0 .. MAXLINE /\ tooptr' \in 0 .. toiptr'
      BY <1>n, <2>1, <2>3
    <3> QED
      BY <1>1, <2>2, <2>8, <2>9, <3>1 DEF NonbInv
  <2> QED
    BY <2>10, <2>12, <2>13
<1> QED
  BY <1>5, <1>6, <1>7, <1>8, <1>9, <1>10, <1>11, <1>12 DEF Nonb!Client

-----------------------------------------------------------------------------
(* The user, the server and the terminal.                                  *)
LEMMA Held ==
  ASSUME UNCHANGED <<variant, clientVars>>
  PROVE  ToSend' = ToSend /\ Recvd' = Recvd
<1> USE DEF clientVars, nonbVars, lineVars, stdioVars, threadVars, kqVars, loopVars
<1>1. /\ Nonb!ToSend' = Nonb!ToSend /\ Nonb!Recvd' = Nonb!Recvd
      /\ Stop!ToSend' = Stop!ToSend /\ Stop!Recvd' = Stop!Recvd
  BY DEF Nonb!ToSend, Nonb!Recvd, Nonb!Content, Stop!ToSend, Stop!Recvd
<1>2. /\ Select!ToSend' = Select!ToSend
      /\ Stdio!ToSend' = Stdio!ToSend /\ Stdio!Recvd' = Stdio!Recvd
  BY DEF Select!ToSend, Stdio!ToSend, Stdio!Recvd
<1>3. /\ Thread!ToSend' = Thread!ToSend /\ Thread!Recvd' = Thread!Recvd
      /\ Kqueue!ToSend' = Kqueue!ToSend /\ Kqueue!Recvd' = Kqueue!Recvd
  BY DEF Thread!ToSend, Thread!Recvd, Kqueue!ToSend, Kqueue!Recvd
<1> QED
  BY <1>1, <1>2, <1>3 DEF ToSend, Recvd, Of

LEMMA LeftCounts ==
  ASSUME TypeInv', NothingLost', ~crashed', variant' # "select"
  PROVE  Counts(Left)'
<1>1. PICK l \in Seq(Nat), r \in Seq(Nat), s \in Seq(Nat) :
         l = Left' /\ r = Right' /\ s = srv' /\ Cat(Cat(l, s), r) = Numbers(typed')
  BY WholeNext DEF NothingLost, TypeInv, Round
<1>2. Counts(Cat(Cat(l, s), r))
  BY <1>1, CountsNumbers DEF TypeInv
<1>3. Cat(l, s) \in Seq(Nat)
  BY Joined
<1>4. Counts(Cat(l, s))
  BY <1>2, <1>3, CountsPrefix
<1>5. Counts(l)
  BY <1>4, CountsPrefix
<1> QED
  BY <1>1, <1>5 DEF Counts

(* What a step of the surroundings does that a client can rely on.         *)
Relied ==
  /\ UNCHANGED <<variant, upFin, out>>
  /\ eof => eof' /\ stdin' = stdin
  /\ stdin # <<>> => stdin' # <<>>
  /\ Len(up') <= Len(up) /\ Len(out') - shown' <= Len(out) - shown
  /\ AtTheEnd => AtTheEnd'
  /\ crashed => crashed'
  /\ ~crashed' => Len(up') + Len(srv') + Len(down') = Len(up) + Len(srv) + Len(down)
  /\ rst' = "spent" <=> rst = "spent"
  /\ crashed' => Left' = Left

LEMMA LocalKeeps ==
  ASSUME IInv, Relied, UNCHANGED <<variant, clientVars>>, TypeInv', PeerInv', NothingLost'
  PROVE  LocalInv'
<1> USE DEF clientVars, nonbVars, lineVars, stdioVars, threadVars, kqVars, loopVars
<1>1. TypeInv /\ PeerInv
  BY DEF IInv
<1>2. /\ Len(up) \in Nat /\ Len(srv) \in Nat /\ Len(down) \in Nat
      /\ Len(up') \in Nat /\ Len(srv') \in Nat /\ Len(down') \in Nat
      /\ up' \in Seq(Nat) /\ srv' \in Seq(Nat) /\ down' \in Seq(Nat)
  BY <1>1 DEF TypeInv
<1>3. ASSUME variant = "nonb" PROVE NonbInv'
  <2>1. NonbInv
    BY <1>3 DEF IInv, LocalInv
  <2>2. Len(up') <= UpCap /\ Len(out') - shown' <= OutCap
    <3>1. /\ Len(up) <= UpCap /\ Len(out) - shown <= OutCap
          /\ Len(up') <= Len(up) /\ Len(out') = Len(out) /\ Len(out') - shown' <= Len(out) - shown
      BY <2>1 DEF NonbInv, Relied
    <3>2. /\ UpCap \in Nat /\ OutCap \in Nat /\ Len(out) \in Nat /\ shown \in Int /\ shown' \in Int
      BY <1>1, PeerAssumption DEF TypeInv
    <3> QED
      BY <1>2, <3>1, <3>2
  <2> QED
    BY <2>1, <2>2 DEF NonbInv, Relied, AtTheEnd
<1>4. ASSUME variant = "stop" PROVE StopInv' /\ StaleInv'
  <2>1. StopInv /\ StaleInv
    BY <1>4 DEF IInv, LocalInv
  <2>2. ~crashed' /\ pc # "readline" => up' = <<>> /\ srv' = <<>> /\ down' = <<>>
    <3>1. ASSUME ~crashed', pc # "readline"
          PROVE  Len(up') = 0 /\ Len(srv') = 0 /\ Len(down') = 0
      <4>1. /\ Len(up) = 0 /\ Len(srv) = 0 /\ Len(down) = 0
            /\ Len(up') + Len(srv') + Len(down') = Len(up) + Len(srv) + Len(down)
        BY <2>1, <3>1 DEF StopInv, Relied
      <4> QED
        BY <1>2, <4>1
    <3> QED
      BY <1>2, <3>1
  <2>3. StopInv'
    BY <2>1, <2>2 DEF StopInv, Relied
  <2>4. rst' # "spent" => Counts(Left)'
    <3>1. CASE ~crashed'
      BY <1>4, <3>1, LeftCounts
    <3>2. CASE crashed'
      BY <2>1, <3>2 DEF StaleInv, Relied, Counts
    <3> QED
      BY <3>1, <3>2
  <2>5. rst' = "spent" => /\ pc' # "readline" /\ (pc' = "fputs" => Counts(out)')
                          /\ OneWrong'
    BY <2>1 DEF StaleInv, Relied, OneWrong, Counts, Take
  <2> QED
    BY <2>3, <2>4, <2>5 DEF StaleInv
<1>5. ASSUME variant = "select" PROVE SelectInv'
  BY <1>5 DEF IInv, LocalInv, SelectInv, Relied
<1>6. ASSUME variant = "stdio" PROVE StdioInv'
  BY <1>6 DEF IInv, LocalInv, StdioInv, Relied
<1>7. ASSUME variant = "thread" PROVE ThreadInv'
  BY <1>7 DEF IInv, LocalInv, ThreadInv, Relied, AtTheEnd
<1>8. ASSUME variant = "kqueue" PROVE KqueueInv'
  <2>1. KqueueInv
    BY <1>8 DEF IInv, LocalInv
  <2>2. Expected' = Expected
    BY DEF Expected
  <2> QED
    BY <2>1, <2>2 DEF KqueueInv, Relied, AtTheEnd
<1> QED
  BY <1>3, <1>4, <1>5, <1>6, <1>7, <1>8 DEF LocalInv

LEMMA EnvKeeps ==
  ASSUME IInv, Environment, UNCHANGED <<variant, downCap, clientVars>>
  PROVE  IInv'
<1>1. TypeInv /\ PeerInv /\ FinAfterAll /\ NothingLost
  BY DEF IInv
<1>2. ToSend' = ToSend /\ Recvd' = Recvd /\ variant' = variant
  BY Held
<1>3. /\ out \in Seq(Nat) /\ down \in Seq(Nat) /\ up \in Seq(Nat) /\ stdin \in Seq(Nat)
      /\ srv \in Seq(Nat) /\ ToSend \in Seq(Nat) /\ Recvd \in Seq(Nat) /\ <<>> \in Seq(Nat)
      /\ typed \in Nat
  BY <1>1 DEF TypeInv
<1>n. /\ Len(up) \in Nat /\ Len(srv) \in Nat /\ Len(down) \in Nat /\ Len(out) \in Nat
      /\ shown \in Nat /\ shown <= Len(out) /\ MAXLINE \in Nat
  <2>1. /\ Len(up) \in Nat /\ Len(srv) \in Nat /\ Len(down) \in Nat /\ Len(out) \in Nat
    BY <1>3
  <2> QED
    BY <1>1, <2>1, PeerAssumption DEF TypeInv
<1>4. SUFFICES TypeInv' /\ PeerInv' /\ NothingLost' /\ FinAfterAll' /\ Relied
  BY LocalKeeps DEF IInv
<1>w. /\ Left \in Seq(Nat) /\ Right \in Seq(Nat) /\ Pipeline(Recvd, ToSend) = Round
      /\ Right = Cat(up, Cat(ToSend, stdin))
  BY <1>1, Whole
<1> USE DEF serverVars, netVars, outVars, userVars, peerVars
<1>5. CASE Type
  <2>1. /\ ~eof /\ typed' = typed + 1 /\ stdin' = Append(stdin, typed + 1)
        /\ UNCHANGED <<eof, up, upFin, down, downFin, rst, srv, crashed, out, shown>>
    BY <1>5 DEF Type
  <2>2. PICK t \in Seq(Nat) : /\ t = <<typed + 1>> /\ stdin' = Cat(stdin, t)
                              /\ stdin' \in Seq(Nat) /\ stdin' # <<>>
    <3>1. typed + 1 \in Nat
      BY <1>3
    <3>2. <<typed + 1>> \in Seq(Nat) /\ stdin' = Cat(stdin, <<typed + 1>>) /\ stdin' \in Seq(Nat)
      BY <1>3, <2>1, <3>1, Added
    <3>3. stdin' # <<>>
      <4>1. PICK e \in Nat : e = typed + 1
        BY <3>1
      <4>2. Len(Append(stdin, e)) = Len(stdin) + 1 /\ Len(stdin) \in Nat
        BY <1>3, AppendProperties
      <4>3. Len(<<>>) = 0
        OBVIOUS
      <4> QED
        BY <2>1, <4>1, <4>2, <4>3
    <3> QED
      BY <3>2, <3>3
  <2>3. TypeInv'
    BY <1>1, <1>2, <2>1, <2>2 DEF TypeInv
  <2>4. NothingLost'
    <3>0. t \in Seq(Nat)
      BY <2>2
    <3>1. PICK x \in Seq(Nat) : x = Cat(up, ToSend)
      BY <1>3, Joined
    <3>2. Right' = Cat(Right, t)
      <4>1. Cat(Cat(x, stdin), t) = Cat(x, Cat(stdin, t))
        BY <1>3, <3>0, <3>1, Associated
      <4> QED
        BY <1>2, <2>1, <2>2, <3>1, <4>1 DEF Right
    <3>3. PICK y \in Seq(Nat) : y = Cat(Left, srv)
      BY <1>3, <1>w, Joined
    <3>4. Cat(Cat(y, Right), t) = Cat(y, Cat(Right, t))
      BY <1>w, <3>0, <3>3, Associated
    <3>5. Round' = Cat(Round, t)
      BY <1>2, <2>1, <3>2, <3>3, <3>4 DEF Round, Left
    <3>6. Numbers(typed + 1) = Cat(Numbers(typed), t)
      BY <1>3, <2>2, CountsNumbers
    <3> QED
      BY <1>1, <1>2, <1>w, <2>1, <2>3, <3>5, <3>6, WholeNext DEF NothingLost
  <2>5. Relied
    BY <1>2, <1>n, <2>1, <2>2 DEF Relied, Left, AtTheEnd
  <2> QED
    BY <1>1, <1>2, <2>1, <2>3, <2>4, <2>5 DEF PeerInv, FinAfterAll
<1>6. CASE EndInput \/ RstArrives \/ Drain
  <2>1. /\ UNCHANGED <<typed, stdin, up, upFin, down, downFin, srv, crashed, out>>
        /\ eof' = eof \/ eof' = TRUE
        /\ rst' = rst \/ (rst = "sent" /\ rst' = "pipe")
        /\ shown' = shown \/ (shown < Len(out) /\ shown' = shown + 1)
    BY <1>6 DEF EndInput, RstArrives, Drain
  <2>2. rst' \in Results /\ (rst' # "none" => crashed) /\ (rst' = "spent" <=> rst = "spent")
    BY <1>1, <2>1 DEF TypeInv, PeerInv, Results
  <2>3. shown' \in 0 .. Len(out') /\ Len(out') - shown' <= Len(out) - shown
    BY <1>n, <2>1
  <2>4. TypeInv'
    BY <1>1, <1>2, <2>1, <2>2, <2>3 DEF TypeInv
  <2>5. Relied
    BY <1>2, <1>n, <2>1, <2>2, <2>3 DEF Relied, Left, AtTheEnd
  <2>6. NothingLost'
    BY <1>1, <1>2, <2>1 DEF NothingLost, Pipeline
  <2>7. FinAfterAll' /\ PeerInv'
    BY <1>1, <1>2, <2>1, <2>2 DEF PeerInv, FinAfterAll
  <2> QED
    BY <2>4, <2>5, <2>6, <2>7
<1>7. CASE ServerRead
  <2>1. /\ ~crashed /\ srv = <<>> /\ up # <<>> /\ srv' = Take(up, MAXLINE) /\ up' = Drop(up, MAXLINE)
        /\ UNCHANGED <<typed, stdin, eof, upFin, down, downFin, rst, crashed, out, shown>>
    BY <1>7 DEF ServerRead
  <2>2. PICK s \in Seq(Nat), u \in Seq(Nat) : s = srv' /\ u = up' /\ Cat(s, u) = up
    BY <1>3, <1>n, <2>1, Cut
  <2>3. Len(s) \in Nat /\ Len(u) \in Nat /\ Len(up) = Len(s) + Len(u) /\ Len(srv) = 0
    <3>1. Len(s) \in Nat /\ Len(u) \in Nat
      BY <2>2
    <3>2. Len(Cat(s, u)) = Len(s) + Len(u)
      BY Joined
    <3> QED
      BY <2>1, <2>2, <3>1, <3>2
  <2>4. TypeInv'
    BY <1>1, <1>2, <2>1, <2>2 DEF TypeInv
  <2>5. ~downFin
    BY <1>1, <2>1 DEF PeerInv
  <2>6. Relied
    BY <1>2, <1>n, <2>1, <2>2, <2>3, <2>5 DEF Relied, AtTheEnd
  <2>7. Round' = Round
    <3>1. PICK x \in Seq(Nat) : x = Cat(ToSend, stdin)
      BY <1>3, Joined
    <3>2. Left' = Left /\ Right = Cat(up, x) /\ Right' = Cat(u, x)
      BY <1>2, <1>w, <2>1, <2>2, <2>4, <3>1, WholeNext DEF Left
    <3>3. Cat(Left, srv) = Left
      BY <1>w, <2>1, WithNothing
    <3>4. Cat(u, x) \in Seq(Nat) /\ Cat(Cat(s, u), x) = Cat(s, Cat(u, x))
      BY <2>2, <3>1, Joined, Associated
    <3>5. PICK r \in Seq(Nat) : r = Cat(u, x)
      BY <3>4
    <3>6. Cat(Cat(Left, s), r) = Cat(Left, Cat(s, r))
      BY <1>w, <2>2, <3>5, Associated
    <3> QED
      BY <2>2, <3>2, <3>3, <3>4, <3>5, <3>6 DEF Round
  <2>8. NothingLost'
    BY <1>1, <1>2, <1>w, <2>1, <2>4, <2>7, WholeNext DEF NothingLost
  <2>9. FinAfterAll' /\ PeerInv'
    BY <1>1, <1>2, <2>1, <2>5 DEF PeerInv, FinAfterAll
  <2> QED
    BY <2>4, <2>6, <2>8, <2>9
<1>8. CASE ServerWrite
  <2>1. /\ ~crashed /\ srv # <<>> /\ down' = Append(down, Head(srv)) /\ srv' = Tail(srv)
        /\ UNCHANGED <<typed, stdin, eof, up, upFin, downFin, rst, crashed, out, shown>>
    BY <1>8 DEF ServerWrite
  <2>2. PICK t \in Seq(Nat) : /\ t = <<Head(srv)>> /\ Head(srv) \in Nat
                              /\ Cat(t, Tail(srv)) = srv
    BY <1>3, <2>1, CutOne
  <2>3. srv' \in Seq(Nat) /\ Len(srv') = Len(srv) - 1
    BY <1>3, <2>1, CutOne
  <2>4. down' = Cat(down, t) /\ down' \in Seq(Nat) /\ Len(down') = Len(down) + 1
    <3>1. down' = Cat(down, t) /\ down' \in Seq(Nat)
      BY <1>3, <2>1, <2>2, Added
    <3>2. Len(down') = Len(down) + 1
      BY <1>3, <2>1, <2>2, AppendProperties
    <3> QED
      BY <3>1, <3>2
  <2>5. TypeInv'
    BY <1>1, <1>2, <2>1, <2>3, <2>4 DEF TypeInv
  <2>6. ~downFin
    BY <1>1, <2>1 DEF PeerInv
  <2>7. Relied
    <3>1. Len(up') + Len(srv') + Len(down') = Len(up) + Len(srv) + Len(down)
      BY <1>n, <2>1, <2>3, <2>4
    <3> QED
      BY <1>2, <1>n, <2>1, <2>6, <3>1 DEF Relied, AtTheEnd
  <2>8. Round' = Round
    <3>0. t \in Seq(Nat)
      BY <2>2
    <3>1. PICK x \in Seq(Nat) : x = Cat(out, Recvd)
      BY <1>3, Joined
    <3>2. Left = Cat(x, down) /\ Left' = Cat(x, Cat(down, t)) /\ Right' = Right
      BY <1>2, <2>1, <2>4, <3>1 DEF Left, Right
    <3>3. Left' = Cat(Left, t)
      <4>1. Cat(Cat(x, down), t) = Cat(x, Cat(down, t))
        BY <1>3, <3>0, <3>1, Associated
      <4> QED
        BY <3>2, <4>1
    <3>4. PICK r \in Seq(Nat) : r = srv'
      BY <2>3
    <3>5. Cat(Cat(Left, t), r) = Cat(Left, Cat(t, r))
      BY <1>w, <3>0, <3>4, Associated
    <3> QED
      BY <2>1, <2>2, <3>2, <3>3, <3>4, <3>5 DEF Round
  <2>9. NothingLost'
    BY <1>1, <1>2, <1>w, <2>1, <2>5, <2>8, WholeNext DEF NothingLost
  <2>10. FinAfterAll' /\ PeerInv'
    BY <1>1, <1>2, <2>1, <2>6 DEF PeerInv, FinAfterAll
  <2> QED
    BY <2>5, <2>7, <2>9, <2>10
<1>9. CASE ServerEnd
  <2>1. /\ ~downFin /\ srv = <<>> /\ up = <<>> /\ upFin /\ downFin' = TRUE
        /\ UNCHANGED <<typed, stdin, eof, up, upFin, down, rst, srv, crashed, out, shown>>
    BY <1>9 DEF ServerEnd
  <2>2. TypeInv'
    BY <1>1, <1>2, <2>1 DEF TypeInv
  <2>3. Relied
    BY <1>2, <1>n, <2>1 DEF Relied, Left, AtTheEnd
  <2>4. NothingLost'
    BY <1>1, <1>2, <2>1 DEF NothingLost, Pipeline
  <2>5. FinAfterAll' /\ PeerInv'
    BY <1>1, <1>2, <2>1 DEF PeerInv, FinAfterAll
  <2> QED
    BY <2>2, <2>3, <2>4, <2>5
<1>10. CASE ServerDies
  <2>1. /\ ~downFin /\ crashed' = TRUE /\ downFin' = TRUE /\ srv' = <<>> /\ up' = <<>>
        /\ rst' = (IF up # <<>> THEN "reset" ELSE rst)
        /\ UNCHANGED <<typed, stdin, eof, upFin, down, out, shown>>
    BY <1>10 DEF ServerDies
  <2>2. rst = "none" /\ rst' \in {"none", "reset"}
    BY <1>1, <2>1 DEF PeerInv
  <2>3. TypeInv'
    BY <1>1, <1>2, <1>3, <2>1, <2>2 DEF TypeInv, Results
  <2>4. Relied
    <3>1. Len(up') <= Len(up)
      BY <1>n, <2>1
    <3> QED
      BY <1>2, <1>n, <2>1, <2>2, <3>1 DEF Relied, Left, AtTheEnd
  <2>5. NothingLost' /\ FinAfterAll' /\ PeerInv'
    BY <1>1, <1>2, <2>1, <2>2 DEF NothingLost, PeerInv, FinAfterAll
  <2> QED
    BY <2>3, <2>4, <2>5
<1> QED
  BY <1>5, <1>6, <1>7, <1>8, <1>9, <1>10 DEF Environment, Server

-----------------------------------------------------------------------------
LEMMA Initially == Init => IInv
<1>1. SUFFICES ASSUME Init PROVE IInv
  OBVIOUS
<1>2. /\ variant \in Variants /\ typed \in Nat /\ stdin = Numbers(typed) /\ eof \in BOOLEAN
      /\ up = <<>> /\ upFin = FALSE /\ srv = <<>> /\ crashed = FALSE
      /\ down = <<>> /\ downFin = FALSE /\ rst = "none" /\ out = <<>> /\ shown = 0
      /\ isfile => eof
  <2>1. CASE isfile
    <3>1. Kqueue!FileInput /\ variant \in Variants
      BY <1>1, <2>1 DEF Init
    <3>2. Kqueue!Numbers(typed) = Numbers(typed)
      BY DEF Kqueue!Numbers, Numbers
    <3>3. typed \in Nat
      BY <3>1, PeerAssumption DEF Kqueue!FileInput
    <3> QED
      BY <3>1, <3>2, <3>3 DEF Kqueue!FileInput
  <2>2. CASE ~isfile
    <3>1. PeerInit /\ variant \in Variants
      BY <1>1, <2>2 DEF Init
    <3>2. Numbers(0) = <<>>
      BY CountsNumbers
    <3> QED
      BY <2>2, <3>1, <3>2 DEF PeerInit
  <2> QED
    BY <2>1, <2>2
<1>3. /\ pc = CASE variant = "nonb" -> "select"     [] variant = "stop" -> "fgets"
              [] variant = "select" -> "select" [] variant = "stdio" -> "select"
              [] variant = "thread" -> "thread"     [] variant = "kqueue" -> "kevent"
      /\ to = [c \in 0 .. MAXLINE - 1 |-> 0] /\ toiptr = 0 /\ tooptr = 0
      /\ fr = [c \in 0 .. MAXLINE - 1 |-> 0] /\ friptr = 0 /\ froptr = 0
      /\ stdineof = FALSE /\ rset = {} /\ wset = {}
      /\ sendline = <<>> /\ recvline = <<>> /\ buf = <<>> /\ iobuf = <<>> /\ rdbuf = <<>>
      /\ main = "create" /\ copy = "none" /\ isfile \in BOOLEAN /\ registered = TRUE
      /\ kev = <<>> /\ left = 0 /\ n = 0 /\ obuf = <<>> /\ ibuf = <<>>
  BY <1>1 DEF Init, Nonb!Locals, Stop!Locals, Select!Locals, Stdio!Locals, Thread!Locals,
     Kqueue!Locals, Nonb!Entry, Stop!Entry, Select!Entry, Stdio!Entry, Kqueue!Entry, Nonb!Cells
<1>4. /\ <<>> \in Seq(Nat) /\ Len(<<>>) = 0 /\ MAXLINE \in Nat \ {0}
      /\ UpCap \in Nat /\ OutCap \in Nat
      /\ stdin \in Seq(Nat)
  BY <1>2, CountsNumbers, PeerAssumption
<1>5. ToSend = <<>> /\ Recvd = <<>>
  <2>1. Nonb!Content(to, tooptr, toiptr) = <<>> /\ Nonb!Content(fr, froptr, friptr) = <<>>
    <3>1. PICK b \in [0 .. MAXLINE - 1 -> Nat] : b = to /\ b = fr
      BY <1>3
    <3>2. 0 \in 0 .. MAXLINE /\ 0 \in 0 .. 0
      BY <1>4
    <3>3. Nonb!Content(b, 0, 0) = <<>>
      BY <3>2, Contents
    <3> QED
      BY <1>3, <3>1, <3>3
  <2>2. <<>> \o <<>> = <<>>
    BY <1>4, WithNothing DEF Cat
  <2>3. variant \in {"nonb", "stop", "select", "stdio", "thread", "kqueue"}
    BY <1>2, VariantsAssumption
  <2> QED
    BY <1>3, <2>1, <2>2, <2>3, Linked DEF Nonb!ToSend, Nonb!Recvd, Stop!ToSend, Stop!Recvd,
       Select!ToSend, Stdio!ToSend, Stdio!Recvd, Thread!ToSend, Thread!Recvd,
       Kqueue!ToSend, Kqueue!Recvd
<1>6. TypeInv
  <2>1. shown \in 0 .. Len(out)
    BY <1>2, <1>4
  <2>2. /\ up \in Seq(Nat) /\ srv \in Seq(Nat) /\ down \in Seq(Nat) /\ out \in Seq(Nat)
        /\ ToSend \in Seq(Nat) /\ Recvd \in Seq(Nat)
    BY <1>2, <1>4, <1>5
  <2>3. upFin \in BOOLEAN /\ downFin \in BOOLEAN /\ crashed \in BOOLEAN
    BY <1>2
  <2>4. rst \in Results
    BY <1>2 DEF Results
  <2> QED
    BY <1>2, <1>4, <2>1, <2>2, <2>3, <2>4 DEF TypeInv
<1>7. PeerInv /\ FinAfterAll
  BY <1>2 DEF PeerInv, FinAfterAll
<1>8. Left = <<>> /\ Right = stdin
  BY <1>2, <1>4, <1>5, WithNothing DEF Left, Right
<1>9. NothingLost /\ Counts(Left)
  <2>1. Round = stdin
    BY <1>2, <1>4, <1>8, WithNothing DEF Round
  <2>2. Pipeline(Recvd, ToSend) = Round
    BY <1>6, Whole
  <2>3. Counts(Left)
    BY <1>4, <1>8 DEF Counts
  <2> QED
    BY <1>2, <2>1, <2>2, <2>3 DEF NothingLost
<1>10. variant = "nonb" => NonbInv
  <2>1. to \in [0 .. MAXLINE - 1 -> Nat] /\ fr \in [0 .. MAXLINE - 1 -> Nat]
    BY <1>3
  <2> QED
    <3>1. variant = "nonb" => pc = "select"
      BY <1>3
    <3>2. /\ tooptr \in 0 .. toiptr /\ toiptr \in 0 .. MAXLINE
          /\ froptr \in 0 .. friptr /\ friptr \in 0 .. MAXLINE
          /\ Len(up) <= UpCap /\ Len(out) - shown <= OutCap
      BY <1>2, <1>3, <1>4
    <3> QED
      BY <1>2, <1>3, <2>1, <3>1, <3>2 DEF NonbInv
<1>11. variant = "stop" => StopInv /\ StaleInv
  BY <1>2, <1>3, <1>4, <1>9 DEF StopInv, StaleInv
<1>12. variant = "select" => SelectInv
  BY <1>2, <1>3, <1>4 DEF SelectInv
<1>13. variant = "stdio" => StdioInv
  BY <1>2, <1>3, <1>4 DEF StdioInv
<1>14. variant = "thread" => ThreadInv
  BY <1>2, <1>3, <1>4 DEF ThreadInv
<1>15. variant = "kqueue" => KqueueInv
  <2>1. kev \in Seq({"stdin", "sock"}) /\ Len(kev) = 0
    BY <1>3
  <2> QED
    BY <1>2, <1>3, <1>4, <2>1 DEF KqueueInv, Expected
<1> QED
  BY <1>6, <1>7, <1>9, <1>10, <1>11, <1>12, <1>13, <1>14, <1>15 DEF IInv, LocalInv

LEMMA Keeps == IInv /\ [Next]_vars => IInv'
<1>1. SUFFICES ASSUME IInv, [Next]_vars PROVE IInv'
  OBVIOUS
<1>2. CASE Client
  <2>1. CASE variant = "nonb" /\ Nonb!Client
             /\ UNCHANGED <<lineVars, buf, stdioVars, threadVars, kqVars>>
    BY <1>1, <1>2, <2>1, NonbKeeps DEF Client
  <2>2. CASE variant = "stop" /\ Stop!Client
             /\ UNCHANGED <<loopVars, nonbVars, buf, stdioVars, threadVars, kqVars>>
    BY <1>1, <1>2, <2>2, StopKeeps DEF Client
  <2>3. CASE variant = "select" /\ Select!Client
             /\ UNCHANGED <<nonbVars, lineVars, stdioVars, threadVars, kqVars>>
    BY <1>1, <1>2, <2>3, SelectKeeps DEF Client
  <2>4. CASE variant = "stdio" /\ Stdio!Client
             /\ UNCHANGED <<stdineof, nonbVars, buf, threadVars, kqVars>>
    BY <1>1, <1>2, <2>4, StdioKeeps DEF Client
  <2>5. CASE variant = "kqueue" /\ Kqueue!Client
             /\ UNCHANGED <<rset, nonbVars, lineVars, buf, stdioVars, threadVars>>
    BY <1>1, <1>2, <2>5, KqueueKeeps DEF Client
  <2> QED
    BY <1>2, <2>1, <2>2, <2>3, <2>4, <2>5 DEF Client
<1>3. CASE MainThread \/ CopyThread
  BY <1>1, <1>3, ThreadKeeps DEF MainThread, CopyThread, ByThread
<1>4. CASE Around(Environment)
  BY <1>1, <1>4, EnvKeeps DEF Around
<1>5. CASE UNCHANGED vars
  <2>1. /\ UNCHANGED <<variant, clientVars>> /\ ToSend' = ToSend /\ Recvd' = Recvd
        /\ UNCHANGED <<typed, stdin, eof, up, upFin, down, downFin, rst, srv, crashed, out, shown>>
    <3>1. UNCHANGED <<variant, clientVars>>
      BY <1>5 DEF vars
    <3> QED
      BY <1>5, <3>1, Held DEF vars, peerVars, userVars, netVars, serverVars, outVars
  <2>2. TypeInv' /\ PeerInv' /\ NothingLost' /\ FinAfterAll'
    BY <1>1, <2>1 DEF IInv, TypeInv, PeerInv, NothingLost, FinAfterAll, Pipeline
  <2>3. Relied
    <3>1. /\ Len(up') <= Len(up) /\ Len(out') - shown' <= Len(out) - shown
      <4>1. Len(up) \in Nat /\ Len(out) \in Nat /\ shown \in Int
        BY <1>1 DEF IInv, TypeInv
      <4> QED
        BY <2>1, <4>1
    <3> QED
      BY <2>1, <3>1 DEF Relied, AtTheEnd, Left
  <2>4. LocalInv'
    BY <1>1, <2>1, <2>2, <2>3, LocalKeeps
  <2> QED
    BY <2>2, <2>4 DEF IInv
<1> QED
  BY <1>1, <1>2, <1>3, <1>4, <1>5 DEF Next

LEMMA InvariantHolds == Spec => []IInv
BY Initially, Keeps, PTL DEF Spec

-----------------------------------------------------------------------------
(* What follows from it.                                                   *)
LEMMA NothingUnderway ==
  ASSUME IInv, ~crashed, variant # "select",
         up = <<>>, srv = <<>>, down = <<>>, ToSend = <<>>, stdin = <<>>
  PROVE  Cat(out, Recvd) = Numbers(typed)
<1>1. out \in Seq(Nat) /\ Recvd \in Seq(Nat) /\ <<>> \in Seq(Nat)
  BY DEF IInv, TypeInv
<1>2. Cat(out, Recvd) \in Seq(Nat)
  BY <1>1, Joined
<1>3. Left = Cat(out, Recvd) /\ Right = <<>>
  BY <1>1, <1>2, WithNothing DEF Left, Right
<1>4. Round = Cat(out, Recvd)
  BY <1>1, <1>2, <1>3, WithNothing DEF Round
<1> QED
  BY <1>4, Whole DEF IInv, NothingLost

LEMMA EchoedAtTheEnd ==
  ASSUME IInv, ~crashed, variant # "select", AtTheEnd
  PROVE  upFin /\ stdin = <<>> /\ Cat(out, Recvd) = Numbers(typed)
<1>1. /\ down = <<>> /\ up = <<>> /\ srv = <<>> /\ upFin
      /\ stdin = <<>> /\ ToSend = <<>>
  BY DEF IInv, PeerInv, FinAfterAll, AtTheEnd
<1> QED
  BY <1>1, NothingUnderway

LEMMA Concludes ==
  ASSUME IInv
  PROVE  RoomToRead /\ NormalIsEchoed /\ StaleOnlyAfterReset
<1>1. RoomToRead
  <2>1. ASSUME variant = "nonb" PROVE Nonb!RoomToRead
    <3>1. NonbInv /\ MAXLINE \in Nat
      BY <2>1, PeerAssumption DEF IInv, LocalInv
    <3> QED
      BY <3>1 DEF NonbInv, Nonb!RoomToRead
  <2> QED
    BY <2>1 DEF RoomToRead
<1>2. ASSUME ~crashed, variant = "nonb" PROVE Nonb!OnlyFrIsLost
  <2>1. ASSUME pc = "normal" PROVE out \o Nonb!Recvd = Nonb!Numbers(typed) /\ stdin = <<>>
    <3>1. AtTheEnd
      BY <1>2, <2>1 DEF IInv, LocalInv, NonbInv
    <3>2. stdin = <<>> /\ Cat(out, Nonb!Recvd) = Numbers(typed)
      BY <1>2, <3>1, EchoedAtTheEnd, Linked
    <3> QED
      BY <3>2 DEF Cat, Numbers, Nonb!Numbers
  <2> QED
    BY <2>1 DEF Nonb!OnlyFrIsLost
<1>3. ASSUME Recvd = <<>>, Cat(out, Recvd) = Numbers(typed) PROVE out = Numbers(typed)
  <2>1. out \in Seq(Nat)
    BY DEF IInv, TypeInv
  <2> QED
    BY <1>3, <2>1, WithNothing
<1>4. ASSUME ~crashed, variant = "stop", pc = "normal" PROVE AllShown
  <2>1. StopInv
    BY <1>4 DEF IInv, LocalInv
  <2>2. ToSend = <<>> /\ Recvd = <<>>
    BY <1>4, <2>1, Linked DEF StopInv, Stop!ToSend, Stop!Recvd
  <2>3. stdin = <<>> /\ Cat(out, Recvd) = Numbers(typed)
    BY <1>4, <2>1, <2>2, NothingUnderway DEF StopInv
  <2> QED
    BY <1>3, <2>2, <2>3 DEF AllShown
<1>5. ASSUME ~crashed, variant = "kqueue", pc = "normal" PROVE AllShown
  <2>1. AtTheEnd /\ obuf = <<>>
    BY <1>5 DEF IInv, LocalInv, KqueueInv
  <2>2. Recvd = <<>>
    BY <1>5, <2>1, Linked DEF Kqueue!Recvd
  <2> QED
    BY <1>3, <1>5, <2>1, <2>2, EchoedAtTheEnd DEF AllShown
<1>6. ASSUME ~crashed, variant = "thread" PROVE Thread!ReturnsComplete
  <2>1. ASSUME main = "returned" PROVE copy = "ended" /\ AllShown
    <3>1. AtTheEnd /\ (upFin => copy = "ended")
      BY <1>6, <2>1 DEF IInv, LocalInv, ThreadInv
    <3>2. Recvd = <<>>
      BY <1>6, <2>1, Linked DEF Thread!Recvd
    <3> QED
      BY <1>3, <1>6, <3>1, <3>2, EchoedAtTheEnd DEF AllShown
  <2>2. Thread!AllShown = AllShown
    BY DEF Thread!AllShown, AllShown, Thread!Numbers, Numbers
  <2> QED
    BY <2>1, <2>2 DEF Thread!ReturnsComplete
<1>7. NormalIsEchoed
  BY <1>2, <1>4, <1>5, <1>6 DEF NormalIsEchoed
<1>8. ASSUME variant = "stop" PROVE Stop!StaleOnlyAfterReset
  <2>1. StopInv /\ StaleInv /\ out \in Seq(Nat) /\ Len(out) \in Nat
    BY <1>8 DEF IInv, LocalInv, TypeInv
  <2>2. \A k \in 0 .. Len(out) : Counts(Take(out, k)) => Take(out, k) = Numbers(k)
    <3>1. SUFFICES ASSUME NEW k \in 0 .. Len(out), Counts(Take(out, k))
                   PROVE  Take(out, k) = Numbers(k)
      OBVIOUS
    <3>2. k \in Nat /\ Smaller(k, Len(out)) = k
      BY <2>1 DEF Smaller
    <3>3. Take(out, k) \in Seq(Nat) /\ Len(Take(out, k)) = k
      BY <2>1, <3>2, Cut
    <3> QED
      BY <3>1, <3>3, CountsNumbers
  <2>3. PICK k \in 0 .. Len(out) :
          /\ Counts(Take(out, k)) /\ Len(out) - k <= IF rst = "spent" THEN 1 ELSE 0
    <3>1. CASE rst = "spent"
      BY <2>1, <3>1 DEF StaleInv, OneWrong
    <3>2. CASE rst # "spent"
      <4>1. Recvd \in Seq(Nat) /\ down \in Seq(Nat) /\ <<>> \in Seq(Nat)
        BY DEF IInv, TypeInv
      <4>2. PICK x \in Seq(Nat) : x = Cat(out, Recvd) /\ Left = Cat(x, down)
        BY <2>1, <4>1, Joined DEF Left
      <4>3. Counts(Cat(x, down))
        BY <2>1, <3>2, <4>2 DEF StaleInv
      <4>4. Counts(Cat(out, Recvd))
        BY <4>1, <4>2, <4>3, CountsPrefix
      <4>5. Counts(out)
        BY <2>1, <4>1, <4>4, CountsPrefix
      <4>6. Take(out, Len(out)) = out
        BY <2>1, <4>1, TakeBack, WithNothing
      <4>7. Len(out) \in 0 .. Len(out) /\ Len(out) - Len(out) = 0
        BY <2>1
      <4> QED
        BY <3>2, <4>5, <4>6, <4>7
    <3> QED
      BY <3>1, <3>2
  <2> QED
    BY <2>2, <2>3, StopHelpers DEF Stop!StaleOnlyAfterReset
<1> QED
  BY <1>1, <1>7, <1>8 DEF StaleOnlyAfterReset

-----------------------------------------------------------------------------
(* In all six implementations but strcliselect02, and for every size of    *)
(* the buffers and of the connection: as long as the server lives, what    *)
(* was typed is in order somewhere between the keyboard and the screen.    *)
THEOREM NothingIsLost == Spec => []NothingLost
<1>1. IInv => NothingLost
  BY DEF IInv
<1> QED
  BY <1>1, InvariantHolds, PTL

(* No client shuts its side down with input unread or unsent; for kqueue   *)
(* this says that a read of kev.data units is indeed the file's last.      *)
THEOREM FinIsLast == Spec => []FinAfterAll
<1>1. IInv => FinAfterAll
  BY DEF IInv
<1> QED
  BY <1>1, InvariantHolds, PTL

(* strclinonb.c keeps the pointers of to[] and fr[] in order and inside,   *)
(* and never asks read for 0 units, whatever MAXLINE is.                   *)
THEOREM ReadsHaveRoom == Spec => []RoomToRead
BY Concludes, InvariantHolds, PTL

(* A client that returns for the end of its input has shown everything     *)
(* that was typed; strclinonb all but what is in fr[].                     *)
THEOREM NormalReturnsEchoed == Spec => []NormalIsEchoed
BY Concludes, InvariantHolds, PTL

(* lib/str_cli.c prints a line that is not the next one only after a reset *)
(* and only once.                                                          *)
THEOREM StaleLineOnlyOnce == Spec => []StaleOnlyAfterReset
BY Concludes, InvariantHolds, PTL
=============================================================================

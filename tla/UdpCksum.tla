------------------------------ MODULE UdpCksum ------------------------------
(***************************************************************************)
(* udpcksum/: test_udp() sends a DNS query through a raw socket, waits for *)
(* the reply in libpcap, and looks whether it has a UDP checksum.  The     *)
(* query is sent three times at most; SIGALRM ends a wait with siglongjmp. *)
(***************************************************************************)
EXTENDS AlarmProcess, Integers, Sequences

CONSTANTS Base,           \* 2^16 in the code: one more than the largest word
          QueryLen,       \* words of a query, its pseudo header included
          MaxReplies      \* bound: packets that match the filter

ASSUME WordAssumption == Base \in Nat /\ Base > 2 /\ QueryLen \in 1 .. Base - 1
ASSUME RepliesAssumption == MaxReplies \in Nat

VARIABLES nsent, timeout, canjump,
          zerosum,        \* option -0: send no checksum
          query,          \* the words of the query, checksum aside
          ui_sum,         \* the checksum it was sent with
          replies,        \* so far
          captured,       \* what libpcap has for us
          ui,             \* the packet udp_read has returned
          patience        \* history: the timeouts that have passed

queryVars == <<zerosum, query>>
cksumVars == <<nsent, timeout, canjump, queryVars, ui_sum, replies, captured, ui, patience>>

NoPacket == "none"

(* in_cksum(): one's complement sum of 16-bit words, the carries added     *)
(* back in two steps.                                                      *)
Sum(words) ==
  LET sum[k \in 0 .. Len(words)] == IF k = 0 THEN 0 ELSE sum[k - 1] + words[k]
  IN  sum[Len(words)]
MutFoldOnce(s) == (s \div Base) + (s % Base)
Fold(s) == LET once == (s \div Base) + (s % Base) IN once + once \div Base
in_cksum(words) == (Base - 1) - (Fold(Sum(words)) % Base)

(* udp_write(): a checksum of 0 is sent as its other representation.       *)
Checksum == IF zerosum THEN 0
            ELSE IF in_cksum(query) = 0 THEN Base - 1 ELSE in_cksum(query)

(* The words of the query, of the addresses and ports: any.                *)
Queries == [1 .. QueryLen -> 0 .. Base - 1]

CksumInit ==
  /\ nsent = 0 /\ timeout = 3 /\ canjump = FALSE
  /\ zerosum \in BOOLEAN /\ query \in Queries
  /\ ui_sum = 0
  /\ replies = 0 /\ captured = <<>> /\ ui = NoPacket /\ patience = <<>>

-----------------------------------------------------------------------------
(* A packet that passes the filter: the answer to any query so far, or one *)
(* that udp_check will not have.                                           *)
Capture(kind) ==
  /\ nsent > 0 /\ replies < MaxReplies
  /\ replies' = replies + 1
  /\ captured' = Append(captured, kind)
  /\ UNCHANGED <<pc, timer, nsent, timeout, canjump, queryVars, ui_sum, ui, patience>>

CaptureAny == Capture("reply") \/ Capture("bad")

-----------------------------------------------------------------------------
(* Lines 36 to 39.  No alarm is set here.                                  *)
SendQuery ==
  /\ pc = "setjmp"
  /\ canjump' = TRUE
  /\ ui_sum' = Checksum
  /\ nsent' = nsent + 1
  /\ pc' = "alarm"
  /\ UNCHANGED <<timer, timeout, queryVars, replies, captured, ui, patience>>

Alarm ==
  /\ pc = "alarm"
  /\ timer' = TRUE
  /\ pc' = "udp_read"
  /\ UNCHANGED cksumVars

(* next_pcap() polls until there is a packet; udp_check() ends the program *)
(* for one it does not accept.                                             *)
NextPcap == captured # <<>>
UdpCheck(kind) == kind = "reply"

UdpRead ==
  /\ pc = "udp_read" /\ NextPcap
  /\ captured' = Tail(captured)
  /\ IF UdpCheck(Head(captured)) THEN ui' = Head(captured) /\ pc' = "canjump"
                                 ELSE pc' = "err_quit" /\ UNCHANGED ui
  /\ UNCHANGED <<timer, nsent, timeout, canjump, queryVars, ui_sum, replies, patience>>

Canjump ==
  /\ pc = "canjump"
  /\ canjump' = FALSE
  /\ pc' = "alarm0"
  /\ UNCHANGED <<timer, nsent, timeout, queryVars, ui_sum, replies, captured, ui, patience>>

AlarmOff ==
  /\ pc = "alarm0"
  /\ timer' = FALSE
  /\ pc' = "answered"
  /\ UNCHANGED cksumVars

(* sig_alrm: back to sigsetjmp, wherever it is; the packet in hand, if     *)
(* any, is forgotten.                                                      *)
MutJumpAlrmRestores ==                  \* nsent and timeout are not volatile
  /\ timer /\ timer' = FALSE /\ pc # "err_quit"
  /\ IF canjump THEN /\ pc' = "jumped" /\ ui' = NoPacket
                     /\ patience' = Append(patience, timeout)
                     /\ timeout' = 3
                ELSE UNCHANGED <<pc, ui, patience, timeout>>
  /\ UNCHANGED <<nsent, canjump, queryVars, ui_sum, replies, captured>>

JumpAlrm ==
  /\ timer /\ timer' = FALSE /\ pc # "err_quit"
  /\ IF canjump THEN /\ pc' = "jumped" /\ ui' = NoPacket
                     /\ patience' = Append(patience, timeout)
                ELSE UNCHANGED <<pc, ui, patience>>
  /\ UNCHANGED <<nsent, timeout, canjump, queryVars, ui_sum, replies, captured>>

(* Lines 28 to 34.                                                         *)
Jumped ==
  /\ pc = "jumped"
  /\ IF nsent >= 3 THEN pc' = "noresponse" /\ UNCHANGED timeout
                   ELSE pc' = "setjmp" /\ timeout' = 2 * timeout
  /\ UNCHANGED <<timer, nsent, canjump, queryVars, ui_sum, replies, captured, ui, patience>>

TestUdp == SendQuery \/ Alarm \/ UdpRead \/ Canjump \/ AlarmOff \/ Jumped
CksumNext == TestUdp \/ JumpAlrm \/ CaptureAny
CksumSpec ==
  CksumInit /\ pc = "setjmp" /\ timer = FALSE /\ [][CksumNext]_<<pc, timer, cksumVars>>
-----------------------------------------------------------------------------
CksumEnded == pc \in {"answered", "noresponse", "err_quit"}

(* "No response" is said after three queries and timeouts of 3, 6 and 12   *)
(* seconds (nsent and timeout outlive the jumps), and a checksum is        *)
(* reported only from a reply.                                             *)
ThreeTimeouts ==
  /\ pc = "noresponse" => nsent = 3 /\ patience = <<3, 6, 12>>
  /\ pc = "answered" => ui = "reply" /\ nsent = Len(patience) + 1 /\ ~timer

(* The receiver finds the checksum of the query right, whatever it says.   *)
(* A checksum is verified by the definition: the words and the checksum    *)
(* together are 0 modulo 2^16 - 1, and 0 itself stands for "none".         *)
Verifies ==
  nsent > 0 => IF zerosum THEN ui_sum = 0
               ELSE ui_sum \in 1 .. Base - 1 /\ (Sum(query) + ui_sum) % (Base - 1) = 0
=============================================================================

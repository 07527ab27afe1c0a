------------------------------ MODULE UdpClients ------------------------------
(***************************************************************************)
(* The UDP echo client with its three dg_cli(): udpcliserv/udpcli01.c,     *)
(* udpcliserv/dgcliconnect.c and lib/dgclitimeo2.c; the server of          *)
(* udpserv01.c; and a network that loses, duplicates, delays and reorders. *)
(* A datagram is the number of the line it carries, 0 from a stranger.     *)
(***************************************************************************)
EXTENDS AlarmProcess, Integers, Sequences

CONSTANTS UdpKinds,       \* subset of {"udpcli01", "dgcliconnect", "dgclitimeo2"}
          UdpLines,       \* bound: lines of the input
          MaxMishaps      \* bound: of the network's mishaps

ASSUME UdpAssumption == UdpLines \in Nat /\ MaxMishaps \in Nat

VARIABLES kind, sent,
          requests, answers,        \* datagrams on their way
          rcvbuf, soerror,          \* the client's socket
          recvline,                 \* 0 before the first datagram
          timeouts, shown,          \* history
          mishaps                   \* history: what the network has done

udpNet == <<requests, answers, rcvbuf, soerror, mishaps>>
udpVars == <<kind, sent, udpNet, recvline, timeouts, shown>>

UdpInit ==
  /\ kind \in UdpKinds /\ sent = 0
  /\ requests = {} /\ answers = {} /\ rcvbuf = <<>> /\ soerror = FALSE
  /\ recvline = 0 /\ timeouts = 0 /\ shown = {} /\ mishaps = <<>>

-----------------------------------------------------------------------------
(* dg_echo of the server: a datagram goes back as it came.                 *)
MutDgEchoServes ==                      \* sends once more what it has
  /\ \E d \in requests : answers' = answers \cup {d}
  /\ UNCHANGED <<pc, timer, kind, sent, requests, rcvbuf, soerror, recvline, timeouts, shown,
                 mishaps>>
DgEchoServes ==
  /\ \E d \in requests : requests' = requests \ {d} /\ answers' = answers \cup {d}
  /\ UNCHANGED <<pc, timer, kind, sent, rcvbuf, soerror, recvline, timeouts, shown, mishaps>>

Comes ==
  /\ \E d \in answers : answers' = answers \ {d} /\ rcvbuf' = Append(rcvbuf, d)
  /\ UNCHANGED <<pc, timer, kind, sent, requests, soerror, recvline, timeouts, shown, mishaps>>

Happened(what) == \E i \in DOMAIN mishaps : mishaps[i] = what

(* A stranger's datagram does not reach a connected socket.  An error is   *)
(* an ICMP error on a connected socket, or one of the client's own kernel. *)
Mishap ==
  /\ Len(mishaps) < MaxMishaps /\ pc # "ended"
  /\ \/ /\ \/ \E d \in requests : requests' = requests \ {d} /\ UNCHANGED answers
           \/ \E d \in answers : answers' = answers \ {d} /\ UNCHANGED requests
        /\ mishaps' = Append(mishaps, "lost") /\ UNCHANGED <<rcvbuf, soerror>>
     \/ /\ \E d \in answers : rcvbuf' = Append(rcvbuf, d)
        /\ mishaps' = Append(mishaps, "twice") /\ UNCHANGED <<requests, answers, soerror>>
     \/ /\ kind # "dgcliconnect" /\ rcvbuf' = Append(rcvbuf, 0)
        /\ mishaps' = Append(mishaps, "stranger") /\ UNCHANGED <<requests, answers, soerror>>
     \/ /\ soerror' = TRUE
        /\ mishaps' = Append(mishaps, "error") /\ UNCHANGED <<requests, answers, rcvbuf>>
  /\ UNCHANGED <<pc, timer, kind, sent, recvline, timeouts, shown>>

-----------------------------------------------------------------------------
(* dg_cli of the client.                                                   *)
Fgets ==
  /\ pc = "fgets"
  /\ \/ sent < UdpLines /\ sent' = sent + 1 /\ pc' = "sendto"
     \/ pc' = "ended" /\ UNCHANGED sent
  /\ UNCHANGED <<timer, kind, udpNet, recvline, timeouts, shown>>

(* sendto or write: a pending error is its result, and nothing is sent;    *)
(* nobody looks.                                                           *)
Sendto ==
  /\ pc = "sendto"
  /\ soerror' = FALSE
  /\ requests' = IF soerror THEN requests ELSE requests \cup {sent}
  /\ pc' = "recvfrom"
  /\ UNCHANGED <<timer, kind, sent, answers, rcvbuf, recvline, timeouts, shown, mishaps>>

(* recvfrom or read.  After an error, n is -1 and recvline what it was:    *)
(* dgcliconnect and udpcli01 go on, and set recvline[-1], a byte outside   *)
(* the array, which is taken to be nobody's.                               *)
RecvError ==
  /\ pc = "recvfrom" /\ soerror
  /\ soerror' = FALSE
  /\ pc' = IF kind = "dgclitimeo2" THEN "ended" ELSE "fputs"
  /\ UNCHANGED <<timer, kind, sent, requests, answers, rcvbuf, recvline, timeouts, shown, mishaps>>

RecvDatagram ==
  /\ pc = "recvfrom" /\ ~soerror /\ rcvbuf # <<>>
  /\ recvline' = Head(rcvbuf) /\ rcvbuf' = Tail(rcvbuf)
  /\ pc' = "fputs"
  /\ UNCHANGED <<timer, kind, sent, requests, answers, soerror, timeouts, shown, mishaps>>

(* SO_RCVTIMEO: five seconds without a datagram, on to the next line.      *)
RecvTimeout ==
  /\ kind = "dgclitimeo2"
  /\ pc = "recvfrom" /\ ~soerror /\ rcvbuf = <<>>
  /\ timeouts' = timeouts + 1
  /\ pc' = "fgets"
  /\ UNCHANGED <<timer, kind, sent, udpNet, recvline, shown>>

Fputs ==
  /\ pc = "fputs"
  /\ shown' = shown \cup {recvline}
  /\ pc' = "fgets"
  /\ UNCHANGED <<timer, kind, sent, udpNet, recvline, timeouts>>

DgCli == Fgets \/ Sendto \/ RecvError \/ RecvDatagram \/ Fputs
UdpNetwork == DgEchoServes \/ Comes
UdpNext == DgCli \/ RecvTimeout \/ UdpNetwork \/ Mishap
UdpSpec == UdpInit /\ pc = "fgets" /\ timer = FALSE /\ [][UdpNext]_<<pc, timer, udpVars>>
-----------------------------------------------------------------------------
(* What is shown is the answer to the line just sent, until something goes *)
(* wrong: after a timeout the late answer passes for the next one's, and   *)
(* so does a duplicate; after an error the last line is shown again; a     *)
(* stranger is believed.  A loss alone never makes a wrong answer, and     *)
(* only a duplicate or an error shows a line twice.                        *)
OwnAnswer ==
  pc = "fputs" /\ ~Happened("twice") /\ ~Happened("error") =>
    /\ ~Happened("stranger") /\ timeouts = 0 => recvline = sent
    /\ recvline # 0 => recvline \notin shown
    /\ recvline = 0 => kind # "dgcliconnect" /\ Happened("stranger")
    /\ recvline <= sent

(* The client ends, or waits for ever for a datagram that was lost or that *)
(* an error kept from being sent; with a timeout it always ends.           *)
UdpEnds == pc = "ended" \/ (kind # "dgclitimeo2" /\ (Happened("lost") \/ Happened("error")))
=============================================================================

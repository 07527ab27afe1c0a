---------------------------- MODULE MCEchoServers ----------------------------
(* An instance of EchoServers for TLC.  One slot, where the interest is in *)
(* slots that run out; two, where it is in workers that run side by side.  *)
EXTENDS EchoServers

CONSTANTS c1, c2, w1, w2

MCDeployments ==
  {"tcpserv01", "tcpserv04", "unixstrserv01", "udpservselect01", "threads01"} \X {{w1}}
  \cup {"tcpserv04", "threads01", "threads02"} \X {{w1, w2}}

(* With room for one line, c1 can leave its worker blocked with another;   *)
(* not in the two servers that have the most states without that.          *)
MCMaxLines ==
  [server \in {d[1] : d \in MCDeployments}, c \in Clients |->
     IF c = c1 /\ server \notin {"udpservselect01", "threads02"} THEN 2 ELSE 1]
=============================================================================

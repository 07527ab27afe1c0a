---------------------------- MODULE AlarmProcess ----------------------------
(***************************************************************************)
(* What traceroute, ping and udpcksum share: one thread and one alarm      *)
(* clock.  SIGALRM may come between any two steps of the thread.           *)
(***************************************************************************)
VARIABLES pc,       \* the next step of the thread
          timer     \* alarm() has been called and has not rung
=============================================================================

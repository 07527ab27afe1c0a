------------------------------ MODULE FifoEcho ------------------------------
(***************************************************************************)
(* What a datagram echo server promises its clients, with no queue, signal *)
(* or index in sight: the server reads datagrams one at a time and answers *)
(* them one at a time, each exactly once and in the order it read them.    *)
(* It may stop for good at any point.  DgEcho is shown to implement this.  *)
(***************************************************************************)
EXTENDS Naturals, Sequences

CONSTANT Datagram            \* what a read can put into the queue

VARIABLES rcvd,              \* datagrams read from the socket, in order
          echoed,            \* datagrams handed to sendto, in order
          stopped            \* the process has exited

vars == <<rcvd, echoed, stopped>>

Init == /\ rcvd = <<>>
        /\ echoed = <<>>
        /\ stopped = FALSE

Read == /\ ~stopped
        /\ \E d \in Datagram : rcvd' = Append(rcvd, d)
        /\ UNCHANGED <<echoed, stopped>>

Answer == /\ ~stopped
          /\ Len(echoed) < Len(rcvd)
          /\ echoed' = Append(echoed, rcvd[Len(echoed) + 1])
          /\ UNCHANGED <<rcvd, stopped>>

Stop == /\ ~stopped
        /\ stopped' = TRUE
        /\ UNCHANGED <<rcvd, echoed>>

Next == Read \/ Answer \/ Stop

Spec == Init /\ [][Next]_vars
=============================================================================

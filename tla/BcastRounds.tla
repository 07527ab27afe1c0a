---------------------------- MODULE BcastRounds ----------------------------
(***************************************************************************)
(* What a broadcasting client of bcast/ does, whichever way it waits: for  *)
(* each line it broadcasts it collects replies for five seconds, so a      *)
(* round stays open until its own timer has expired.                       *)
(***************************************************************************)
EXTENDS Naturals

VARIABLES round,     \* rounds begun
          open,      \* the client is collecting replies
          expired    \* the five seconds of this round are over

vars == <<round, open, expired>>

Init == round = 0 /\ open = FALSE /\ expired = FALSE

Begin == /\ ~open
         /\ round' = round + 1
         /\ open' = TRUE
         /\ expired' = FALSE

Expire == /\ open /\ ~expired
          /\ expired' = TRUE
          /\ UNCHANGED <<round, open>>

End == /\ open /\ expired
       /\ open' = FALSE
       /\ UNCHANGED <<round, expired>>

Next == Begin \/ Expire \/ End

Spec == Init /\ [][Next]_vars
=============================================================================

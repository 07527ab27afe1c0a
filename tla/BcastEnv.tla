------------------------------ MODULE BcastEnv ------------------------------
(***************************************************************************)
(* The part that the four dg_cli() of bcast/ share: the outer loop (fgets, *)
(* sendto, alarm(5)), the replies that reach the socket, and the timer     *)
(* that turns into a pending SIGALRM.  Each variant adds how it waits.     *)
(***************************************************************************)
EXTENDS Integers

CONSTANTS MaxRounds,    \* bound: lines of input
          MaxReplies    \* bound: replies that reach the socket

ASSUME EnvAssumption == MaxRounds \in Nat /\ MaxReplies \in Nat

VARIABLES pc,           \* "fgets", "alarm", "done" and the variant's own
          round,        \* lines broadcast
          timer,        \* the alarm clock is running
          expired,      \* history: the alarm of this round has gone off
          pending,      \* SIGALRM generated and not delivered
          sock,         \* replies in the receive buffer
          arrived,      \* counter of the bound MaxReplies
          heard,        \* history: replies taken from the socket
          printed       \* history: replies shown to the user

clockVars == <<round, timer, expired>>
replyVars == <<sock, arrived, heard, printed>>
envVars == <<pc, clockVars, pending, replyVars>>

EnvInit ==
  /\ pc = "fgets" /\ round = 0
  /\ timer = FALSE /\ expired = FALSE /\ pending = FALSE
  /\ sock = 0 /\ arrived = 0 /\ heard = 0 /\ printed = 0

(* A reply to any broadcast so far, however late.                          *)
Reply ==
  /\ round > 0 /\ arrived < MaxReplies
  /\ arrived' = arrived + 1
  /\ sock' = sock + 1
  /\ UNCHANGED <<pc, clockVars, pending, heard, printed>>

Expire ==
  /\ timer
  /\ timer' = FALSE /\ expired' = TRUE /\ pending' = TRUE
  /\ UNCHANGED <<pc, round, replyVars>>

(* fgets and sendto; the end of the input ends the program.                *)
Broadcast ==
  /\ pc = "fgets" /\ round < MaxRounds
  /\ round' = round + 1
  /\ expired' = FALSE
  /\ pc' = "alarm"
  /\ UNCHANGED <<timer, pending, replyVars>>

EndOfInput ==
  /\ pc = "fgets"
  /\ pc' = "done"
  /\ UNCHANGED <<clockVars, pending, replyVars>>

StartAlarm ==
  /\ pc = "alarm"
  /\ timer' = TRUE
  /\ pc' = "loop"
  /\ UNCHANGED <<round, expired, pending, replyVars>>

Outer == Broadcast \/ EndOfInput \/ StartAlarm

(* Steps of the inner loop: move, take a reply, show it.                   *)
Move(from, to) ==
  /\ pc = from /\ pc' = to
  /\ UNCHANGED <<clockVars, pending, replyVars>>

Recvfrom(from, to) ==
  /\ pc = from /\ pc' = to
  /\ sock > 0
  /\ sock' = sock - 1 /\ heard' = heard + 1
  /\ UNCHANGED <<clockVars, pending, arrived, printed>>

ShowReply(from, to) ==
  /\ pc = from /\ pc' = to
  /\ printed' = printed + 1
  /\ UNCHANGED <<clockVars, pending, sock, arrived, heard>>

(* The handler has run and control goes on at "to".                        *)
Alarmed(to) ==
  /\ pending /\ pending' = FALSE
  /\ pc' = to
  /\ UNCHANGED <<clockVars, replyVars>>

-----------------------------------------------------------------------------
(* A round is open, from the broadcast to the next fgets.                  *)
Collecting == pc \notin {"fgets", "done", "crash"}
=============================================================================

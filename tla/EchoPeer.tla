------------------------------ MODULE EchoPeer ------------------------------
(***************************************************************************)
(* The surroundings of a TCP echo client's str_cli(): the user who types,  *)
(* the connection, the echo server (lib/str_echo.c, one process per        *)
(* client) and the terminal or pipe behind stdout.  A unit of data is its  *)
(* number: the user types 1, 2, 3, ...  The client's side is in the        *)
(* modules that extend this one.                                           *)
(***************************************************************************)
EXTENDS Integers, Sequences

CONSTANTS MaxTyped,     \* bound: units the user types
          MaxFile,      \* bound: units of a regular file, as input
          UpCap,        \* units the connection holds towards the server
          DownCaps,     \* and towards the client: one of these
          OutCap,       \* units stdout takes before it blocks
          MAXLINE       \* units of every buffer

ASSUME PeerAssumption == /\ MaxTyped \in Nat /\ MaxFile \in Nat
                         /\ {UpCap, OutCap, MAXLINE} \cup DownCaps \subseteq Nat \ {0}

VARIABLES typed,        \* units typed so far
          stdin, eof,   \* typed and not read yet; end of input
          up, upFin,    \* client to server: data, FIN behind them
          srv,          \* what the server has read and not written back
          crashed,      \* the server process has terminated early
          downCap,      \* chosen from DownCaps once and for all
          down, downFin,  \* server to client: data, FIN behind them
          rst,          \* RST: "none", "sent" by the server, pending on the
                        \* client's socket as "reset" or "pipe", or "spent"
          out, shown    \* everything written to stdout; how much has drained

userVars == <<typed, stdin, eof>>
netVars == <<up, upFin, down, downFin, rst>>
serverVars == <<srv, crashed>>
outVars == <<out, shown>>
peerVars == <<userVars, netVars, serverVars, outVars>>

Smaller(a, b) == IF a < b THEN a ELSE b
Take(s, k) == SubSeq(s, 1, Smaller(k, Len(s)))
Drop(s, k) == SubSeq(s, k + 1, Len(s))
Numbers(k) == [j \in 1 .. k |-> j]

PeerInit ==
  /\ typed = 0 /\ stdin = <<>> /\ eof = FALSE
  /\ up = <<>> /\ upFin = FALSE
  /\ srv = <<>> /\ crashed = FALSE
  /\ down = <<>> /\ downFin = FALSE /\ rst = "none"
  /\ out = <<>> /\ shown = 0

-----------------------------------------------------------------------------
(* The user and the terminal.                                              *)
Type ==
  /\ ~eof /\ typed < MaxTyped
  /\ typed' = typed + 1
  /\ stdin' = Append(stdin, typed + 1)
  /\ UNCHANGED <<eof, netVars, serverVars, outVars>>

EndInput ==
  /\ ~eof
  /\ eof' = TRUE
  /\ UNCHANGED <<typed, stdin, netVars, serverVars, outVars>>

Drain ==
  /\ shown < Len(out)
  /\ shown' = shown + 1
  /\ UNCHANGED <<userVars, netVars, serverVars, out>>

(* str_echo: read what there is, write it back, stop at end of file.       *)
ServerRead ==
  /\ ~crashed /\ srv = <<>> /\ up # <<>>
  /\ srv' = Take(up, MAXLINE)
  /\ up' = Drop(up, MAXLINE)
  /\ UNCHANGED <<userVars, upFin, down, downFin, rst, crashed, outVars>>

ServerWrite ==
  /\ ~crashed /\ srv # <<>> /\ Len(down) < downCap
  /\ down' = Append(down, Head(srv))
  /\ srv' = Tail(srv)
  /\ UNCHANGED <<userVars, up, upFin, downFin, rst, crashed, outVars>>

ServerEnd ==
  /\ ~downFin /\ srv = <<>> /\ up = <<>> /\ upFin
  /\ downFin' = TRUE
  /\ UNCHANGED <<userVars, up, upFin, down, rst, serverVars, outVars>>

(* The server terminates early: its kernel sends a RST at once if there is *)
(* data it has not read (ECONNRESET for the client), and a FIN otherwise.  *)
ServerDies ==
  /\ ~downFin
  /\ crashed' = TRUE /\ downFin' = TRUE
  /\ srv' = <<>> /\ up' = <<>>
  /\ rst' = IF up # <<>> THEN "reset" ELSE rst
  /\ UNCHANGED <<userVars, upFin, down, outVars>>

(* The RST that answers data sent to a server that is gone: the client had *)
(* its FIN before, so the error is EPIPE.                                  *)
RstArrives ==
  /\ rst = "sent"
  /\ rst' = "pipe"
  /\ UNCHANGED <<userVars, up, upFin, down, downFin, serverVars, outVars>>

Server == ServerRead \/ ServerWrite \/ ServerEnd
Environment == Type \/ EndInput \/ Drain \/ Server \/ ServerDies \/ RstArrives

-----------------------------------------------------------------------------
(* What the client's system calls see.                                     *)
Reported == {"reset", "pipe"}           \* errors the next call reports
SockReadable == down # <<>> \/ downFin \/ rst \in Reported
UpRoom == IF crashed THEN MAXLINE ELSE UpCap - Len(up)
OutRoom == OutCap - (Len(out) - shown)

(* read() of the connection: what there is, the end of file, or an error.  *)
(* After the FIN a RST may be reported or not (BSD does, Linux does not).  *)
TakeDown(k) == down # <<>> /\ down' = Drop(down, k)
AtEOF == down = <<>> /\ downFin /\ rst # "reset"
AtReset == down = <<>> /\ rst \in Reported /\ rst' = "spent"

(* write() on the connection.  A server that is gone answers with a RST; a *)
(* first error ECONNRESET is just reported; EPIPE comes with SIGPIPE.      *)
PutUp(data) == /\ rst \in {"none", "sent"}
               /\ up' = IF crashed THEN up ELSE up \o data
               /\ rst' = IF crashed THEN "sent" ELSE rst
PutFails == rst = "reset" /\ rst' = "spent"
PutKills == rst \in {"pipe", "spent"}

(* The pipeline from the keyboard to stdout when the client holds "recvd"  *)
(* on its way to stdout and "tosend" on its way to the server.             *)
Pipeline(recvd, tosend) == out \o recvd \o down \o srv \o up \o tosend \o stdin

(* Everything typed has come back.                                         *)
AllShown == stdin = <<>> /\ out = Numbers(typed)
=============================================================================

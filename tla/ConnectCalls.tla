----------------------------- MODULE ConnectCalls -----------------------------
(***************************************************************************)
(* Three ways to connect: connect_nonb() of nonblock/, with select and a   *)
(* limit; connect_timeo() of lib/, with an alarm; and the loop of          *)
(* names/daytimetcpcli1.c over the addresses of a host.                    *)
(***************************************************************************)
EXTENDS AlarmProcess, Integers

CONSTANTS ConnCalls,      \* subset of {"connect_nonb", "connect_timeo", "daytimetcpcli1"}
          Addrs           \* addresses the host may have, at most

ASSUME ConnAssumption == /\ ConnCalls \subseteq {"connect_nonb", "connect_timeo", "daytimetcpcli1"}
                         /\ Addrs \in Nat

VARIABLES call,
          limit,          \* connect_nonb: nsec is not 0
          solaris,        \* getsockopt() fails with a pending error itself
          addrs,          \* addresses not yet tried
          hs,             \* the handshake: "none", "syn", "up" or its error
          open,           \* sockets
          nonblock,       \* O_NONBLOCK of the socket
          handler,        \* of SIGALRM: the caller's or connect_alarm
          error, connErrno, ret,
          atOnce,         \* history: a connect() that may not block failed
          intr,           \* history: a signal interrupted the call
          early,          \* history: the alarm rang before connect slept
          stray           \* history: the caller got an alarm of connect_timeo

connArgs == <<call, limit, solaris>>
result == <<connErrno, ret>>
connHistory == <<atOnce, intr, early, stray>>
connVars == <<connArgs, addrs, hs, open, nonblock, handler, error, result, connHistory>>
Errors == {"ECONNREFUSED", "ETIMEDOUT"}

ConnStart == [connect_nonb |-> "F_SETFL", connect_timeo |-> "Signal", daytimetcpcli1 |-> "socket"]

(* The caller of connect_timeo may have an alarm running.                  *)
ConnInit ==
  /\ call \in ConnCalls /\ limit \in BOOLEAN /\ solaris \in BOOLEAN
  /\ addrs \in 0 .. Addrs /\ hs = "none"
  /\ open = IF call = "daytimetcpcli1" THEN 0 ELSE 1
  /\ nonblock = FALSE /\ handler = "caller"
  /\ error = "none" /\ connErrno = "none" /\ ret = 0
  /\ atOnce = FALSE /\ intr = FALSE /\ early = FALSE /\ stray = FALSE
  /\ call # "connect_nonb" => ~limit /\ ~solaris
  /\ call # "daytimetcpcli1" => addrs = 0

-----------------------------------------------------------------------------
(* The peer answers, or the kernel gives up, after a time longer than the  *)
(* limits of the calls.                                                    *)
Handshake ==
  /\ hs = "syn" /\ open > 0
  /\ \/ hs' \in {"up", "ECONNREFUSED"}
     \/ ~timer /\ ~limit /\ hs' = "ETIMEDOUT"
  /\ UNCHANGED <<pc, timer, connArgs, addrs, open, nonblock, handler, error, result, connHistory>>

Fails(e, left) == open' = left /\ connErrno' = e /\ ret' = -1

-----------------------------------------------------------------------------
(* connect_nonb, lines 10 to 21.  An immediate error leaves O_NONBLOCK.    *)
SetNonblock ==
  /\ pc = "F_SETFL"
  /\ nonblock' = TRUE
  /\ pc' = "connect_nonb"
  /\ UNCHANGED <<timer, connArgs, addrs, hs, open, handler, error, result, connHistory>>

ConnectNonb ==
  /\ pc = "connect_nonb"
  /\ \/ hs' = "up" /\ pc' = "done" /\ UNCHANGED <<open, result, atOnce>>
     \/ hs' = "syn" /\ pc' = "select" /\ UNCHANGED <<open, result, atOnce>>
     \/ hs' = "ECONNREFUSED" /\ pc' = "result" /\ Fails("ECONNREFUSED", open) /\ atOnce' = TRUE
  /\ UNCHANGED <<timer, connArgs, addrs, nonblock, handler, error, intr, early, stray>>

(* Lines 28 to 44.  When select fails the sets are undefined: the socket   *)
(* may be in them or not.                                                  *)
SelectConn ==
  /\ pc = "select"
  /\ \/ hs # "syn" /\ pc' = "SO_ERROR" /\ UNCHANGED <<open, result, intr>>
     \/ hs = "syn" /\ limit /\ pc' = "result" /\ Fails("ETIMEDOUT", 0) /\ UNCHANGED intr
     \/ hs = "syn" /\ intr' = TRUE /\ pc' \in {"SO_ERROR", "done"} /\ UNCHANGED <<open, result>>
  /\ UNCHANGED <<timer, connArgs, addrs, hs, nonblock, handler, error, atOnce, early, stray>>

MutSoError ==                           \* writable is taken for connected
  /\ pc = "SO_ERROR"
  /\ pc' = "done"
  /\ UNCHANGED <<timer, connVars>>
(* A pending error is what getsockopt() puts into error, or fails with: it *)
(* then returns, and leaves the socket open and nonblocking (line 39).     *)
SoError ==
  /\ pc = "SO_ERROR"
  /\ \/ hs \in Errors /\ solaris /\ pc' = "result" /\ Fails(hs, open) /\ UNCHANGED error
     \/ hs \in Errors /\ ~solaris /\ pc' = "done" /\ error' = hs /\ UNCHANGED <<open, result>>
     \/ hs \notin Errors /\ pc' = "done" /\ error' = "none" /\ UNCHANGED <<open, result>>
  /\ UNCHANGED <<timer, connArgs, addrs, hs, nonblock, handler, connHistory>>

ConnDone ==
  /\ pc = "done"
  /\ nonblock' = FALSE
  /\ IF error # "none" THEN Fails(error, 0) ELSE ret' = 0 /\ UNCHANGED <<open, connErrno>>
  /\ pc' = "result"
  /\ UNCHANGED <<timer, connArgs, addrs, hs, handler, error, connHistory>>

-----------------------------------------------------------------------------
(* connect_timeo.                                                          *)
SignalConn ==
  /\ pc = "Signal"
  /\ handler' = "connect_alarm"
  /\ pc' = "alarm"
  /\ UNCHANGED <<timer, connArgs, addrs, hs, open, nonblock, error, result, connHistory>>

AlarmConn ==
  /\ pc = "alarm"
  /\ timer' = TRUE
  /\ pc' = IF timer THEN "aborted" ELSE "connect"
  /\ UNCHANGED connVars

(* connect() of a blocking socket goes to sleep, with every kind of end.   *)
ConnectSleeps ==
  /\ pc = "connect"
  /\ hs' = "syn"
  /\ pc' = "asleep"
  /\ UNCHANGED <<timer, connArgs, addrs, open, nonblock, handler, error, result, connHistory>>

Failed1(e) == IF call = "connect_timeo"
                THEN Fails(e, 0) /\ pc' = "alarm0" /\ UNCHANGED addrs
                ELSE /\ open' = open - 1 /\ addrs' = addrs - 1 /\ pc' = "socket"
                     /\ UNCHANGED <<result>>

ConnectReturns ==
  /\ pc = "asleep" /\ hs # "syn"
  /\ IF hs \in Errors THEN Failed1(hs)
     ELSE /\ pc' = IF call = "connect_timeo" THEN "alarm0" ELSE "result"
          /\ UNCHANGED <<addrs, open, result>>
  /\ UNCHANGED <<timer, connArgs, hs, nonblock, handler, error, connHistory>>

(* Any other signal interrupts it too, and passes for the end of the time. *)
ConnectInterrupted ==
  /\ pc = "asleep" /\ hs = "syn" /\ ~intr
  /\ intr' = TRUE
  /\ Failed1("ETIMEDOUT")
  /\ UNCHANGED <<timer, connArgs, hs, nonblock, handler, error, atOnce, early, stray>>

AlarmConnOff ==
  /\ pc = "alarm0"
  /\ timer' = FALSE
  /\ pc' = "signal"
  /\ UNCHANGED connVars

RestoreHandler ==
  /\ pc = "signal"
  /\ handler' = "caller"
  /\ pc' = "result"
  /\ UNCHANGED <<timer, connArgs, addrs, hs, open, nonblock, error, result, connHistory>>

(* SIGALRM, the caller's or ours.                                          *)
ConnAlrm ==
  /\ timer /\ timer' = FALSE
  /\ IF pc = "asleep" /\ hs = "syn" THEN Failed1("ETIMEDOUT")
                                    ELSE UNCHANGED <<pc, addrs, open, result>>
  /\ early' = (early \/ pc = "connect")
  /\ stray' = (stray \/ (handler = "caller" /\ pc # "Signal"))
  /\ UNCHANGED <<connArgs, hs, nonblock, handler, error, atOnce, intr>>

-----------------------------------------------------------------------------
(* daytimetcpcli1, lines 67 to 90: each address in turn.                   *)
NextAddr ==
  /\ pc = "socket"
  /\ IF addrs > 0
       THEN open' = open + 1 /\ hs' = "none" /\ pc' = "connect" /\ UNCHANGED ret
       ELSE pc' = "result" /\ ret' = -1 /\ UNCHANGED <<open, hs>>
  /\ UNCHANGED <<timer, connArgs, addrs, nonblock, handler, error, connErrno, connHistory>>

Connect == \/ SetNonblock \/ ConnectNonb \/ SelectConn \/ SoError \/ ConnDone
           \/ SignalConn \/ AlarmConn \/ ConnectSleeps \/ ConnectReturns \/ ConnectInterrupted
           \/ AlarmConnOff \/ RestoreHandler \/ NextAddr
ConnNext == Connect \/ ConnAlrm \/ Handshake
ConnSpec == /\ ConnInit /\ pc = ConnStart[call] /\ timer \in {FALSE, call = "connect_timeo"}
            /\ [][ConnNext]_<<pc, timer, connVars>>
-----------------------------------------------------------------------------
(* What the call returns is true of the socket: 0 means connected, unless  *)
(* a signal made select fail (connect_nonb:28); -1 means closed, unless    *)
(* connect_nonb returned before its end: connect() failed at once (line    *)
(* 17), or getsockopt() failed with the pending error (line 39).  Then the *)
(* socket is open, with O_NONBLOCK set, and errno is why the connection    *)
(* failed.  connect_timeo leaves no alarm behind for its caller, and waits *)
(* longer than its limit only if the alarm rang before connect() slept.    *)
LeftOpen == nonblock /\ hs = connErrno /\ (atOnce \/ solaris)
ConnectTells ==
  /\ pc = "result" =>
       /\ ret = 0 => open = 1 /\ ~nonblock /\ (hs = "up" \/ (call = "connect_nonb" /\ intr))
       /\ ret = -1 => open = 0 \/ (call = "connect_nonb" /\ LeftOpen)
       /\ call = "connect_timeo" => ~timer /\ handler = "caller"
  /\ ~stray
  /\ call = "connect_timeo" /\ hs = "ETIMEDOUT" => early
=============================================================================

-------------------------------- MODULE MyOpen --------------------------------
(***************************************************************************)
(* unixdomain/: mycat calls my_open(), which forks and executes openfile;  *)
(* openfile opens the file and passes the descriptor through a socket      *)
(* pair, or its errno in its exit status.  Parent and child run at once.   *)
(***************************************************************************)
EXTENDS AlarmProcess, Integers

(* Exit statuses: 0, the errno of open and of sendmsg, and 255; fd -1 is   *)
(* "none".                                                                 *)
Exit(code) == [how |-> "exited", code |-> code]
Killed == [how |-> "signaled", code |-> "none"]
Alive == [how |-> "alive", code |-> "none"]
Statuses == {Exit(c) : c \in {"0", "EOPEN", "ESEND", "255"}} \cup {Killed}

VARIABLES pair,           \* socketpair has worked
          forked,         \* fork has worked
          child,          \* next step of the child, "none" without one
          cstatus,        \* how the child ended
          passed,         \* a descriptor is in the socket pair
          ours,           \* sockfd[0] is open
          status, fd, openErrno,        \* of my_open; fd may be "unset"
          full,           \* history: no room for the descriptor received
          said            \* history: "cannot open" was printed so often

parentVars == <<ours, status, fd, openErrno, full>>
childVars == <<child, cstatus>>
openVars == <<pair, forked, childVars, passed, parentVars, said>>

OpenInit ==
  /\ pair = FALSE /\ forked = FALSE /\ child = "none" /\ cstatus = Alive
  /\ passed = FALSE /\ ours = FALSE
  /\ status = Alive /\ fd = "unset" /\ openErrno = "none" /\ full = FALSE /\ said = 0

-----------------------------------------------------------------------------
(* The child: the rest of my_open, or openfile's main.                     *)
ChildEnds(code) == child' = "ended" /\ cstatus' = Exit(code)

(* If execl fails the child returns from my_open and is a second mycat,    *)
(* which says that it cannot open the file and exits.                      *)
Execl ==
  /\ child = "execl"
  /\ \/ child' = "open" /\ UNCHANGED <<cstatus, said>>
     \/ ChildEnds("255") /\ said' = said + 1
  /\ UNCHANGED <<pc, timer, pair, forked, passed, parentVars>>

Open ==
  /\ child = "open"
  /\ \/ child' = "write_fd" /\ UNCHANGED cstatus
     \/ ChildEnds("EOPEN")
  /\ UNCHANGED <<pc, timer, pair, forked, passed, parentVars, said>>

WriteFd ==
  /\ child = "write_fd"
  /\ \/ pair /\ passed' = TRUE /\ child' = "exit" /\ UNCHANGED cstatus
     \/ ChildEnds("ESEND") /\ UNCHANGED passed
  /\ UNCHANGED <<pc, timer, pair, forked, parentVars, said>>

ExitZero ==
  /\ child = "exit"
  /\ ChildEnds("0")
  /\ UNCHANGED <<pc, timer, pair, forked, passed, parentVars, said>>

Kill ==
  /\ child \in {"execl", "open", "write_fd", "exit"}
  /\ child' = "ended" /\ cstatus' = Killed
  /\ UNCHANGED <<pc, timer, pair, forked, passed, parentVars, said>>

-----------------------------------------------------------------------------
(* my_open in the parent.  If socketpair fails, sockfd[] holds whatever it *)
(* held: no socket of ours.                                                *)
Socketpair ==
  /\ pc = "socketpair"
  /\ pair' \in BOOLEAN /\ ours' = pair'
  /\ pc' = "fork"
  /\ UNCHANGED <<timer, forked, childVars, passed, status, fd, openErrno, full, said>>

(* fork may fail, and my_open does not notice: it goes on as the parent.   *)
Fork ==
  /\ pc = "fork"
  /\ \/ forked' = TRUE /\ child' = "execl"
     \/ UNCHANGED <<forked, child>>
  /\ pc' = "waitpid"
  /\ UNCHANGED <<timer, pair, cstatus, passed, parentVars, said>>

(* Without a child waitpid fails, and status holds anything.               *)
MutWaitpid ==                           \* does not wait
  /\ pc = "waitpid"
  /\ IF ~forked THEN status' \in Statuses
                      ELSE status' = IF child = "ended" THEN cstatus ELSE Exit("0")
  /\ pc' = "WIFEXITED"
  /\ UNCHANGED <<timer, pair, forked, childVars, passed, ours, fd, openErrno, full, said>>
Waitpid ==
  /\ pc = "waitpid"
  /\ IF ~forked THEN status' \in Statuses
                      ELSE child = "ended" /\ status' = cstatus
  /\ pc' = "WIFEXITED"
  /\ UNCHANGED <<timer, pair, forked, childVars, passed, ours, fd, openErrno, full, said>>

(* Lines 26 to 38.                                                         *)
NotExited ==
  /\ pc = "WIFEXITED" /\ status.how # "exited"
  /\ fd' = "none"
  /\ pc' = "returned"
  /\ UNCHANGED <<timer, pair, forked, childVars, passed, ours, status, openErrno, full, said>>

(* read_fd: with no message and the other end closed recvmsg returns 0 (or *)
(* -1, if there is no pair), and fd keeps what it had.                     *)
ReadFd ==
  /\ pc = "WIFEXITED" /\ status = Exit("0")
  /\ passed' = FALSE
  /\ full' \in {FALSE, passed}
  /\ fd' = IF ~passed THEN fd ELSE IF full' THEN "none" ELSE "file"
  /\ pc' = "close"
  /\ UNCHANGED <<timer, pair, forked, childVars, ours, status, openErrno, said>>

TakeErrno ==
  /\ pc = "WIFEXITED" /\ status.how = "exited" /\ status.code # "0"
  /\ openErrno' = status.code /\ fd' = "none"
  /\ pc' = "close"
  /\ UNCHANGED <<timer, pair, forked, childVars, passed, ours, status, full, said>>

CloseOurs ==
  /\ pc = "close"
  /\ ours' = FALSE
  /\ pc' = "returned"
  /\ UNCHANGED <<timer, pair, forked, childVars, passed, status, fd, openErrno, full, said>>

(* mycat: copies what it can read from fd, or says that it cannot open.    *)
Mycat ==
  /\ pc = "returned"
  /\ \/ fd = "none" /\ said' = said + 1
     \/ fd # "none" /\ UNCHANGED said
  /\ pc' = "over"
  /\ UNCHANGED <<timer, pair, forked, childVars, passed, parentVars>>

Child == Execl \/ Open \/ WriteFd \/ ExitZero
MyOpen == Socketpair \/ Fork \/ Waitpid \/ NotExited \/ ReadFd \/ TakeErrno \/ CloseOurs \/ Mycat
OpenSteps == Child \/ MyOpen
OpenNext == OpenSteps \/ Kill
OpenSpec == OpenInit /\ pc = "socketpair" /\ timer = FALSE /\ [][OpenNext]_<<pc, timer, openVars>>
-----------------------------------------------------------------------------
(* my_open returns the descriptor of the file exactly if openfile has      *)
(* opened and passed it, unless there is no room for it; else -1, with the *)
(* errno of openfile if that exited with one.  Only after a failed fork    *)
(* may it return a descriptor that nobody opened.  No descriptor stays     *)
(* behind, but for a child that was killed, and but for a failed exec the  *)
(* user is told once.                                                      *)
DescriptorOrError ==
  pc \in {"returned", "over"} =>
    /\ forked => /\ child = "ended"
                 /\ fd = IF cstatus = Exit("0") /\ ~full THEN "file" ELSE "none"
                 /\ (cstatus.how = "exited" /\ cstatus.code # "0") => openErrno = cstatus.code
                 /\ (ours \/ passed) => cstatus = Killed
                 /\ pc = "over" => (said > 0) = (fd = "none")
                 /\ said > 1 => cstatus = Exit("255")
    /\ ~forked => fd \in {"none", "unset"} /\ ~passed
=============================================================================

# TLA+ models of the socket programs

The repository holds small, independent C programs and functions in the manner
of *Unix Network Programming*: echo servers built with fork, threads, select
and signals; echo, broadcast, ping, traceroute and checksum clients; and the
library functions they call. There is no README and there are no tests; the only documents
are the comments in the sources, and the properties that disagree with the code
quote them. Almost every program is a few dozen lines of C whose difficulty lies
outside the text: a signal between two statements, a peer that resets its
connection, a full buffer, a call that fails and is not looked at. That is what
the modules model.

Many files contain slips that keep them from compiling (`sig_child` for
`sig_chld`, `nleftn`, `sig_arm`, an included file that is not there). They are
read as the identifier that is plainly meant, and where the slip is a statement
that does compile, as it stands: `SIG_BLOCK` for `SIG_SETMASK` in dgecho01, the
misplaced `break` in recv_v6, `i<maxi`, the unreachable write of
strcliselect02. Those are findings, or named exceptions in properties. More of
the first kind: heartbeartserv includes with `#inclue` and tests
`maxnlarms_arg`, openfile opens `argv[i]` (read as `argv[1]`), myopen declares
`argmodep` and writes `argmode`, and get_ifi_info misspells several of its locals and constants (`hlen`, `srrncmp`, `iFF_BROADCAST`).

## 1 Inventory

### Servers

| component | state | operations | hard because | correct when |
|---|---|---|---|---|
| `sigio/dgecho01.c` | ring `dg[QSIZE]`, `iget`, `iput`, `nqueue`, histogram `cntread`, signal mask | main loop answers from the ring; the SIGIO handler fills it; SIGHUP prints | the handler interrupts the main loop between any two steps; one SIGIO stands for many datagrams; the ring fills up | ring and counters agree, FIFO, no wakeup is lost |
| `select/tcpservselect01.c` (identical copy in `tcpcliserv/`) | `client[]`, `maxi`, `allset`, `maxfd`, `nready` | accept, read, write back, close | four tables for one set of clients; slots and descriptors are reused; accept fails; RST and SIGPIPE | tables agree, no client blocks or starves the rest |
| `tcpcliserv/tcpserv01.c`, `tcpserv04.c`, `sigchldwaitpid.c`, `unixdomain/unixstrserv01.c`, `udpcliserv/udpservselect01.c` | the process table, `connfd`, pending SIGCHLD | accept, fork, child runs `str_echo`, handler waits | SIGCHLD is not queued and interrupts main; accept and fork fail; zombies fill the table; a blocking accept after select | one server per connection, slots come back, every session ends |
| `threads/tcpserv01.c`, `tcpserv02.c` | one thread per connection, the allocated cell | accept, create, detach, echo, close | the descriptor is handed over while main goes on; SIGPIPE kills all | as above |
| `lib/str_echo.c`, `lib/written.c` | none between calls | read and write back until end of file | partial writes, write blocks | nothing is lost |
| `tcpcliserv/tcpcliservpoll01.c` | `client[]` of pollfd | does not compile, not a server in any reading | | |
| `udpcliserv/udpserv01.c` | none | one datagram back at a time | its answers are late for a client that gave up waiting | |

### Clients

| component | state | operations | hard because | correct when |
|---|---|---|---|---|
| the six `str_cli()`: `lib/str_cli.c` (`tcpcli01.c`), `select/strcliselect01.c` and `02`, `nonblock/strclinonb.c`, `threads/strclithread.c`, `advio/str_cli_kqueue04.c` | buffers with in and out pointers; buffers of stdio and `lib/readline.c`; `stdineof`; two threads; kevents | read stdin, write socket, read socket, write stdout, shutdown | partial reads and writes, EWOULDBLOCK, hidden buffers, FIN and RST at any time, both sides blocked in write | nothing lost or reordered, FIN last, an end |
| `bcast/`: `dgcclibcast1`, `dgclibcast4`, `5`, `6`, `pselect` | alarm, signal mask, jmpbuf, pipe | broadcast, collect replies until the alarm | the alarm races the call it is to interrupt | a round ends, by its own alarm, and shows its replies |
| `traceroute/` | `ttl`, `probe`, `seq`, `done`, `gotalarm` | send a probe, wait three seconds for its ICMP error | late, lost and duplicated packets, the alarm | a result belongs to its probe; the trace stops at the destination |
| `ping/` | `nsent`, `errno`, buffer | the handler sends each second, the loop reads | the handler interrupts anything | round trips are right |
| `udpcksum/` | `nsent`, `timeout`, `canjump`, jmpbuf | query, capture, three timeouts | siglongjmp out of a handler; one's complement carries | at most three queries, a valid checksum |
| `udpcliserv/udpcli01.c`, `dgcliconnect.c`, `lib/dgclitimeo2.c` | one line, a pending error of the socket | send a line, take the next datagram | no sequence numbers: late, doubled and foreign datagrams, errors that nobody looks at | what is shown answers the line just sent, as far as a client can know |
| `nonblock/connect_nonb.c`, `lib/connect_timeo.c`, `names/daytimetcpcli1.c` | file status flags, alarm and its handler, the addresses left | connect with a limit, or address by address | timeout against a late answer, EINTR of select and connect, the alarm before the sleep | the result says what happened, nothing is left behind |
| `lib/readable_timeo.c` | none | one select | | |

### Pairs and functions

| component | state | operations | hard because | correct when |
|---|---|---|---|---|
| `oob/heartbeatcli.c`, `heartbeartserv.c` | `nprobes` in two processes, their alarms | urgent bytes answered in SIGURG, counted in SIGALRM | handlers interrupt each other inside `++nprobes`, bytes are on their way for a while, two periods | a live peer is not given up, a dead one is |
| `unixdomain/`: `mycat.c`, `myopen.c`, `openfile.c`, `read_fd.c`, `write_fd.c` | process, socket pair, exit status | fork, exec, open, sendmsg, waitpid, recvmsg | two channels (status and message), every call may fail, the child may be killed | a descriptor or an error, never neither, and nothing left |
| `ioctl/get_ifi_info.c` | growing buffer, `lastlen`, `ptr`, names of earlier entries | ioctl until the length is stable, one pass | kernels that truncate or fail, a list that changes between two calls; `ptr` moves by what the code takes an entry's length to be, which is not always what the kernel laid out | all interfaces, once, with their own marks, wherever the two lengths agree |
| `threads/readline.c`, `lib/readline1.c` | a buffer for each thread | read ahead, or a byte at a time | threads at once, short reads, the end inside a line | every byte to its thread, in order |
| `mcast/`, `mysdr/`, `sockopt/`, `intro/`, `oob/tcp*`, `lib/daemon_init.c`, `threads/web01.c` | none | options, straight-line calls | | |

The parts interact by function call (a program links one `str_cli`,
`str_echo`, `dg_cli`), by sockets (a client and a server are two processes that
share the connection's buffers and its FIN and RST), by signals (a handler and
the thread it interrupts share variables) and through the kernel (SIGCHLD, the
process table, descriptors). `PROJECT.json` lists every file under
"components", modelled or not with the reason, and the hazards with the line
where each bites.

## 2 Modules

A step is one system call or one assignment to a variable that another thread
or handler can see; everything between two such points is one action. `pc` names the next one. Data are
units, lines or arrival numbers. History variables (in the comments: "history") record
what the properties speak of and no guard reads them, but for those of bounds.

| module | models | notes |
|---|---|---|
| `FifoEcho` | abstract: receive, answer in order, stop | refined by `DgEcho` |
| `DgEcho` | dgecho01 | `Deliver` is the entry of the SIGIO handler, `ReadOne`, `ReadError`, `Overflow`, `HandlerReturn` its body; `Check` ... `Dequeue` are lines 59 to 71, one per statement. `inIO` says that the handler runs: it is not interrupted, and the main loop stands still meanwhile |
| `DgEchoProofs` | the proofs about it | section 5 |
| `SelectServer` | the select server | `Select`, `Accept`, `AcceptFails`, `ScanEnds`, `ReadData`, `ReadError`, `ReadEOF`, then `written`, unit by unit. `conn` is the kernel's descriptor table, so that a closed descriptor can be reused |
| `SelectServerProofs` | the proofs about it | section 5 |
| `EchoPeer` | user, connection, `str_echo`, stdout | shared by the client modules |
| `StrCliNonb`, `StrCliStop`, `StrCliSelect`, `StrCliStdio`, `StrCliThread`, `StrCliKqueue` | one `str_cli()` each | |
| `EchoClients` | composes the six with `EchoPeer` by INSTANCE | `variant` is the one linked; the properties are stated once |
| `EchoClientsProofs` | the proofs about them | section 5 |
| `BcastRounds` | abstract: a round lasts until its alarm | refined by `BcastClients` |
| `BcastEnv`; `BcastRecvfrom`, `BcastPselect`, `BcastLongjmp`, `BcastPipe` | outer loop, replies and alarm; the four ways to wait | `emulated` chooses between pselect.c and a kernel's pselect |
| `BcastClients` | composes the four | |
| `BcastProofs` | the proofs about them | section 5 |
| `AlarmProcess`; `Traceroute`, `Ping`, `UdpCksum` | a process and its alarm; the three programs | |
| `Heartbeat` | both processes of the heartbeat | `AlrmLoad` and `AlrmTest` are the two halves of `++nprobes` with what follows, `SigUrg` the other handler, `Second` the clocks and the way of the bytes |
| `UdpClients` | three `dg_cli()`, `udpserv01`, the network | a datagram is the number of its line |
| `ConnectCalls` | connect_nonb, connect_timeo, the loop of daytimetcpcli1 | `Handshake` is the kernel; the caller of connect_timeo may have an alarm of its own |
| `MyOpen` | mycat and my_open in the parent, openfile in the child | one action per call, each with its failure |
| `GetIfiInfo` | the loop around SIOCGIFCONF, the pass over the entries | offsets and lengths are counted in words of 4 bytes. `layout` is what the kernel writes (addresses of their own length, or an array of struct ifreq of 32 or 40 bytes), `build` how lines 45 to 60 are compiled. `Entry` is the pass where `ptr` is at an entry, `Astray` where it is not |
| `ThreadReadline` | both readline() | threads with streams of their own |
| `SmallPrograms` | composes these nine, one per behaviour (`program`) | |
| `TracerouteProofs`, `HeartbeatProofs`; `SmallProofs` | the proofs about these two; about the other seven and the composition | section 5 |
| `EchoSessions`; `ForkServers`, `ThreadServers` | clients, connections, `str_echo`; the main programs | `EchoWrite` is `written`: it writes what there is room for, and waits where there is none until the client reads (`ReadLine`) |
| `EchoServers` | composes the six servers | `Cells` bounds the addresses malloc may return: two clients, a failed accept and the cell main waits with |
| `EchoServersProofs` | the proofs about them | section 5 |
| `MCSelectServer`, `MCEchoServers`, `MCSmallPrograms` | symmetry; the deployments that are checked; the arguments, lists and streams that are tried | |

A definition `Mut...` stands before the definition it is a faulty version of: a
dropped guard, a missing reset, a swapped order. With it in place of the
original the property it belongs to fails; no property is kept that no such
fault can break.

Assumptions about what is not in the repository:

* `signal()` does not restart calls that SIGALRM interrupts (the programs rely
  on EINTR). For SIGCHLD both restart and EINTR are allowed.
* A signal that is pending is delivered once, however often it was raised, and
  blocks itself while its handler runs.
* TCP delivers in order. A RST discards what the reset side sent and raises one
  error; after it, or after a FIN followed by a RST, a write raises SIGPIPE.
  `SelectServer` has a Linux kernel, which keeps a reset connection in the
  backlog; `EchoServers` allows both that and its removal.
* UDP and ICMP packets are lost, duplicated (with a bound) and reordered.
* `err_sys` of `ioctl/unp.h` is a macro that prints and returns; `err_quit` exits.
* An urgent byte of the heartbeat is neither lost nor overtaken and takes `Delay`
  seconds at most (TCP); handlers take no time beside a second.
* A host's interfaces are listed device by device, as the kernels do.
* A handshake may succeed, be refused, or be given up by the kernel, the last only
  later than any limit a caller has set.

## 3 Runs

| run | question | bounds, and why they are enough |
|---|---|---|
| `dgecho` | do ring, counters and FIFO order survive every interleaving; is every datagram answered | ring of 3 with 6 datagrams: the indices wrap twice, the ring fills and overflows; a receive buffer of 4 holds more than the ring; one failed recvfrom |
| `dgecho_mask` | is SIGIO open while sending, as line 62 says | finding: line 63 blocks |
| `select` | do the tables agree through all reuse | three clients, descriptors for two (so accept fails), 6 slots, two units each, a socket buffer of one: write blocks |
| `select_live` | is a client below the last slot served | two clients, one unit |
| `select_last` | is every client checked, as line 70 says | finding: the last one is not |
| `bcast` | do rounds end, and end by their own alarm; what is lost | three rounds, so that what one leaves behind meets the next and the one after; four replies |
| `bcast_lost` | does the alarm end the round, as line 27 says | finding: not outside recvfrom |
| `clients` | is anything lost, reordered, cut off or stuck | four units typed, or a file of up to seven for kqueue, through buffers of two: buffers wrap, fill, and are drained in part. The connection holds 1, 2 or 4 units towards the client. With 1 the copying loops of select and kqueue deadlock; with 2 the select loop does not; with 4 kqueue is excused from nothing and does not. `TooSmall` is exact: without it as an exception kqueue deadlocks with room for 2 and for 3 (a file of six), and not for 4 with files up to nine |
| `clients_normal` | is line 101 "normal termination" | finding: data in `fr[]` are lost |
| `small` | the nine small programs: are results those of what was asked, is nothing left behind, do they end | see the next table |
| `trace_v6` | does -1 mean port unreachable, as recv_v6's comment says | finding: the break is misplaced |
| `servers` | six servers: is a connection served once, do slots come back, does every session end | two clients; one sends one line, the other two with room for one between them, so that its worker blocks in `write()` if it does not read (one line in `udpservselect01` and `threads/tcpserv02.c`, which have the most states); a process or thread limit of 1 (fork and pthread_create fail, zombies fill it) or 2 (children end together); one failing accept; one datagram; four cells for malloc |

The bounds of `small`, program by program:

| program | bounds |
|---|---|
| traceroute | two rows of two probes, destination at hop 1 or 2, one stray packet |
| ping | a clock of five ticks with two to the second, so that tv_sub borrows and the alarm rings twice or more |
| udpcksum | words of base 4 and all queries of three words, so that both folds carry and the sum 0 occurs; two replies |
| heartbeat | a delay of one second; limits that are put right, that leave no room for the delay and that do, in all combinations of the two sides |
| UDP clients | three lines, two mishaps: an answer late by one line and one late by two, a mishap after a mishap |
| connect | up to two addresses; the caller's own alarm or none |
| my_open | none: every state is visited |
| get_ifi_info | three layouts; up to six entries on two devices, of three families where the layout has them; with a struct ifreq of 40 bytes six entries, so that `ptr` meets two of them and walks out of step between; a first buffer of two struct ifreq that grows by two, so that it is cut, refused, filled exactly and has room to spare; the list changes once, or the ioctl fails once |
| readline | two threads, five streams (empty, without a last newline, an empty line, longer than the buffer), a buffer and a line of three |

Properties that need a word:

* `NoStaleReadiness` is an action property: accept never reuses a descriptor
  that is in the set the same round still scans.
* `ServedBelowMaxi`, `Terminates`, `EveryLineEchoed`, `RoundsEndUnlessLost`,
  `EndsUnlessAlarmLost`, `EverySessionEnds` and `DatagramsAnswered` have exceptions. Each was
  put there after a counterexample that is a behaviour of the code; what an exception names
  is a shortcoming the property does not catch, within the model and its bounds. `Terminates` and
  `EveryLineEchoed` except that `pthread_create` fails in strclithread (line 16 does not look):
  no thread reads the keyboard then, and the client waits for the server. `LostOnlyInWindow` turns such exceptions round: the alarm is lost in the
  window of its variant and nowhere else, and the longjmp variant crashes only if it rings
  before the first sigsetjmp.
* `EverySessionEnds`: the session of a client that has sent its end of file ends, whether or not
  the others read. It does not if that client itself never reads again what fills the connection
  (its worker sleeps in `write()`, written.c:15, and keeps its slot: `Blocked`), nor if
  `pthread_create` failed for it: main neither notices nor closes the descriptor (`refused`).
* `Isolated`: a client that did not reset its connection has every line back or on its way when
  the connection ends, whatever the others do, except by a failed fork, and with threads by the SIGPIPE that
  another client's reset raises.
* `SilenceMeasured` and `LivePeerKept` have one exception, `raced`: a byte came
  between the load and the store of `++nprobes`, and its reset was overwritten.
  `RoomFor` is what the limits must leave for the way of a byte; with
  less, a live peer may be given up.
* `OwnAnswer` says what a client without sequence numbers can promise: after a
  timeout the late answer passes for the next line's, and so do a duplicate, a
  stranger's datagram (on an unconnected socket) and, after an error, the line that
  was shown before.
* `ConnectTells`: 0 may be returned for a connection that is still being made if
  select was interrupted (connect_nonb:28). -1 leaves the socket open and O_NONBLOCK set
  in two cases (`LeftOpen`): an immediate error (connect_nonb:16), and a `getsockopt` that itself
  fails with the pending error (line 39, "solaris pending error"; `solaris`). connect_timeo waits longer than its
  limit only if the alarm rang before connect() slept.
* `DescriptorOrError`: after a fork that failed, status is whatever it was, and
  my_open may return a descriptor that nobody opened (`fd = "unset"`). If exec fails
  the user is told twice.
* `ListIsRight`: get_ifi_info moves `ptr` by 16 bytes and the length it takes the address to have
  (lines 45 to 62). Where these are the lengths of the entries (`InStep`) the list is complete and exact. So it
  is with `sa_len`, with IPV6 defined and no link-level entries, and in an array of 32-byte struct ifreq. On
  64-bit Linux a struct ifreq has 40 bytes: `ptr` comes to every fourth entry, and reads other
  bytes between. The list has the interfaces of every fourth entry (`Reached`) and perhaps one that is none
  (`Phantom`), so line 62, "for next one in buffer", does not hold there.
  With IPv6 entries and neither `sa_len` nor IPV6 (unp.h:6 has config.h commented out) `ptr` is out of step too,
  and nothing is claimed.
* `EndsUnlessAlarmLost` bounds the ioctls that fail with another error than EINVAL by `MaxChanges`: get_ifi_info
  prints each and tries again with a larger buffer, so one that fails for ever keeps it in its loop.
* In dgcliconnect and udpcli01 a failed read is followed by `recvline[-1] = 0`, outside the array. It is modelled as
  having no effect: what it overwrites is no variable the properties speak of.
* `LinesIntact`: a line that does not fit returns one more than it holds (readline.c:73).

CHECK_DEADLOCK is off where the program itself may stop: an exit, a kill, or
clients that have nothing more to send.

### Fairness

Weak fairness for the steps of each process or thread (the scheduler runs it),
for the delivery of a signal that is pending and not blocked, for the alarm
clock, and where a comment says so for a reader that drains (a client that
reads its echo, a terminal). Nothing is fair that the programs cannot demand: no
user types, no packet arrives, no call fails or ceases to fail, no peer resets
by fairness. The clients of `EchoSessions` need not read either, unlike those of `SelectServer`, where
the one process would wait for each of them. In `SelectServer` the server as a whole is one process, so one WF
for all its actions is what the scheduler gives; the same holds for the clients but
for the threads, which have one each. In `SmallPrograms` each program has one WF
(`SmallFairness`): for its steps, its alarm clock and the other process or the
handshake it waits for, which the machine serves as long as anything can run. Ping,
which never ends, and what is in `Chance` (packets, deaths, signals, changes) are not fair.

## 4 Findings

Five places where a comment says one thing and the code does another; each has a run
that shows it (`PROJECT.json`, "findings"): the mask in dgecho01:63, the scan in
tcpservselect01:68, the lost alarm of dgcclibcast1, the lost tail in strclinonb:100
and the misplaced break in recv_v6:51.

## 5 Proofs

`DgEchoProofs` proves about `DgEcho`, for every QSIZE > 0, every size of the
receive buffer and every number of datagrams and errors:

* `TypeCorrect` (`TypeOK`), `RingSafe` (`RingInv`), `HistogramTop`
  (`LastBucketUnused`), `WakeupSafe` (`NoLostWakeup`) and `Refinement`:
  `Spec => Fifo!Spec`.

`RingInv` is not inductive. It speaks of the ring while main loop and handler
each change their own index and both change `nqueue`; a handler between
`nqueue--` and the load before it would break it. The inductive invariant is

    IInv == TypeOK /\ HandlerWindow /\ SomethingToSend /\ RingInv /\ LastBucketUnused

`HandlerWindow` says where the handler can run: during start-up and inside
sigsuspend, because line 63 never opens the mask again. This is why the
decrement is safe, and what makes the proof go through; `SomethingToSend` says
that the main loop leaves its wait only with an entry to answer.
`LastBucketUnused` needs `nread <= nqueue` in the handler, which holds as the
queue is empty or start-up when it enters. The step of the ring rests on the lemmas
about `Slot` (QSIZE consecutive slots are distinct) and `AppendOld`. `WakeupSafe`
adds `Numbering` (arrivals before FIOASYNC are the early ones), and the refinement
maps a step of the handler to the receipt, `Send` to the answer and all others
to stuttering.

The assumptions are QSizeAssumption and BoundsAssumption of `DgEcho`; the
model checker evaluates them in `dgecho`. The comment in `HandlerWindow` marks what would change if
line 63 were repaired: the ring would have to be proved with the handler
between any two steps outside lines 69 to 73.

`SelectServerProofs` proves about `SelectServer`, for every finite set of
clients, every number of descriptors and of slots (no fewer slots than
descriptors), every number of units and every socket buffer: `TypeCorrect` (`TypeOK`),
`TablesStayEqual` (`TablesAgree`), `NreadyCounts` (`NreadyExact`),
`NeverSleeps` (`NeverSleepsInRead`), `SlotsOutlast` (`AlwaysASlot`) and the
action property `NoStale` (`NoStaleReadiness`). The inductive invariant is

    IInv == TypeOK /\ TablesAgree /\ Owners /\ RoundInv /\ NreadyExact

`Owners` (a client is in one place: the backlog or one descriptor) is what
keeps a read for one client from taking the readiness of another;
`RoundInv` says that what select reported and the scan has not handled is
still readable, which holds because only the server consumes data. The
count rests on the bijection between slots and descriptors
(`CountSlots`), on `HitFacts` (passing the next hit takes exactly one element from
what is left) and on `SlotsLast`, a pigeonhole argument. `NewDescriptor` gives both the tables after accept
and `NoStale`. The assumptions are ClientsAssumption, LimitsAssumption and BufAssumption.

`EchoClientsProofs` proves about `EchoClients`, for every size of the buffers (MAXLINE), every room in the
connection and on the terminal, any number of units typed and any size of kqueue's file, all five invariants
of the run: `NothingIsLost` (`NothingLost`), `FinIsLast` (`FinAfterAll`),
`ReadsHaveRoom` (`RoomToRead`), `NormalReturnsEchoed` (`NormalIsEchoed`) and
`StaleLineOnlyOnce` (`StaleOnlyAfterReset`). The inductive invariant is

    IInv == TypeInv /\ PeerInv /\ NothingLost /\ FinAfterAll /\ LocalInv

`NothingLost` compares the way round, from the screen back to the keyboard, with
what was typed, and every step moves a piece from one of its stages to the next.
The proof splits it into `Left` (screen, client, downstream), the server, and
`Right` (upstream, client, keyboard), and `Moves` says that a step of a client keeps `Left` and
`Right` each as they are (strcliselect02, which the invariant excepts, only `Right`), so that
each of its steps needs no more than its own stage. `Cat` is concatenation of which only the laws are
used. `LocalInv` has one part for each client: the order of the four pointers of
`strclinonb`; that at most one line is under way in `str_cli` (`StopInv`), so that
after a reset one wrong line is printed at most (`StaleInv`); for kqueue that kev.data is
still right when the read it is for is made. A step of the server, the network
or the user is treated once: `Relied` states what the invariants of the clients rest on (keyboard,
screen and buffers lose nothing, an end stays an end). The assumptions are PeerAssumption
and VariantsAssumption, which names the six clients.

`EchoServersProofs` proves about `EchoServers`, for any numbers of clients, of processes
or threads, of allocated cells, of lines from each client to each server, and every room in the connection: `OneServerEach`
(`OneServer`), `SessionsIsolated` (`Isolated`) and `SlotsReturn` (`SlotsComeBack`), from

    IInv == TypeInv /\ QueueInv /\ WriterInv /\ ProcessInv /\ SessionInv /\ SlotsComeBack

`OneServer` is not inductive: a thread that is created serves nobody until it has read its
argument. `Claims` counts it from its birth, through the cell or the descriptor it was given, and
`CellInv` says that this cell is neither main's nor another new thread's (tcpserv02); in
tcpserv01 of `threads/` the descriptor itself is the argument. `LinesInv` adds up a session: a line is in the
queue of its server, in the hands of its worker (whose write may be in part), or written back. `DoneInv` gives for each closed
session its end or its excuse. That a zombie is always seen is an
argument about the handler, whose loop ends only when there is none. The
assumptions are ClientsAssumption (the -1 of a failed accept is no client), BoundsAssumption and
DeploymentsAssumption.

`BcastProofs` proves about `BcastClients`, for any number of rounds and replies: `EveryReplyShown`
(`RepliesShown`), `RoundsImplemented` (the refinement of `BcastRounds`, `ImplementsRounds`) and
`LostOnlyThere` (the action property `LostOnlyInWindow`). `Clock` is the common part of the inductive invariant: the
alarm of a round is in one place, not set, in the clock, or pending, and no round begins with one left
over. Each client adds where a signal can have got to: `PselectInv` that SIGALRM is
blocked but inside pselect.c, `LongjmpInv` that at most one reply is lost in a round and
that before the first sigsetjmp the client is in its first round, `PipeInv` that the byte in the pipe
is this round's alarm. `VariantAssumption` names the four clients.

`TracerouteProofs` proves about `Traceroute`, for every max_ttl, nprobes, distance of
the destination, capacity of the socket and number of packets the network
invents: `ResultsBelong` (`ResultIsOurs`) and `DestinationStops`
(`StopsAtDestination`), from

    TraceInv == TraceType /\ Counting /\ NetworkInv /\ ReportInv /\ DoneInv

`Counting` is the heart: seq is `(ttl - 1) * nprobes + probe`, plus one while a
probe is out, so a sequence number names its row and column.
`NetworkInv` says that no packet quotes a probe yet to be sent, and that a port unreachable
for the current one has come from the destination; lost, late and
duplicated packets keep that. `ReportInv` states what recv_v4 and recv_v6 (with its
misplaced break as an exception) may return. The only assumption is TraceAssumption.

`HeartbeatProofs` proves about `Heartbeat`, for all arguments (also the absurd ones,
which the code puts right) and every delay: `SilenceAlwaysMeasured`
(`SilenceMeasured`) and `LivePeerIsKept` (`LivePeerKept`). `CountInv` says that with n
alarms counted the silence has lasted n periods and the part of the current one,
but for what came before the first; it must hold while `++nprobes` is half done
too, with the value that was loaded. For the peer, `Age` is the time since the first alarm
that counted, and `ClientWaits` and `ServerWaits` say where the byte is that
will reset the count: on its way, there or back, the sum of age and remaining way below the
limit. `RoomFor` turns that sum into the claim. HeartAssumption is the only assumption; the
products of two variables are kept in the lemma `Products`.

`SmallProofs` proves the promises of the other seven small programs, one section each:

* Ping: `RttAlwaysExact` (`RttIsExact`), for every length of a second and any number of ticks
  and packets. It rests on `Subtracts` (the borrow of tv_sub) and on `Came`, what a packet
  in the socket says about the log of requests.
* udpcksum: `AlwaysThreeTimeouts` (`ThreeTimeouts`), from a table of nsent, timeout and the
  timeouts passed for each step, and from no alarm being set where a jump would spoil it.
* in_cksum: `AlwaysVerifies` (`Verifies`), for all queries, every size of a word and every
  length below it. `Sum` is a recursive function on the words, so this needs induction over data.
  The library's induction theorems take an operator, which the provers cannot instantiate;
  `Induction` states it for sets instead (a set of numbers with 0 and the successor of each
  member holds them all), by the least number outside, which WellFoundedInduction provides. Then
  `SumIs` and `SumBounded` give the equations and the bound of the 32-bit sum, `Carried`
  says what the two folds of the carries leave modulo Base - 1, and `OneWay` that a word is determined
  by its residue but for the two zeros. These are the facts behind one's complement sums.
* UDP clients: `OwnAnswersOnly` (`OwnAnswer`), for any number of lines and mishaps in every
  order. `OnePlace`: without a duplicate or an error each line is in one place only, on its way, in the
  socket buffer once, in hand, or shown. `InTurn`: without strangers and timeouts there is
  at most the line just sent.
* connect: `AlwaysTells` (`ConnectTells`), for every number of addresses; one conjunct for each
  of the three calls, of which `TimeoInv` (while connect() sleeps on a handshake its alarm
  is set, or rang early) is the one that needs care; `NonbInv` tells which of its returns leave the socket open.
* my_open: `NeverNeither` (`DescriptorOrError`); there are no constants, and what
  the proof adds to the run is the argument. A message is in the socket pair just if sendmsg has worked
  (`ChildInv`); the parent looks at nothing before the child has ended, so status and
  message agree (`ParentInv`).
* get_ifi_info: `ListAlwaysRight` (`ListIsRight`), for every set of lists in each layout, every first size
  and increment and every number of changes and failures. `BufferInv`: the buffer always has room for an entry
  more than the last length, so the same length again means that nothing was cut off, whatever the kernel cut before.
  `PassInv`: the list is right up to `ptr` (`Passed`), lastname and sdlname are the devices of the last entries of
  their kind met, and as the list is grouped by device they decide rightly about the next. With a struct ifreq of
  40 bytes `ptr` is always a multiple of a step of 32, and so at an entry exactly at every fourth.
* readline: `LinesAlwaysIntact` (`LinesIntact`), for any threads and streams, every MAXLINE and
  maxlen. A stream is at all times what was returned, the line, the thread's buffer and the rest, in
  this order (`Whole`); a line under construction has room and no newline (`HasRoom`).

Each of these theorems is about the component's own specification (`PingSpec`, `UdpSpec`, ...).
The last section of `SmallProofs` proves that the programs keep their promises in the
composition that the run checks too, where they share `pc` and the alarm clock:
`EveryPromiseKept`, `SmallSpec => []EveryPromise`, the conjunction of its twelve invariants. `StepOf` projects
a step of `SmallNext` to the program that runs, `LeftAlone` says what it does not touch, and
`StepsApart` that the steps the properties are about have different names. Two
action properties, parts of `EndsUnlessAlarmLost`, are proved on top of it: `AlarmsLostAtEntry`
(traceroute loses an alarm between the test of gotalarm and recvfrom, nowhere else) and
`RepliesDroppedBeforeCleared` (udpcksum's jump drops a captured reply only before canjump is cleared; it
needs `InHand`, where a packet in hand can be). The assumptions are those of the nine modules; that of the
heartbeat says also that there are arguments to run it with.

So every invariant and every action property that a run checks is a theorem, and
both refinements are. Only model-checked: the liveness properties (`EventuallyEchoed`,
`ServedBelowMaxi`, `RoundsEndUnlessLost`, `Terminates`, `EveryLineEchoed`, `EverySessionEnds`,
`DatagramsAnswered` and the rest of `EndsUnlessAlarmLost`), as fairness and ENABLED are out of the
prover's reach, and the findings, which are counterexamples.

## 6 Not modelled

Formatting and printing, address conversion, option parsing, layout of packets,
name lookup, opening of devices. Errors of read and write on terminals. File by file:

* `tcpcliserv/tcpcliservpoll01.c` does not compile, and no reading of it is a server:
  line 36 tests `client[0].fd & POLLRDNORM`, and the scan stands inside the search for a slot.
* `udpcliserv/dgcliloop1.c`, `dgecholoop1.c` flood and count: one int, and any count
  is right.
* `lib/readable_timeo.c` is one select whose result it returns. `lib/readn.c` is called
  by nobody and is the counterpart of `written`, which is modelled. `lib/sock_ntop.c`,
  `names/hostent.c`, `ioctl/prifinfo.c` and `traceroute/icmpcode_v6.c` format.
* `ping/init_v6.c` sets two options; `udpcksum/main.c`, `cleanup.c` and
  `senddnsquery-libnet.c` read options, open and close devices, and build the same query
  through a library.
* `oob/tcpsend*.c` and `tcprecv*.c`, `intro/`, `mcast/`, `mysdr/`, `sockopt/checkopts.c`,
  `unixdomain/unixbind.c`, `unixstrcli01.c`, `lib/daemon_init.c` and `threads/web01.c`
  are straight-line code (the last the start of a declaration), in which no state
  outlives one call or iteration.
* In get_ifi_info the ioctls that fill in flags, MTU and addresses of an entry, and
  in daytimetcpcli1 reading and printing.

## 7 What is left

All parts that keep state from one step to another are modelled, and every safety
property is proved. What could still be done, in order of worth:

1. Proofs of what liveness rests on and the prover can reach: that nobody waits on
   everybody, with the guards written out instead of ENABLED (in `EchoClients` with the connection
   longer than `TooSmall`, in `EchoServers`), and a measure that the steps of a session decrease.
2. The composition of `EchoServers` with the modules of the clients, both ends being
   real programs; so far the clients meet `EchoPeer`, which has `str_echo` only.

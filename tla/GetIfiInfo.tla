----------------------------- MODULE GetIfiInfo -----------------------------
(***************************************************************************)
(* ioctl/get_ifi_info.c: SIOCGIFCONF is asked with a growing buffer until  *)
(* it returns the same length twice, and a pointer that walks through the  *)
(* buffer makes the list of interfaces.  Lengths and offsets are counted   *)
(* in words of 4 bytes.                                                    *)
(***************************************************************************)
EXTENDS AlarmProcess, Integers, Sequences

CONSTANTS Lists,            \* for each layout, the lists the kernel may have
          Devs,             \* devices; a name counts up to its colon
          Initial, Increment,         \* of the buffer: 100 and 10 struct ifreq
          MaxChanges        \* bound: changes of the kernel's list meanwhile,
                            \* and failures of the ioctl

(* What the kernel puts into the buffer.  "packed": each name is followed  *)
(* by its address, of the length of its family (BSD, and what the code     *)
(* expects).  Else the addresses are all IPv4, in an array of struct       *)
(* ifreq: of 32 bytes, or of 40 where a pointer takes 8 (64-bit Linux).    *)
Layouts == {"packed", "ifreq32", "ifreq40"}
Ifreq == [packed |-> 8, ifreq32 |-> 8, ifreq40 |-> 10]
SockaddrLen == [inet |-> 4, inet6 |-> 7, link |-> 5]
IfFamilies == DOMAIN SockaddrLen
SizeOf(y, f) == IF y = "packed" THEN 4 + SockaddrLen[f] ELSE Ifreq[y]

Entries == [dev : Devs, family : IfFamilies, at : Nat, size : 8 .. 11]

(* The entries follow each other, those of a device together.              *)
Grouped(s) == \A i, j, k \in DOMAIN s :
                i < j /\ j < k /\ s[i].dev = s[k].dev => s[j].dev = s[i].dev
LaidOut(y, s) ==
  /\ \A k \in DOMAIN s :
       /\ s[k].size = SizeOf(y, s[k].family)
       /\ s[k].at = IF k = 1 THEN 0 ELSE s[k - 1].at + s[k - 1].size
       /\ y # "packed" => s[k].family = "inet" /\ s[k].at = (k - 1) * Ifreq[y]
  /\ \A i, k \in DOMAIN s : i < k => s[i].at + s[i].size <= s[k].at

ASSUME ListsAssumption == /\ DOMAIN Lists = Layouts
                          /\ \A y \in Layouts : \A s \in Lists[y] :
                               s \in Seq(Entries) /\ Grouped(s) /\ LaidOut(y, s)
                          /\ {"none", "phantom"} \cap Devs = {}
ASSUME BufferAssumption == Initial \in Nat \ {0, 1} /\ Increment \in Nat \ {0, 1}
ASSUME ChangesAssumption == MaxChanges \in Nat

VARIABLES af, doaliases,        \* the arguments
          build,                    \* lines 45 to 60: "sa_len", "IPV6" or neither
          dl,                       \* HAVE_SOCKADDR_DL_STRUCT
          layout,
          strict,                   \* a short buffer is EINVAL, else truncates
          up, ifs, changes,         \* the kernel's interfaces
          len, lastlen, buf,
          seen,                     \* history: ifs at the last ioctl
          ptr,                      \* offset into buf
          lastname, sdlname,
          listed                    \* the list, by the entries it is made from

ifKernel == <<layout, strict, up, ifs>>
ifArgs == <<af, doaliases, build, dl>>
entryVars == <<ptr, lastname, sdlname, listed>>
ifVars == <<ifArgs, ifKernel, changes, len, lastlen, buf, seen, entryVars>>

(* An array of struct ifreq has neither sa_len nor link-level entries.     *)
IfInit ==
  /\ af \in {"inet", "inet6"} /\ doaliases \in BOOLEAN /\ strict \in BOOLEAN
  /\ layout \in Layouts /\ build \in {"sa_len", "IPV6", "neither"} /\ dl \in BOOLEAN
  /\ layout # "packed" => build # "sa_len" /\ ~dl
  /\ up \in SUBSET Devs /\ ifs \in Lists[layout] /\ changes = 0
  /\ len = Initial * Ifreq[layout] /\ lastlen = 0 /\ buf = <<>> /\ seen = <<>>
  /\ ptr = 0 /\ lastname = "none" /\ sdlname = "none" /\ listed = {}

-----------------------------------------------------------------------------
(* Interfaces come and go between two calls.                               *)
IfChange ==
  /\ pc = "SIOCGIFCONF" /\ changes < MaxChanges
  /\ changes' = changes + 1
  /\ ifs' \in Lists[layout]
  /\ UNCHANGED <<pc, timer, ifArgs, layout, strict, up, len, lastlen, buf, seen, entryVars>>

(* The length of a buffer with the entries s.                              *)
LengthOf(s) == IF s = <<>> THEN 0 ELSE s[Len(s)].at + s[Len(s)].size

(* Lines 22 to 35.  EINVAL means that the buffer is too short; any other   *)
(* error is printed, and the loop goes on as well.                         *)
IoctlFails ==
  /\ pc = "SIOCGIFCONF"
  /\ \/ strict /\ len < LengthOf(ifs) /\ UNCHANGED changes
     \/ changes < MaxChanges /\ changes' = changes + 1
  /\ len' = len + Increment * Ifreq[layout]
  /\ UNCHANGED <<pc, timer, ifArgs, ifKernel, lastlen, buf, seen, entryVars>>

(* The first entries that fit are in the buffer.                           *)
Fits(n) == LengthOf(SubSeq(ifs, 1, n)) <= len
Fills == \E n \in 0 .. Len(ifs) : /\ Fits(n) /\ (n < Len(ifs) => ~Fits(n + 1))
                                  /\ buf' = SubSeq(ifs, 1, n)

MutSiocgifconf ==                       \* the buffer only grows after an error
  /\ pc = "SIOCGIFCONF" /\ (strict => LengthOf(ifs) <= len)
  /\ Fills /\ seen' = ifs
  /\ lastlen' = LengthOf(buf')
  /\ pc' = IF LengthOf(buf') = lastlen THEN "entries" ELSE pc
  /\ UNCHANGED <<timer, ifArgs, ifKernel, changes, len, entryVars>>
Siocgifconf ==
  /\ pc = "SIOCGIFCONF" /\ (strict => LengthOf(ifs) <= len)
  /\ Fills /\ seen' = ifs
  /\ IF LengthOf(buf') = lastlen
       THEN pc' = "entries" /\ UNCHANGED <<len, lastlen>>
       ELSE /\ lastlen' = LengthOf(buf') /\ len' = len + Increment * Ifreq[layout]
            /\ UNCHANGED pc
  /\ UNCHANGED <<timer, ifArgs, ifKernel, changes, entryVars>>

-----------------------------------------------------------------------------
(* Lines 45 to 62: the name, and an address of the length sa_len, or of    *)
(* what the family is known to have.                                       *)
StepOver(f) ==
  4 + (IF build = "sa_len" \/ (build = "IPV6" /\ f = "inet6") THEN SockaddrLen[f] ELSE 4)

(* Lines 42 to 165: the name ends at its colon, an entry whose name is the *)
(* last one is an alias, and a link-level address is good for the entries  *)
(* of its own device.  A device that is down still counts as the last.     *)
Entry ==
  /\ pc = "entries" /\ ptr < LengthOf(buf)
  /\ \E k \in DOMAIN buf :
       LET ifr   == buf[k]
           alias == lastname = ifr.dev
           take  == ifr.family = af /\ (alias => doaliases)
       IN  /\ ifr.at = ptr
           /\ ptr' = ptr + StepOver(ifr.family)
           /\ sdlname' = IF dl /\ ifr.family = "link" THEN ifr.dev ELSE sdlname
           /\ lastname' = IF take THEN ifr.dev ELSE lastname
           /\ listed' = IF take /\ ifr.dev \in up
                          THEN listed \cup {[at |-> ptr, alias |-> alias,
                                             index |-> sdlname = ifr.dev]}
                          ELSE listed
  /\ UNCHANGED <<pc, timer, ifArgs, ifKernel, changes, len, lastlen, buf, seen>>

(* Where ptr is not at an entry, the family it finds is any, as addresses  *)
(* have it, but in an array of struct ifreq: there are bytes of a name and *)
(* zeros there, which are no family, until it looks past the end, at what  *)
(* malloc has left.  An interface made of such bytes is a phantom.         *)
Phantom == [at |-> -1, alias |-> FALSE, index |-> FALSE]
Astray ==
  /\ pc = "entries" /\ ptr < LengthOf(buf)
  /\ \A k \in DOMAIN buf : buf[k].at # ptr
  /\ \E f \in IfFamilies \cup {"other"} :
       /\ layout # "packed" /\ ptr + 4 < LengthOf(buf) => f = "other"
       /\ ptr' = ptr + StepOver(f)
       /\ sdlname' = IF dl /\ f = "link" THEN "phantom" ELSE sdlname
       /\ lastname' \in {lastname} \cup (IF f = af THEN {"phantom"} ELSE {})
       /\ listed' \in {listed} \cup (IF f = af THEN {listed \cup {Phantom}} ELSE {})
  /\ UNCHANGED <<pc, timer, ifArgs, ifKernel, changes, len, lastlen, buf, seen>>

Listed ==
  /\ pc = "entries" /\ ptr >= LengthOf(buf)
  /\ pc' = "listed"
  /\ UNCHANGED <<timer, ifVars>>

GetIfi == IoctlFails \/ Siocgifconf \/ Entry \/ Astray \/ Listed
IfNext == GetIfi \/ IfChange
IfSpec == IfInit /\ pc = "SIOCGIFCONF" /\ timer = FALSE /\ [][IfNext]_<<pc, timer, ifVars>>
-----------------------------------------------------------------------------
(* The steps of ptr are those of the entries: so with sa_len, with IPV6    *)
(* where only IPv6 addresses are longer than others, and in an array of    *)
(* 32 bytes each.  In one of 40 ptr comes to every fourth entry.           *)
InStep(s) == \A k \in DOMAIN s : StepOver(s[k].family) = s[k].size
Reached(s) == {k \in DOMAIN s : layout = "ifreq40" => k % 4 = 1}

(* The entries that belong on the list of s, with their marks: of the      *)
(* family asked for, of a device that is up, and the first of its device   *)
(* unless aliases are wanted; with an index if a link-level entry of the   *)
(* device came before.                                                     *)
Before(s, k, f) == \E j \in Reached(s) : j < k /\ s[j].dev = s[k].dev /\ s[j].family = f
Mark(s, k) == [at |-> s[k].at, alias |-> Before(s, k, af), index |-> dl /\ Before(s, k, "link")]
Belongs(s, k) == s[k].family = af /\ s[k].dev \in up /\ (Before(s, k, af) => doaliases)
Right(s) == {Mark(s, k) : k \in {j \in Reached(s) : Belongs(s, j)}}

(* Where ptr keeps in step, get_ifi_info returns every interface there was *)
(* at its last ioctl, once, and with its own address: the same length      *)
(* twice means that nothing was cut off, although the kernel may cut and   *)
(* the list may change.  With a struct ifreq of 40 bytes it returns those  *)
(* of every fourth entry, and perhaps one the kernel has never heard of.   *)
ListIsRight ==
  pc = "listed" => /\ InStep(seen) => listed = Right(seen)
                   /\ layout = "ifreq40" => listed \ {Phantom} = Right(seen)
=============================================================================

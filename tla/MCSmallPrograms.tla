--------------------------- MODULE MCSmallPrograms ---------------------------
(* The arguments, lists and streams that are tried.                        *)
EXTENDS SmallPrograms

MCHeartArgs == {[nsec |-> 0, max |-> 2], [nsec |-> 1, max |-> 1], [nsec |-> 2, max |-> 1]}

(* A device has some of: its link-level entry, an address, an alias; in an *)
(* array of struct ifreq, addresses alone.                                 *)
MCFamilies(y) ==
  [eth0 |-> IF y = "packed" THEN {<<>>, <<"inet">>, <<"link", "inet", "inet">>, <<"inet6", "inet">>}
                            ELSE {[i \in 1 .. m |-> "inet"] : m \in {0, 1, 4}},
   eth1 |-> IF y = "packed" THEN {<<>>, <<"inet6", "inet">>}
                            ELSE {[i \in 1 .. m |-> "inet"] : m \in {0, 2}}]

RECURSIVE MCAt(_, _, _)
MCAt(y, families, k) == IF k = 1 THEN 0 ELSE MCAt(y, families, k - 1) + SizeOf(y, families[k - 1])
MCList(y, f, g) ==
  [k \in 1 .. Len(f \o g) |->
     [dev |-> IF k <= Len(f) THEN "eth0" ELSE "eth1", family |-> (f \o g)[k],
      at |-> MCAt(y, f \o g, k), size |-> SizeOf(y, (f \o g)[k])]]
MCLists ==
  [y \in Layouts |-> {MCList(y, f, g) : f \in MCFamilies(y).eth0, g \in MCFamilies(y).eth1}]

MCStreams == {<<>>, <<FALSE>>, <<TRUE, FALSE>>, <<FALSE, TRUE, TRUE>>,
              <<FALSE, FALSE, TRUE, FALSE>>}
=============================================================================

--------------------------- MODULE MCSelectServer ---------------------------
(* SelectServer for TLC: the clients of the safety run are interchangeable. *)
EXTENDS SelectServer, TLC

Symmetry == Permutations(Clients)
=============================================================================

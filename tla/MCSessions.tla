----------------------------- MODULE MCSessions -----------------------------
(* Small instances of Sessions for TLC. *)
EXTENDS Sessions, TLC

CallSymmetry == Permutations(Calls)
ClientSymmetry == Permutations(Clients)
Symmetry == CallSymmetry \cup ClientSymmetry \cup Permutations(Names)
=============================================================================

---------------------------- MODULE MCEventStream ----------------------------
(* Small instances of EventStream for TLC. *)
EXTENDS EventStream, TLC

Symmetry == Permutations(Streams) \cup Permutations(Senders)
=============================================================================

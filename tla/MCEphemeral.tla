----------------------------- MODULE MCEphemeral -----------------------------
(* The small instances of Ephemeral. *)
EXTENDS Ephemeral, TLC

Symmetry == Permutations(Handlers)
=============================================================================

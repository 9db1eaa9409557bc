---------------------------- MODULE MCGroupCache ----------------------------
(* The small instances of GroupCache. *)
EXTENDS GroupCache, TLC

Symmetry == Permutations(Handlers) \cup Permutations(Jids) \cup Permutations(Groups)
=============================================================================

------------------------------ MODULE MCGateway ------------------------------
(* Small instances of Gateway for TLC. *)
EXTENDS Gateway, TLC

Symmetry == Permutations(Calls) \cup Permutations(Clients) \cup
            Permutations(Events) \cup Permutations(Names)
=============================================================================

---------------------------- MODULE Subsequences ----------------------------
(* The part of a sequence at given places, as a loop that skips the others
   collects it.  SelectSeq, in a form proofs can expand.                    *)
EXTENDS Naturals, FiniteSets

\* The place that has n - 1 of these places before it.
Nth(places, n) == CHOOSE k \in places : Cardinality({i \in places : i <= k}) = n

Picked(s, places) == [n \in 1..Cardinality(places) |-> s[Nth(places, n)]]
=============================================================================

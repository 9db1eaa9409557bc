------------------------------ MODULE MCSending ------------------------------
(* A small instance of Sending for TLC: a status list with a hidden (LID)
   member, two contacts and the own account at its end; one call of any kind,
   and one that only competes with it for an id.                            *)
EXTENDS Sending, TLC

CONSTANTS u1, u2, own, lid, a, b

MCKinds == (a :> AllKinds @@ b :> {"reaction"})

MCAudience == <<u1, lid, u2, own>>
MCLists == {<<>>, <<u2, lid>>}
=============================================================================

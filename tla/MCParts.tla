------------------------------- MODULE MCParts -------------------------------
(***************************************************************************)
(* A small instance of Parts.                                              *)
(***************************************************************************)
EXTENDS Parts, TLC

\* The first message moves in time, the second between chats; the third is
\* saved as real or not.
SomeMessages ==
    [id : {1}, chat : {1}, time : 1..3, real : {TRUE}]
    \cup [id : {2}, chat : {1, 2}, time : {2}, real : {TRUE}]
    \cup [id : {3}, chat : {2}, time : {1, 3}, real : BOOLEAN]

SomeFilter == [jid |-> 2, gte |-> 1, lte |-> 2]

\* The last two contacts have the same number on two servers.
SomeUserParts == <<1, 2, 2>>

Symmetry == Permutations(Handlers \ FailingDb) \cup Permutations(LabelIds)
            \cup Permutations(Jids)
=============================================================================

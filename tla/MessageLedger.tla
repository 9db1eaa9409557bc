---------------------------- MODULE MessageLedger ----------------------------
(***************************************************************************)
(* What the message table is for: every message is there once, with a      *)
(* delivery status that receipts only ever raise, until it is deleted.     *)
(* Saving a message again (a redelivery, a history sync) starts it over.   *)
(* A receipt that holds an outdated row may do anything to its message.    *)
(***************************************************************************)
EXTENDS Integers

CONSTANTS Ids, Times, chatOf, timeOf

VARIABLES stored,   \* the ids in the table
          status,   \* their delivery status (meaningless for other ids)
          saving,   \* the messages on their way into the table
          stale     \* the messages a receipt holds an outdated row of

vars == <<stored, status, saving, stale>>

Statuses == 0..5

Init == /\ stored = {} /\ status = [m \in Ids |-> 0]
        /\ saving = {} /\ stale = {}

Save(m, s) == /\ m \in saving
              /\ stored' = stored \cup {m}
              /\ status' = [status EXCEPT ![m] = s]

\* A receipt raises the status of a message that is there.
Raise(m, s) == /\ m \in stored
               /\ s > status[m]
               /\ status' = [status EXCEPT ![m] = s]
               /\ UNCHANGED stored

\* A receipt writes back an outdated row, perhaps of a deleted message.
Overwrite(m, s) == /\ m \in stale
                   /\ stored' = stored \cup {m}
                   /\ status' = [status EXCEPT ![m] = s]

Delete(m) == /\ stored' = stored \ {m}
             /\ UNCHANGED status

\* The messages of a chat that are older than t.
Clear(c, t) == /\ stored' = {m \in stored : ~(chatOf[m] = c /\ timeOf[m] < t)}
               /\ UNCHANGED status

\* Messages and receipts come and go as they like.
Next == /\ saving' \in SUBSET Ids /\ stale' \in SUBSET Ids
        /\ \/ \E m \in Ids, s \in Statuses : Save(m, s) \/ Raise(m, s) \/ Overwrite(m, s)
           \/ \E m \in Ids : Delete(m)
           \/ \E m \in Ids, t \in Times : Clear(chatOf[m], t)
           \/ UNCHANGED <<stored, status>>

Spec == Init /\ [][Next]_vars
=============================================================================

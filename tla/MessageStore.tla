---------------------------- MODULE MessageStore ----------------------------
(***************************************************************************)
(* The message table of a session (storage/sqlstorage/message.go) and the  *)
(* event handlers that write it (gows/storage_event_handler.go).           *)
(*                                                                         *)
(* Every event is handled by a goroutine of its own, a history sync by one *)
(* per conversation; a receipt for several messages is here one handler    *)
(* per message. A SQL statement is atomic, a handler is not: a receipt     *)
(* reads the message and later writes back the whole row it read.          *)
(***************************************************************************)
EXTENDS Integers

CONSTANTS Ids,        \* message ids
          Chats, Times,
          chatOf, timeOf, fromMe,   \* of a message
          revokes,    \* the message a revoke notice is about, or Null
          Ignored,    \* the chats shouldIgnoreJID rejects
          Handlers,   \* the handler goroutines, each handles one event
          Attempts,   \* of GetMessage (6)
          FailingDb,  \* the handlers whose SQL statements may fail
          Null

ASSUME MessagesAssumption ==
    /\ Times \subseteq Int
    /\ chatOf \in [Ids -> Chats]
    /\ timeOf \in [Ids -> Int]
    /\ fromMe \in [Ids -> BOOLEAN]
    /\ revokes \in [Ids -> Ids \cup {Null}]
ASSUME ScopeAssumption ==
    /\ Ignored \subseteq Chats
    /\ Attempts \in Nat \ {0}
    /\ FailingDb \subseteq Handlers
    /\ Null \notin Ids

VARIABLES
    stored, status,   \* the table gows_messages: ids, and Status in the data
    pc, event,        \* of a handler: its next statement, its event
    copy,             \* the status in the row a receipt handler has read
    tries,            \* its failed attempts to read
    todo,             \* the messages a history handler has yet to save
    raced             \* history: the messages a stale row was written over

tableVars == <<stored, status, raced>>
vars == <<tableVars, pc, event, copy, tries, todo>>

Statuses == 0..5
StatusServerAck == 2
StatusDeliveryAck == 3
ReceiptStatuses == {StatusDeliveryAck, 4, 5}   \* delivered, read, played

Events ==
    [kind : {"message"}, id : Ids]
    \cup [kind : {"receipt"}, id : Ids, status : ReceiptStatuses]
    \cup [kind : {"history"}, chat : Chats]
    \cup [kind : {"deleteChat"}, chat : Chats, before : Times]

Of(c) == {m \in Ids : chatOf[m] = c}

Chat(e) == IF e.kind \in {"message", "receipt"} THEN chatOf[e.id] ELSE e.chat

Init ==
    /\ stored = {} /\ status = [m \in Ids |-> 0]
    /\ pc = [h \in Handlers |-> "new"]
    /\ event = [h \in Handlers |-> Null]
    /\ copy = [h \in Handlers |-> 0]
    /\ tries = [h \in Handlers |-> 0]
    /\ todo = [h \in Handlers |-> {}]
    /\ raced = {}

(* `go storageEventHandler.handleEvent(e)`, or `go saveHistoryForOneChat`; an
   event of an ignored chat ends here.                                     *)
handleEvent(h, e) ==
    /\ pc[h] = "new"
    /\ pc' = [pc EXCEPT ![h] = IF Chat(e) \in Ignored THEN "done" ELSE e.kind]
    /\ event' = [event EXCEPT ![h] = e]
    /\ todo' = [todo EXCEPT ![h] = IF e.kind = "history" THEN Of(e.chat) ELSE {}]
    /\ UNCHANGED <<tableVars, copy, tries>>

-----------------------------------------------------------------------------
UpsertOne(m, s) == /\ stored' = stored \cup {m}
                   /\ status' = [status EXCEPT ![m] = s]

\* A receipt handler is about to write back a row that has changed since.
IsStale(h) == /\ pc[h] = "write"
              /\ event[h].id \notin stored \/ status[event[h].id] # copy[h]

At(h, statement, next) == /\ pc[h] = statement
                          /\ pc' = [pc EXCEPT ![h] = next]
                          /\ UNCHANGED event

\* handleSaveMessage with the initial status; a failed upsert is only logged.
SaveMessage(h) ==
    LET m == event[h].id IN
    /\ At(h, "message", IF revokes[m] = Null THEN "done" ELSE "revoke")
    /\ \/ UpsertOne(m, IF fromMe[m] THEN StatusServerAck ELSE StatusDeliveryAck)
       \/ h \in FailingDb /\ UNCHANGED <<stored, status>>
    /\ UNCHANGED <<raced, copy, tries, todo>>

\* handleMessageEvent of a revoke notice.
DeleteMessage(h) ==
    /\ At(h, "revoke", "done")
    /\ \/ stored' = stored \ {revokes[event[h].id]}
       \/ h \in FailingDb /\ UNCHANGED stored
    /\ UNCHANGED <<status, raced, copy, tries, todo>>

MayRetry(h) == tries[h] + 1 < Attempts

\* handleReceipt, GetMessage: a missing row is tried again, then skipped.
ReadMissing(h) ==
    /\ At(h, "receipt", IF MayRetry(h) THEN "receipt" ELSE "done")
    /\ event[h].id \notin stored \/ h \in FailingDb
    /\ tries' = [tries EXCEPT ![h] = @ + 1]
    /\ UNCHANGED <<tableVars, copy, todo>>

\* mutations: the status is not compared; only a message without status is raised
NeverThere(m, s) == FALSE
AnyStatus(m, s) == status[m] # 0

HasStatus(m, s) == status[m] >= s

\* A row that has at least this status is left alone.
ReadFound(h) ==
    LET m == event[h].id IN
    /\ At(h, "receipt", IF HasStatus(m, event[h].status) THEN "done" ELSE "write")
    /\ m \in stored
    /\ copy' = [copy EXCEPT ![h] = status[m]]
    /\ UNCHANGED <<tableVars, tries, todo>>

\* handleReceipt: upsert of the row as it was read, with the new status.
WriteReceipt(h) ==
    /\ At(h, "write", "done")
    /\ \/ /\ UpsertOne(event[h].id, event[h].status)
          /\ raced' = IF IsStale(h) THEN raced \cup {event[h].id} ELSE raced
       \/ h \in FailingDb /\ UNCHANGED tableVars
    /\ UNCHANGED <<copy, tries, todo>>

\* saveHistoryForOneChat: the status is whatever the phone sent, 0 if nothing.
\* Ids are the messages the library can parse; it skips the others.
SaveHistory(h) ==
    \/ \E m \in todo[h], s \in Statuses :
          /\ pc[h] = "history"
          /\ UpsertOne(m, s) \/ (h \in FailingDb /\ UNCHANGED <<stored, status>>)
          /\ todo' = [todo EXCEPT ![h] = @ \ {m}]
          /\ UNCHANGED <<raced, pc, event, copy, tries>>
    \/ /\ todo[h] = {}
       /\ At(h, "history", "done")
       /\ UNCHANGED <<tableVars, copy, tries, todo>>

\* mutation: the message sent in the very second is deleted too
NotNewer(m, time) == timeOf[m] <= time

IsOlder(m, time) == timeOf[m] < time

\* handleDeleteChat, DeleteChatMessages: one DELETE statement.
DeleteChatMessages(h) ==
    LET e == event[h] IN
    /\ At(h, "deleteChat", "done")
    /\ \/ stored' = {m \in stored : ~(chatOf[m] = e.chat /\ IsOlder(m, e.before))}
       \/ h \in FailingDb /\ UNCHANGED stored
    /\ UNCHANGED <<status, raced, copy, tries, todo>>

Statement(h) ==
    \/ SaveMessage(h) \/ DeleteMessage(h)
    \/ ReadMissing(h) \/ ReadFound(h) \/ WriteReceipt(h)
    \/ SaveHistory(h) \/ DeleteChatMessages(h)

Next == \E h \in Handlers : Statement(h) \/ \E e \in Events : handleEvent(h, e)

Spec == Init /\ [][Next]_vars

-----------------------------------------------------------------------------
TypeOK ==
    /\ stored \subseteq Ids
    /\ status \in [Ids -> Statuses]
    /\ pc \in [Handlers -> {"new", "message", "revoke", "receipt", "write",
                            "history", "deleteChat", "done"}]
    /\ event \in [Handlers -> Events \cup {Null}]
    /\ copy \in [Handlers -> Statuses]
    /\ tries \in [Handlers -> 0..Attempts]
    /\ todo \in [Handlers -> SUBSET Ids]
    /\ raced \subseteq Ids

Ledger == INSTANCE MessageLedger WITH
              saving <- {m \in Ids : \E h \in Handlers :
                           \/ pc[h] = "message" /\ event[h].id = m
                           \/ pc[h] = "history" /\ m \in todo[h]},
              stale <- {event[h].id : h \in {o \in Handlers : IsStale(o)}}

(* However handlers overlap and whatever SQL fails, the table is the ledger:
   a status goes down, and a deleted message comes back, only by saving the
   message again or by the one race there is, a receipt that writes back a row
   it read before another handler changed it.                              *)
ImplementsLedger == Ledger!Spec

Received(h) == pc[h] # "new" /\ Chat(event[h]) \notin Ignored

(* The handlers that save m, and those that may delete it. *)
Savers(m) ==
    {h \in Handlers : Received(h) /\
        \/ event[h].kind = "message" /\ event[h].id = m
        \/ event[h].kind = "history" /\ event[h].chat = chatOf[m]}
Deleters(m) ==
    {h \in Handlers : Received(h) /\
        \/ event[h].kind = "message" /\ revokes[event[h].id] = m
        \/ event[h].kind = "deleteChat" /\ chatOf[m] = event[h].chat
                                        /\ timeOf[m] < event[h].before}

(* Without that race no receipt is lost: a message saved once and not deleted
   has at least the status of every receipt whose handler found it and could
   write, whichever of the receipts came first.                            *)
ReceiptsCount ==
    \A h \in Handlers \ FailingDb :
        LET e == event[h] IN
        /\ pc[h] = "done" /\ Received(h) /\ e.kind = "receipt"
        /\ tries[h] < Attempts
        /\ e.id \notin raced
        /\ \A o, q \in Savers(e.id) : o = q
        /\ Deleters(e.id) = {}
        => status[e.id] >= e.status

(* However handlers overlap, a message that was saved is there until a revoke
   names it or its chat is deleted as of a later time: receipts never lose it,
   and deleting a chat spares what is as new as the deletion.              *)
SavedUnlessDeleted ==
    \A m \in Ids :
        /\ Deleters(m) = {}
        /\ \E h \in Savers(m) \ FailingDb : pc[h] \in {"revoke", "done"}
        => m \in stored
=============================================================================

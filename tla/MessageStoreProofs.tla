------------------------- MODULE MessageStoreProofs -------------------------
(***************************************************************************)
(* The message table, for any number of messages, chats and handlers: no   *)
(* saved message is lost, no receipt is lost but in a race, and the table  *)
(* implements MessageLedger.  The argument: a handler that has saved a     *)
(* message remembers it in its program counter (HasSaved), and nothing but *)
(* a Deleter takes the message away again.                                 *)
(***************************************************************************)
EXTENDS MessageStore, TLAPS

HasSaved(h, m) ==
    /\ h \in Savers(m)
    /\ pc[h] \in {"revoke", "done"} \/ (pc[h] = "history" /\ m \notin todo[h])

\* A handler is at a statement of its own event, of a chat it does not ignore.
EventInv ==
    \A h \in Handlers :
        /\ pc[h] # "new" => event[h] \in Events
        /\ pc[h] \notin {"new", "done"} => Chat(event[h]) \notin Ignored
        /\ pc[h] \in {"message", "revoke"} => event[h].kind = "message"
        /\ pc[h] = "revoke" => revokes[event[h].id] # Null
        /\ pc[h] \in {"receipt", "write"} => event[h].kind = "receipt"
        /\ pc[h] \in {"new", "receipt"} => tries[h] < Attempts
        /\ pc[h] = "write" => copy[h] < event[h].status
        /\ pc[h] \in {"history", "deleteChat"} => event[h].kind = pc[h]
        /\ pc[h] = "history" => todo[h] \subseteq Of(event[h].chat)

SavedInv ==
    \A m \in Ids : Deleters(m) = {} =>
        \A h \in Handlers \ FailingDb : HasSaved(h, m) => m \in stored

\* A handler of a receipt that found its message.
HasFound(h) ==
    /\ Received(h) /\ event[h].kind = "receipt"
    /\ pc[h] = "write" \/ (pc[h] = "done" /\ tries[h] < Attempts)

\* Whatever is in the table, or was found there, somebody has saved.
SourceInv ==
    /\ \A m \in stored : \E o \in Handlers : HasSaved(o, m)
    /\ \A h \in Handlers : HasFound(h) => \E o \in Handlers : HasSaved(o, event[h].id)

Inv == TypeOK /\ EventInv /\ SavedInv /\ SourceInv /\ ReceiptsCount

(* The fields of an event. *)
LEMMA EventFields ==
    ASSUME NEW e \in Events
    PROVE  /\ e.kind \in {"message", "receipt", "history", "deleteChat"}
           /\ e.kind \in {"message", "receipt"} => e.id \in Ids
           /\ e.kind = "receipt" => e.status \in ReceiptStatuses
           /\ e.kind \in {"history", "deleteChat"} => e.chat \in Chats
           /\ e.kind = "deleteChat" => e.before \in Times
  BY DEF Events

(* Nothing is stored and no event has come. *)
LEMMA InvInit == Init => Inv
  <1> SUFFICES ASSUME Init PROVE Inv
    OBVIOUS
  <1>1. TypeOK
    BY ScopeAssumption DEF Init, TypeOK, Statuses
  <1>2. EventInv /\ SavedInv /\ SourceInv /\ ReceiptsCount
    BY ScopeAssumption DEF Init, EventInv, SavedInv, SourceInv, ReceiptsCount, HasSaved, HasFound, Savers, Received
  <1> QED BY <1>1, <1>2 DEF Inv

-----------------------------------------------------------------------------
(* What a step of a handler does to the handlers: it moves forward within its
   event, and the others stay.                                             *)
Forward(h) ==
    /\ event' = event
    /\ \A o \in Handlers \ {h} : pc'[o] = pc[o] /\ todo'[o] = todo[o]
                                 /\ copy'[o] = copy[o] /\ tries'[o] = tries[o]
    /\ pc[h] \notin {"new", "done"} /\ pc'[h] # "new"
    /\ pc[h] = "revoke" => pc'[h] = "done"
    /\ pc[h] = "history" => pc'[h] \in {"history", "done"} /\ todo'[h] \subseteq todo[h]

(* A statement is one handler's, and only ever takes it forward. *)
LEMMA StatementIsForward ==
    ASSUME TypeOK, NEW h \in Handlers, Statement(h) PROVE Forward(h)
  <1> USE DEF TypeOK, Forward, At
  <1>1. CASE SaveMessage(h)
    BY <1>1 DEF SaveMessage
  <1>2. CASE DeleteMessage(h)
    BY <1>2 DEF DeleteMessage
  <1>3. CASE ReadMissing(h)
    BY <1>3 DEF ReadMissing
  <1>4. CASE ReadFound(h)
    BY <1>4 DEF ReadFound
  <1>5. CASE WriteReceipt(h)
    BY <1>5 DEF WriteReceipt
  <1>6. CASE SaveHistory(h)
    BY <1>6 DEF SaveHistory
  <1>7. CASE DeleteChatMessages(h)
    BY <1>7 DEF DeleteChatMessages
  <1> QED BY <1>1, <1>2, <1>3, <1>4, <1>5, <1>6, <1>7 DEF Statement

(* Savers and deleters of a message stay what they are, and what was saved
   stays saved.                                                            *)
LEMMA Progress ==
    ASSUME Inv, NEW h \in Handlers, Statement(h) \/ \E e \in Events : handleEvent(h, e)
    PROVE  /\ \A o \in Handlers : Received(o) => Received(o)' /\ event'[o] = event[o]
           /\ \A m \in Ids : /\ Savers(m) \subseteq Savers(m)'
                             /\ Deleters(m) \subseteq Deleters(m)'
                             /\ \A o \in Handlers : HasSaved(o, m) => HasSaved(o, m)'
  <1>1. CASE Statement(h)
    <2>1. Forward(h)
      BY <1>1, StatementIsForward DEF Inv
    <2>2. \A o \in Handlers : Received(o) => Received(o)' /\ event'[o] = event[o]
      BY <2>1 DEF Forward, Received, Inv, EventInv, Chat
    <2>3. \A m \in Ids : Savers(m) \subseteq Savers(m)' /\ Deleters(m) \subseteq Deleters(m)'
      BY <2>1, <2>2 DEF Forward, Savers, Deleters
    <2>4. ASSUME NEW m \in Ids, NEW o \in Handlers, HasSaved(o, m) PROVE HasSaved(o, m)'
      BY <2>1, <2>3, <2>4 DEF Forward, HasSaved
    <2> QED BY <2>2, <2>3, <2>4
  <1>2. ASSUME NEW e \in Events, handleEvent(h, e) PROVE
           /\ \A o \in Handlers : Received(o) => Received(o)' /\ event'[o] = event[o]
           /\ \A m \in Ids : /\ Savers(m) \subseteq Savers(m)'
                             /\ Deleters(m) \subseteq Deleters(m)'
                             /\ \A o \in Handlers : HasSaved(o, m) => HasSaved(o, m)'
    <2>1. /\ pc[h] = "new"
          /\ \A o \in Handlers \ {h} : pc'[o] = pc[o] /\ todo'[o] = todo[o] /\ event'[o] = event[o]
      BY <1>2 DEF handleEvent, Inv, TypeOK
    <2>2. \A o \in Handlers : Received(o) => o # h
      BY <2>1 DEF Received
    <2>3. \A o \in Handlers : Received(o) => Received(o)' /\ event'[o] = event[o]
      BY <2>1, <2>2 DEF Received, Chat
    <2>4. \A m \in Ids : Savers(m) \subseteq Savers(m)' /\ Deleters(m) \subseteq Deleters(m)'
      BY <2>3 DEF Savers, Deleters
    <2>5. ASSUME NEW m \in Ids, NEW o \in Handlers, HasSaved(o, m) PROVE HasSaved(o, m)'
      <3>1. o # h
        BY <2>2, <2>5 DEF HasSaved, Savers
      <3> QED BY <2>1, <2>4, <2>5, <3>1 DEF HasSaved
    <2> QED BY <2>3, <2>4, <2>5
  <1> QED BY <1>1, <1>2

(* Every statement keeps the types and every handler at its event. *)
LEMMA TypesNext ==
    ASSUME Inv, [Next]_vars PROVE TypeOK' /\ EventInv'
  <1> USE DEF Inv, TypeOK, EventInv, At, tableVars, UpsertOne
  <1> USE ScopeAssumption, MessagesAssumption, EventFields
  <1> DEFINE Good == TypeOK' /\ EventInv'
  <1>0. ReceiptStatuses \subseteq Statuses /\ 0 \in Statuses /\ {2, 3} \subseteq Statuses
    BY DEF ReceiptStatuses, Statuses, StatusDeliveryAck
  <1>1. ASSUME NEW h \in Handlers, NEW e \in Events, handleEvent(h, e) PROVE Good
    <2>1. /\ pc[h] = "new" /\ event' = [event EXCEPT ![h] = e]
          /\ pc' = [pc EXCEPT ![h] = IF Chat(e) \in Ignored THEN "done" ELSE e.kind]
          /\ todo' = [todo EXCEPT ![h] = IF e.kind = "history" THEN Of(e.chat) ELSE {}]
          /\ UNCHANGED <<stored, status, raced, copy, tries>>
      BY <1>1 DEF handleEvent
    <2>2. Of(e.chat) \subseteq Ids
      BY DEF Of
    <2>3. TypeOK'
      BY <2>1, <2>2
    <2>4. ASSUME NEW o \in Handlers, o # h
          PROVE  pc'[o] = pc[o] /\ event'[o] = event[o] /\ tries'[o] = tries[o] /\ copy'[o] = copy[o]
      BY <2>1, <2>4
    <2>5. /\ event'[h] = e
          /\ pc'[h] = "done" \/ (pc'[h] = e.kind /\ Chat(e) \notin Ignored)
      BY <2>1
    <2>6. tries[h] < Attempts
      BY <2>1
    <2>7. EventInv'
      BY <2>1, <2>4, <2>5, <2>6 DEF Chat
    <2> QED BY <2>3, <2>7
  <1>2. ASSUME NEW h \in Handlers, SaveMessage(h) PROVE Good
    BY <1>0, <1>2 DEF SaveMessage, StatusServerAck, StatusDeliveryAck
  <1>3. ASSUME NEW h \in Handlers, DeleteMessage(h) PROVE Good
    BY <1>3 DEF DeleteMessage
  <1>4. ASSUME NEW h \in Handlers, ReadMissing(h) PROVE Good
    BY <1>4 DEF ReadMissing, MayRetry
  <1>5. ASSUME NEW h \in Handlers, ReadFound(h) PROVE Good
    <2>1. event[h].id \in Ids /\ event[h].status \in Int /\ status[event[h].id] \in Statuses
      <3>1. pc[h] = "receipt"
        BY <1>5 DEF ReadFound
      <3>2. event[h] \in Events /\ event[h].kind = "receipt"
        BY <3>1
      <3> QED BY <3>2 DEF ReceiptStatuses, StatusDeliveryAck
    <2>2. pc'[h] = "write" => copy'[h] < event'[h].status
      BY <1>5, <2>1 DEF ReadFound, HasStatus, Statuses
    <2>3. TypeOK'
      BY <1>5, <2>1 DEF ReadFound
    <2>4. ASSUME NEW o \in Handlers, o # h PROVE pc'[o] = pc[o] /\ copy'[o] = copy[o]
      BY <1>5, <2>4 DEF ReadFound
    <2>5. event' = event /\ tries' = tries /\ todo' = todo /\ pc[h] = "receipt" /\ pc'[h] \in {"write", "done"}
      BY <1>5 DEF ReadFound
    <2>6. EventInv'
      BY <2>2, <2>4, <2>5 DEF Chat
    <2> QED BY <2>3, <2>6
  <1>6. ASSUME NEW h \in Handlers, WriteReceipt(h) PROVE Good
    BY <1>0, <1>6 DEF WriteReceipt
  <1>7. ASSUME NEW h \in Handlers, SaveHistory(h) PROVE Good
    BY <1>7 DEF SaveHistory, Of
  <1>8. ASSUME NEW h \in Handlers, DeleteChatMessages(h) PROVE Good
    BY <1>8 DEF DeleteChatMessages
  <1>9. ASSUME UNCHANGED vars PROVE Good
    BY <1>9 DEF vars, Chat
  <1> QED BY <1>1, <1>2, <1>3, <1>4, <1>5, <1>6, <1>7, <1>8, <1>9 DEF Next, Statement

-----------------------------------------------------------------------------
(* What a statement does to the table: rows go by deletion only, come by saving
   or by a receipt that found them; a status is lowered by saving or in a race;
   and a handler whose SQL does not fail leaves behind what it should.     *)
Effect(h) ==
    /\ \A m \in stored \ stored' : h \in Deleters(m)
    /\ \A m \in stored' \ stored : HasSaved(h, m)' \/ (HasFound(h) /\ event[h].id = m)
    /\ \A m \in Ids : status'[m] < status[m] =>
           (HasSaved(h, m)' /\ ~HasSaved(h, m)) \/ m \in raced'
    /\ raced \subseteq raced'
    /\ HasFound(h)' => HasFound(h) \/ event[h].id \in stored
    /\ h \notin FailingDb =>
          /\ \A m \in Ids : HasSaved(h, m)' => HasSaved(h, m) \/ m \in stored'
          /\ HasFound(h)' /\ pc'[h] = "done" => status'[event[h].id] >= event[h].status

(* What one statement does to the table. *)
LEMMA StatementEffect ==
    ASSUME Inv, NEW h \in Handlers, Statement(h) PROVE Effect(h)
  <1> DEFINE e == event[h]
  <1>0. /\ e \in Events /\ event' = event /\ Received(h) /\ Received(h)'
        /\ \A m \in Ids : status[m] \in Int
    BY StatementIsForward DEF Inv, EventInv, TypeOK, Forward, Received, Statuses, Chat
  <1> USE MessagesAssumption, ScopeAssumption, EventFields
  <1> USE DEF Effect, HasSaved, HasFound, Savers, At, UpsertOne
  <1> HIDE DEF Effect
  <1>1. CASE SaveMessage(h)
    <2>1. /\ e.kind = "message" /\ e.id \in Ids /\ pc[h] = "message"
          /\ pc'[h] \in {"done", "revoke"} /\ raced' = raced
          /\ \/ stored' = stored \cup {e.id} /\ \A m \in Ids : m # e.id => status'[m] = status[m]
             \/ h \in FailingDb /\ stored' = stored /\ status' = status
      BY <1>0, <1>1 DEF SaveMessage, Inv, TypeOK, EventInv
    <2> QED BY <1>0, <2>1 DEF Effect
  <1>2. CASE DeleteMessage(h)
    <2>1. /\ e.kind = "message" /\ e.id \in Ids /\ pc[h] = "revoke" /\ pc'[h] = "done"
          /\ raced' = raced /\ status' = status /\ todo' = todo
          /\ stored' \subseteq stored /\ stored \ stored' \subseteq {revokes[e.id]}
      BY <1>0, <1>2 DEF DeleteMessage, Inv, TypeOK, EventInv
    <2> QED BY <1>0, <2>1 DEF Effect, Deleters
  <1>3. CASE ReadMissing(h)
    <2>1. /\ e.kind = "receipt" /\ pc[h] = "receipt" /\ stored' = stored /\ status' = status
          /\ raced' = raced
          /\ pc'[h] = "receipt" \/ (pc'[h] = "done" /\ ~(tries'[h] < Attempts))
      BY <1>0, <1>3 DEF ReadMissing, MayRetry, Inv, TypeOK, EventInv, tableVars
    <2> QED BY <1>0, <2>1 DEF Effect
  <1>4. CASE ReadFound(h)
    <2>1. /\ e.kind = "receipt" /\ e.id \in stored /\ pc[h] = "receipt"
          /\ stored' = stored /\ status' = status /\ raced' = raced
          /\ pc'[h] = "write" \/ (pc'[h] = "done" /\ status[e.id] >= e.status)
      BY <1>0, <1>4 DEF ReadFound, HasStatus, Inv, TypeOK, EventInv, tableVars
    <2> QED BY <1>0, <2>1 DEF Effect
  <1>5. CASE WriteReceipt(h)
    <2>1. /\ e.kind = "receipt" /\ e.id \in Ids /\ pc[h] = "write" /\ pc'[h] = "done"
          /\ copy[h] < e.status /\ e.status \in Int
          /\ \/ /\ stored' = stored \cup {e.id} /\ status' = [status EXCEPT ![e.id] = e.status]
                /\ raced' = IF IsStale(h) THEN raced \cup {e.id} ELSE raced
             \/ h \in FailingDb /\ stored' = stored /\ status' = status /\ raced' = raced
      BY <1>0, <1>5 DEF WriteReceipt, Inv, TypeOK, EventInv, tableVars, ReceiptStatuses, StatusDeliveryAck
    <2>2. status'[e.id] < status[e.id] => e.id \in raced'
      BY <1>0, <2>1 DEF IsStale, Inv, TypeOK
    <2>3. \A m \in Ids : m # e.id => status'[m] = status[m]
      BY <2>1 DEF Inv, TypeOK
    <2>4. h \notin FailingDb => status'[e.id] = e.status
      BY <2>1 DEF Inv, TypeOK
    <2> QED BY <1>0, <2>1, <2>2, <2>3, <2>4 DEF Effect
  <1>6. CASE SaveHistory(h)
    <2>0. pc[h] = "history" /\ raced' = raced
      BY <1>6 DEF SaveHistory, tableVars
    <2>1. /\ e.kind = "history" /\ pc[h] = "history" /\ raced' = raced
          /\ todo[h] \subseteq Ids /\ \A m \in todo[h] : chatOf[m] = e.chat
      BY <2>0 DEF Inv, TypeOK, EventInv, Of
    <2>2. CASE \E m \in todo[h], s \in Statuses :
                 /\ UpsertOne(m, s) \/ (h \in FailingDb /\ UNCHANGED <<stored, status>>)
                 /\ todo' = [todo EXCEPT ![h] = @ \ {m}]
                 /\ pc' = pc
      <3>1. PICK m \in todo[h] :
               /\ \/ stored' = stored \cup {m} /\ \A n \in Ids : n # m => status'[n] = status[n]
                  \/ h \in FailingDb /\ stored' = stored /\ status' = status
               /\ todo'[h] = todo[h] \ {m} /\ pc' = pc
        BY <2>2 DEF Inv, TypeOK
      <3> QED BY <1>0, <2>1, <3>1 DEF Effect
    <2>3. CASE todo[h] = {} /\ pc'[h] = "done" /\ stored' = stored /\ status' = status
      BY <1>0, <2>1, <2>3 DEF Effect
    <2> QED BY <1>6, <2>2, <2>3 DEF SaveHistory, Inv, TypeOK, tableVars
  <1>7. CASE DeleteChatMessages(h)
    <2>1. /\ e.kind = "deleteChat" /\ pc[h] = "deleteChat" /\ raced' = raced /\ status' = status
          /\ stored' \subseteq stored
          /\ \A m \in stored \ stored' : chatOf[m] = e.chat /\ timeOf[m] < e.before
      BY <1>0, <1>7 DEF DeleteChatMessages, IsOlder, Inv, TypeOK, EventInv
    <2> QED BY <1>0, <2>1 DEF Effect, Deleters
  <1> QED BY <1>1, <1>2, <1>3, <1>4, <1>5, <1>6, <1>7 DEF Statement

(* Dispatching an event saves nothing and finds nothing. *)
LEMMA DispatchEffect ==
    ASSUME Inv, NEW h \in Handlers, NEW e \in Events, handleEvent(h, e)
    PROVE  /\ stored' = stored /\ status' = status /\ raced' = raced
           /\ \A m \in Ids : ~HasSaved(h, m)'
           /\ ~HasFound(h)' /\ ~(Received(h)' /\ pc'[h] = "done")
  <1>1. /\ event'[h] = e
        /\ pc'[h] = IF Chat(e) \in Ignored THEN "done" ELSE e.kind
        /\ todo'[h] = IF e.kind = "history" THEN Of(e.chat) ELSE {}
        /\ stored' = stored /\ status' = status /\ raced' = raced
    BY DEF handleEvent, Inv, TypeOK, tableVars
  <1>2. Chat(event'[h]) = Chat(e)
    BY <1>1
  <1>3. ~(Received(h)' /\ pc'[h] = "done")
    BY <1>1, EventFields DEF Received, Chat
  <1>4. ASSUME NEW m \in Ids, HasSaved(h, m)' PROVE FALSE
    <2>1. Received(h)' /\ (e.kind = "history" => e.chat = chatOf[m])
      BY <1>1, <1>4 DEF HasSaved, Savers
    <2>2. pc'[h] = e.kind
      BY <1>1, <1>3, <2>1
    <2>3. e.kind = "history" /\ m \notin Of(e.chat)
      BY <1>1, <1>4, <2>2, EventFields DEF HasSaved
    <2> QED BY <2>1, <2>3 DEF Of
  <1>5. ~HasFound(h)'
    BY <1>1, <1>3, EventFields DEF HasFound
  <1> QED BY <1>1, <1>3, <1>4, <1>5

(* What the other handlers have saved or found does not change. *)
LEMMA OthersStay ==
    ASSUME Inv, NEW h \in Handlers, Statement(h) \/ \E e \in Events : handleEvent(h, e),
           NEW o \in Handlers, o # h
    PROVE  /\ event'[o] = event[o] /\ pc'[o] = pc[o] /\ tries'[o] = tries[o]
           /\ Received(o)' <=> Received(o)
           /\ HasFound(o)' <=> HasFound(o)
           /\ \A m \in Ids : HasSaved(o, m)' <=> HasSaved(o, m)
  <1>1. /\ event'[o] = event[o] /\ pc'[o] = pc[o] /\ tries'[o] = tries[o] /\ todo'[o] = todo[o]
    <2>1. CASE Statement(h)
      BY <2>1, StatementIsForward DEF Forward, Inv
    <2>2. CASE \E e \in Events : handleEvent(h, e)
      BY <2>2 DEF handleEvent, Inv, TypeOK
    <2> QED BY <2>1, <2>2
  <1>2. Received(o)' <=> Received(o)
    BY <1>1 DEF Received, Chat
  <1> QED BY <1>1, <1>2 DEF HasFound, HasSaved, Savers

(* Every step keeps the invariant. *)
LEMMA InvNext == Inv /\ [Next]_vars => Inv'
  <1> SUFFICES ASSUME Inv, [Next]_vars PROVE Inv'
    OBVIOUS
  <1>1. TypeOK' /\ EventInv'
    BY TypesNext
  <1>2. ASSUME NEW h \in Handlers, Statement(h) \/ \E e \in Events : handleEvent(h, e)
        PROVE  SavedInv' /\ SourceInv' /\ ReceiptsCount'
    <2> DEFINE Changes(m) == HasSaved(h, m)' /\ ~HasSaved(h, m)
    <2>1. /\ \A m \in stored \ stored' : h \in Deleters(m)
          /\ \A m \in stored' \ stored : HasSaved(h, m)' \/ (HasFound(h) /\ event[h].id = m)
          /\ \A m \in Ids : status'[m] < status[m] => Changes(m) \/ m \in raced'
          /\ raced \subseteq raced'
          /\ HasFound(h)' => event'[h] = event[h] /\ (HasFound(h) \/ event[h].id \in stored)
          /\ h \notin FailingDb =>
                /\ \A m \in Ids : Changes(m) => m \in stored'
                /\ HasFound(h)' /\ pc'[h] = "done" => status'[event'[h].id] >= event'[h].status
      <3>1. CASE Statement(h)
        <4>1. event' = event
          BY <3>1, StatementIsForward DEF Forward, Inv
        <4> QED BY <3>1, <4>1, StatementEffect DEF Effect
      <3>2. CASE \E e \in Events : handleEvent(h, e)
        <4>1. status' = status /\ \A m \in Ids : status[m] \in Int
          BY <3>2, DispatchEffect DEF Inv, TypeOK, Statuses
        <4> QED BY <3>2, <4>1, DispatchEffect
      <3> QED BY <1>2, <3>1, <3>2
    <2>2. stored \subseteq Ids /\ stored' \subseteq Ids
      BY <1>1 DEF Inv, TypeOK
    <2>3. \A m \in Ids : /\ Deleters(m) \subseteq Deleters(m)' /\ Savers(m) \subseteq Savers(m)'
                          /\ \A o \in Handlers : HasSaved(o, m) => HasSaved(o, m)'
      BY <1>2, Progress
    <2>4. SavedInv'
      <3> SUFFICES ASSUME NEW m \in Ids, Deleters(m)' = {},
                          NEW o \in Handlers \ FailingDb, HasSaved(o, m)'
                   PROVE  m \in stored'
        BY DEF SavedInv
      <3>1. Deleters(m) = {} /\ h \notin Deleters(m)
        BY <2>3
      <3>2. HasSaved(o, m) => m \in stored'
        BY <2>1, <3>1 DEF Inv, SavedInv
      <3>3. CASE o # h
        BY <1>2, <3>2, <3>3, OthersStay
      <3>4. CASE o = h
        BY <2>1, <3>2, <3>4
      <3> QED BY <3>3, <3>4
    <2>5. SourceInv'
      <3>1. ASSUME NEW m \in stored' PROVE \E o \in Handlers : HasSaved(o, m)'
        <4>1. CASE m \in stored
          BY <2>2, <2>3, <4>1 DEF Inv, SourceInv
        <4>2. CASE m \notin stored
          BY <2>1, <2>2, <2>3, <4>2 DEF Inv, SourceInv
        <4> QED BY <4>1, <4>2
      <3>2. ASSUME NEW o \in Handlers, HasFound(o)', NEW m, m = event'[o].id
            PROVE  \E q \in Handlers : HasSaved(q, m)'
        <4>1. event'[o] = event[o] /\ (HasFound(o) \/ event[o].id \in stored)
          BY <1>2, <2>1, <3>2, OthersStay
        <4>2. \E q \in Handlers : HasSaved(q, m)
          BY <3>2, <4>1 DEF Inv, SourceInv
        <4>3. pc'[o] # "new" /\ event'[o].kind = "receipt"
          BY <3>2 DEF HasFound, Received
        <4>4. event'[o] \in Events
          BY <1>1, <4>3 DEF EventInv
        <4>5. m \in Ids
          BY <3>2, <4>3, <4>4, EventFields
        <4> QED BY <2>3, <4>2, <4>5
      <3>3. ASSUME NEW o \in Handlers, HasFound(o)'
            PROVE  (\E q \in Handlers : HasSaved(q, event[o].id))'
        BY <3>2, <3>3 DEF HasSaved, Savers
      <3> QED BY <3>1, <3>3 DEF SourceInv
    <2>6. ReceiptsCount'
      <3> SUFFICES ASSUME NEW o \in Handlers \ FailingDb, pc'[o] = "done", Received(o)',
                          event'[o].kind = "receipt", tries'[o] < Attempts,
                          NEW m, m = event'[o].id, m \notin raced',
                          \A a, b \in Savers(m)' : a = b,
                          Deleters(m)' = {}
                   PROVE  status'[m] >= event'[o].status
        BY DEF ReceiptsCount, Savers, Deleters
      <3>1. HasFound(o)'
        BY DEF HasFound
      <3>2. CASE o = h
        BY <2>1, <3>1, <3>2
      <3>3. CASE o # h
        <4>1. event'[o] = event[o] /\ pc[o] = "done" /\ tries[o] < Attempts /\ Received(o)
              /\ HasFound(o)
          BY <1>2, <3>1, <3>3, OthersStay
        <4>2. m \in Ids /\ event[o].status \in Int
          <5>1. event[o] \in Events
            BY <4>1 DEF Received, Inv, EventInv
          <5>2. event[o].kind = "receipt" /\ m = event[o].id
            BY <4>1
          <5> QED BY <5>1, <5>2, EventFields DEF ReceiptStatuses, StatusDeliveryAck
        <4>3. status[m] >= event[o].status
          <5>1. /\ \A a, b \in Savers(m) : a = b
                /\ Deleters(m) = {} /\ m \notin raced
            BY <2>1, <2>3, <4>2
          <5> QED BY <4>1, <5>1 DEF Inv, ReceiptsCount
        <4>4. PICK q \in Handlers : HasSaved(q, m)
          BY <4>1 DEF Inv, SourceInv
        <4>5. ~Changes(m)
          <5> SUFFICES ASSUME Changes(m) PROVE FALSE
            OBVIOUS
          <5>1. q \in Savers(m)' /\ h \in Savers(m)'
            BY <2>3, <4>2, <4>4 DEF HasSaved
          <5> QED BY <4>4, <5>1
        <4>6. ~(status'[m] < status[m])
          BY <2>1, <4>2, <4>5
        <4>7. status[m] \in Int /\ status'[m] \in Int
          BY <1>1, <4>2 DEF Inv, TypeOK, Statuses
        <4> QED BY <4>1, <4>2, <4>3, <4>6, <4>7
      <3> QED BY <3>2, <3>3
    <2> QED BY <2>4, <2>5, <2>6
  <1>3. ASSUME UNCHANGED vars PROVE SavedInv' /\ SourceInv' /\ ReceiptsCount'
    <2>1. \A h \in Handlers : Received(h)' <=> Received(h)
      BY <1>3 DEF vars, Received, Chat
    <2>2. \A m \in Ids : /\ Savers(m)' = Savers(m) /\ Deleters(m)' = Deleters(m)
                          /\ \A h \in Handlers : HasSaved(h, m)' <=> HasSaved(h, m)
      BY <1>3, <2>1 DEF vars, Savers, Deleters, HasSaved
    <2>3. SavedInv'
      BY <1>3, <2>2 DEF vars, tableVars, Inv, SavedInv
    <2>4. \A h \in Handlers : Received(h) /\ event[h].kind = "receipt" => event[h].id \in Ids
      BY EventFields DEF Inv, EventInv, Received
    <2>5. SourceInv'
      BY <1>3, <2>1, <2>2, <2>4 DEF vars, tableVars, Inv, TypeOK, SourceInv, HasFound
    <2>6. ReceiptsCount'
      BY <1>3, <2>1, <2>2, <2>4 DEF vars, tableVars, Inv, ReceiptsCount
    <2> QED BY <2>3, <2>5, <2>6
  <1> QED BY <1>1, <1>2, <1>3 DEF Inv, Next

(* The inductive invariant of the message table. *)
THEOREM Invariance == Spec => []Inv
  <1> QED BY InvInit, InvNext, PTL DEF Spec

(* Every reachable state is well typed: a status stays in its range and no
   handler reads more often than it may.                                   *)
THEOREM TypeCorrect == Spec => []TypeOK
  <1> QED BY Invariance, PTL DEF Inv

(* A message that was saved is there until somebody deletes it. *)
THEOREM NothingVanishes == Spec => []SavedUnlessDeleted
  <1>1. Inv => SavedUnlessDeleted
    <2> SUFFICES ASSUME Inv, NEW m \in Ids, Deleters(m) = {},
                        NEW h \in Savers(m) \ FailingDb, pc[h] \in {"revoke", "done"}
                 PROVE  m \in stored
      BY DEF SavedUnlessDeleted
    <2>1. h \in Handlers \ FailingDb /\ HasSaved(h, m)
      BY DEF Savers, HasSaved
    <2> QED BY <2>1 DEF Inv, SavedInv
  <1> QED BY <1>1, Invariance, PTL

(* A receipt that found its message counts, but for a stale write. *)
THEOREM ReceiptsAreKept == Spec => []ReceiptsCount
  <1> QED BY Invariance, PTL DEF Inv

-----------------------------------------------------------------------------
\* What the refinement mapping substitutes for the variables of the ledger.
Saving == {m \in Ids : \E h \in Handlers :
              \/ pc[h] = "message" /\ event[h].id = m
              \/ pc[h] = "history" /\ m \in todo[h]}
Stale == {event[h].id : h \in {o \in Handlers : IsStale(o)}}

LedgerStep ==
    \/ \E m \in Ids, s \in Statuses : Ledger!Save(m, s) \/ Ledger!Raise(m, s) \/ Ledger!Overwrite(m, s)
    \/ \E m \in Ids : Ledger!Delete(m)
    \/ \E m \in Ids, t \in Times : Ledger!Clear(chatOf[m], t)
    \/ UNCHANGED <<stored, status>>

(* Handlers only ever hold rows of messages there are. *)
LEMMA StaleAreIds == Inv => Saving \subseteq Ids /\ Stale \subseteq Ids
  <1>1. ASSUME Inv, NEW h \in Handlers, IsStale(h) PROVE event[h].id \in Ids
    <2>1. event[h] \in Events /\ event[h].kind = "receipt"
      BY <1>1 DEF IsStale, Inv, EventInv
    <2> QED BY <2>1, EventFields
  <1> QED BY <1>1 DEF Saving, Stale

(* Every statement is a step of the ledger: saving is Save, a receipt Raise or,
   with a stale row, Overwrite, a revoke Delete, a chat deletion Clear.    *)
LEMMA StatementIsLedgerStep ==
    ASSUME Inv, NEW h \in Handlers, Statement(h) PROVE LedgerStep
  <1> DEFINE e == event[h]
  <1> USE EventFields, MessagesAssumption
  <1>0. pc[h] # "new" /\ e \in Events
    BY StatementIsForward DEF Inv, EventInv, Forward
  <1>1. CASE SaveMessage(h)
    <2>1. e.id \in Ids /\ e.id \in Saving
      BY <1>0, <1>1 DEF SaveMessage, At, Inv, EventInv, Saving
    <2>2. {StatusServerAck, StatusDeliveryAck} \subseteq Statuses
      BY DEF StatusServerAck, StatusDeliveryAck, Statuses
    <2>3. \/ \E s \in Statuses : UpsertOne(e.id, s)
          \/ UNCHANGED <<stored, status>>
      BY <1>1, <2>2 DEF SaveMessage
    <2> QED BY <2>1, <2>3 DEF LedgerStep, Ledger!Save, UpsertOne, Saving
  <1>2. CASE DeleteMessage(h)
    <2>1. revokes[e.id] \in Ids
      BY <1>0, <1>2 DEF DeleteMessage, At, Inv, EventInv
    <2> QED BY <1>2, <2>1 DEF DeleteMessage, LedgerStep, Ledger!Delete
  <1>3. CASE ReadMissing(h) \/ ReadFound(h)
    BY <1>3 DEF ReadMissing, ReadFound, tableVars, LedgerStep
  <1>4. CASE WriteReceipt(h)
    <2>1. /\ e.id \in Ids /\ e.status \in Statuses /\ pc[h] = "write" /\ copy[h] < e.status
      BY <1>0, <1>4 DEF WriteReceipt, At, Inv, EventInv, ReceiptStatuses, StatusDeliveryAck, Statuses
    <2>2. CASE UNCHANGED <<stored, status>>
      BY <2>2 DEF LedgerStep
    <2>3. CASE UpsertOne(e.id, e.status) /\ IsStale(h)
      BY <2>1, <2>3 DEF LedgerStep, Ledger!Overwrite, UpsertOne
    <2>4. CASE UpsertOne(e.id, e.status) /\ ~IsStale(h)
      <3>1. e.id \in stored /\ e.status > status[e.id]
        BY <2>1, <2>4 DEF IsStale, Inv, TypeOK, Statuses
      <3>2. stored' = stored
        BY <2>4, <3>1 DEF UpsertOne
      <3> QED BY <2>1, <2>4, <3>1, <3>2 DEF LedgerStep, Ledger!Raise, UpsertOne
    <2> QED BY <1>4, <2>2, <2>3, <2>4 DEF WriteReceipt, tableVars
  <1>5. CASE SaveHistory(h)
    <2>1. CASE \E m \in todo[h], s \in Statuses :
                 pc[h] = "history" /\ (UpsertOne(m, s) \/ UNCHANGED <<stored, status>>)
      <3>1. PICK m \in todo[h], s \in Statuses :
               pc[h] = "history" /\ (UpsertOne(m, s) \/ UNCHANGED <<stored, status>>)
        BY <2>1
      <3>2. m \in Ids /\ m \in Saving
        BY <3>1 DEF Inv, TypeOK, Saving
      <3> QED BY <3>1, <3>2 DEF LedgerStep, Ledger!Save, UpsertOne, Saving
    <2>2. CASE UNCHANGED <<stored, status>>
      BY <2>2 DEF LedgerStep
    <2> QED BY <1>5, <2>1, <2>2 DEF SaveHistory, tableVars
  <1>6. CASE DeleteChatMessages(h)
    <2>1. e.before \in Times
      BY <1>0, <1>6 DEF DeleteChatMessages, At, Inv, EventInv
    <2>2. CASE UNCHANGED <<stored, status>>
      BY <2>2 DEF LedgerStep
    <2>3. CASE /\ stored' = {m \in stored : ~(chatOf[m] = e.chat /\ timeOf[m] < e.before)}
               /\ status' = status
      <3>1. CASE \E m \in Ids : chatOf[m] = e.chat
        <4>1. PICK m \in Ids : chatOf[m] = e.chat
          BY <3>1
        <4>2. Ledger!Clear(chatOf[m], e.before)
          BY <2>3, <4>1 DEF Ledger!Clear
        <4> QED BY <2>1, <4>2 DEF LedgerStep
      <3>2. CASE \A m \in Ids : chatOf[m] # e.chat
        <4>1. stored' = stored
          BY <2>3, <3>2 DEF Inv, TypeOK
        <4> QED BY <2>3, <4>1 DEF LedgerStep
      <3> QED BY <3>1, <3>2
    <2> QED BY <1>6, <2>2, <2>3 DEF DeleteChatMessages, IsOlder
  <1> QED BY <1>1, <1>2, <1>3, <1>4, <1>5, <1>6 DEF Statement

(* However handlers overlap and whatever SQL fails, the table is a ledger. *)
THEOREM Refinement == Spec => ImplementsLedger
  <1>1. Init => Ledger!Init
    BY DEF Init, Ledger!Init, IsStale
  <1>2. Inv' => (Saving \subseteq Ids /\ Stale \subseteq Ids)'
    BY StaleAreIds, PTL
  <1>3. ASSUME Inv, Inv', [Next]_vars PROVE [Ledger!Next]_Ledger!vars
    <2>1. LedgerStep
      <3>1. ASSUME NEW h \in Handlers, NEW e \in Events, handleEvent(h, e) PROVE LedgerStep
        BY <3>1 DEF handleEvent, tableVars, LedgerStep
      <3>2. CASE UNCHANGED vars
        BY <3>2 DEF vars, tableVars, LedgerStep
      <3> QED BY <1>3, <3>1, <3>2, StatementIsLedgerStep DEF Next
    <2>2. Saving' \subseteq Ids /\ Stale' \subseteq Ids
      BY <1>2, <1>3
    <2> QED BY <2>1, <2>2 DEF LedgerStep, Ledger!Next, Saving, Stale, Statuses, Ledger!Statuses
  <1> QED BY <1>1, <1>3, Invariance, PTL DEF Spec, ImplementsLedger, Ledger!Spec
=============================================================================

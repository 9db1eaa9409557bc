--------------------------- MODULE EphemeralProofs ---------------------------
(***************************************************************************)
(* A chat deletion spares newer settings, for any number of handlers and   *)
(* any clock.  The deletion compares the row it read; the row it deletes   *)
(* is still the same because no other handler has come in between.         *)
(***************************************************************************)
EXTENDS Ephemeral, TLAPS

\* Types, with what TypeOK leaves out.
Kinds == {"changed", "message", "history", "deleteChat"}

Events == [kind : Kinds, time : Times \cup {NoTime}, value : Expirations \cup {Off}]

FieldInv ==
    /\ event \in [Handlers -> Events \cup {Null}]
    /\ \A h \in Handlers : pc[h] # "new" =>
          /\ event[h] \in Events
          /\ event[h].kind \in {"changed", "deleteChat"} => event[h].time \in Times

\* A removal is called with the time of a chat deletion, or with the present.
BeforeInv ==
    \A h \in Handlers : pc[h] \in {"get", "delete"} =>
        (event[h].kind = "deleteChat" => before[h] = event[h].time)

\* Handlers that do not overlap find the row as they read it.
SerialInv ==
    Serial =>
        /\ \A h, o \in Handlers : pc[h] \in {"get", "delete"} /\ pc[o] \in {"get", "delete"} => h = o
        /\ \A h \in Handlers : pc[h] = "delete" => MayGo(h)

Inv == TypeOK /\ FieldInv /\ BeforeInv /\ SerialInv

(* No event has come. *)
LEMMA InvInit == Init => Inv
  BY ScopeAssumption
     DEF Init, Inv, TypeOK, FieldInv, Events, Kinds, BeforeInv, SerialInv, Settings, Times, Off, NoTime

(* Every step keeps the types. *)
LEMMA TypesNext == Inv /\ [Next]_vars => TypeOK' /\ FieldInv'
  <1> SUFFICES ASSUME Inv, [Next]_vars PROVE TypeOK' /\ FieldInv'
    OBVIOUS
  <1> USE ScopeAssumption
  <1> USE DEF Inv, TypeOK, FieldInv, Settings, Times
  <1> DEFINE Good == TypeOK' /\ FieldInv'
  <1>1. CASE Tick
    BY <1>1 DEF Tick
  <1>0. ASSUME NEW h \in Handlers, NEW kind \in Kinds, NEW t \in Times \cup {NoTime},
               NEW v \in Expirations \cup {Off}, Dispatch(h, kind, t, v),
               kind \in {"changed", "deleteChat"} => t \in Times, truth' \in Settings
        PROVE  Good
    <2> DEFINE e == [kind |-> kind, time |-> t, value |-> v]
    <2>1. /\ e \in Events
          /\ e.kind \in {"changed", "deleteChat"} => e.time \in Times
      BY <1>0 DEF Events
    <2>2. /\ event' = [event EXCEPT ![h] = e] /\ pc' = [pc EXCEPT ![h] = "start"]
          /\ clock' = clock /\ row' = row /\ before' = before
      BY <1>0 DEF Dispatch
    <2>3. event' \in [Handlers -> Events \cup {Null}]
      BY <2>1, <2>2
    <2> HIDE DEF e
    <2>4. FieldInv'
      BY <2>1, <2>2, <2>3
    <2>5. TypeOK'
      BY <1>0, <2>2
    <2> QED BY <2>4, <2>5
  <1>2. ASSUME NEW h \in Handlers, NEW v \in Expirations \cup {Off}, Change(h, v) PROVE Good
    BY <1>2, <1>0 DEF Change, Kinds
  <1>3. ASSUME NEW h \in Handlers, NEW t \in Times \cup {NoTime}, Message(h, t) PROVE Good
    BY <1>3, <1>0 DEF Message, Kinds
  <1>4. ASSUME NEW h \in Handlers, NEW t \in Times \cup {NoTime}, Conversation(h, t) PROVE Good
    BY <1>4, <1>0 DEF Conversation, Kinds
  <1>5. ASSUME NEW h \in Handlers, DeleteChat(h) PROVE Good
    BY <1>5, <1>0 DEF DeleteChat, Kinds
  <1>6. ASSUME NEW h \in Handlers, UpdateChatEphemeralSetting(h) PROVE Good
    BY <1>6 DEF UpdateChatEphemeralSetting, Begins, Events
  <1>7. ASSUME NEW h \in Handlers, CallDelete(h) PROVE Good
    BY <1>7 DEF CallDelete, Begins, DeleteBefore
  <1>8. ASSUME NEW h \in Handlers, GetSetting(h) PROVE Good
    BY <1>8 DEF GetSetting
  <1>9. ASSUME NEW h \in Handlers, DeleteById(h) PROVE Good
    BY <1>9 DEF DeleteById
  <1>10. CASE UNCHANGED vars
    BY <1>10 DEF vars
  <1> QED BY <1>1, <1>2, <1>3, <1>4, <1>5, <1>6, <1>7, <1>8, <1>9, <1>10 DEF Next

(* Every step keeps the invariant: whoever changes the row has the tables to
   itself.                                                                 *)
LEMMA InvNext == Inv /\ [Next]_vars => Inv'
  <1> SUFFICES ASSUME Inv, [Next]_vars PROVE Inv'
    OBVIOUS
  <1> DEFINE Good == BeforeInv' /\ SerialInv'
  <1> USE DEF Inv, TypeOK, FieldInv, BeforeInv, SerialInv, MayGo
  <1>1. ASSUME Tick PROVE Good
    <2>1. UNCHANGED <<row, pc, event, before>>
      BY <1>1 DEF Tick
    <2> QED BY <2>1, Zenon
  <1>2. ASSUME NEW h \in Handlers, NEW kind, NEW t, NEW v, Dispatch(h, kind, t, v) PROVE Good
    BY <1>2 DEF Dispatch
  <1>3. ASSUME NEW h \in Handlers, UpdateChatEphemeralSetting(h) PROVE Good
    BY <1>3 DEF UpdateChatEphemeralSetting, Begins
  <1>4. ASSUME NEW h \in Handlers, CallDelete(h) PROVE Good
    BY <1>4 DEF CallDelete, Begins, DeleteBefore
  <1>5. ASSUME NEW h \in Handlers, GetSetting(h) PROVE Good
    BY <1>5 DEF GetSetting
  <1>6. ASSUME NEW h \in Handlers, DeleteById(h) PROVE Good
    BY <1>6 DEF DeleteById
  <1>7. ASSUME UNCHANGED vars PROVE Good
    BY <1>7, Zenon DEF vars
  <1>8. Good
    <2>1. ASSUME NEW h \in Handlers,
                 \/ \E v \in Expirations \cup {Off} : Change(h, v)
                 \/ \E t \in Times \cup {NoTime} : Message(h, t) \/ Conversation(h, t)
                 \/ DeleteChat(h)
          PROVE  \E kind, t, v : Dispatch(h, kind, t, v)
      BY <2>1, Zenon DEF Change, Message, Conversation, DeleteChat
    <2>2. ASSUME NEW h \in Handlers, \E kind, t, v : Dispatch(h, kind, t, v) PROVE Good
      BY <2>2, <1>2, Zenon
    <2> HIDE DEF Good, Inv, TypeOK, FieldInv, BeforeInv, SerialInv, MayGo
    <2>3. ASSUME NEW h \in Handlers,
                 \/ \E v \in Expirations \cup {Off} : Change(h, v)
                 \/ \E t \in Times \cup {NoTime} : Message(h, t) \/ Conversation(h, t)
                 \/ DeleteChat(h)
          PROVE  Good
      BY <2>1, <2>2, <2>3, Zenon
    <2>4. CASE \E h \in Handlers :
                 \/ \E v \in Expirations \cup {Off} : Change(h, v)
                 \/ \E t \in Times \cup {NoTime} : Message(h, t) \/ Conversation(h, t)
                 \/ DeleteChat(h)
      BY <2>3, <2>4, Zenon
    <2>5. CASE \E h \in Handlers : \/ UpdateChatEphemeralSetting(h)
                                   \/ CallDelete(h) \/ GetSetting(h) \/ DeleteById(h)
      BY <2>5, <1>3, <1>4, <1>5, <1>6, Zenon
    <2>6. Next \/ UNCHANGED vars
      BY Zenon
    <2> QED BY <1>1, <1>7, <2>4, <2>5, <2>6, Zenon DEF Next
  <1> HIDE DEF Inv
  <1>9. TypeOK' /\ FieldInv'
    BY TypesNext
  <1> QED BY <1>8, <1>9 DEF Inv

(* The inductive invariant of the setting of a chat. *)
THEOREM Invariance == Spec => []Inv
  <1> QED BY InvInit, InvNext, PTL DEF Spec

(* Every reachable state is well typed. *)
THEOREM TypeCorrect == Spec => []TypeOK
  <1> QED BY Invariance, PTL DEF Inv

(* The deletion of a chat, however late it is handled, removes a setting only if
   the setting is older than the deletion - unless handlers overlap.       *)
THEOREM NewerIsSpared == Spec => DeleteChatSparesNewer
  <1>1. ASSUME Inv, [Next]_vars
        PROVE  [\A h \in Handlers :
                  /\ Serial
                  /\ pc[h] = "delete" /\ pc'[h] = "done" /\ event[h].kind = "deleteChat"
                  /\ row.time # NoTime
                  => row.time < event[h].time]_vars
    BY <1>1 DEF Inv, BeforeInv, SerialInv, MayGo
  <1> QED BY <1>1, Invariance, PTL DEF Spec, DeleteChatSparesNewer

-----------------------------------------------------------------------------
\* The handlers of the two histories have started.
HistoryInv ==
    /\ came \in Seq(Handlers) /\ ran \in Seq(Handlers)
    /\ \A k \in DOMAIN came : pc[came[k]] # "new"
    /\ \A k \in DOMAIN ran : pc[ran[k]] \notin {"new", "start"}
    /\ \A h \in Handlers : pc[h] \notin {"new", "start"} => \E k \in DOMAIN ran : ran[k] = h

\* The last event tells of the setting on the phones.
TruthInv ==
    IF came = <<>> THEN truth.value = Off
    ELSE LET e == event[came[Len(came)]] IN
         /\ truth.value = Off <=> Removes(e) \/ (e.kind = "message" /\ e.value = Off)
         /\ e.kind \in {"changed", "message"} => e.value = truth.value
         /\ e.kind = "history" => e.value = Off

\* The row is what the last handler to begin has made of it: an upsert ignores
\* what was there, and a removal leaves only what is as new as its call.
RowInv ==
    Serial =>
        IF ran = <<>> THEN row = Null
        ELSE LET h == ran[Len(ran)] IN
             /\ \A o \in Handlers : pc[o] \in {"get", "delete"} => o = h
             /\ ~Removes(event[h]) => /\ pc[h] = "done" /\ row # Null
                                      /\ row.value = event[h].value
             /\ Removes(event[h]) /\ pc[h] = "done" /\ row # Null =>
                    row.time # NoTime /\ row.time >= before[h]

OrderInv == HistoryInv /\ TruthInv /\ RowInv

(* No event has come, and no row is there. *)
LEMMA OrderInit == Init => OrderInv
  BY DEF Init, OrderInv, HistoryInv, TruthInv, RowInv, Off

(* An event that tells of the phones as they are becomes the last event. *)
LEMMA DispatchOrder ==
    ASSUME Inv, OrderInv, NEW h \in Handlers, NEW kind \in Kinds, NEW t \in Times \cup {NoTime},
           NEW v \in Expirations \cup {Off}, Dispatch(h, kind, t, v),
           truth'.value = Off <=> \/ Removes([kind |-> kind, time |-> t, value |-> v])
                                  \/ kind = "message" /\ v = Off,
           kind \in {"changed", "message"} => v = truth'.value,
           kind = "history" => v = Off
    PROVE  OrderInv'
  <1> DEFINE e == [kind |-> kind, time |-> t, value |-> v]
  <1>1. /\ event' = [event EXCEPT ![h] = e] /\ pc' = [pc EXCEPT ![h] = "start"]
        /\ came' = Append(came, h) /\ row' = row /\ ran' = ran /\ before' = before
        /\ pc[h] = "new"
    BY DEF Dispatch
  <1>2. /\ event \in [Handlers -> Events \cup {Null}]
        /\ pc \in [Handlers -> {"new", "start", "get", "delete", "done"}]
    BY DEF Inv, FieldInv, TypeOK
  <1>3. /\ came \in Seq(Handlers) /\ ran \in Seq(Handlers)
        /\ \A k \in DOMAIN came : pc[came[k]] # "new"
        /\ \A k \in DOMAIN ran : pc[ran[k]] \notin {"new", "start"} /\ ran[k] \in Handlers
        /\ \A g \in Handlers : pc[g] \notin {"new", "start"} => \E k \in DOMAIN ran : ran[k] = g
    BY DEF OrderInv, HistoryInv
  <1>4. /\ came' \in Seq(Handlers) /\ Len(came') = Len(came) + 1 /\ came' # <<>>
        /\ came'[Len(came')] = h /\ event'[h] = e
        /\ DOMAIN came' = 1..Len(came) + 1
        /\ \A k \in DOMAIN came : came'[k] = came[k]
    <2>1. came \in Seq(Handlers) /\ came' = Append(came, h)
      BY <1>1, <1>3
    <2>2. event'[h] = e
      BY <1>1, <1>2
    <2> HIDE DEF e
    <2> QED BY <2>1, <2>2
  <1>5. \A k \in DOMAIN ran : ran[k] # h
    BY <1>1, <1>3
  <1>6. HistoryInv'
    BY <1>1, <1>2, <1>3, <1>4, <1>5 DEF HistoryInv
  <1>7. TruthInv'
    BY <1>4 DEF TruthInv
  <1>8. RowInv'
    <2>1. ASSUME ran # <<>>
          PROVE  /\ ran[Len(ran)] \in Handlers \ {h}
                 /\ event'[ran[Len(ran)]] = event[ran[Len(ran)]]
                 /\ pc'[ran[Len(ran)]] = pc[ran[Len(ran)]]
      BY <2>1, <1>1, <1>2, <1>3, <1>5
    <2> QED BY <2>1, <1>1, <1>2 DEF RowInv, OrderInv
  <1> QED BY <1>6, <1>7, <1>8 DEF OrderInv

(* A handler that begins is the last one in the history of those that have. *)
LEMMA BeginsOrder ==
    ASSUME Inv, OrderInv, NEW h \in Handlers, Begins(h), NEW s \in {"get", "done"},
           pc' = [pc EXCEPT ![h] = s], UNCHANGED <<truth, came, event>>
    PROVE  /\ HistoryInv' /\ TruthInv'
           /\ ran' # <<>> /\ ran'[Len(ran')] = h
  <1>1. /\ pc[h] = "start" /\ ran' = Append(ran, h)
        /\ pc \in [Handlers -> {"new", "start", "get", "delete", "done"}]
    BY DEF Begins, Inv, TypeOK
  <1>2. /\ came \in Seq(Handlers) /\ ran \in Seq(Handlers)
        /\ \A k \in DOMAIN came : pc[came[k]] # "new" /\ came[k] \in Handlers
        /\ \A k \in DOMAIN ran : pc[ran[k]] \notin {"new", "start"} /\ ran[k] \in Handlers
        /\ \A g \in Handlers : pc[g] \notin {"new", "start"} => \E k \in DOMAIN ran : ran[k] = g
    BY DEF OrderInv, HistoryInv
  <1>3. /\ ran' \in Seq(Handlers) /\ ran' # <<>> /\ ran'[Len(ran')] = h
        /\ DOMAIN ran' = 1..Len(ran) + 1 /\ Len(ran) + 1 \in DOMAIN ran'
        /\ ran'[Len(ran) + 1] = h /\ DOMAIN ran = 1..Len(ran)
        /\ \A k \in DOMAIN ran : ran'[k] = ran[k] /\ k \in DOMAIN ran'
    BY <1>1, <1>2
  <1>4. \A k \in DOMAIN ran' : pc'[ran'[k]] \notin {"new", "start"}
    BY <1>1, <1>2, <1>3
  <1>5. \A g \in Handlers : pc'[g] \notin {"new", "start"} => \E k \in DOMAIN ran' : ran'[k] = g
    <2> SUFFICES ASSUME NEW g \in Handlers, pc'[g] \notin {"new", "start"}
                 PROVE  \E k \in DOMAIN ran' : ran'[k] = g
      OBVIOUS
    <2>1. CASE g = h
      BY <2>1, <1>3
    <2>2. CASE g # h
      BY <2>2, <1>1, <1>2, <1>3
    <2> QED BY <2>1, <2>2
  <1>6. HistoryInv'
    BY <1>1, <1>2, <1>3, <1>4, <1>5 DEF HistoryInv
  <1>7. TruthInv'
    BY DEF TruthInv, OrderInv
  <1> QED BY <1>3, <1>6, <1>7

(* A step of a removal that has begun changes no history. *)
LEMMA RemovalOrder ==
    ASSUME Inv, OrderInv, NEW h \in Handlers, pc[h] \in {"get", "delete"}, NEW s \in {"delete", "done"},
           pc' = [pc EXCEPT ![h] = s], UNCHANGED <<truth, came, ran, event, before>>
    PROVE  HistoryInv' /\ TruthInv'
  <1>1. /\ pc \in [Handlers -> {"new", "start", "get", "delete", "done"}]
        /\ came \in Seq(Handlers) /\ ran \in Seq(Handlers)
        /\ \A k \in DOMAIN came : pc[came[k]] # "new" /\ came[k] \in Handlers
        /\ \A k \in DOMAIN ran : pc[ran[k]] \notin {"new", "start"} /\ ran[k] \in Handlers
        /\ \A g \in Handlers : pc[g] \notin {"new", "start"} => \E k \in DOMAIN ran : ran[k] = g
    BY DEF Inv, TypeOK, OrderInv, HistoryInv
  <1> QED BY <1>1 DEF HistoryInv, TruthInv, OrderInv

(* Every step keeps the order: what an event tells is what the phones say, and
   what the last handler to begin has done to the row is not undone by another. *)
LEMMA OrderNext == Inv /\ OrderInv /\ [Next]_vars => OrderInv'
  <1> SUFFICES ASSUME Inv, OrderInv, [Next]_vars PROVE OrderInv'
    OBVIOUS
  <1> USE ScopeAssumption
  <1>t. /\ truth.value \in Expirations \cup {Off} /\ clock \in Times
        /\ pc \in [Handlers -> {"new", "start", "get", "delete", "done"}]
        /\ \A h \in Handlers : pc[h] # "new" => event[h] \in Events
        /\ before \in [Handlers -> Times \cup {NoTime}]
        /\ row \in Settings \cup {Null}
    BY DEF Inv, TypeOK, FieldInv, Settings
  <1>1. CASE UNCHANGED <<truth, row, came, ran, pc, event, before>>
    BY <1>1 DEF OrderInv, HistoryInv, TruthInv, RowInv
  <1>2. ASSUME NEW h \in Handlers, NEW v \in Expirations \cup {Off}, Change(h, v) PROVE OrderInv'
    <2>1. Dispatch(h, "changed", clock, v) /\ truth'.value = v
      BY <1>2 DEF Change
    <2>2. truth'.value = Off <=> Removes([kind |-> "changed", time |-> clock, value |-> v])
      BY <2>1 DEF Removes
    <2> QED BY <1>t, <2>1, <2>2, DispatchOrder DEF Kinds
  <1>3. ASSUME NEW h \in Handlers, NEW t \in Times \cup {NoTime}, Message(h, t) PROVE OrderInv'
    <2>1. Dispatch(h, "message", t, truth.value) /\ truth' = truth
      BY <1>3 DEF Message
    <2>2. ~Removes([kind |-> "message", time |-> t, value |-> truth.value])
      BY DEF Removes
    <2> QED BY <1>t, <2>1, <2>2, DispatchOrder DEF Kinds
  <1>4. ASSUME NEW h \in Handlers, NEW t \in Times \cup {NoTime}, Conversation(h, t) PROVE OrderInv'
    <2>1. Dispatch(h, "history", t, Off) /\ truth' = truth /\ truth.value # Off
      BY <1>4 DEF Conversation
    <2>2. truth'.value = Off <=> Removes([kind |-> "history", time |-> t, value |-> Off])
      BY <2>1 DEF Removes
    <2> QED BY <1>t, <2>1, <2>2, DispatchOrder DEF Kinds
  <1>5. ASSUME NEW h \in Handlers, DeleteChat(h) PROVE OrderInv'
    <2>1. Dispatch(h, "deleteChat", clock, Off) /\ truth'.value = Off
      BY <1>5 DEF DeleteChat
    <2>2. truth'.value = Off <=> Removes([kind |-> "deleteChat", time |-> clock, value |-> Off])
      BY <2>1 DEF Removes
    <2> QED BY <1>t, <2>1, <2>2, DispatchOrder DEF Kinds
  <1>6. ASSUME NEW h \in Handlers, UpdateChatEphemeralSetting(h) PROVE OrderInv'
    <2>1. /\ Begins(h) /\ ~Removes(event[h]) /\ pc' = [pc EXCEPT ![h] = "done"]
          /\ UNCHANGED <<truth, came, event, before>>
          /\ row' = [time |-> event[h].time, value |-> event[h].value]
      BY <1>6 DEF UpdateChatEphemeralSetting
    <2>2. HistoryInv' /\ TruthInv' /\ ran' # <<>> /\ ran'[Len(ran')] = h
      BY <2>1, BeginsOrder
    <2>3. row' # Null /\ row'.value = event[h].value
      <3>1. event[h].time \in Times \cup {NoTime} /\ event[h].value \in Expirations \cup {Off}
        BY <1>t, <2>1 DEF Begins, Events
      <3> QED BY <2>1, <3>1 DEF Times
    <2>4. Serial => \A o \in Handlers : pc'[o] \notin {"get", "delete"}
      BY <1>t, <2>1 DEF Begins
    <2>5. RowInv'
      BY <1>t, <2>1, <2>2, <2>3, <2>4 DEF RowInv
    <2> QED BY <2>2, <2>5 DEF OrderInv
  <1>7. ASSUME NEW h \in Handlers, CallDelete(h) PROVE OrderInv'
    <2>1. /\ Begins(h) /\ Removes(event[h]) /\ pc' = [pc EXCEPT ![h] = "get"]
          /\ UNCHANGED <<truth, came, event>>
      BY <1>7 DEF CallDelete
    <2>2. HistoryInv' /\ TruthInv' /\ ran' # <<>> /\ ran'[Len(ran')] = h
      BY <2>1, BeginsOrder
    <2>4. Serial => \A o \in Handlers : pc'[o] \in {"get", "delete"} => o = h
      BY <1>t, <2>1 DEF Begins
    <2>5. RowInv'
      BY <1>t, <2>1, <2>2, <2>4 DEF RowInv
    <2> QED BY <2>2, <2>5 DEF OrderInv
  <1>8. ASSUME NEW h \in Handlers, GetSetting(h) PROVE OrderInv'
    <2>1. /\ pc[h] = "get" /\ pc' = [pc EXCEPT ![h] = IF MayGo(h) THEN "delete" ELSE "done"]
          /\ UNCHANGED <<truth, row, came, ran, event, before>>
      BY <1>8 DEF GetSetting
    <2>2. HistoryInv' /\ TruthInv'
      BY <2>1, RemovalOrder
    <2>3. RowInv'
      <3> SUFFICES ASSUME Serial PROVE RowInv'
        BY DEF RowInv
      <3> DEFINE l == ran[Len(ran)]
      <3>1. /\ ran # <<>> /\ l = h
            /\ \A o \in Handlers : pc[o] \in {"get", "delete"} => o = h
            /\ Removes(event[h])
        BY <2>1 DEF OrderInv, RowInv, HistoryInv
      <3>2. pc'[h] = "done" /\ row # Null => row.time # NoTime /\ row.time >= before[h]
        BY <1>t, <2>1 DEF MayGo, Settings, Times, NoTime
      <3> QED BY <1>t, <2>1, <3>1, <3>2 DEF RowInv
    <2> QED BY <2>2, <2>3 DEF OrderInv
  <1>9. ASSUME NEW h \in Handlers, DeleteById(h) PROVE OrderInv'
    <2>1. /\ pc[h] = "delete" /\ pc' = [pc EXCEPT ![h] = "done"] /\ row' = Null
          /\ UNCHANGED <<truth, came, ran, event, before>>
      BY <1>9 DEF DeleteById
    <2>2. HistoryInv' /\ TruthInv'
      BY <2>1, RemovalOrder
    <2>3. RowInv'
      <3> SUFFICES ASSUME Serial PROVE RowInv'
        BY DEF RowInv
      <3> DEFINE l == ran[Len(ran)]
      <3>1. /\ ran # <<>> /\ l = h
            /\ \A o \in Handlers : pc[o] \in {"get", "delete"} => o = h
            /\ Removes(event[h])
        BY <2>1 DEF OrderInv, RowInv, HistoryInv
      <3> QED BY <1>t, <2>1, <3>1 DEF RowInv
    <2> QED BY <2>2, <2>3 DEF OrderInv
  <1>10. CASE Tick
    BY <1>1, <1>10 DEF Tick
  <1>11. CASE UNCHANGED vars
    BY <1>1, <1>11 DEF vars
  <1> HIDE DEF OrderInv
  <1> QED BY <1>2, <1>3, <1>4, <1>5, <1>6, <1>7, <1>8, <1>9, <1>10, <1>11 DEF Next

(* Handled in their order and without overlap, the events leave the setting of
   the chat in the row, with the three exceptions InOrderIsTruth names.     *)
THEOREM OrderedIsTruth == Spec => []InOrderIsTruth
  <1>1. ASSUME Inv, OrderInv PROVE InOrderIsTruth
    <2> SUFFICES ASSUME Serial, Quiet, ran = came PROVE InOrderIsTruth
      BY DEF InOrderIsTruth
    <2> DEFINE h == came[Len(came)]
    <2>1. CASE came = <<>>
      BY <1>1, <2>1 DEF OrderInv, TruthInv, RowInv, InOrderIsTruth
    <2>2. CASE came # <<>>
      <3>1. h \in Handlers /\ pc[h] = "done"
        BY <1>1, <2>2 DEF OrderInv, HistoryInv, Quiet
      <3>2. /\ truth.value = Off <=> \/ Removes(event[h])
                                     \/ event[h].kind = "message" /\ event[h].value = Off
            /\ event[h].kind \in {"changed", "message"} => event[h].value = truth.value
            /\ event[h].kind = "history" => event[h].value = Off
        BY <1>1, <2>2 DEF OrderInv, TruthInv
      <3>3. /\ ~Removes(event[h]) => row # Null /\ row.value = event[h].value
            /\ Removes(event[h]) /\ row # Null => row.time # NoTime /\ row.time >= before[h]
        BY <1>1, <2>2, <3>1 DEF OrderInv, RowInv
      <3>4. event[h].kind \in Kinds
        BY <1>1, <3>1 DEF Inv, FieldInv, Events
      <3> HIDE DEF h
      <3> QED BY <3>1, <3>2, <3>3, <3>4 DEF InOrderIsTruth, Kinds, Removes
    <2> QED BY <2>1, <2>2
  <1> QED BY <1>1, Invariance, OrderInit, InvNext, OrderNext, PTL DEF Spec
=============================================================================

------------------------------ MODULE PartsProofs ------------------------------
(***************************************************************************)
(* Labels: a client that asks for the labels of a chat gets labels, for    *)
(* any number of labels, chats and handlers and whatever fails.  The       *)
(* database keeps its foreign key, and the reader in between two SELECTs   *)
(* loses a label only by a deletion that comes in between.                 *)
(*                                                                         *)
(* Lists: a client that reads page by page misses nothing that stays, the  *)
(* chat list shows the newest message of a chat, and contacts and database *)
(* cut the same pages, for any tables and sizes that fit an integer.       *)
(***************************************************************************)
EXTENDS Parts, FiniteSetTheorems, TLAPS

\* What a handler is at, it has the event for.
HandlerInv ==
    /\ pc \in [Handlers -> {"new", "ignored", "edit", "delete", "add", "remove",
                            "insert", "done", "refused", "failed"}]
    /\ event \in [Handlers -> Events \cup {Null}]
    /\ \A h \in Handlers :
          /\ pc[h] \in {"edit", "delete", "remove"} => event[h] \in Events /\ event[h].kind = pc[h]
          /\ pc[h] \in {"add", "insert"} => event[h] \in Events /\ event[h].kind = "add"

PhonesInv ==
    /\ shown \in [LabelIds -> Names \cup {Null}]
    /\ labeled \subseteq Chats \X LabelIds

\* The foreign key of migration 006, and its ON DELETE CASCADE.
ReferenceInv ==
    /\ label \in [LabelIds -> Names \cup {Null}]
    /\ assoc \subseteq Chats \X LabelIds
    /\ \A p \in assoc : label[p[2]] # Null

\* A label that was there at the first SELECT is still there, or went since.
ReaderInv ==
    /\ answer \in [pc : {"idle", "labels", "done"}, ids : SUBSET LabelIds,
                   gone : SUBSET LabelIds, failed : BOOLEAN, nulls : SUBSET LabelIds]
    /\ answer.pc = "labels" =>
          /\ answer.nulls = {}
          /\ \A l \in answer.ids : label[l] # Null \/ l \in answer.gone

Inv == HandlerInv /\ PhonesInv /\ ReferenceInv /\ ReaderInv /\ AnswersAreLabels

-----------------------------------------------------------------------------
(* Nothing is labeled and nobody asks. *)
LEMMA InvInit == Init => Inv
  BY DEF Init, Idle, Inv, HandlerInv, PhonesInv, ReferenceInv, ReaderInv, AnswersAreLabels

(* An event starts a handler. *)
LEMMA DispatchKeeps ==
    ASSUME Inv, NEW h \in Handlers, NEW e \in Events, handleEvent(h, e), PhonesInv'
    PROVE  Inv'
  <1>1. /\ pc' = [pc EXCEPT ![h] = IF OfChat(e) /\ e.chat \in Ignored THEN "ignored" ELSE e.kind]
        /\ event' = [event EXCEPT ![h] = e]
        /\ UNCHANGED <<label, assoc, answer>>
    BY DEF handleEvent, tables
  <1>2. e.kind \in {"edit", "delete", "add", "remove"}
    BY DEF Events
  <1>3. HandlerInv'
    BY <1>1, <1>2 DEF Inv, HandlerInv
  <1>4. ReferenceInv' /\ ReaderInv' /\ AnswersAreLabels'
    BY <1>1 DEF Inv, ReferenceInv, ReaderInv, AnswersAreLabels
  <1> QED BY <1>3, <1>4 DEF Inv

(* Whatever a phone does arrives as an event. *)
LEMMA PhoneKeeps ==
    ASSUME Inv, NEW h \in Handlers, NEW l \in LabelIds,
           \/ \E n \in Names : UpsertLabel(h, l, n)
           \/ DeleteLabel(h, l)
           \/ \E c \in Chats : AddChatLabel(h, c, l) \/ RemoveChatLabel(h, c, l)
    PROVE  Inv'
  <1>1. ASSUME NEW n \in Names, UpsertLabel(h, l, n) PROVE Inv'
    <2>1. [kind |-> "edit", id |-> l, name |-> n] \in Events
      BY DEF Events
    <2>2. PhonesInv'
      BY <1>1 DEF UpsertLabel, Inv, PhonesInv
    <2> QED BY <1>1, <2>1, <2>2, DispatchKeeps DEF UpsertLabel
  <1>2. ASSUME DeleteLabel(h, l) PROVE Inv'
    <2>1. [kind |-> "delete", id |-> l] \in Events
      BY DEF Events
    <2>2. PhonesInv'
      BY <1>2 DEF DeleteLabel, Inv, PhonesInv
    <2> QED BY <1>2, <2>1, <2>2, DispatchKeeps DEF DeleteLabel
  <1>3. ASSUME NEW c \in Chats, AddChatLabel(h, c, l) PROVE Inv'
    <2>1. [kind |-> "add", chat |-> c, id |-> l] \in Events
      BY DEF Events
    <2>2. PhonesInv'
      BY <1>3 DEF AddChatLabel, Inv, PhonesInv
    <2> QED BY <1>3, <2>1, <2>2, DispatchKeeps DEF AddChatLabel
  <1>4. ASSUME NEW c \in Chats, RemoveChatLabel(h, c, l) PROVE Inv'
    <2>1. [kind |-> "remove", chat |-> c, id |-> l] \in Events
      BY DEF Events
    <2>2. PhonesInv'
      BY <1>4 DEF RemoveChatLabel, Inv, PhonesInv
    <2> QED BY <1>4, <2>1, <2>2, DispatchKeeps DEF RemoveChatLabel
  <1> QED BY <1>1, <1>2, <1>3, <1>4

(* A full sync tells what the phones show. *)
LEMMA FullSyncKeeps == ASSUME Inv, NEW h \in Handlers, FullSync(h) PROVE Inv'
  <1>1. PhonesInv'
    BY DEF FullSync, phones, Inv, PhonesInv
  <1>2. ASSUME NEW l \in LabelIds, shown[l] # Null,
               handleEvent(h, [kind |-> "edit", id |-> l, name |-> shown[l]])
        PROVE  Inv'
    <2>1. [kind |-> "edit", id |-> l, name |-> shown[l]] \in Events
      BY <1>2 DEF Inv, PhonesInv, Events
    <2> QED BY <1>1, <1>2, <2>1, DispatchKeeps
  <1>3. ASSUME NEW p \in labeled, handleEvent(h, [kind |-> "add", chat |-> p[1], id |-> p[2]])
        PROVE  Inv'
    <2>1. [kind |-> "add", chat |-> p[1], id |-> p[2]] \in Events
      BY DEF Inv, PhonesInv, Events
    <2> QED BY <1>1, <1>3, <2>1, DispatchKeeps
  <1> QED BY <1>2, <1>3 DEF FullSync

(* The statements of the handlers keep the foreign key. *)
LEMMA WriteKeeps ==
    ASSUME Inv, NEW h \in Handlers,
           \/ EditRow(h) \/ DeleteRow(h) \/ AddAssociation(h) \/ RemoveAssociation(h)
           \/ WriteFails(h) \/ GetLabelById(h)
    PROVE  Inv'
  <1> USE LabelsAssumption
  <1>1. PhonesInv' /\ HandlerInv'
    <2>1. UNCHANGED <<shown, labeled, event>>
      BY DEF EditRow, DeleteRow, AddAssociation, RemoveAssociation, WriteFails, GetLabelById,
             Writes, phones
    <2>2. \E s \in {"add", "insert", "done", "refused", "failed"} :
             pc' = [pc EXCEPT ![h] = s] /\ (s \in {"add", "insert"} => pc[h] = "add")
      BY DEF EditRow, DeleteRow, AddAssociation, RemoveAssociation, WriteFails, GetLabelById,
             Writes, MayRetry
    <2>3. PhonesInv'
      BY <2>1 DEF Inv, PhonesInv
    <2>4. HandlerInv'
      BY <2>1, <2>2 DEF Inv, HandlerInv
    <2> QED BY <2>3, <2>4
  <1> DEFINE e == event[h]
  <1> DEFINE Good == ReferenceInv' /\ ReaderInv' /\ AnswersAreLabels'
  <1> USE DEF ReferenceInv, ReaderInv, AnswersAreLabels
  <1>2. ASSUME EditRow(h) PROVE Good
    <2>1. e.id \in LabelIds /\ e.name \in Names
      BY <1>2 DEF EditRow, Writes, Inv, HandlerInv, Events
    <2>2. label' = [label EXCEPT ![e.id] = e.name] /\ UNCHANGED <<assoc, answer>>
      BY <1>2 DEF EditRow
    <2> QED BY <2>1, <2>2 DEF Inv
  <1>3. ASSUME DeleteRow(h) PROVE Good
    <2>1. e.id \in LabelIds
      BY <1>3 DEF DeleteRow, Writes, Inv, HandlerInv, Events
    <2>2. /\ label' = [label EXCEPT ![e.id] = Null]
          /\ assoc' = {p \in assoc : p[2] # e.id}
          /\ answer' = IF answer.pc = "labels"
                       THEN [answer EXCEPT !.gone = answer.gone \cup {e.id}] ELSE answer
      BY <1>3 DEF DeleteRow, Cascade, Forget
    <2>3. ReferenceInv'
      BY <2>1, <2>2 DEF Inv
    <2>4. ReaderInv' /\ AnswersAreLabels'
      BY <2>1, <2>2 DEF Inv
    <2> QED BY <2>3, <2>4
  <1>4. ASSUME AddAssociation(h) PROVE Good
    <2>1. e.id \in LabelIds /\ e.chat \in Chats
      BY <1>4 DEF AddAssociation, Writes, Inv, HandlerInv, Events
    <2>2. /\ assoc' = IF label[e.id] # Null THEN assoc \cup {<<e.chat, e.id>>} ELSE assoc
          /\ UNCHANGED <<label, answer>>
      BY <1>4 DEF AddAssociation, HasLabel
    <2> QED BY <2>1, <2>2 DEF Inv
  <1>5. ASSUME RemoveAssociation(h) PROVE Good
    BY <1>5 DEF RemoveAssociation, Inv
  <1>6. ASSUME WriteFails(h) \/ GetLabelById(h) PROVE Good
    BY <1>6 DEF WriteFails, GetLabelById, tables, Inv
  <1> QED BY <1>1, <1>2, <1>3, <1>4, <1>5, <1>6 DEF Inv

(* Whoever reads finds in the first table only labels that are in the second,
   and knows of those that go before the second SELECT.                    *)
LEMMA ReadKeeps ==
    ASSUME Inv,
           \/ \E c \in Chats : GetLabelIDsByJID(c)
           \/ \E failed \in BOOLEAN : GetAllLabels(failed)
           \/ Reply
    PROVE  Inv'
  <1>1. UNCHANGED <<shown, labeled, label, assoc, pc, event>>
    BY DEF GetLabelIDsByJID, GetAllLabels, Reply, phones, tables
  <1>2. HandlerInv' /\ PhonesInv' /\ ReferenceInv'
    BY <1>1 DEF Inv, HandlerInv, PhonesInv, ReferenceInv
  <1> USE DEF Inv, ReaderInv, ReferenceInv, AnswersAreLabels, Idle
  <1>3. ASSUME NEW c \in Chats, GetLabelIDsByJID(c) PROVE ReaderInv' /\ AnswersAreLabels'
    BY <1>1, <1>3 DEF GetLabelIDsByJID
  <1>4. ASSUME NEW failed \in BOOLEAN, GetAllLabels(failed) PROVE ReaderInv' /\ AnswersAreLabels'
    BY <1>1, <1>4 DEF GetAllLabels
  <1>5. ASSUME Reply PROVE ReaderInv' /\ AnswersAreLabels'
    BY <1>1, <1>5 DEF Reply
  <1> QED BY <1>2, <1>3, <1>4, <1>5

(* Every step keeps the invariant. *)
LEMMA InvNext == Inv /\ [Next]_vars => Inv'
  <1> SUFFICES ASSUME Inv, [Next]_vars PROVE Inv'
    OBVIOUS
  <1>1. CASE UNCHANGED vars
    BY <1>1 DEF vars, phones, tables, Inv, HandlerInv, PhonesInv, ReferenceInv, ReaderInv,
                AnswersAreLabels
  <1> QED BY <1>1, PhoneKeeps, FullSyncKeeps, WriteKeeps, ReadKeeps DEF Next

(* The inductive invariant of the labels. *)
THEOREM Invariance == Spec => []Inv
  <1> QED BY InvInit, InvNext, PTL DEF Spec

(* A null among the labels of a chat means that the label was deleted during the
   request, or that the second SELECT failed.                              *)
THEOREM OnlyLabelsAnswered == Spec => []AnswersAreLabels
  <1> QED BY Invariance, PTL DEF Inv

-----------------------------------------------------------------------------
(***************************************************************************)
(* Once all is handled the tables show what the phones do, as far as the   *)
(* events about a label, or a chat and a label, were written in their      *)
(* order: the phones show what the last event told, the tables what the    *)
(* last handler wrote, and in the same order the last is the same.         *)
(***************************************************************************)
\* A handler is in the one history since its event came, in the other since it
\* wrote, and in each once.
HistoryInv ==
    /\ came \in Seq(Handlers) /\ ran \in Seq(Handlers)
    /\ \A i, j \in DOMAIN came : came[i] = came[j] => i = j
    /\ \A i, j \in DOMAIN ran : ran[i] = ran[j] => i = j
    /\ \A h \in Handlers : pc[h] # "new" <=> \E i \in DOMAIN came : came[i] = h
    /\ \A h \in Handlers : pc[h] \in {"done", "refused", "failed"} <=> \E i \in DOMAIN ran : ran[i] = h

\* Only an association is ignored, and only an addition is refused.
EndInv ==
    \A h \in Handlers :
        /\ pc[h] # "new" => event[h] \in Events
        /\ pc[h] = "ignored" => OfChat(event[h]) /\ event[h].chat \in Ignored
        /\ pc[h] = "refused" => event[h].kind = "add"

\* The last handler of hs in a history.
LastOf(s, hs, h) ==
    h \in hs /\ \E j \in DOMAIN s : s[j] = h /\ \A i \in DOMAIN s : s[i] \in hs => i <= j

NameTold(h) == IF event[h].kind = "edit" THEN event[h].name ELSE Null

\* The phones show what the last event told.
PhonesTold ==
    /\ \A l \in LabelIds :
          IF Deciding(l) = {} THEN shown[l] = Null
          ELSE \E h \in Deciding(l) : LastOf(came, Deciding(l), h) /\ shown[l] = NameTold(h)
    /\ \A p \in Chats \X LabelIds :
          IF DecidingPair(p) = {} THEN p \notin labeled
          ELSE \E h \in DecidingPair(p) :
                  LastOf(came, DecidingPair(p), h) /\ (p \in labeled <=> event[h].kind = "add")

\* The tables show what the last handler wrote that did not fail.
Wrote(hs) == {h \in hs : pc[h] \in {"done", "refused"}}

TablesTold ==
    /\ \A l \in LabelIds :
          LET hs == Wrote(Deciding(l)) IN
          IF hs = {} THEN label[l] = Null
          ELSE \E h \in hs : LastOf(ran, hs, h) /\ label[l] = NameTold(h)
    /\ \A p \in Chats \X LabelIds :
          LET hs == Wrote(DecidingPair(p)) IN
          IF hs = {} THEN p \notin assoc
          ELSE \E h \in hs : /\ LastOf(ran, hs, h)
                             /\ p \in assoc <=> event[h].kind = "add" /\ pc[h] = "done"

\* A handler goes on to its insert with the label, or out of attempts.
Excused(h) == \/ tries[h] = Attempts
              \/ \E d \in Handlers : pc[d] = "done" /\ Told(d, {"delete"}, event[h].id)

RetryInv ==
    /\ tries \in [Handlers -> 0..Attempts]
    /\ \A h \in Handlers :
          /\ pc[h] \in {"new", "edit", "delete", "add", "remove"} => tries[h] < Attempts
          /\ pc[h] = "insert" => label[event[h].id] # Null \/ Excused(h)
          /\ pc[h] = "refused" => Excused(h)

OrderInv == HistoryInv /\ EndInv /\ PhonesTold /\ TablesTold /\ RetryInv

(* Whoever is appended to a history is the last of any set it is in. *)
LEMMA LastAdded ==
    ASSUME NEW S, NEW s \in Seq(S), NEW h \in S, NEW hs, h \in hs
    PROVE  LastOf(Append(s, h), hs, h)
  <1>1. /\ DOMAIN Append(s, h) = 1..Len(s) + 1 /\ Append(s, h)[Len(s) + 1] = h
        /\ Len(s) + 1 \in DOMAIN Append(s, h) /\ Len(s) \in Nat
    OBVIOUS
  <1>2. \A i \in 1..Len(s) + 1 : i <= Len(s) + 1
    BY <1>1
  <1> HIDE DEF LastOf
  <1> QED BY <1>1, <1>2 DEF LastOf

(* Whoever is appended to a history leaves the last of other sets the last. *)
LEMMA LastKept ==
    ASSUME NEW S, NEW s \in Seq(S), NEW h \in S, NEW hs, h \notin hs, NEW g, LastOf(s, hs, g)
    PROVE  LastOf(Append(s, h), hs, g)
  <1>1. PICK j \in DOMAIN s : s[j] = g /\ \A i \in DOMAIN s : s[i] \in hs => i <= j
    BY DEF LastOf
  <1>2. /\ DOMAIN Append(s, h) = 1..Len(s) + 1 /\ Append(s, h)[Len(s) + 1] = h
        /\ DOMAIN s = 1..Len(s) /\ Len(s) \in Nat
        /\ \A i \in 1..Len(s) : Append(s, h)[i] = s[i]
    OBVIOUS
  <1>3. ASSUME NEW i \in DOMAIN Append(s, h), Append(s, h)[i] \in hs PROVE i <= j
    <2>1. i # Len(s) + 1
      BY <1>2, <1>3
    <2>2. i \in 1..Len(s)
      BY <1>2, <1>3, <2>1
    <2> QED BY <1>1, <1>2, <1>3, <2>2
  <1>4. j \in DOMAIN Append(s, h) /\ Append(s, h)[j] = g
    BY <1>1, <1>2
  <1> QED BY <1>3, <1>4 DEF LastOf

(* Two histories that name every one of hs once, and in the same order, have the
   same last of them.                                                      *)
LEMMA SameLast ==
    ASSUME NEW S, NEW s \in Seq(S), NEW t \in Seq(S), NEW hs,
           \A i, j \in DOMAIN t : t[i] = t[j] => i = j,
           \A h \in hs : \E i \in DOMAIN s : s[i] = h,
           \A g, h \in hs : Before(s, g, h) => Before(t, g, h),
           NEW a, NEW b, LastOf(s, hs, a), LastOf(t, hs, b)
    PROVE  a = b
  <1> SUFFICES ASSUME a # b PROVE FALSE
    OBVIOUS
  <1>1. PICK j \in DOMAIN s : s[j] = a /\ \A i \in DOMAIN s : s[i] \in hs => i <= j
    BY DEF LastOf
  <1>2. PICK i \in DOMAIN s : s[i] = b
    BY DEF LastOf
  <1>3. a \in hs /\ b \in hs
    BY DEF LastOf
  <1>4. i \in Int /\ j \in Int /\ i <= j /\ i # j
    BY <1>1, <1>2, <1>3
  <1>5. Before(t, b, a)
    <2>1. i < j
      BY <1>4
    <2>2. Before(s, b, a)
      BY <1>1, <1>2, <2>1, Zenon DEF Before
    <2> QED BY <1>3, <2>2
  <1>6. PICK m, n \in DOMAIN t : m < n /\ t[m] = b /\ t[n] = a
    BY <1>5, Zenon DEF Before
  <1>7. PICK k \in DOMAIN t : t[k] = b /\ \A l \in DOMAIN t : t[l] \in hs => l <= k
    BY DEF LastOf
  <1>8. m = k /\ n <= k
    BY <1>3, <1>6, <1>7
  <1> QED BY <1>6, <1>8

(* Nothing is told and nothing written. *)
LEMMA OrderInit == Init => OrderInv
  <1> SUFFICES ASSUME Init PROVE OrderInv
    OBVIOUS
  <1>1. /\ pc = [h \in Handlers |-> "new"] /\ came = <<>> /\ ran = <<>>
        /\ tries = [h \in Handlers |-> 0]
        /\ shown = [l \in LabelIds |-> Null] /\ labeled = {}
        /\ label = [l \in LabelIds |-> Null] /\ assoc = {}
    BY DEF Init
  <1>2. /\ \A l \in LabelIds : Deciding(l) = {} /\ Wrote(Deciding(l)) = {}
        /\ \A p \in Chats \X LabelIds : DecidingPair(p) = {} /\ Wrote(DecidingPair(p)) = {}
    BY <1>1 DEF Deciding, DecidingPair, Told, Wrote
  <1>3. HistoryInv /\ EndInv
    BY <1>1 DEF HistoryInv, EndInv
  <1>4. PhonesTold /\ TablesTold
    BY <1>1, <1>2, Zenon DEF PhonesTold, TablesTold
  <1>5. RetryInv
    BY <1>1, LabelsAssumption DEF RetryInv
  <1> QED BY <1>3, <1>4, <1>5 DEF OrderInv

(* An event tells of the labels and pairs it decides, and of no other. *)
TellsAll(h, e) ==
    /\ \A l \in LabelIds :
          IF e.kind \in {"edit", "delete"} /\ e.id = l
          THEN shown'[l] = IF e.kind = "edit" THEN e.name ELSE Null
          ELSE shown'[l] = shown[l]
    /\ \A p \in Chats \X LabelIds :
          IF \/ e.kind = "delete" /\ e.id = p[2]
             \/ e.kind \in {"add", "remove"} /\ e.id = p[2] /\ e.chat = p[1]
          THEN p \in labeled' <=> e.kind = "add"
          ELSE p \in labeled' <=> p \in labeled

(* A new event is the last one, and the phones show what it tells. *)
LEMMA DispatchOrder ==
    ASSUME Inv, OrderInv, NEW h \in Handlers, NEW e \in Events, handleEvent(h, e), TellsAll(h, e)
    PROVE  OrderInv'
  <1> DEFINE s == IF OfChat(e) /\ e.chat \in Ignored THEN "ignored" ELSE e.kind
  <1>1. /\ pc[h] = "new" /\ pc' = [pc EXCEPT ![h] = s]
        /\ event' = [event EXCEPT ![h] = e] /\ came' = Append(came, h)
        /\ UNCHANGED <<label, assoc, tries, ran>>
    BY DEF handleEvent, tables
  <1>2. /\ pc \in [Handlers -> {"new", "ignored", "edit", "delete", "add", "remove",
                                "insert", "done", "refused", "failed"}]
        /\ event \in [Handlers -> Events \cup {Null}]
    BY DEF Inv, HandlerInv
  <1>3. /\ s \in {"ignored", "edit", "delete", "add", "remove"}
        /\ e.kind \in {"edit", "delete", "add", "remove"}
        /\ s = "ignored" => OfChat(e) /\ e.chat \in Ignored
    BY DEF Events
  <1> HIDE DEF s
  <1>4. /\ came \in Seq(Handlers) /\ ran \in Seq(Handlers)
        /\ \A i, j \in DOMAIN came : came[i] = came[j] => i = j
        /\ \A i, j \in DOMAIN ran : ran[i] = ran[j] => i = j
        /\ \A g \in Handlers : pc[g] # "new" <=> \E i \in DOMAIN came : came[i] = g
        /\ \A g \in Handlers : pc[g] \in {"done", "refused", "failed"} <=> \E i \in DOMAIN ran : ran[i] = g
    BY DEF OrderInv, HistoryInv
  <1>5. HistoryInv'
    <2>1. /\ came' \in Seq(Handlers) /\ DOMAIN came' = 1..Len(came) + 1
          /\ DOMAIN came = 1..Len(came) /\ Len(came) \in Nat
          /\ came'[Len(came) + 1] = h /\ \A i \in 1..Len(came) : came'[i] = came[i]
      BY <1>1, <1>4
    <2>2. \A i \in DOMAIN came : came[i] # h
      BY <1>1, <1>4
    <2>3. \A i, j \in DOMAIN came' : came'[i] = came'[j] => i = j
      BY <1>4, <2>1, <2>2
    <2>4. ASSUME NEW g \in Handlers
          PROVE  pc'[g] # "new" <=> \E i \in DOMAIN came' : came'[i] = g
      <3>1. CASE g = h
        BY <3>1, <1>1, <1>2, <1>3, <2>1
      <3>2. CASE g # h
        BY <3>2, <1>1, <1>2, <1>4, <2>1
      <3> QED BY <3>1, <3>2
    <2>5. \A g \in Handlers : pc'[g] \in {"done", "refused", "failed"} <=> \E i \in DOMAIN ran' : ran'[i] = g
      BY <1>1, <1>2, <1>3, <1>4
    <2> QED BY <1>1, <1>4, <2>1, <2>3, <2>4, <2>5 DEF HistoryInv
  <1>6. EndInv'
    BY <1>1, <1>2, <1>3 DEF EndInv, OrderInv
  <1>7. ASSUME NEW g \in Handlers, NEW kinds, NEW l
        PROVE  Told(g, kinds, l)' <=> IF g = h THEN e.kind \in kinds /\ e.id = l ELSE Told(g, kinds, l)
    BY <1>1, <1>2, <1>3 DEF Told
  <1>8. h \notin {g \in Handlers : pc[g] # "new"} /\ \A g \in Handlers \ {h} : pc'[g] = pc[g] /\ event'[g] = event[g]
    BY <1>1, <1>2
  <1>9. \A l : h \notin Deciding(l) /\ Deciding(l)' =
           IF e.kind \in {"edit", "delete"} /\ e.id = l THEN Deciding(l) \cup {h} ELSE Deciding(l)
    BY <1>1, <1>2, <1>3, <1>8 DEF Deciding, Told
  <1>10. \A q : h \notin DecidingPair(q) /\ DecidingPair(q)' =
            IF \/ e.kind = "delete" /\ e.id = q[2]
               \/ e.kind \in {"add", "remove"} /\ e.id = q[2] /\ e.chat = q[1]
            THEN DecidingPair(q) \cup {h} ELSE DecidingPair(q)
    BY <1>1, <1>2, <1>3, <1>8 DEF DecidingPair, Told
  <1>11. \A g \in Handlers \ {h} : NameTold(g)' = NameTold(g)
    BY <1>8 DEF NameTold
  <1>12. PhonesTold'
    <2>1. ASSUME NEW l \in LabelIds
          PROVE  IF Deciding(l)' = {} THEN shown'[l] = Null
                 ELSE \E g \in Deciding(l)' : LastOf(came', Deciding(l)', g) /\ shown'[l] = NameTold(g)'
      <3>1. CASE e.kind \in {"edit", "delete"} /\ e.id = l
        <4>1. h \in Deciding(l)' /\ LastOf(came', Deciding(l)', h)
          BY <3>1, <1>1, <1>4, <1>9, LastAdded
        <4>2. shown'[l] = NameTold(h)'
          BY <3>1, <1>1, <1>2 DEF TellsAll, NameTold
        <4> QED BY <4>1, <4>2
      <3>2. CASE ~(e.kind \in {"edit", "delete"} /\ e.id = l)
        <4>1. Deciding(l)' = Deciding(l) /\ h \notin Deciding(l) /\ shown'[l] = shown[l]
          BY <3>2, <1>9 DEF TellsAll
        <4>2. CASE Deciding(l) = {}
          BY <4>1, <4>2 DEF OrderInv, PhonesTold
        <4>3. ASSUME NEW g \in Deciding(l), LastOf(came, Deciding(l), g), shown[l] = NameTold(g)
              PROVE  LastOf(came', Deciding(l)', g) /\ shown'[l] = NameTold(g)'
          <5>1. LastOf(came', Deciding(l), g)
            BY <4>1, <4>3, <1>1, <1>4, LastKept
          <5>2. g \in Handlers \ {h}
            BY <4>1 DEF Deciding
          <5> QED BY <4>1, <4>3, <5>1, <5>2, <1>11
        <4> QED BY <4>1, <4>2, <4>3 DEF OrderInv, PhonesTold
      <3> QED BY <3>1, <3>2
    <2>2. ASSUME NEW q \in Chats \X LabelIds
          PROVE  IF DecidingPair(q)' = {} THEN q \notin labeled'
                 ELSE \E g \in DecidingPair(q)' :
                         LastOf(came', DecidingPair(q)', g) /\ (q \in labeled' <=> event'[g].kind = "add")
      <3> DEFINE D == \/ e.kind = "delete" /\ e.id = q[2]
                      \/ e.kind \in {"add", "remove"} /\ e.id = q[2] /\ e.chat = q[1]
      <3>1. CASE D
        <4>1. h \in DecidingPair(q)' /\ LastOf(came', DecidingPair(q)', h)
          BY <3>1, <1>1, <1>4, <1>10, LastAdded
        <4>2. q \in labeled' <=> event'[h].kind = "add"
          BY <3>1, <1>1, <1>2 DEF TellsAll
        <4> QED BY <4>1, <4>2
      <3>2. CASE ~D
        <4>1. DecidingPair(q)' = DecidingPair(q) /\ h \notin DecidingPair(q) /\ (q \in labeled' <=> q \in labeled)
          BY <3>2, <1>10 DEF TellsAll
        <4>2. CASE DecidingPair(q) = {}
          BY <4>1, <4>2 DEF OrderInv, PhonesTold
        <4>3. ASSUME NEW g \in DecidingPair(q), LastOf(came, DecidingPair(q), g),
                     q \in labeled <=> event[g].kind = "add"
              PROVE  LastOf(came', DecidingPair(q)', g) /\ (q \in labeled' <=> event'[g].kind = "add")
          <5>1. LastOf(came', DecidingPair(q), g)
            BY <4>1, <4>3, <1>1, <1>4, LastKept
          <5>2. g \in Handlers \ {h}
            BY <4>1 DEF DecidingPair
          <5> QED BY <4>1, <4>3, <5>1, <5>2, <1>8
        <4> QED BY <4>1, <4>2, <4>3 DEF OrderInv, PhonesTold
      <3> QED BY <3>1, <3>2
    <2> QED BY <2>1, <2>2 DEF PhonesTold
  <1>13. TablesTold'
    <2>1. \A l : Wrote(Deciding(l))' = Wrote(Deciding(l))
      BY <1>1, <1>2, <1>3, <1>8, <1>9 DEF Wrote, Deciding
    <2>2. \A q : Wrote(DecidingPair(q))' = Wrote(DecidingPair(q))
      BY <1>1, <1>2, <1>3, <1>8, <1>10 DEF Wrote, DecidingPair
    <2>3. ASSUME NEW l PROVE Wrote(Deciding(l)) \subseteq Handlers \ {h}
      BY <1>9 DEF Wrote, Deciding
    <2>4. ASSUME NEW q PROVE Wrote(DecidingPair(q)) \subseteq Handlers \ {h}
      BY <1>10 DEF Wrote, DecidingPair
    <2>5. ASSUME NEW l \in LabelIds
          PROVE  LET hs == Wrote(Deciding(l))' IN
                 IF hs = {} THEN label'[l] = Null
                 ELSE \E g \in hs : LastOf(ran', hs, g) /\ label'[l] = NameTold(g)'
      BY <2>1, <2>3, <1>1, <1>11 DEF OrderInv, TablesTold
    <2>6. ASSUME NEW q \in Chats \X LabelIds
          PROVE  LET hs == Wrote(DecidingPair(q))' IN
                 IF hs = {} THEN q \notin assoc'
                 ELSE \E g \in hs : /\ LastOf(ran', hs, g)
                                    /\ q \in assoc' <=> event'[g].kind = "add" /\ pc'[g] = "done"
      BY <2>2, <2>4, <1>1, <1>8 DEF OrderInv, TablesTold
    <2> QED BY <2>5, <2>6 DEF TablesTold
  <1>14. RetryInv'
    <2>1. ASSUME NEW g \in Handlers \ {h} PROVE Excused(g)' <=> Excused(g)
      BY <1>1, <1>3, <1>7, <1>8 DEF Excused
    <2>2. tries[h] < Attempts
      BY <1>1 DEF OrderInv, RetryInv
    <2> QED BY <2>1, <2>2, <1>1, <1>2, <1>3, <1>8 DEF RetryInv, OrderInv
  <1> QED BY <1>5, <1>6, <1>12, <1>13, <1>14 DEF OrderInv

(* A statement of h tells the tables what its event told, unless it failed. *)
WritesAll(h, next) ==
    /\ \A l \in LabelIds :
          IF next # "failed" /\ h \in Deciding(l) THEN label'[l] = NameTold(h) ELSE label'[l] = label[l]
    /\ \A p \in Chats \X LabelIds :
          IF next # "failed" /\ h \in DecidingPair(p)
          THEN p \in assoc' <=> event[h].kind = "add" /\ next = "done"
          ELSE p \in assoc' <=> p \in assoc

(* A handler that has written is the last one, and the tables show what it told. *)
LEMMA WriteOrder ==
    ASSUME Inv, OrderInv, NEW h \in Handlers, NEW st \in {"edit", "delete", "insert", "remove"},
           NEW next \in {"done", "refused", "failed"}, Writes(h, st, next), WritesAll(h, next),
           next = "refused" => event[h].kind = "add" /\ Excused(h),
           \A g \in Handlers : pc[g] = "insert" /\ label[event[g].id] # Null /\ label'[event[g].id] = Null
                               => next = "done" /\ Told(h, {"delete"}, event[g].id)
    PROVE  OrderInv'
  <1>1. /\ pc[h] = st /\ pc' = [pc EXCEPT ![h] = next] /\ ran' = Append(ran, h)
        /\ UNCHANGED <<shown, labeled, event, tries, came>>
    BY DEF Writes, phones
  <1>2. /\ pc \in [Handlers -> {"new", "ignored", "edit", "delete", "add", "remove",
                                "insert", "done", "refused", "failed"}]
        /\ event \in [Handlers -> Events \cup {Null}]
    BY DEF Inv, HandlerInv
  <1>4. /\ came \in Seq(Handlers) /\ ran \in Seq(Handlers)
        /\ \A i, j \in DOMAIN came : came[i] = came[j] => i = j
        /\ \A i, j \in DOMAIN ran : ran[i] = ran[j] => i = j
        /\ \A g \in Handlers : pc[g] # "new" <=> \E i \in DOMAIN came : came[i] = g
        /\ \A g \in Handlers : pc[g] \in {"done", "refused", "failed"} <=> \E i \in DOMAIN ran : ran[i] = g
    BY DEF OrderInv, HistoryInv
  <1>5. HistoryInv'
    <2>1. /\ ran' \in Seq(Handlers) /\ DOMAIN ran' = 1..Len(ran) + 1
          /\ DOMAIN ran = 1..Len(ran) /\ Len(ran) \in Nat
          /\ ran'[Len(ran) + 1] = h /\ \A i \in 1..Len(ran) : ran'[i] = ran[i]
      BY <1>1, <1>4
    <2>2. \A i \in DOMAIN ran : ran[i] # h
      BY <1>1, <1>4
    <2>3. \A i, j \in DOMAIN ran' : ran'[i] = ran'[j] => i = j
      BY <1>4, <2>1, <2>2
    <2>4. ASSUME NEW g \in Handlers
          PROVE  pc'[g] \in {"done", "refused", "failed"} <=> \E i \in DOMAIN ran' : ran'[i] = g
      <3>1. CASE g = h
        BY <3>1, <1>1, <1>2, <2>1
      <3>2. CASE g # h
        BY <3>2, <1>1, <1>2, <1>4, <2>1
      <3> QED BY <3>1, <3>2
    <2>5. \A g \in Handlers : pc'[g] # "new" <=> \E i \in DOMAIN came' : came'[i] = g
      BY <1>1, <1>2, <1>4
    <2> QED BY <1>1, <1>4, <2>1, <2>3, <2>4, <2>5 DEF HistoryInv
  <1>6. EndInv'
    BY <1>1, <1>2 DEF EndInv, OrderInv
  <1>7. /\ \A g \in Handlers : \A kinds, l : Told(g, kinds, l)' <=> Told(g, kinds, l)
        /\ \A g \in Handlers : NameTold(g)' = NameTold(g)
        /\ \A g \in Handlers \ {h} : pc'[g] = pc[g]
        /\ pc'[h] = next
    BY <1>1, <1>2 DEF Told, NameTold
  <1>8. /\ \A l : Deciding(l)' = Deciding(l) /\ Deciding(l) \subseteq Handlers
        /\ \A q : DecidingPair(q)' = DecidingPair(q) /\ DecidingPair(q) \subseteq Handlers
    BY <1>1, <1>7 DEF Deciding, DecidingPair
  <1>9. \A hs \in SUBSET Handlers :
           /\ h \notin Wrote(hs) /\ Wrote(hs) \subseteq Handlers
           /\ Wrote(hs)' = IF next # "failed" /\ h \in hs THEN Wrote(hs) \cup {h} ELSE Wrote(hs)
    BY <1>1, <1>2 DEF Wrote
  <1>10. /\ \A l : Wrote(Deciding(l))' = IF next # "failed" /\ h \in Deciding(l)
                                        THEN Wrote(Deciding(l)) \cup {h} ELSE Wrote(Deciding(l))
         /\ \A q : Wrote(DecidingPair(q))' = IF next # "failed" /\ h \in DecidingPair(q)
                                            THEN Wrote(DecidingPair(q)) \cup {h} ELSE Wrote(DecidingPair(q))
    BY <1>1, <1>2, <1>8 DEF Wrote
  <1>11. PhonesTold'
    BY <1>1, <1>7, <1>8 DEF PhonesTold, OrderInv
  <1>12. TablesTold'
    <2>1. ASSUME NEW l \in LabelIds
          PROVE  LET hs == Wrote(Deciding(l))' IN
                 IF hs = {} THEN label'[l] = Null
                 ELSE \E g \in hs : LastOf(ran', hs, g) /\ label'[l] = NameTold(g)'
      <3> DEFINE ws == Wrote(Deciding(l))
      <3>0. h \notin ws /\ ws \subseteq Handlers
        BY <1>8, <1>9
      <3>1. CASE next # "failed" /\ h \in Deciding(l)
        <4>1. Wrote(Deciding(l))' = ws \cup {h}
          BY <3>1, <1>10
        <4>2. LastOf(ran', ws \cup {h}, h)
          BY <1>1, <1>4, LastAdded
        <4>3. label'[l] = NameTold(h)'
          BY <3>1, <1>7 DEF WritesAll
        <4> QED BY <4>1, <4>2, <4>3
      <3>2. CASE ~(next # "failed" /\ h \in Deciding(l))
        <4>1. Wrote(Deciding(l))' = ws /\ label'[l] = label[l]
          BY <3>2, <1>10 DEF WritesAll
        <4>2. ASSUME NEW g \in ws, LastOf(ran, ws, g) PROVE LastOf(ran', ws, g) /\ NameTold(g)' = NameTold(g)
          BY <4>2, <3>0, <1>1, <1>4, <1>7, LastKept
        <4> QED BY <4>1, <4>2 DEF OrderInv, TablesTold
      <3> QED BY <3>1, <3>2
    <2>2. ASSUME NEW q \in Chats \X LabelIds
          PROVE  LET hs == Wrote(DecidingPair(q))' IN
                 IF hs = {} THEN q \notin assoc'
                 ELSE \E g \in hs : /\ LastOf(ran', hs, g)
                                    /\ q \in assoc' <=> event'[g].kind = "add" /\ pc'[g] = "done"
      <3> DEFINE ws == Wrote(DecidingPair(q))
      <3>0. h \notin ws /\ ws \subseteq Handlers
        BY <1>8, <1>9
      <3>1. CASE next # "failed" /\ h \in DecidingPair(q)
        <4>1. Wrote(DecidingPair(q))' = ws \cup {h}
          BY <3>1, <1>10
        <4>2. LastOf(ran', ws \cup {h}, h)
          BY <1>1, <1>4, LastAdded
        <4>3. q \in assoc' <=> event'[h].kind = "add" /\ pc'[h] = "done"
          BY <3>1, <1>1, <1>7 DEF WritesAll
        <4> QED BY <4>1, <4>2, <4>3
      <3>2. CASE ~(next # "failed" /\ h \in DecidingPair(q))
        <4>1. Wrote(DecidingPair(q))' = ws /\ (q \in assoc' <=> q \in assoc)
          BY <3>2, <1>10 DEF WritesAll
        <4>2. ASSUME NEW g \in ws, LastOf(ran, ws, g)
              PROVE  LastOf(ran', ws, g) /\ event'[g] = event[g] /\ pc'[g] = pc[g]
          <5>1. g \in Handlers \ {h}
            BY <3>0
          <5> QED BY <4>2, <5>1, <3>0, <1>1, <1>4, <1>7, LastKept
        <4> QED BY <4>1, <4>2 DEF OrderInv, TablesTold
      <3> QED BY <3>1, <3>2
    <2> QED BY <2>1, <2>2 DEF TablesTold
  <1>13. RetryInv'
    <2>1. ASSUME NEW g \in Handlers, Excused(g) PROVE Excused(g)'
      <3>1. ASSUME NEW d \in Handlers, pc[d] = "done" PROVE pc'[d] = "done"
        BY <3>1, <1>1, <1>2
      <3> QED BY <2>1, <3>1, <1>1, <1>7 DEF Excused
    <2>2. ASSUME NEW g \in Handlers, pc'[g] = "insert"
          PROVE  label'[event'[g].id] # Null \/ Excused(g)'
      <3>1. g # h /\ pc[g] = "insert"
        BY <2>2, <1>1, <1>2
      <3>2. label[event[g].id] # Null \/ Excused(g)
        BY <3>1 DEF OrderInv, RetryInv
      <3>3. ASSUME label[event[g].id] # Null, label'[event[g].id] = Null PROVE Excused(g)'
        <4>1. next = "done" /\ Told(h, {"delete"}, event[g].id)
          BY <3>1, <3>3
        <4> QED BY <4>1, <1>1, <1>7 DEF Excused
      <3> QED BY <3>2, <3>3, <2>1, <1>1
    <2>3. ASSUME NEW g \in Handlers, pc'[g] = "refused" PROVE Excused(g)'
      BY <2>1, <2>3, <1>1, <1>2 DEF OrderInv, RetryInv
    <2> QED BY <2>2, <2>3, <1>1, <1>2 DEF RetryInv, OrderInv
  <1> QED BY <1>5, <1>6, <1>11, <1>12, <1>13 DEF OrderInv

(* Every statement of a handler tells what the handler's event told; only a
   deletion takes a label away from a handler that has found it.           *)
LEMMA StatementOrder ==
    ASSUME Inv, OrderInv, NEW h \in Handlers,
           \/ EditRow(h) \/ DeleteRow(h) \/ AddAssociation(h) \/ RemoveAssociation(h) \/ WriteFails(h)
    PROVE  OrderInv'
  <1> DEFINE e == event[h]
  <1>1. /\ \A g \in Handlers : /\ pc[g] # "new" => event[g] \in Events
                               /\ pc[g] \in {"edit", "delete", "remove"} => event[g].kind = pc[g]
                               /\ pc[g] \in {"add", "insert"} => event[g].kind = "add"
        /\ label \in [LabelIds -> Names \cup {Null}]
        /\ assoc \subseteq Chats \X LabelIds
        /\ \A p \in assoc : label[p[2]] # Null
    BY DEF Inv, HandlerInv, ReferenceInv, OrderInv, EndInv
  <1>2. /\ \A l : h \in Deciding(l) <=> Told(h, {"edit", "delete"}, l)
        /\ \A p : h \in DecidingPair(p) <=> \/ Told(h, {"delete"}, p[2])
                                            \/ Told(h, {"add", "remove"}, p[2]) /\ event[h].chat = p[1]
    BY DEF Deciding, DecidingPair
  <1>3. ASSUME EditRow(h) PROVE OrderInv'
    <2>1. /\ Writes(h, "edit", "done") /\ pc[h] = "edit" /\ e \in Events /\ e.kind = "edit"
          /\ label' = [label EXCEPT ![e.id] = e.name] /\ assoc' = assoc
      BY <1>1, <1>3 DEF EditRow, Writes
    <2>2. e.id \in LabelIds /\ e.name \in Names
      BY <2>1 DEF Events
    <2>3. WritesAll(h, "done")
      BY <1>1, <1>2, <2>1, <2>2 DEF WritesAll, Told, NameTold
    <2>4. \A g \in Handlers : ~(pc[g] = "insert" /\ label[event[g].id] # Null /\ label'[event[g].id] = Null)
      <3>1. \A g \in Handlers : pc[g] = "insert" => event[g].id \in LabelIds
        BY <1>1 DEF Events
      <3> QED BY <1>1, <2>1, <2>2, <3>1, LabelsAssumption
    <2> QED BY <2>1, <2>3, <2>4, WriteOrder
  <1>4. ASSUME DeleteRow(h) PROVE OrderInv'
    <2>1. /\ Writes(h, "delete", "done") /\ pc[h] = "delete" /\ e \in Events /\ e.kind = "delete"
          /\ label' = [label EXCEPT ![e.id] = Null] /\ assoc' = {p \in assoc : p[2] # e.id}
      BY <1>1, <1>4 DEF DeleteRow, Writes, Cascade
    <2>2. e.id \in LabelIds
      BY <2>1 DEF Events
    <2>3. WritesAll(h, "done")
      <3>1. \A l : h \in Deciding(l) <=> e.id = l
        BY <1>2, <2>1 DEF Told
      <3>2. \A p : h \in DecidingPair(p) <=> e.id = p[2]
        BY <1>2, <2>1 DEF Told
      <3>3. NameTold(h) = Null
        BY <2>1 DEF NameTold
      <3>4. \A l \in LabelIds : label'[l] = IF e.id = l THEN Null ELSE label[l]
        BY <1>1, <2>1, <2>2
      <3>5. \A p \in Chats \X LabelIds : p \in assoc' <=> p \in assoc /\ p[2] # e.id
        BY <2>1
      <3> QED BY <2>1, <3>1, <3>2, <3>3, <3>4, <3>5 DEF WritesAll
    <2>4. \A g \in Handlers : pc[g] = "insert" /\ label[event[g].id] # Null /\ label'[event[g].id] = Null
                              => Told(h, {"delete"}, event[g].id)
      <3>1. \A g \in Handlers : pc[g] = "insert" => event[g].id \in LabelIds
        BY <1>1 DEF Events
      <3> QED BY <1>1, <2>1, <2>2, <3>1 DEF Told
    <2> QED BY <2>1, <2>3, <2>4, WriteOrder
  <1>5. ASSUME AddAssociation(h) PROVE OrderInv'
    <2> DEFINE next == IF label[e.id] # Null THEN "done" ELSE "refused"
    <2>1. /\ Writes(h, "insert", next) /\ pc[h] = "insert" /\ e \in Events /\ e.kind = "add"
          /\ assoc' = IF label[e.id] # Null THEN assoc \cup {<<e.chat, e.id>>} ELSE assoc
          /\ label' = label
      BY <1>1, <1>5 DEF AddAssociation, Writes, HasLabel
    <2>2. e.id \in LabelIds /\ e.chat \in Chats
      BY <2>1 DEF Events
    <2>3. WritesAll(h, next)
      <3>1. \A l : h \notin Deciding(l)
        BY <1>2, <2>1 DEF Told
      <3>2. \A p \in Chats \X LabelIds : h \in DecidingPair(p) <=> p = <<e.chat, e.id>>
        BY <1>2, <2>1 DEF Told
      <3>3. <<e.chat, e.id>> \in assoc => label[e.id] # Null
        BY <1>1, <2>2
      <3> QED BY <2>1, <3>1, <3>2, <3>3 DEF WritesAll
    <2>4. next = "refused" => Excused(h)
      BY <2>1 DEF OrderInv, RetryInv
    <2>5. next \in {"done", "refused", "failed"}
      OBVIOUS
    <2> HIDE DEF next, e
    <2> QED BY <2>1, <2>3, <2>4, <2>5, WriteOrder DEF e
  <1>6. ASSUME RemoveAssociation(h) PROVE OrderInv'
    <2>1. /\ Writes(h, "remove", "done") /\ pc[h] = "remove" /\ e \in Events /\ e.kind = "remove"
          /\ assoc' = assoc \ {<<e.chat, e.id>>} /\ label' = label
      BY <1>1, <1>6 DEF RemoveAssociation, Writes
    <2>2. WritesAll(h, "done")
      <3>1. \A l : h \notin Deciding(l)
        BY <1>2, <2>1 DEF Told
      <3>2. \A p \in Chats \X LabelIds : h \in DecidingPair(p) <=> p = <<e.chat, e.id>>
        BY <1>2, <2>1 DEF Told
      <3> QED BY <2>1, <3>1, <3>2 DEF WritesAll
    <2> QED BY <2>1, <2>2, WriteOrder
  <1>7. ASSUME WriteFails(h) PROVE OrderInv'
    <2>1. PICK st \in {"edit", "delete", "insert", "remove"} : Writes(h, st, "failed")
      BY <1>7 DEF WriteFails
    <2>2. UNCHANGED <<label, assoc>>
      BY <1>7 DEF WriteFails, tables
    <2>3. WritesAll(h, "failed")
      BY <2>2 DEF WritesAll
    <2> QED BY <2>1, <2>2, <2>3, WriteOrder
  <1> QED BY <1>3, <1>4, <1>5, <1>6, <1>7

(* A handler that looks for its label goes on with it, or out of attempts. *)
LEMMA RetryOrder == ASSUME Inv, OrderInv, NEW h \in Handlers, GetLabelById(h) PROVE OrderInv'
  <1>1. /\ pc[h] = "add" /\ UNCHANGED <<shown, labeled, label, assoc, event, came, ran>>
        /\ \/ /\ label[event[h].id] # Null /\ pc' = [pc EXCEPT ![h] = "insert"] /\ tries' = tries
           \/ /\ tries' = [tries EXCEPT ![h] = tries[h] + 1]
              /\ pc' = [pc EXCEPT ![h] = IF tries[h] + 1 < Attempts THEN "add" ELSE "insert"]
    BY DEF GetLabelById, MayRetry, phones, tables
  <1>2. /\ pc \in [Handlers -> {"new", "ignored", "edit", "delete", "add", "remove",
                                "insert", "done", "refused", "failed"}]
        /\ event \in [Handlers -> Events \cup {Null}]
        /\ tries \in [Handlers -> 0..Attempts] /\ tries[h] < Attempts
    BY <1>1 DEF Inv, HandlerInv, OrderInv, RetryInv
  <1>3. /\ pc'[h] \in {"add", "insert"} /\ \A g \in Handlers \ {h} : pc'[g] = pc[g] /\ tries'[g] = tries[g]
        /\ \A g \in Handlers : /\ pc'[g] = "new" <=> pc[g] = "new"
                               /\ pc'[g] = "ignored" <=> pc[g] = "ignored"
                               /\ pc'[g] = "refused" <=> pc[g] = "refused"
                               /\ pc'[g] = "done" <=> pc[g] = "done"
                               /\ pc'[g] = "failed" <=> pc[g] = "failed"
    BY <1>1, <1>2
  <1>4. /\ \A l : Deciding(l)' = Deciding(l)
        /\ \A q : DecidingPair(q)' = DecidingPair(q)
        /\ \A l : Wrote(Deciding(l))' = Wrote(Deciding(l))
        /\ \A q : Wrote(DecidingPair(q))' = Wrote(DecidingPair(q))
        /\ \A g : NameTold(g)' = NameTold(g)
    BY <1>1, <1>3 DEF Deciding, DecidingPair, Told, Wrote, NameTold
  <1>5. HistoryInv' /\ EndInv'
    BY <1>1, <1>3 DEF OrderInv, HistoryInv, EndInv
  <1>6. PhonesTold'
    BY <1>1, <1>4 DEF OrderInv, PhonesTold
  <1>7. TablesTold'
    <2>1. \A hs, g : g \in Wrote(hs) => g \in hs
      BY DEF Wrote
    <2>2. \A q : DecidingPair(q) \subseteq Handlers
      BY DEF DecidingPair
    <2> QED BY <1>1, <1>3, <1>4, <2>1, <2>2 DEF OrderInv, TablesTold
  <1>8. RetryInv'
    <2>1. \A g \in Handlers \ {h} : Excused(g)' <=> Excused(g)
      BY <1>1, <1>3 DEF Excused, Told
    <2>2. tries' \in [Handlers -> 0..Attempts]
      BY <1>1, <1>2, LabelsAssumption
    <2>3. /\ pc'[h] = "add" => tries'[h] < Attempts
          /\ pc'[h] = "insert" => label'[event'[h].id] # Null \/ Excused(h)'
      <3>1. CASE /\ label[event[h].id] # Null /\ pc' = [pc EXCEPT ![h] = "insert"] /\ tries' = tries
        BY <3>1, <1>1, <1>2
      <3>2. CASE /\ tries' = [tries EXCEPT ![h] = tries[h] + 1]
                 /\ pc' = [pc EXCEPT ![h] = IF tries[h] + 1 < Attempts THEN "add" ELSE "insert"]
        <4>1. tries'[h] = tries[h] + 1 /\ tries[h] \in 0..Attempts
          BY <3>2, <1>2
        <4>2. CASE tries[h] + 1 < Attempts
          BY <4>1, <4>2, <3>2, <1>2
        <4>3. CASE ~(tries[h] + 1 < Attempts)
          <5>1. tries'[h] = Attempts
            BY <4>1, <4>3, <1>2, LabelsAssumption
          <5>2. Excused(h)' /\ pc'[h] = "insert"
            BY <5>1, <4>3, <3>2, <1>2 DEF Excused
          <5> QED BY <5>2
        <4> QED BY <4>2, <4>3
      <3> QED BY <3>1, <3>2, <1>1
    <2>4. \A g \in Handlers \ {h} :
             /\ pc'[g] \in {"new", "edit", "delete", "add", "remove"} => tries'[g] < Attempts
             /\ pc'[g] = "insert" => label'[event'[g].id] # Null \/ Excused(g)'
             /\ pc'[g] = "refused" => Excused(g)'
      BY <1>1, <1>3, <2>1 DEF OrderInv, RetryInv
    <2> QED BY <1>3, <2>2, <2>3, <2>4 DEF RetryInv
  <1> QED BY <1>5, <1>6, <1>7, <1>8 DEF OrderInv

(* The event of every change on a phone tells of that change, and of all of it. *)
LEMMA PhoneOrder ==
    ASSUME Inv, OrderInv, NEW h \in Handlers, NEW l \in LabelIds,
           \/ \E n \in Names : UpsertLabel(h, l, n)
           \/ DeleteLabel(h, l)
           \/ \E c \in Chats : AddChatLabel(h, c, l) \/ RemoveChatLabel(h, c, l)
    PROVE  OrderInv'
  <1>0. shown \in [LabelIds -> Names \cup {Null}] /\ labeled \subseteq Chats \X LabelIds
    BY DEF Inv, PhonesInv
  <1>1. ASSUME NEW n \in Names, UpsertLabel(h, l, n) PROVE OrderInv'
    <2> DEFINE e == [kind |-> "edit", id |-> l, name |-> n]
    <2>1. e \in Events /\ handleEvent(h, e)
      BY <1>1 DEF Events, UpsertLabel
    <2>2. TellsAll(h, e)
      BY <1>0, <1>1 DEF UpsertLabel, TellsAll
    <2> HIDE DEF e
    <2> QED BY <2>1, <2>2, DispatchOrder
  <1>2. ASSUME DeleteLabel(h, l) PROVE OrderInv'
    <2> DEFINE e == [kind |-> "delete", id |-> l]
    <2>1. e \in Events /\ handleEvent(h, e)
      BY <1>2 DEF Events, DeleteLabel
    <2>2. TellsAll(h, e)
      BY <1>0, <1>2 DEF DeleteLabel, TellsAll
    <2> HIDE DEF e
    <2> QED BY <2>1, <2>2, DispatchOrder
  <1>3. ASSUME NEW c \in Chats, AddChatLabel(h, c, l) PROVE OrderInv'
    <2> DEFINE e == [kind |-> "add", chat |-> c, id |-> l]
    <2>1. e \in Events /\ handleEvent(h, e)
      BY <1>3 DEF Events, AddChatLabel
    <2>2. TellsAll(h, e)
      BY <1>0, <1>3 DEF AddChatLabel, TellsAll
    <2> HIDE DEF e
    <2> QED BY <2>1, <2>2, DispatchOrder
  <1>4. ASSUME NEW c \in Chats, RemoveChatLabel(h, c, l) PROVE OrderInv'
    <2> DEFINE e == [kind |-> "remove", chat |-> c, id |-> l]
    <2>1. e \in Events /\ handleEvent(h, e)
      BY <1>4 DEF Events, RemoveChatLabel
    <2>2. TellsAll(h, e)
      BY <1>0, <1>4 DEF RemoveChatLabel, TellsAll
    <2> HIDE DEF e
    <2> QED BY <2>1, <2>2, DispatchOrder
  <1> QED BY <1>1, <1>2, <1>3, <1>4

(* A full sync tells what is, so it changes nothing it decides. *)
LEMMA FullSyncOrder == ASSUME Inv, OrderInv, NEW h \in Handlers, FullSync(h) PROVE OrderInv'
  <1>0. /\ shown \in [LabelIds -> Names \cup {Null}] /\ labeled \subseteq Chats \X LabelIds
        /\ UNCHANGED <<shown, labeled>>
    BY DEF Inv, PhonesInv, FullSync, phones
  <1>1. ASSUME NEW l \in LabelIds, shown[l] # Null,
               handleEvent(h, [kind |-> "edit", id |-> l, name |-> shown[l]])
        PROVE  OrderInv'
    <2> DEFINE e == [kind |-> "edit", id |-> l, name |-> shown[l]]
    <2>1. e \in Events
      BY <1>0, <1>1 DEF Events
    <2>2. TellsAll(h, e)
      BY <1>0 DEF TellsAll
    <2>3. handleEvent(h, e)
      BY <1>1
    <2> HIDE DEF e
    <2> QED BY <2>1, <2>2, <2>3, DispatchOrder
  <1>2. ASSUME NEW p \in labeled, handleEvent(h, [kind |-> "add", chat |-> p[1], id |-> p[2]])
        PROVE  OrderInv'
    <2> DEFINE e == [kind |-> "add", chat |-> p[1], id |-> p[2]]
    <2>1. e \in Events
      BY <1>0 DEF Events
    <2>2. TellsAll(h, e)
      BY <1>0 DEF TellsAll
    <2>3. handleEvent(h, e)
      BY <1>2
    <2> HIDE DEF e
    <2> QED BY <2>1, <2>2, <2>3, DispatchOrder
  <1> QED BY <1>1, <1>2 DEF FullSync

(* Every step keeps what the phones show, what the tables do and why a handler
   was refused.                                                            *)
LEMMA OrderNext == Inv /\ OrderInv /\ [Next]_vars => OrderInv'
  <1> SUFFICES ASSUME Inv, OrderInv, [Next]_vars PROVE OrderInv'
    OBVIOUS
  <1>1. CASE UNCHANGED <<shown, labeled, label, assoc, pc, event, tries, came, ran>>
    <2>1. /\ \A l : Deciding(l)' = Deciding(l) /\ Wrote(Deciding(l))' = Wrote(Deciding(l))
          /\ \A q : DecidingPair(q)' = DecidingPair(q) /\ Wrote(DecidingPair(q))' = Wrote(DecidingPair(q))
          /\ \A g : NameTold(g)' = NameTold(g) /\ (Excused(g)' <=> Excused(g))
      BY <1>1 DEF Deciding, DecidingPair, Told, Wrote, NameTold, Excused
    <2>2. HistoryInv' /\ EndInv'
      BY <1>1 DEF OrderInv, HistoryInv, EndInv
    <2>3. PhonesTold' /\ TablesTold' /\ RetryInv'
      BY <1>1, <2>1 DEF OrderInv, PhonesTold, TablesTold, RetryInv
    <2> QED BY <2>2, <2>3 DEF OrderInv
  <1>2. CASE UNCHANGED vars
    BY <1>1, <1>2 DEF vars, phones, tables
  <1>3. ASSUME \/ \E c \in Chats : GetLabelIDsByJID(c)
               \/ \E failed \in BOOLEAN : GetAllLabels(failed)
               \/ Reply
        PROVE  OrderInv'
    BY <1>1, <1>3 DEF GetLabelIDsByJID, GetAllLabels, Reply, phones, tables
  <1> QED BY <1>2, <1>3, PhoneOrder, FullSyncOrder, StatementOrder, RetryOrder, Zenon DEF Next

(* Once all is handled the tables show what the phones do, as far as the events
   were written in their order; an association that was refused found no label
   in all its attempts, or its label was deleted.                          *)
THEOREM TablesMirrorPhones == Spec => []QuietMirrorsPhones
  <1>1. ASSUME Inv, OrderInv PROVE QuietMirrorsPhones
    <2> SUFFICES ASSUME Quiet PROVE QuietMirrorsPhones
      BY DEF QuietMirrorsPhones
    <2>1. /\ came \in Seq(Handlers) /\ ran \in Seq(Handlers)
          /\ \A i, j \in DOMAIN ran : ran[i] = ran[j] => i = j
          /\ \A g \in Handlers : pc[g] # "new" => \E i \in DOMAIN came : came[i] = g
      BY <1>1 DEF OrderInv, HistoryInv
    <2>2. \A g \in Handlers : pc[g] \in {"new", "ignored", "done", "refused", "failed"}
      BY DEF Quiet
    <2>3. ASSUME NEW l \in LabelIds, WroteInOrder(Deciding(l)) PROVE label[l] = shown[l]
      <3>1. \A g \in Deciding(l) : g \in Handlers /\ pc[g] = "done"
        BY <1>1, <2>2, <2>3 DEF WroteInOrder, Deciding, Told, OrderInv, EndInv, OfChat
      <3>2. Wrote(Deciding(l)) = Deciding(l)
        BY <3>1 DEF Wrote
      <3>3. CASE Deciding(l) = {}
        BY <1>1, <3>2, <3>3 DEF OrderInv, PhonesTold, TablesTold
      <3>4. CASE Deciding(l) # {}
        <4>1. PICK g \in Deciding(l) : LastOf(came, Deciding(l), g) /\ shown[l] = NameTold(g)
          BY <1>1, <3>4 DEF OrderInv, PhonesTold
        <4>2. PICK h \in Deciding(l) : LastOf(ran, Deciding(l), h) /\ label[l] = NameTold(h)
          BY <1>1, <3>2, <3>4 DEF OrderInv, TablesTold
        <4>3. \A d \in Deciding(l) : \E i \in DOMAIN came : came[i] = d
          BY <2>1, <3>1
        <4>4. \A a, b \in Deciding(l) : Before(came, a, b) => Before(ran, a, b)
          BY <2>3 DEF WroteInOrder
        <4>5. g = h
          BY <2>1, <4>1, <4>2, <4>3, <4>4, SameLast
        <4> QED BY <4>1, <4>2, <4>5
      <3> QED BY <3>3, <3>4
    <2>4. ASSUME NEW p \in (Chats \ Ignored) \X LabelIds, WroteInOrder(DecidingPair(p))
          PROVE  \/ p \in assoc <=> p \in labeled
                 \/ /\ p \in labeled
                    /\ \E h \in DecidingPair(p) :
                          /\ pc[h] = "refused"
                          /\ \/ tries[h] = Attempts
                             \/ \E d \in Handlers : pc[d] = "done" /\ Told(d, {"delete"}, p[2])
      <3> DEFINE ds == DecidingPair(p)
      <3>1. \A g \in ds : g \in Handlers /\ pc[g] \in {"done", "refused"}
        <4>1. ASSUME NEW g \in ds PROVE pc[g] # "ignored" /\ pc[g] # "new" /\ pc[g] # "failed"
          <5>1. pc[g] # "new" /\ pc[g] # "failed" /\ g \in Handlers
            BY <2>4 DEF WroteInOrder, DecidingPair, Told
          <5>2. event[g].kind = "delete" \/ event[g].chat = p[1]
            BY DEF DecidingPair, Told
          <5>3. p[1] \notin Ignored
            OBVIOUS
          <5>4. pc[g] = "ignored" => event[g].kind \in {"add", "remove"} /\ event[g].chat \in Ignored
            BY <1>1, <5>1 DEF OrderInv, EndInv, OfChat
          <5> QED BY <5>1, <5>2, <5>3, <5>4
        <4> QED BY <2>2, <4>1 DEF DecidingPair
      <3>2. Wrote(ds) = ds
        BY <3>1 DEF Wrote
      <3>0. p \in Chats \X LabelIds
        OBVIOUS
      <3>3. CASE ds = {}
        BY <1>1, <3>0, <3>2, <3>3 DEF OrderInv, PhonesTold, TablesTold
      <3>4. CASE ds # {}
        <4>1. PICK g \in ds : LastOf(came, ds, g) /\ (p \in labeled <=> event[g].kind = "add")
          BY <1>1, <3>0, <3>4 DEF OrderInv, PhonesTold
        <4>2. PICK h \in ds : /\ LastOf(ran, ds, h)
                              /\ p \in assoc <=> event[h].kind = "add" /\ pc[h] = "done"
          BY <1>1, <3>0, <3>2, <3>4 DEF OrderInv, TablesTold
        <4>3. \A d \in ds : \E i \in DOMAIN came : came[i] = d
          BY <2>1, <3>1
        <4>4. \A a, b \in ds : Before(came, a, b) => Before(ran, a, b)
          BY <2>4 DEF WroteInOrder
        <4>5. g = h
          BY <2>1, <4>1, <4>2, <4>3, <4>4, SameLast
        <4>6. ASSUME pc[h] = "refused"
              PROVE  /\ event[h].kind = "add" /\ event[h].id = p[2]
                     /\ \/ tries[h] = Attempts
                        \/ \E d \in Handlers : pc[d] = "done" /\ Told(d, {"delete"}, p[2])
          <5>1. event[h].kind = "add" /\ Excused(h)
            BY <1>1, <3>1, <4>6 DEF OrderInv, EndInv, RetryInv
          <5>2. event[h].id = p[2]
            BY DEF DecidingPair, Told
          <5> QED BY <5>1, <5>2 DEF Excused
        <4>7. CASE pc[h] = "done"
          BY <4>1, <4>2, <4>5, <4>7
        <4>8. CASE pc[h] = "refused"
          BY <4>1, <4>5, <4>6, <4>8
        <4> QED BY <3>1, <4>7, <4>8
      <3> QED BY <3>3, <3>4
    <2> QED BY <2>3, <2>4 DEF QuietMirrorsPhones
  <1> QED BY <1>1, Invariance, InvNext, OrderInit, OrderNext, PTL DEF Spec

-----------------------------------------------------------------------------
(***************************************************************************)
(* Lists.  ListsAssumption (in Parts) says what the parameters are.        *)
(***************************************************************************)

(* Listings brings the finite sets along under its name. *)
LEMMA SameFiniteSets ==
    \A S : /\ Lists!IsFiniteSet(S) = IsFiniteSet(S)
           /\ Lists!Cardinality(S) = Cardinality(S)
  <1>1. \A S : Lists!IsFiniteSet(S) = IsFiniteSet(S)
    BY DEF Lists!IsFiniteSet, IsFiniteSet
  <1>2. \A S : Lists!Cardinality(S) = Cardinality(S)
    BY DEF Lists!Cardinality, Cardinality
  <1> QED BY <1>1, <1>2

(* So this is what the parameters are. *)
LEMMA ListsFit ==
    /\ ListChats \cup ContactNames \subseteq Int
    /\ userPart \in [Users -> Int]
    /\ Saves \subseteq [id : Ids, chat : ListChats, time : Int, real : BOOLEAN]
    /\ Limits \subseteq Nat \ {0}
    /\ Null \notin Lists!Rows \cup ContactNames \cup ListChats
    /\ Bits \in Nat \ {0}
    /\ \A items \in {Ids, ListChats, Users} :
          /\ IsFiniteSet(items) /\ {Failed, Panicked} \cap Seq(items) = {}
          /\ \A n \in Limits \cup {Cardinality(items)} :
                Cardinality(items) + n < 2 ^ (Bits - 1)
  BY ListsAssumption, SameFiniteSets DEF Lists!ParametersFit

(* Half is a positive number, the integers of Bits bits are cut there. *)
LEMMA HalfNat == Lists!Half \in Nat \ {0}
  <1>1. Lists!Half \in Int
    BY ListsFit DEF Lists!Half
  <1>2. Cardinality(Ids) \in Nat /\ Cardinality(Ids) + Cardinality(Ids) < Lists!Half
    BY ListsFit, FS_CardinalityType DEF Lists!Half
  <1> QED BY <1>1, <1>2

(* A number below Half is what it was after int(). *)
LEMMA ToIntWithin ==
    ASSUME NEW n \in Nat, n < Lists!Half
    PROVE  Lists!ToInt(n) = n
  <1>1. (n + Lists!Half) % (2 * Lists!Half) = n + Lists!Half
    BY HalfNat
  <1> QED BY <1>1, HalfNat DEF Lists!ToInt

(* From Half on it turns negative. *)
LEMMA ToIntBeyond ==
    ASSUME NEW n \in Nat, Lists!Half <= n, n < 2 * Lists!Half
    PROVE  Lists!ToInt(n) = n - 2 * Lists!Half
  <1> DEFINE w == 2 * Lists!Half
  <1>1. w \in Nat \ {0} /\ n + Lists!Half \in Nat /\ w <= n + Lists!Half /\ n + Lists!Half < w + w
    BY HalfNat
  <1> HIDE DEF w
  <1>2. (n + Lists!Half) % w = (n + Lists!Half) - w
    <2> DEFINE k == n + Lists!Half
    <2>1. k \in Nat /\ w <= k /\ k < w + w
      BY <1>1
    <2> HIDE DEF k
    <2>2. k = w * (k \div w) + (k % w) /\ k % w \in Nat /\ k % w < w /\ k \div w \in Int
      BY <1>1, <2>1
    <2>3. k % w = k - w
      BY <1>1, <2>1, <2>2
    <2> QED BY <2>3 DEF k
  <1> QED BY <1>1, <1>2, HalfNat DEF Lists!ToInt, w

(* A finite set of integers has a largest one. *)
LEMMA Largest ==
    ASSUME NEW S \in SUBSET Int, IsFiniteSet(S), S # {}
    PROVE  \E x \in S : \A y \in S : y <= x
  <1> DEFINE below(x) == {y \in S : y <= x}
             rank(x) == Cardinality(below(x))
             n == Cardinality(S)
             f == [x \in S |-> rank(x)]
  <1>1. n \in Nat \ {0}
    BY FS_CardinalityType, FS_EmptySet
  <1>2. ASSUME NEW x \in S
        PROVE  IsFiniteSet(below(x)) /\ rank(x) \in 1..n /\ below(x) \in SUBSET S
    <2>1. below(x) \in SUBSET S /\ {x} \in SUBSET below(x)
      OBVIOUS
    <2>2. IsFiniteSet(below(x)) /\ rank(x) <= n /\ rank(x) \in Nat
      BY <2>1, FS_Subset, FS_CardinalityType
    <2>3. 1 <= rank(x)
      <3>1. Cardinality({x}) <= rank(x)
        BY <2>1, <2>2, FS_Subset
      <3> QED BY <3>1, FS_Singleton
    <2> QED BY <1>1, <2>1, <2>2, <2>3
  <1>3. ASSUME NEW x \in S, NEW z \in S, x < z PROVE rank(x) # rank(z)
    <2>1. below(x) \in SUBSET below(z) /\ z \in below(z) /\ z \notin below(x)
      <3>1. \A y \in S : y \in Int
        OBVIOUS
      <3>2. z \notin below(x) /\ z \in below(z) /\ \A y \in S : y <= x => y <= z
        BY <1>3, <3>1
      <3> QED BY <3>2
    <2>2. IsFiniteSet(below(z))
      BY <1>2
    <2> QED BY <2>1, <2>2, FS_Subset
  <1> HIDE DEF rank
  <1>4. f \in Injection(S, 1..n)
    <2>1. f \in [S -> 1..n]
      BY <1>2
    <2>2. ASSUME NEW x \in S, NEW z \in S, f[x] = f[z] PROVE x = z
      <3>1. rank(x) = rank(z) /\ x \in Int /\ z \in Int
        BY <2>2
      <3> QED BY <1>3, <3>1
    <2> HIDE DEF f
    <2> QED BY <2>1, <2>2 DEF Injection, IsInjective
  <1>5. f \in Surjection(S, 1..n)
    <2>1. IsFiniteSet(1..n) /\ Cardinality(1..n) = n
      BY <1>1, FS_Interval
    <2> HIDE DEF f
    <2> QED BY <1>4, <2>1, FS_Injection
  <1>6. PICK x \in S : rank(x) = n
    <2>1. n \in 1..n
      BY <1>1
    <2>2. PICK x \in S : f[x] = n
      <3> HIDE DEF f, n
      <3> QED BY <1>5, <2>1 DEF Surjection
    <2> QED BY <2>2
  <1>7. below(x) = S
    <2> HIDE DEF below
    <2> QED BY <1>2, <1>6, FS_Subset DEF rank
  <1> QED BY <1>7

-----------------------------------------------------------------------------
(* Every column and every contact has a value it may have. *)
TablesInv ==
    /\ rows \in [Ids -> Lists!Rows \cup {Null}]
    /\ contacts \in [Users -> ContactNames \cup {Null}]

\* Where the items of a list come from.
Pool(kind) ==
    IF kind \in {"messages", "filtered messages"} THEN Ids
    ELSE IF kind \in Lists!ContactKinds THEN Users ELSE ListChats

IsList(list, items) ==
    /\ list = [x \in DOMAIN list |-> list[x]]
    /\ DOMAIN list \subseteq items
    /\ \A x \in DOMAIN list : list[x] \in Int

(* Every jid has a newest message. *)
LEMMA NewestThere ==
    ASSUME TablesInv, NEW r \in Lists!RealRows
    PROVE  \E m \in Lists!RealRows : rows[m].jid = rows[r].jid /\ Lists!NewestIn(m, rows[r].jid)
  <1> DEFINE T == {m \in Lists!RealRows : rows[m].jid = rows[r].jid}
             S == {rows[m].time : m \in T}
             f == [m \in T |-> rows[m].time]
  <1>1. T \in SUBSET Ids /\ r \in T /\ \A m \in T : rows[m] \in Lists!Rows
    BY DEF TablesInv, Lists!RealRows
  <1>2. S \in SUBSET Int /\ S # {}
    <2>1. \A m \in T : rows[m].time \in Int
      BY <1>1 DEF Lists!Rows
    <2> QED BY <1>1, <2>1
  <1>3. IsFiniteSet(S)
    <2>1. IsFiniteSet(T)
      BY <1>1, ListsFit, FS_Subset
    <2>2. f \in Surjection(T, S)
      BY DEF Surjection
    <2> HIDE DEF f, T, S
    <2> QED BY <2>1, <2>2, FS_Surjection
  <1>4. PICK t \in S : \A u \in S : u <= t
    <2> HIDE DEF S
    <2> QED BY <1>2, <1>3, Largest
  <1>5. PICK m \in T : rows[m].time = t
    OBVIOUS
  <1>6. Lists!NewestIn(m, rows[r].jid)
    BY <1>4, <1>5 DEF Lists!NewestIn
  <1> QED BY <1>5, <1>6

(* So the subquery has a result, one message for each jid it is asked for. *)
LEMMA LastThere ==
    ASSUME TablesInv, NEW jids
    PROVE  Lists!LastMessages(jids) # {}
  <1> DEFINE there == {j \in {rows[m].jid : m \in Lists!RealRows} : jids = {} \/ j \in jids}
             Is(m, j) == m \in Lists!RealRows /\ rows[m].jid = j /\ Lists!NewestIn(m, j)
             last == [j \in there |-> CHOOSE m \in Lists!RealRows : Is(m, j)]
  <1>1. ASSUME NEW j \in there PROVE \E m \in Lists!RealRows : Is(m, j)
    <2>1. PICK r \in Lists!RealRows : rows[r].jid = j
      OBVIOUS
    <2> QED BY <2>1, NewestThere
  <1> HIDE DEF Is
  <1>2. \A j \in there : last[j] \in Lists!RealRows /\ Is(last[j], j)
    BY <1>1
  <1>3. last \in [there -> Lists!RealRows]
    BY <1>2
  <1> HIDE DEF last
  <1>4. last \in Lists!LastMessages(jids)
    BY <1>2, <1>3 DEF Is, Lists!LastMessages
  <1> QED BY <1>4

(* A list has integers for keys, and its items from its pool. *)
LEMMA ListedFacts == TablesInv => \A kind \in Lists!Kinds : IsList(Lists!Listed(kind), Pool(kind))
  <1> SUFFICES ASSUME TablesInv, NEW kind \in Lists!Kinds
               PROVE  IsList(Lists!Listed(kind), Pool(kind))
    OBVIOUS
  <1>1. \A m \in Lists!RealRows : m \in Ids /\ rows[m].time \in Int /\ rows[m].jid \in ListChats
    BY DEF TablesInv, Lists!RealRows, Lists!Rows
  <1>2. ASSUME NEW filter PROVE IsList(Lists!GetAllMessages(filter), Ids)
    BY <1>1 DEF Lists!GetAllMessages, IsList
  <1> DEFINE last == CHOOSE l \in Lists!LastMessages({}) : TRUE
             known == {u \in Users : contacts[u] # Null}
  <1>3. /\ DOMAIN last \subseteq ListChats /\ \A j \in DOMAIN last : last[j] \in Lists!RealRows
    <2>1. last \in Lists!LastMessages({})
      BY LastThere
    <2> HIDE DEF last
    <2> QED BY <1>1, <2>1 DEF Lists!LastMessages
  <1>4. /\ kind = "messages" => Lists!Listed(kind) = Lists!GetAllMessages(Lists!NoFilter)
        /\ kind = "filtered messages" => Lists!Listed(kind) = Lists!GetAllMessages(Filter)
        /\ kind = "chats by id" => Lists!Listed(kind) = [j \in DOMAIN last |-> j]
        /\ kind = "chats by time" => Lists!Listed(kind) = [j \in DOMAIN last |-> -rows[last[j]].time]
        /\ kind = "contacts by id" => Lists!Listed(kind) = [u \in known |-> userPart[u]]
        /\ kind = "contacts by name" => Lists!Listed(kind) = [u \in known |-> contacts[u]]
    BY DEF Lists!Listed
  <1> HIDE DEF last
  <1>5. CASE kind \in {"messages", "filtered messages"}
    <2>1. Pool(kind) = Ids
      BY <1>5 DEF Pool
    <2> QED BY <1>2, <1>4, <1>5, <2>1
  <1>6. CASE kind = "chats by id"
    <2>1. Pool(kind) = ListChats /\ ListChats \subseteq Int
      BY <1>6, ListsFit DEF Pool, Lists!ContactKinds
    <2>2. Lists!Listed(kind) = [j \in DOMAIN last |-> j]
      BY <1>4, <1>6
    <2> QED BY <1>3, <2>1, <2>2 DEF IsList
  <1>7. CASE kind = "chats by time"
    <2>1. Pool(kind) = ListChats
      BY <1>7 DEF Pool, Lists!ContactKinds
    <2>2. Lists!Listed(kind) = [j \in DOMAIN last |-> -rows[last[j]].time]
      BY <1>4, <1>7
    <2>3. \A j \in DOMAIN last : -rows[last[j]].time \in Int
      BY <1>1, <1>3
    <2> QED BY <1>3, <2>1, <2>2, <2>3 DEF IsList
  <1>8. CASE kind = "contacts by id"
    BY <1>4, <1>8, ListsFit DEF Pool, IsList, Lists!ContactKinds
  <1>9. CASE kind = "contacts by name"
    <2>1. \A u \in known : contacts[u] \in Int
      BY ListsFit DEF TablesInv
    <2> QED BY <1>4, <1>9, <2>1 DEF Pool, IsList, Lists!ContactKinds
  <1> QED BY <1>5, <1>6, <1>7, <1>8, <1>9 DEF Lists!Kinds

(* A sorted sequence has every item of its list once. *)
LEMMA SortedFacts ==
    ASSUME NEW items, IsFiniteSet(items), NEW list, IsList(list, items), NEW q \in Lists!Sorted(list)
    PROVE  /\ IsFiniteSet(DOMAIN list) /\ q \in Seq(DOMAIN list) /\ q \in Seq(items)
           /\ Len(q) = Cardinality(DOMAIN list) /\ Len(q) <= Cardinality(items)
           /\ \A x \in DOMAIN list : \E i \in DOMAIN q : q[i] = x
           /\ \A i, j \in DOMAIN q : i < j => q[i] # q[j] /\ list[q[i]] <= list[q[j]]
  <1> DEFINE D == DOMAIN list
             n == Cardinality(D)
  <1>1. IsFiniteSet(D) /\ n \in Nat /\ n <= Cardinality(items)
    BY FS_Subset, FS_CardinalityType DEF IsList
  <1>2. /\ q \in [1..n -> D]
        /\ \A i, j \in 1..n : i # j => q[i] # q[j]
        /\ \A i, j \in DOMAIN q : i < j => list[q[i]] <= list[q[j]]
    BY SameFiniteSets DEF Lists!Sorted, Lists!SetToSeqs
  <1>3. q \in Injection(1..n, D)
    BY <1>2 DEF Injection, IsInjective
  <1>4. q \in Surjection(1..n, D)
    <2>1. Cardinality(1..n) = n
      BY <1>1, FS_Interval
    <2> QED BY <1>1, <1>3, <2>1, FS_Injection
  <1>5. \A x \in D : \E i \in 1..n : q[i] = x
    BY <1>4 DEF Surjection
  <1>6. DOMAIN q = 1..n /\ q \in Seq(D) /\ Len(q) = n
    BY <1>1, <1>2
  <1>7. q \in Seq(items)
    BY <1>6 DEF IsList
  <1> QED BY <1>1, <1>2, <1>5, <1>6, <1>7

\* The place of an item in a list whose keys are distinct.
PlaceOf(list, x) == Cardinality({y \in DOMAIN list : list[y] <= list[x]})

(* Without ties, an item is found where its place says, in any order it is sorted. *)
LEMMA SortedPlaces ==
    ASSUME NEW items, IsFiniteSet(items), NEW list, IsList(list, items), ~Lists!HasTies(list),
           NEW q \in Lists!Sorted(list), NEW i \in DOMAIN q
    PROVE  PlaceOf(list, q[i]) = i
  <1> DEFINE upTo == {y \in DOMAIN list : list[y] <= list[q[i]]}
             f == [j \in 1..i |-> q[j]]
  <1>1. /\ q \in Seq(DOMAIN list) /\ \A x \in DOMAIN list : \E j \in DOMAIN q : q[j] = x
        /\ \A j, k \in DOMAIN q : j < k => q[j] # q[k] /\ list[q[j]] <= list[q[k]]
    BY SortedFacts
  <1>2. i \in Nat /\ 1..i \subseteq DOMAIN q /\ \A j \in DOMAIN q : j \in Nat /\ q[j] \in DOMAIN list
    BY <1>1
  <1>3. \A j \in 1..i : q[j] \in upTo
    <2>1. \A j \in 1..i : j = i \/ j < i
      BY <1>2
    <2>2. list[q[i]] \in Int
      BY <1>2 DEF IsList
    <2> QED BY <1>1, <1>2, <2>1, <2>2
  <1>4. \A x \in upTo : \E j \in 1..i : q[j] = x
    <2> SUFFICES ASSUME NEW x \in upTo PROVE \E j \in 1..i : q[j] = x
      OBVIOUS
    <2>1. PICK j \in DOMAIN q : q[j] = x
      BY <1>1
    <2>2. ~(i < j)
      <3> SUFFICES ASSUME i < j PROVE FALSE
        OBVIOUS
      <3>1. q[i] # q[j] /\ list[q[i]] <= list[q[j]] /\ list[q[j]] <= list[q[i]]
        BY <1>1, <2>1
      <3>2. list[q[i]] = list[q[j]]
        BY <1>2, <3>1 DEF IsList
      <3> QED BY <1>2, <3>1, <3>2 DEF Lists!HasTies
    <2>3. j \in 1..i
      BY <1>1, <1>2, <2>2
    <2> QED BY <2>1, <2>3
  <1>5. f \in Bijection(1..i, upTo)
    <2>1. f \in [1..i -> upTo]
      BY <1>3
    <2>2. \A j, k \in 1..i : f[j] = f[k] => j = k
      <3>1. \A j, k \in 1..i : j < k \/ k < j \/ j = k
        OBVIOUS
      <3> QED BY <1>1, <1>2, <3>1
    <2>3. \A x \in upTo : \E j \in 1..i : f[j] = x
      BY <1>4
    <2> HIDE DEF f, upTo
    <2> QED BY <2>1, <2>2, <2>3 DEF Bijection, Injection, Surjection, IsInjective
  <1>6. IsFiniteSet(1..i) /\ Cardinality(1..i) = i
    BY <1>2, FS_Interval
  <1>7. Cardinality(upTo) = i
    <2> HIDE DEF f, upTo
    <2> QED BY <1>5, <1>6, FS_Bijection DEF ExistsBijection
  <1> QED BY <1>7 DEF PlaceOf

(* An item that stays where it is, among others of which none goes behind it,
   keeps its place or is moved down.                                        *)
LEMMA PlaceGrows ==
    ASSUME NEW items, IsFiniteSet(items), NEW old, NEW new, IsList(old, items), IsList(new, items),
           \A x \in DOMAIN old : x \in DOMAIN new /\ new[x] <= old[x],
           NEW x \in DOMAIN old, new[x] = old[x]
    PROVE  /\ PlaceOf(old, x) \in Nat /\ PlaceOf(new, x) \in Nat
           /\ PlaceOf(old, x) <= PlaceOf(new, x)
  <1> DEFINE O == {y \in DOMAIN old : old[y] <= old[x]}
             N == {y \in DOMAIN new : new[y] <= new[x]}
  <1>1. O \in SUBSET N
    <2>1. \A y \in DOMAIN old : old[y] \in Int /\ new[y] \in Int
      BY DEF IsList
    <2> QED BY <2>1
  <1>2. IsFiniteSet(N)
    BY FS_Subset DEF IsList
  <1>3. Cardinality(O) <= Cardinality(N) /\ IsFiniteSet(O)
    BY <1>1, <1>2, FS_Subset
  <1> QED BY <1>2, <1>3, FS_CardinalityType DEF PlaceOf

-----------------------------------------------------------------------------
\* The page at an offset, as long as the numbers are small.
Page(q, offset, limit) == SubSeq(q, offset + 1, Lists!Smaller(offset + limit, Len(q)))

(* A page holds the items whose places follow its offset. *)
LEMMA PageFacts ==
    ASSUME NEW D, NEW q \in Seq(D), NEW offset \in Nat, NEW limit \in Nat \ {0}
    PROVE  LET page == Page(q, offset, limit) IN
           /\ page \in Seq(D) /\ Len(page) \in Nat
           /\ Lists!ToSet(page) = {q[i] : i \in {k \in DOMAIN q : offset < k /\ k <= offset + limit}}
           /\ Len(page) < limit => Len(q) < offset + limit
           /\ ~(Len(page) < limit) => offset + limit <= Len(q)
  <1> DEFINE end == Lists!Smaller(offset + limit, Len(q))
             page == Page(q, offset, limit)
             n == IF offset + 1 <= end THEN end - offset ELSE 0
  <1>1. end \in Nat /\ end <= Len(q) /\ end <= offset + limit /\ end \in {offset + limit, Len(q)}
    BY DEF Lists!Smaller
  <1> HIDE DEF end
  <1>2. /\ page \in Seq(D) /\ Len(page) = n /\ DOMAIN page = 1..n
        /\ \A i \in 1..n : page[i] = q[offset + i]
        /\ n \in Nat /\ (n = 0 \/ n = end - offset)
        /\ n = 0 <=> end <= offset
    <2>1. page = SubSeq(q, offset + 1, end)
      BY DEF Page, end
    <2>2. /\ SubSeq(q, offset + 1, end) \in Seq(D) /\ Len(SubSeq(q, offset + 1, end)) = n
          /\ \A i \in 1..n : SubSeq(q, offset + 1, end)[i] = q[offset + i]
      BY <1>1
    <2>3. n \in Nat /\ (n = 0 \/ n = end - offset) /\ (n = 0 <=> end <= offset)
      BY <1>1
    <2> HIDE DEF n, page
    <2> QED BY <2>1, <2>2, <2>3
  <1>3. \A i \in 1..n : offset + i \in DOMAIN q
    BY <1>1, <1>2
  <1>5. Lists!ToSet(page) = {q[i] : i \in {k \in DOMAIN q : offset < k /\ k <= offset + limit}}
    <2>1. ASSUME NEW i \in 1..n
          PROVE  /\ offset + i \in DOMAIN q /\ offset < offset + i /\ offset + i <= offset + limit
                 /\ page[i] = q[offset + i]
      BY <1>1, <1>2, <1>3
    <2>2. ASSUME NEW k \in DOMAIN q, offset < k, k <= offset + limit
          PROVE  k - offset \in 1..n /\ page[k - offset] = q[k]
      <3>1. k \in Nat /\ k <= Len(q) /\ k <= end
        BY <1>1, <2>2
      <3>2. k - offset \in 1..n /\ offset + (k - offset) = k
        BY <1>1, <1>2, <2>2, <3>1
      <3> QED BY <1>2, <3>2
    <2> QED BY <1>2, <2>1, <2>2 DEF Lists!ToSet
  <1>6. /\ Len(page) < limit => Len(q) < offset + limit
        /\ ~(Len(page) < limit) => offset + limit <= Len(q)
    BY <1>1, <1>2
  <1> QED BY <1>2, <1>5, <1>6 DEF page

(* As long as offset and limit are small both paginations give that page. *)
LEMMA PagesServed ==
    ASSUME NEW items \in {Ids, ListChats, Users}, NEW q \in Seq(items),
           NEW offset \in Nat, NEW limit \in Limits, offset <= Cardinality(items)
    PROVE  /\ Lists!Retrieve(q, offset, limit) = Page(q, offset, limit)
           /\ offset <= Len(q) /\ Len(q) <= Cardinality(items) =>
                 Lists!applyPagination(q, offset, limit) = Page(q, offset, limit)
           /\ Page(q, offset, limit) \notin {Failed, Panicked}
  <1>1. /\ limit \in Nat \ {0} /\ Cardinality(items) \in Nat
        /\ offset + limit < Lists!Half
    <2>1. limit \in Nat \ {0} /\ Cardinality(items) \in Nat
      BY ListsFit, FS_CardinalityType
    <2>2. Cardinality(items) + limit < Lists!Half
      BY ListsFit DEF Lists!Half
    <2> QED BY <2>1, <2>2, HalfNat
  <1>2. Lists!Retrieve(q, offset, limit) = Page(q, offset, limit)
    <2>1. /\ ~(offset >= Lists!Half) /\ ~(limit >= Lists!Half) /\ limit # 0
      BY <1>1, HalfNat
    <2> QED BY <2>1 DEF Lists!Retrieve, Page
  <1>3. ASSUME offset <= Len(q)
        PROVE  Lists!applyPagination(q, offset, limit) = Page(q, offset, limit)
    <2>1. /\ Lists!ToInt(offset) = offset /\ Lists!EffectiveLimit(q, limit) = limit
          /\ Lists!ToInt(offset + limit) = offset + limit
      BY <1>1, ToIntWithin, HalfNat DEF Lists!EffectiveLimit
    <2>2. /\ 0 <= offset /\ offset <= Lists!Smaller(offset + limit, Len(q))
          /\ Lists!Smaller(offset + limit, Len(q)) <= Len(q) /\ limit # 0
      BY <1>1, <1>3 DEF Lists!Smaller
    <2> QED BY <2>1, <2>2 DEF Lists!applyPagination, Lists!Clipped, Page
  <1>4. Page(q, offset, limit) \notin {Failed, Panicked}
    <2>1. Page(q, offset, limit) \in Seq(items)
      BY <1>1, PageFacts
    <2> QED BY <2>1, ListsFit
  <1> QED BY <1>2, <1>3, <1>4

(* The two paginations agree on any list of contacts, whatever the request. *)
LEMMA PaginationsMeet ==
    ASSUME NEW q \in Seq(Users), Len(q) <= Cardinality(Users),
           NEW offset \in 0..(2 * Lists!Half - 1), NEW limit \in 0..(2 * Lists!Half - 1)
    PROVE  LET byHand == Lists!applyPagination(q, offset, limit)
               bySql == Lists!Retrieve(q, offset, limit)
           IN  /\ byHand # Panicked /\ bySql # Failed => byHand = bySql
               /\ offset <= Len(q) /\ offset + limit < Lists!Half => byHand # Panicked
  <1>1. /\ offset \in Nat /\ limit \in Nat /\ offset < 2 * Lists!Half /\ limit < 2 * Lists!Half
        /\ Len(q) \in Nat /\ Len(q) + Len(q) < Lists!Half
    <2>1. Cardinality(Users) \in Nat /\ Cardinality(Users) + Cardinality(Users) < Lists!Half
      BY ListsFit, FS_CardinalityType DEF Lists!Half
    <2> QED BY <2>1, HalfNat
  <1> DEFINE size == Lists!EffectiveLimit(q, limit)
             start == Lists!ToInt(offset)
             end == Lists!Clipped(q, Lists!ToInt(start + size))
  <1>2. Lists!applyPagination(q, offset, limit) =
            IF offset = 0 /\ limit = 0 THEN q
            ELSE IF 0 <= start /\ start <= end /\ end <= Len(q) THEN SubSeq(q, start + 1, end)
            ELSE Panicked
    BY DEF Lists!applyPagination
  <1>3. ASSUME offset < Lists!Half, limit < Lists!Half
        PROVE  /\ start = offset /\ size = IF limit = 0 THEN Len(q) ELSE limit
               /\ offset + size < Lists!Half => end = Lists!Smaller(offset + size, Len(q))
               /\ ~(offset + size < Lists!Half) => ~(start <= end)
    <2>1. start = offset /\ size = IF limit = 0 THEN Len(q) ELSE limit
      BY <1>1, <1>3, ToIntWithin DEF Lists!EffectiveLimit
    <2>2. PICK n \in Nat : n = size /\ offset + n < 2 * Lists!Half /\ n < Lists!Half
      BY <1>1, <1>3, <2>1, HalfNat
    <2>3. ASSUME offset + n < Lists!Half PROVE end = Lists!Smaller(offset + n, Len(q))
      <3>1. Lists!ToInt(offset + n) = offset + n
        BY <1>1, <2>3, ToIntWithin
      <3> QED BY <2>1, <2>2, <3>1 DEF Lists!Clipped
    <2>4. ASSUME ~(offset + n < Lists!Half) PROVE ~(start <= end)
      <3>1. offset + n \in Nat /\ Lists!Half <= offset + n /\ offset + n < 2 * Lists!Half
        BY <1>1, <2>2, <2>4, HalfNat
      <3>2. Lists!ToInt(offset + n) = (offset + n) - 2 * Lists!Half
        BY <3>1, ToIntBeyond
      <3>3. (offset + n) - 2 * Lists!Half < 0
        BY <3>1, HalfNat
      <3>4. end = Lists!Smaller((offset + n) - 2 * Lists!Half, Len(q))
        BY <2>1, <2>2, <3>2 DEF Lists!Clipped
      <3>5. end < 0
        BY <1>1, <3>1, <3>3, <3>4, HalfNat DEF Lists!Smaller
      <3>6. end \in Int
        BY <1>1, <3>1, <3>4, HalfNat DEF Lists!Smaller
      <3> QED BY <1>1, <2>1, <3>5, <3>6
    <2> QED BY <2>1, <2>2, <2>3, <2>4
  <1> HIDE DEF start, size, end
  <1>4. ASSUME offset >= Lists!Half \/ limit >= Lists!Half
        PROVE  Lists!Retrieve(q, offset, limit) = Failed
    BY <1>4 DEF Lists!Retrieve
  <1>5. ASSUME offset < Lists!Half, limit < Lists!Half, Lists!Retrieve(q, offset, limit) # Failed,
               Lists!applyPagination(q, offset, limit) # Panicked
        PROVE  Lists!applyPagination(q, offset, limit) = Lists!Retrieve(q, offset, limit)
    <2>1. /\ start = offset /\ size = IF limit = 0 THEN Len(q) ELSE limit
          /\ offset + size < Lists!Half => end = Lists!Smaller(offset + size, Len(q))
          /\ ~(offset + size < Lists!Half) => ~(start <= end)
      BY <1>3, <1>5
    <2>2. Lists!Retrieve(q, offset, limit) =
              SubSeq(q, offset + 1, IF limit = 0 THEN Len(q) ELSE Lists!Smaller(offset + limit, Len(q)))
      BY <1>5 DEF Lists!Retrieve
    <2>3. CASE offset = 0 /\ limit = 0
      <3>1. SubSeq(q, 1, Len(q)) = q
        BY <1>1
      <3> QED BY <1>2, <2>2, <2>3, <3>1
    <2>4. CASE ~(offset = 0 /\ limit = 0)
      <3>1. start <= end /\ Lists!applyPagination(q, offset, limit) = SubSeq(q, start + 1, end)
        BY <1>2, <1>5, <2>4
      <3>2. end = Lists!Smaller(offset + size, Len(q)) /\ start = offset
        BY <2>1, <3>1
      <3>3. limit = 0 => Lists!Smaller(offset + size, Len(q)) = Len(q)
        BY <1>1, <2>1 DEF Lists!Smaller
      <3> QED BY <2>1, <2>2, <3>1, <3>2, <3>3
    <2> QED BY <2>3, <2>4
  <1>6. ASSUME offset <= Len(q), offset + limit < Lists!Half
        PROVE  Lists!applyPagination(q, offset, limit) # Panicked
    <2>1. offset < Lists!Half /\ limit < Lists!Half
      BY <1>1, <1>6, HalfNat
    <2>2. /\ start = offset /\ size = IF limit = 0 THEN Len(q) ELSE limit
          /\ offset + size < Lists!Half => end = Lists!Smaller(offset + size, Len(q))
      BY <1>3, <2>1
    <2>3. offset + size < Lists!Half /\ size \in Nat
      BY <1>1, <1>6, <2>2, HalfNat
    <2>4. end \in Nat /\ 0 <= start /\ start <= end /\ end <= Len(q)
      BY <1>1, <1>6, <2>2, <2>3 DEF Lists!Smaller
    <2>5. q \notin {Panicked} /\ SubSeq(q, start + 1, end) \notin {Panicked}
      <3>1. SubSeq(q, offset + 1, end) \in Seq(Users)
        BY <1>1, <2>4
      <3> QED BY <2>2, <3>1, ListsFit
    <2> QED BY <1>2, <2>4, <2>5
  <1>7. offset < Lists!Half \/ offset >= Lists!Half
    BY <1>1, HalfNat
  <1>8. limit < Lists!Half \/ limit >= Lists!Half
    BY <1>1, HalfNat
  <1> QED BY <1>4, <1>5, <1>6, <1>7, <1>8

(* PaginationsAgree, from the types of the tables. *)
LEMMA PaginationsFollow == TablesInv => Lists!PaginationsAgree
  <1> SUFFICES ASSUME TablesInv, NEW q \in Lists!Sorted(Lists!Listed("contacts by id")),
                      NEW offset \in 0..(2 * Lists!Half - 1), NEW limit \in 0..(2 * Lists!Half - 1)
               PROVE  LET byHand == Lists!applyPagination(q, offset, limit)
                          bySql == Lists!Retrieve(q, offset, limit)
                      IN  /\ byHand # Panicked /\ bySql # Failed => byHand = bySql
                          /\ offset <= Len(q) /\ offset + limit < Lists!Half => byHand # Panicked
    BY DEF Lists!PaginationsAgree
  <1>1. IsList(Lists!Listed("contacts by id"), Users) /\ IsFiniteSet(Users)
    <2>1. "contacts by id" \in Lists!Kinds /\ Pool("contacts by id") = Users
      BY DEF Lists!Kinds, Pool, Lists!ContactKinds
    <2> QED BY <2>1, ListedFacts, ListsFit
  <1>2. q \in Seq(Users) /\ Len(q) <= Cardinality(Users)
    BY <1>1, SortedFacts
  <1> QED BY <1>2, PaginationsMeet

-----------------------------------------------------------------------------
(* The chat list: the columns of a sound chat are those of its messages. *)
LEMMA ChatsFollow == TablesInv => Lists!ChatListIsRight
  <1> SUFFICES ASSUME TablesInv PROVE Lists!ChatListIsRight
    OBVIOUS
  <1> DEFINE stored == {m \in Ids : rows[m] # Null}
             Stale(m) == rows[m].jid # rows[m].chat \/ rows[m].is_real # rows[m].real
             Real(c) == {m \in stored : rows[m].real /\ rows[m].chat = c}
             sound == {c \in ListChats : \A m \in stored :
                          c \in {rows[m].jid, rows[m].chat} => ~Stale(m)}
             entries(last, c) == {j \in DOMAIN last : Lists!ChatEntry(last[j]).jid = c}
             first(c) == {Head(q) : q \in Lists!Sorted(Lists!GetChatMessages(c)) \ {<<>>}}
  <1>1. \A m \in Lists!RealRows : m \in stored /\ rows[m] \in Lists!Rows
    BY DEF Lists!RealRows, TablesInv
  <1>2. ASSUME NEW c \in sound, NEW m
        PROVE  m \in Real(c) <=> m \in Lists!RealRows /\ rows[m].jid = c
    <2>1. ASSUME m \in Real(c) PROVE m \in Lists!RealRows /\ rows[m].jid = c
      BY <2>1 DEF Lists!RealRows
    <2>2. ASSUME m \in Lists!RealRows, rows[m].jid = c PROVE m \in Real(c)
      BY <1>1, <2>2 DEF Lists!RealRows
    <2> QED BY <2>1, <2>2
  <1>3. ASSUME NEW c \in sound, NEW m \in Lists!RealRows, rows[m].chat = c
        PROVE  m \in Real(c)
    BY <1>1, <1>3 DEF Lists!RealRows
  <1>4. ASSUME NEW c \in sound, NEW m \in first(c)
        PROVE  m \in Real(c) /\ Lists!NewestIn(m, c)
    <2> DEFINE list == Lists!GetChatMessages(c)
    <2>1. /\ DOMAIN list = {r \in Lists!RealRows : rows[r].jid = c}
          /\ \A r \in DOMAIN list : list[r] = -rows[r].time
          /\ list = [r \in DOMAIN list |-> list[r]]
      <3> DEFINE filter == [Lists!NoFilter EXCEPT !.jid = c]
      <3>1. filter.jid = c /\ filter.gte = Null /\ filter.lte = Null /\ c # Null
        BY ListsFit DEF Lists!NoFilter
      <3>2. list = Lists!GetAllMessages(filter)
        BY DEF Lists!GetChatMessages
      <3> HIDE DEF filter
      <3>3. \A r \in Lists!RealRows : Lists!Meets(r, filter) <=> rows[r].jid = c
        BY <3>1 DEF Lists!Meets
      <3> HIDE DEF list
      <3> QED BY <3>2, <3>3 DEF Lists!GetAllMessages
    <2>2. IsList(list, Ids)
      BY <1>1, <2>1 DEF IsList, Lists!Rows
    <2>3. PICK q \in Lists!Sorted(list) : q # <<>> /\ m = Head(q)
      OBVIOUS
    <2> HIDE DEF list
    <2>4. /\ q \in Seq(DOMAIN list) /\ \A x \in DOMAIN list : \E i \in DOMAIN q : q[i] = x
          /\ \A i, j \in DOMAIN q : i < j => list[q[i]] <= list[q[j]]
      BY <2>2, SortedFacts, ListsFit
    <2>5. 1 \in DOMAIN q /\ m = q[1] /\ m \in DOMAIN list
      BY <2>3, <2>4
    <2>6. ASSUME NEW o \in Lists!RealRows, rows[o].jid = c PROVE rows[o].time <= rows[m].time
      <3>1. PICK i \in DOMAIN q : q[i] = o
        BY <2>1, <2>4, <2>6
      <3>2. list[m] <= list[o]
        <4>1. list[m] \in Int
          BY <2>2, <2>5 DEF IsList
        <4>2. i = 1 \/ 1 < i
          BY <2>4
        <4> QED BY <2>4, <2>5, <3>1, <4>1, <4>2
      <3>3. list[m] = -rows[m].time /\ list[o] = -rows[o].time
        BY <2>1, <2>5, <2>6
      <3>4. rows[m].time \in Int /\ rows[o].time \in Int
        BY <1>1, <2>1, <2>5 DEF Lists!Rows
      <3> QED BY <3>2, <3>3, <3>4
    <2> QED BY <1>2, <2>1, <2>5, <2>6 DEF Lists!NewestIn
  <1>5. ASSUME NEW jids \in SUBSET ListChats, NEW last \in Lists!LastMessages(jids), NEW c \in sound
        PROVE  IF Real(c) = {} \/ (jids # {} /\ c \notin jids) THEN entries(last, c) = {}
               ELSE /\ Lists!Cardinality(entries(last, c)) = 1
                    /\ \A j \in entries(last, c), m \in first(c) \cup Real(c) :
                          rows[m].time <= Lists!ChatEntry(last[j]).time
                    /\ \A j \in entries(last, c), m \in first(c) :
                          rows[m].time = Lists!ChatEntry(last[j]).time
    <2> DEFINE there == {j \in {rows[m].jid : m \in Lists!RealRows} : jids = {} \/ j \in jids}
    <2>1. /\ DOMAIN last = there
          /\ \A j \in there : /\ last[j] \in Lists!RealRows /\ rows[last[j]].jid = j
                              /\ Lists!NewestIn(last[j], j)
      BY DEF Lists!LastMessages
    <2>2. \A j \in there : /\ Lists!ChatEntry(last[j]).jid = rows[last[j]].chat
                           /\ Lists!ChatEntry(last[j]).time = rows[last[j]].time
      BY DEF Lists!ChatEntry
    <2>3. \A j \in entries(last, c) : j = c /\ last[j] \in Real(c) /\ j \in there
      BY <1>2, <1>3, <2>1, <2>2
    <2>4. CASE Real(c) = {} \/ (jids # {} /\ c \notin jids)
      BY <2>3, <2>4
    <2>5. CASE ~(Real(c) = {} \/ (jids # {} /\ c \notin jids))
      <3>1. c \in there
        <4>1. PICK m \in Real(c) : TRUE
          BY <2>5
        <4> QED BY <1>2, <2>5, <4>1
      <3>2. last[c] \in Real(c) /\ Lists!NewestIn(last[c], c)
        BY <1>2, <2>1, <3>1
      <3>3. entries(last, c) = {c}
        BY <2>1, <2>2, <2>3, <3>1, <3>2
      <3>4. Lists!Cardinality(entries(last, c)) = 1
        BY <3>3, FS_Singleton, SameFiniteSets
      <3>5. \A m \in first(c) \cup Real(c) : rows[m].time <= rows[last[c]].time
        BY <1>2, <1>4, <3>2 DEF Lists!NewestIn
      <3>6. \A m \in first(c) : rows[last[c]].time <= rows[m].time
        BY <1>2, <1>4, <3>2 DEF Lists!NewestIn
      <3>7. \A m \in first(c) \cup {last[c]} : rows[m].time \in Int
        BY <1>1, <1>2, <1>4, <3>2 DEF Lists!Rows
      <3>8. \A m \in first(c) : rows[m].time = rows[last[c]].time
        BY <3>5, <3>6, <3>7
      <3> QED BY <2>2, <2>5, <3>1, <3>3, <3>4, <3>5, <3>8
    <2> QED BY <2>4, <2>5
  <1> QED BY <1>5 DEF Lists!ChatListIsRight

-----------------------------------------------------------------------------
(* A walk is owed what its next pages hold.                                *)
Walks == [pc : {"asking", "done"}, kind : Lists!Kinds, limit : Limits, offset : Nat,
          owed : SUBSET (Ids \cup ListChats \cup Users), calm : BOOLEAN, again : BOOLEAN]

\* Owed items are still to come, at distinct places; as long as nothing changed,
\* all that is to come is owed.
OwedInv ==
    LET list == Lists!Listed(walk.kind) IN
    /\ walk.owed \subseteq DOMAIN list
    /\ walk.owed # {} => ~Lists!HasTies(list)
    /\ \A x \in walk.owed : walk.offset < PlaceOf(list, x)
    /\ walk.calm => /\ ~Lists!HasTies(list)
                    /\ \A x \in DOMAIN list : walk.offset < PlaceOf(list, x) => x \in walk.owed
    /\ ~walk.again

\* A walk goes on only behind a full page; contacts are never removed.
OffsetInv ==
    /\ walk.offset <= Cardinality(Pool(walk.kind))
    /\ walk.kind \in Lists!ContactKinds => walk.offset <= Cardinality(DOMAIN Lists!Listed(walk.kind))

WalkInv ==
    /\ walk \in Walks \cup {Lists!Idle}
    /\ walk.pc = "asking" => OwedInv /\ OffsetInv
    /\ walk.pc = "done" => walk.owed = {} /\ ~walk.again

ListsInv == TablesInv /\ WalkInv

(* Both contact lists hold the contacts with a name. *)
LEMMA KnownContacts ==
    \A kind \in Lists!ContactKinds : DOMAIN Lists!Listed(kind) = {u \in Users : contacts[u] # Null}
  <1>1. /\ Lists!Listed("contacts by id") = [u \in {v \in Users : contacts[v] # Null} |-> userPart[u]]
        /\ Lists!Listed("contacts by name") = [u \in {v \in Users : contacts[v] # Null} |-> contacts[u]]
    BY DEF Lists!Listed
  <1> QED BY <1>1 DEF Lists!ContactKinds

(* The pools are finite. *)
LEMMA PoolFacts ==
    \A kind \in Lists!Kinds :
       /\ Pool(kind) \in {Ids, ListChats, Users}
       /\ IsFiniteSet(Pool(kind)) /\ Cardinality(Pool(kind)) \in Nat
       /\ kind \in Lists!ContactKinds => Pool(kind) = Users
  <1>1. \A kind \in Lists!Kinds :
           /\ Pool(kind) \in {Ids, ListChats, Users}
           /\ kind \in Lists!ContactKinds => Pool(kind) = Users
    BY DEF Pool, Lists!ContactKinds, Lists!Kinds
  <1> QED BY <1>1, ListsFit, FS_CardinalityType

(* The tables keep their types. *)
LEMMA TablesNext == TablesInv /\ [Lists!Next]_(Lists!vars) => TablesInv'
  <1> SUFFICES ASSUME TablesInv, [Lists!Next]_(Lists!vars) PROVE TablesInv'
    OBVIOUS
  <1>1. ASSUME NEW s \in Saves, Lists!UpsertOneMessage(s) PROVE TablesInv'
    <2>1. s \in [id : Ids, chat : ListChats, time : Int, real : BOOLEAN]
      BY ListsFit
    <2>2. [jid |-> s.chat, is_real |-> s.real, chat |-> s.chat, real |-> s.real, time |-> s.time]
              \in Lists!Rows
      BY <2>1 DEF Lists!Rows
    <2>3. \A r \in Lists!Rows : [r EXCEPT !.chat = s.chat, !.real = s.real, !.time = s.time] \in Lists!Rows
      BY <2>1 DEF Lists!Rows
    <2> QED BY <1>1, <2>1, <2>2, <2>3 DEF Lists!UpsertOneMessage, TablesInv
  <1>2. ASSUME NEW m \in Ids, Lists!DeleteMessage(m) PROVE TablesInv'
    BY <1>2 DEF Lists!DeleteMessage, TablesInv
  <1>3. ASSUME NEW c \in ListChats, NEW t \in Lists!Times, Lists!DeleteChatMessages(c, t) PROVE TablesInv'
    BY <1>3 DEF Lists!DeleteChatMessages, TablesInv
  <1>4. ASSUME NEW u \in Users, NEW n \in ContactNames, Lists!PutContactName(u, n) PROVE TablesInv'
    BY <1>4 DEF Lists!PutContactName, TablesInv
  <1>5. ASSUME Lists!Walk(Lists!Kinds) \/ UNCHANGED Lists!vars PROVE TablesInv'
    BY <1>5 DEF Lists!Walk, Lists!GetPage, Lists!End, Lists!Begin, Lists!vars, TablesInv
  <1> QED BY <1>1, <1>2, <1>3, <1>4, <1>5 DEF Lists!Next, Lists!MessagesChange, Lists!ContactsChange

(* A change of the tables under way: whoever stays owed has not moved, and
   nobody has left a place before them.                                    *)
LEMMA WatchKeeps ==
    ASSUME ListsInv, TablesInv', Lists!Watch,
           \A u \in Users : contacts[u] # Null => contacts'[u] # Null
    PROVE  WalkInv'
  <1>1. \A k \in Lists!Kinds : IsList(Lists!Listed(k)', Pool(k))
    <2>1. (TablesInv => \A kind \in Lists!Kinds : IsList(Lists!Listed(kind), Pool(kind)))'
      BY ListedFacts, PTL
    <2> QED BY <2>1 DEF IsList, Pool, Lists!Kinds, Lists!ContactKinds
  <1>2. \A k \in Lists!ContactKinds : DOMAIN Lists!Listed(k)' = {u \in Users : contacts'[u] # Null}
    <2>1. (\A kind \in Lists!ContactKinds : DOMAIN Lists!Listed(kind) = {u \in Users : contacts[u] # Null})'
      BY KnownContacts, PTL
    <2> QED BY <2>1 DEF Lists!ContactKinds
  <1>3. CASE walk.pc # "asking"
    <2>1. walk' = walk
      BY <1>3 DEF Lists!Watch
    <2> QED BY <1>3, <2>1 DEF ListsInv, WalkInv
  <1>4. CASE walk.pc = "asking"
    <2>1. walk \in Walks /\ OwedInv /\ OffsetInv
      BY <1>4 DEF ListsInv, WalkInv, Lists!Idle
    <2>2. PICK kind \in Lists!Kinds : kind = walk.kind
      BY <2>1 DEF Walks
    <2> DEFINE old == Lists!Listed(kind)
               new == Lists!Listed(kind)'
               leaves == \E x \in DOMAIN old : x \notin DOMAIN new \/ new[x] > old[x]
               owed == IF Lists!HasTies(new) \/ leaves THEN {}
                       ELSE {x \in walk.owed : ~(x \notin DOMAIN new \/ new[x] # old[x])}
    <2>3. walk' = [walk EXCEPT !.owed = owed, !.calm = @ /\ new = old]
      BY <1>4, <2>2 DEF Lists!Watch
    <2>4. IsList(old, Pool(kind))
      BY ListedFacts DEF ListsInv
    <2>5. IsList(new, Pool(kind))
      BY <1>1
    <2> HIDE DEF old, new
    <2>6. /\ walk' \in Walks /\ walk'.pc = "asking" /\ walk'.kind = kind
          /\ walk'.offset = walk.offset /\ walk'.again = walk.again
          /\ walk'.owed = owed /\ walk'.calm = (walk.calm /\ new = old)
      <3>1. owed \in SUBSET (Ids \cup ListChats \cup Users) /\ owed \subseteq walk.owed
        BY <2>1 DEF Walks
      <3> HIDE DEF owed
      <3> QED BY <1>4, <2>1, <2>2, <2>3, <3>1 DEF Walks
    <2>7. /\ walk.owed \subseteq DOMAIN old
          /\ walk.owed # {} => ~Lists!HasTies(old)
          /\ \A x \in walk.owed : walk.offset < PlaceOf(old, x)
          /\ walk.calm => /\ ~Lists!HasTies(old)
                          /\ \A x \in DOMAIN old : walk.offset < PlaceOf(old, x) => x \in walk.owed
          /\ ~walk.again
      BY <2>1, <2>2 DEF OwedInv, old
    <2>8. OwedInv'
      <3>1. owed # {} => ~Lists!HasTies(new) /\ ~leaves /\ owed \subseteq DOMAIN new
        OBVIOUS
      <3>2. ASSUME NEW x \in owed PROVE walk.offset < PlaceOf(new, x)
        <4>1. \A y \in DOMAIN old : y \in DOMAIN new /\ new[y] <= old[y]
          BY <3>1, <2>4, <2>5 DEF IsList
        <4>2. x \in DOMAIN old /\ new[x] = old[x] /\ x \in walk.owed
          BY <2>7
        <4>3. PlaceOf(old, x) \in Nat /\ PlaceOf(new, x) \in Nat /\ PlaceOf(old, x) <= PlaceOf(new, x)
          BY <2>4, <2>5, <4>1, <4>2, PlaceGrows, PoolFacts
        <4>4. walk.offset \in Nat
          BY <2>1 DEF Walks
        <4> QED BY <2>7, <4>2, <4>3, <4>4
      <3>3. new = old /\ ~Lists!HasTies(old) => owed = walk.owed
        BY <2>4, <2>7 DEF IsList
      <3>4. Lists!Listed(walk.kind)' = new
        BY <2>6 DEF new
      <3> HIDE DEF owed, leaves
      <3>5. /\ owed \subseteq DOMAIN new
            /\ owed # {} => ~Lists!HasTies(new)
            /\ \A x \in owed : walk.offset < PlaceOf(new, x)
            /\ walk.calm /\ new = old =>
                  /\ ~Lists!HasTies(new)
                  /\ \A x \in DOMAIN new : walk.offset < PlaceOf(new, x) => x \in owed
        BY <2>7, <3>1, <3>2, <3>3
      <3> QED BY <2>6, <2>7, <3>4, <3>5 DEF OwedInv, PlaceOf, Lists!HasTies
    <2>9. OffsetInv'
      <3>1. walk.offset <= Cardinality(Pool(kind))
        BY <2>1, <2>2 DEF OffsetInv
      <3>2. ASSUME kind \in Lists!ContactKinds PROVE walk.offset <= Cardinality(DOMAIN new)
        <4>1. DOMAIN old \in SUBSET DOMAIN new
          <5>1. DOMAIN old = {u \in Users : contacts[u] # Null}
            BY <3>2, KnownContacts DEF old
          <5>2. DOMAIN new = {u \in Users : contacts'[u] # Null}
            BY <1>2, <3>2 DEF new
          <5> QED BY <5>1, <5>2
        <4>2. IsFiniteSet(DOMAIN new)
          BY <2>5, PoolFacts, FS_Subset DEF IsList
        <4>3. Cardinality(DOMAIN old) <= Cardinality(DOMAIN new) /\ IsFiniteSet(DOMAIN old)
          BY <4>1, <4>2, FS_Subset
        <4>4. walk.offset \in Nat /\ walk.offset <= Cardinality(DOMAIN old)
          BY <2>1, <2>2, <3>2 DEF OffsetInv, Walks, old
        <4> QED BY <4>2, <4>3, <4>4, FS_CardinalityType
      <3>3. Lists!Listed(walk.kind)' = new /\ Pool(walk.kind)' = Pool(kind)
        BY <2>6 DEF new, Pool
      <3> QED BY <2>6, <3>1, <3>2, <3>3 DEF OffsetInv, Lists!ContactKinds
    <2> QED BY <2>6, <2>8, <2>9 DEF WalkInv
  <1> QED BY <1>3, <1>4

(* A list is made from the tables alone. *)
LEMMA ListedSame ==
    ASSUME UNCHANGED <<rows, contacts>>
    PROVE  \A kind \in Lists!Kinds : Lists!Listed(kind)' = Lists!Listed(kind)
  BY DEF Lists!Listed, Lists!LastMessages, Lists!NewestIn, Lists!GetAllMessages, Lists!Meets, Lists!RealRows

(* A walk begins with everything owed, unless keys are equal. *)
LEMMA BeginKeeps ==
    ASSUME ListsInv, NEW kind \in Lists!Kinds, NEW limit \in Limits, Lists!Begin(kind, limit)
    PROVE  WalkInv'
  <1> DEFINE list == Lists!Listed(kind)
             owed == IF Lists!HasTies(list) THEN {} ELSE DOMAIN list
  <1>1. /\ walk' = [pc |-> "asking", kind |-> kind, limit |-> limit, offset |-> 0,
                    owed |-> owed, calm |-> ~Lists!HasTies(list), again |-> FALSE]
        /\ UNCHANGED <<rows, contacts>>
    BY DEF Lists!Begin
  <1>2. IsList(list, Pool(kind)) /\ IsFiniteSet(Pool(kind)) /\ Cardinality(Pool(kind)) \in Nat
    BY ListedFacts, PoolFacts DEF ListsInv
  <1>3. DOMAIN list \subseteq Ids \cup ListChats \cup Users /\ IsFiniteSet(DOMAIN list)
    BY <1>2, PoolFacts, FS_Subset DEF IsList
  <1>4. Lists!Listed(kind)' = list
    BY <1>1, ListedSame
  <1> HIDE DEF list
  <1>5. \A x \in DOMAIN list : 0 < PlaceOf(list, x)
    <2> SUFFICES ASSUME NEW x \in DOMAIN list PROVE 0 < PlaceOf(list, x)
      OBVIOUS
    <2> DEFINE upTo == {y \in DOMAIN list : list[y] <= list[x]}
    <2>1. upTo \in SUBSET DOMAIN list /\ x \in upTo
      <3>1. list[x] \in Int
        BY <1>2 DEF IsList
      <3> QED BY <3>1
    <2> HIDE DEF upTo
    <2>2. IsFiniteSet(upTo) /\ Cardinality(upTo) \in Nat /\ Cardinality(upTo) # 0
      BY <1>3, <2>1, FS_Subset, FS_CardinalityType, FS_EmptySet
    <2> QED BY <2>2 DEF PlaceOf, upTo
  <1>6. /\ owed \in SUBSET (Ids \cup ListChats \cup Users) /\ owed \subseteq DOMAIN list
        /\ owed # {} => ~Lists!HasTies(list)
        /\ ~Lists!HasTies(list) => owed = DOMAIN list
    BY <1>3
  <1> HIDE DEF owed
  <1>7. Lists!HasTies(list) \in BOOLEAN
    BY DEF Lists!HasTies
  <1>8. /\ walk' \in Walks /\ walk'.pc = "asking" /\ walk'.kind = kind /\ walk'.offset = 0
        /\ walk'.owed = owed /\ walk'.calm = ~Lists!HasTies(list) /\ ~walk'.again
    BY <1>1, <1>6, <1>7 DEF Walks
  <1>9. OwedInv'
    <2>1. Lists!Listed(walk.kind)' = list
      BY <1>4, <1>8
    <2> QED BY <1>5, <1>6, <1>8, <2>1 DEF OwedInv, PlaceOf, Lists!HasTies
  <1>10. OffsetInv'
    <2>1. Lists!Listed(walk.kind)' = list /\ Pool(walk.kind)' = Pool(kind)
      BY <1>4, <1>8 DEF Pool
    <2>2. 0 <= Cardinality(DOMAIN list) /\ 0 <= Cardinality(Pool(kind))
      BY <1>2, <1>3, FS_CardinalityType
    <2>3. walk'.offset = 0
      BY <1>8
    <2> QED BY <2>1, <2>2, <2>3 DEF OffsetInv
  <1> QED BY <1>8, <1>9, <1>10 DEF WalkInv

(* A page has what is owed next, and only that as long as nothing changed. *)
LEMMA PageKeeps ==
    ASSUME ListsInv, Lists!GetPage
    PROVE  WalkInv'
  <1>1. walk.pc = "asking" /\ walk \in Walks /\ OwedInv /\ OffsetInv
    BY DEF Lists!GetPage, ListsInv, WalkInv, Lists!Idle
  <1>2. PICK kind \in Lists!Kinds, limit \in Limits, offset \in Nat :
           kind = walk.kind /\ limit = walk.limit /\ offset = walk.offset
    BY <1>1 DEF Walks
  <1> DEFINE list == Lists!Listed(kind)
             items == Pool(kind)
  <1>3. /\ IsList(list, items) /\ IsFiniteSet(items) /\ items \in {Ids, ListChats, Users}
        /\ Cardinality(items) \in Nat /\ limit \in Nat \ {0}
        /\ kind \in Lists!ContactKinds => items = Users
    BY ListedFacts, PoolFacts, ListsFit DEF ListsInv
  <1>4. Lists!Listed(kind)' = list
    BY ListedSame DEF Lists!GetPage
  <1>5. PICK q \in Lists!Sorted(list) :
           LET page == IF kind \in Lists!ContactKinds THEN Lists!applyPagination(q, offset, limit)
                       ELSE Lists!Retrieve(q, offset, limit)
               answered == page \notin {Failed, Panicked}
           IN  walk' = IF ~answered THEN [walk EXCEPT !.pc = "refused"]
                       ELSE [walk EXCEPT
                               !.pc = IF Len(page) < limit THEN "done" ELSE @,
                               !.offset = @ + limit,
                               !.owed = @ \ Lists!ToSet(page),
                               !.again = @ \/ (walk.calm /\ ~(Lists!ToSet(page) \subseteq walk.owed))]
    BY <1>2 DEF Lists!GetPage
  <1> HIDE DEF list, items
  <1>6. /\ IsFiniteSet(DOMAIN list) /\ q \in Seq(DOMAIN list) /\ q \in Seq(items)
        /\ Len(q) = Cardinality(DOMAIN list) /\ Len(q) <= Cardinality(items)
        /\ \A x \in DOMAIN list : \E i \in DOMAIN q : q[i] = x
    BY <1>3, SortedFacts
  <1>7. offset <= Cardinality(items) /\ (kind \in Lists!ContactKinds => offset <= Len(q))
    BY <1>1, <1>2, <1>6 DEF OffsetInv, list, items
  <1> DEFINE page == Page(q, offset, limit)
  <1>8. /\ kind \in Lists!ContactKinds => Lists!applyPagination(q, offset, limit) = page
        /\ Lists!Retrieve(q, offset, limit) = page
        /\ page \notin {Failed, Panicked}
    BY <1>3, <1>6, <1>7, PagesServed
  <1>9. /\ page \in Seq(DOMAIN list)
        /\ Lists!ToSet(page) = {q[i] : i \in {k \in DOMAIN q : offset < k /\ k <= offset + limit}}
        /\ Len(page) < limit => Len(q) < offset + limit
        /\ ~(Len(page) < limit) => offset + limit <= Len(q)
    <2>1. limit \in Nat \ {0} /\ q \in Seq(DOMAIN list)
      BY <1>3, <1>6
    <2> QED BY <2>1, PageFacts
  <1> HIDE DEF page
  <1>10. walk' = [walk EXCEPT !.pc = IF Len(page) < limit THEN "done" ELSE @,
                              !.offset = @ + limit,
                              !.owed = @ \ Lists!ToSet(page),
                              !.again = @ \/ (walk.calm /\ ~(Lists!ToSet(page) \subseteq walk.owed))]
    BY <1>5, <1>8
  <1>11. /\ walk.owed \subseteq DOMAIN list
         /\ walk.owed # {} => ~Lists!HasTies(list)
         /\ \A x \in walk.owed : offset < PlaceOf(list, x)
         /\ walk.calm => /\ ~Lists!HasTies(list)
                         /\ \A x \in DOMAIN list : offset < PlaceOf(list, x) => x \in walk.owed
         /\ ~walk.again
    BY <1>1, <1>2 DEF OwedInv, list
  <1>12. ASSUME ~Lists!HasTies(list), NEW x \in DOMAIN list
         PROVE  /\ PlaceOf(list, x) \in DOMAIN q /\ q[PlaceOf(list, x)] = x
                /\ x \in Lists!ToSet(page) <=> offset < PlaceOf(list, x) /\ PlaceOf(list, x) <= offset + limit
    <2>1. PICK i \in DOMAIN q : q[i] = x
      BY <1>6
    <2>2. \A k \in DOMAIN q : PlaceOf(list, q[k]) = k
      BY <1>3, <1>12, SortedPlaces
    <2> QED BY <1>9, <2>1, <2>2
  <1>13. walk.calm => Lists!ToSet(page) \subseteq walk.owed
    <2>1. Lists!ToSet(page) \subseteq DOMAIN list
      BY <1>6, <1>9
    <2> QED BY <1>11, <1>12, <2>1
  <1>14. /\ walk' \in Walks /\ walk'.kind = kind /\ walk'.offset = offset + limit
         /\ walk'.pc = (IF Len(page) < limit THEN "done" ELSE "asking")
         /\ walk'.owed = walk.owed \ Lists!ToSet(page) /\ walk'.calm = walk.calm /\ ~walk'.again
    <2>1. /\ walk.owed \ Lists!ToSet(page) \in SUBSET (Ids \cup ListChats \cup Users)
          /\ offset + limit \in Nat /\ walk.again = FALSE /\ walk.calm \in BOOLEAN
      BY <1>1, <1>3, <1>11 DEF Walks
    <2>2. (walk.again \/ (walk.calm /\ ~(Lists!ToSet(page) \subseteq walk.owed))) = FALSE
      BY <1>11, <1>13
    <2>3. walk' = [walk EXCEPT !.pc = IF Len(page) < limit THEN "done" ELSE "asking",
                               !.offset = offset + limit,
                               !.owed = walk.owed \ Lists!ToSet(page),
                               !.again = FALSE]
      BY <1>1, <1>2, <1>10, <2>2
    <2> QED BY <1>1, <1>2, <2>1, <2>3 DEF Walks
  <1>15. ASSUME Len(page) < limit PROVE walk'.owed = {}
    <2> SUFFICES ASSUME NEW x \in walk.owed PROVE x \in Lists!ToSet(page)
      BY <1>14
    <2>1. /\ ~Lists!HasTies(list) /\ x \in DOMAIN list /\ offset < PlaceOf(list, x)
      BY <1>11
    <2>2. PlaceOf(list, x) \in DOMAIN q
      BY <1>12, <2>1
    <2>3. PlaceOf(list, x) <= offset + limit
      BY <1>3, <1>6, <1>9, <1>15, <2>2
    <2> QED BY <1>12, <2>1, <2>3
  <1>16. ASSUME ~(Len(page) < limit) PROVE OwedInv' /\ OffsetInv'
    <2>1. Lists!Listed(walk.kind)' = list /\ Pool(walk.kind)' = items
      BY <1>4, <1>14 DEF Pool, list, items
    <2>2. ASSUME NEW x \in walk.owed \ Lists!ToSet(page) PROVE offset + limit < PlaceOf(list, x)
      <3>1. ~Lists!HasTies(list) /\ x \in DOMAIN list /\ offset < PlaceOf(list, x)
        BY <1>11
      <3>2. PlaceOf(list, x) \in Nat
        BY <1>6, <1>12, <3>1
      <3> QED BY <1>3, <1>12, <2>2, <3>1, <3>2
    <2>3. ASSUME walk.calm, NEW x \in DOMAIN list, offset + limit < PlaceOf(list, x)
          PROVE  x \in walk.owed \ Lists!ToSet(page)
      <3>1. ~Lists!HasTies(list) /\ PlaceOf(list, x) \in Nat
        BY <1>6, <1>11, <1>12, <2>3
      <3>2. offset < PlaceOf(list, x) /\ ~(PlaceOf(list, x) <= offset + limit)
        BY <1>3, <2>3, <3>1
      <3> QED BY <1>11, <1>12, <2>3, <3>1, <3>2
    <2>4. OwedInv'
      BY <1>11, <1>14, <2>1, <2>2, <2>3 DEF OwedInv, PlaceOf, Lists!HasTies
    <2>5. offset + limit <= Len(q) /\ offset + limit <= Cardinality(items)
      BY <1>3, <1>6, <1>9, <1>16
    <2>6. OffsetInv'
      BY <1>6, <1>14, <2>1, <2>5 DEF OffsetInv, Lists!ContactKinds
    <2> QED BY <2>4, <2>6
  <1> QED BY <1>14, <1>15, <1>16 DEF WalkInv

(* Nothing is stored, and nobody reads. *)
LEMMA ListsInit == Lists!Init => ListsInv
  <1> SUFFICES ASSUME Lists!Init PROVE ListsInv
    OBVIOUS
  <1>1. TablesInv
    BY DEF Lists!Init, TablesInv
  <1>2. WalkInv
    BY DEF Lists!Init, WalkInv, Lists!Idle
  <1> QED BY <1>1, <1>2 DEF ListsInv

(* Every step keeps what a walk is owed. *)
LEMMA ListsNext == ListsInv /\ [Lists!Next]_(Lists!vars) => ListsInv'
  <1> SUFFICES ASSUME ListsInv, [Lists!Next]_(Lists!vars) PROVE WalkInv'
    BY TablesNext DEF ListsInv
  <1>1. TablesInv'
    BY TablesNext DEF ListsInv
  <1>2. CASE Lists!MessagesChange
    <2>1. Lists!Watch /\ contacts' = contacts
      BY <1>2 DEF Lists!MessagesChange, Lists!UpsertOneMessage, Lists!DeleteMessage, Lists!DeleteChatMessages
    <2> QED BY <1>1, <2>1, WatchKeeps
  <1>3. CASE Lists!ContactsChange
    <2>1. PICK u \in Users, n \in ContactNames : Lists!PutContactName(u, n)
      BY <1>3 DEF Lists!ContactsChange
    <2>2. \A v \in Users : contacts[v] # Null => contacts'[v] # Null
      BY <2>1, ListsFit DEF Lists!PutContactName, ListsInv, TablesInv
    <2> QED BY <1>1, <2>1, <2>2, WatchKeeps DEF Lists!PutContactName
  <1>4. CASE Lists!GetPage
    BY <1>4, PageKeeps
  <1>5. CASE Lists!End
    BY <1>5 DEF Lists!End, WalkInv, Lists!Idle
  <1>6. ASSUME NEW kind \in Lists!Kinds, NEW limit \in Limits, Lists!Begin(kind, limit) PROVE WalkInv'
    BY <1>6, BeginKeeps
  <1>7. CASE UNCHANGED Lists!vars
    <2>1. \A kind \in Lists!Kinds : Lists!Listed(kind)' = Lists!Listed(kind)
      BY <1>7, ListedSame DEF Lists!vars
    <2>2. walk' = walk /\ (walk.pc = "asking" => walk.kind \in Lists!Kinds)
      BY <1>7 DEF Lists!vars, ListsInv, WalkInv, Walks, Lists!Idle
    <2>3. walk.pc = "asking" => Lists!Listed(walk.kind)' = Lists!Listed(walk.kind)
      BY <2>1, <2>2
    <2>4. OwedInv => (walk.pc = "asking" => OwedInv')
      BY <2>2, <2>3 DEF OwedInv, PlaceOf, Lists!HasTies
    <2>5. OffsetInv => (walk.pc = "asking" => OffsetInv')
      BY <2>2, <2>3 DEF OffsetInv, Pool, Lists!ContactKinds
    <2> QED BY <2>2, <2>4, <2>5 DEF ListsInv, WalkInv, Lists!Idle
  <1> QED BY <1>2, <1>3, <1>4, <1>5, <1>6, <1>7 DEF Lists!Next, Lists!Walk

(* The invariant of the lists, for any number of messages, chats and contacts. *)
THEOREM ListsInvariance == Lists!Spec => []ListsInv
  BY ListsInit, ListsNext, PTL DEF Lists!Spec

(* Side by side the lists behave as they do alone. *)
LEMMA ListsAlone == PartsSpec => Lists!Spec
  <1>1. PartsInit => Lists!Init
    BY DEF PartsInit
  <1>2. [PartsNext]_<<part, vars, group, update, rows, contacts, walk>>
           => [Lists!Next]_(Lists!vars)
    <2> SUFFICES ASSUME [PartsNext]_<<part, vars, group, update, rows, contacts, walk>>
                 PROVE  [Lists!Next]_(Lists!vars)
      OBVIOUS
    <2>1. Lists!ContactKinds \subseteq Lists!Kinds
      BY DEF Lists!ContactKinds, Lists!Kinds
    <2>2. ASSUME NEW kinds \in SUBSET Lists!Kinds, Lists!Walk(kinds) PROVE Lists!Next
      BY <2>2 DEF Lists!Walk, Lists!Next
    <2>3. /\ Lists!MessagesChange \/ Lists!ContactsChange => Lists!Next
          /\ Lists!Walk(Lists!Kinds \ Lists!ContactKinds) => Lists!Next
          /\ Lists!Walk(Lists!ContactKinds) => Lists!Next
      BY <2>1, <2>2 DEF Lists!Next
    <2> QED BY <2>3 DEF PartsNext, Lists!vars
  <1> QED BY <1>1, <1>2, PTL DEF PartsSpec, Lists!Spec

(* A client reads page by page while the list changes.  With distinct keys it
   misses an item of the list it began with only if the item moved itself or
   something was deleted or moved behind it, and if nothing changed it sees
   nothing twice; no page is refused.  So it is for the lists alone, and with
   the other parts beside them.                                            *)
THEOREM NothingMissed == /\ Lists!Spec => []Lists!WalkMissesNothing
                         /\ PartsSpec => []WalkMissesNothing
  <1>1. ListsInv => Lists!WalkMissesNothing
    BY DEF ListsInv, WalkInv, Lists!WalkMissesNothing, Walks, Lists!Idle
  <1>2. Lists!WalkMissesNothing => WalkMissesNothing
    BY DEF WalkMissesNothing
  <1> QED BY <1>1, <1>2, ListsInvariance, ListsAlone, PTL

(* Whatever was saved again or deleted, the chat list has a chat once, with the
   time of its newest message, which is also the first of GetChatMessages -
   but for chats whose rows have columns their data no longer agree with.  *)
THEOREM ChatsAreRight == /\ Lists!Spec => []Lists!ChatListIsRight
                         /\ PartsSpec => []ChatListIsRight
  <1>1. ListsInv => Lists!ChatListIsRight
    BY ChatsFollow DEF ListsInv
  <1>2. Lists!ChatListIsRight => ChatListIsRight
    BY DEF ChatListIsRight
  <1> QED BY <1>1, <1>2, ListsInvariance, ListsAlone, PTL

(* Contacts, cut by hand, and messages and chats, cut by the database, have the
   same pages wherever both have one, for every offset and limit a request can
   carry, and contacts do not panic within the list.                       *)
THEOREM PaginationsAlike == /\ Lists!Spec => []Lists!PaginationsAgree
                            /\ PartsSpec => []PaginationsAgree
  <1>1. ListsInv => Lists!PaginationsAgree
    BY PaginationsFollow DEF ListsInv
  <1>2. Lists!PaginationsAgree => PaginationsAgree
    BY DEF PaginationsAgree
  <1> QED BY <1>1, <1>2, ListsInvariance, ListsAlone, PTL
=============================================================================

-------------------------------- MODULE Labels --------------------------------
(***************************************************************************)
(* The labels of chats: the RPCs that change and read them                 *)
(* (server/labels.go), the event handlers that store them                  *)
(* (gows/storage_event_handler.go) and the two tables                      *)
(* (storage/sqlstorage/labels.go, label_associations.go, migrations        *)
(* 005 and 006).                                                           *)
(*                                                                         *)
(* An RPC changes nothing here: it sends WhatsApp an app state, which      *)
(* comes back as an event, like a change made on the phone.  Every event   *)
(* has a goroutine of its own; a SQL statement is atomic.                  *)
(***************************************************************************)
EXTENDS Integers, Sequences, FiniteSets

CONSTANTS LabelIds,
          Names,      \* what a label shows: its name and color
          Chats,      \* jids with a server, whole or partly parsed
          Ignored,    \* the chats shouldIgnoreJID rejects
          Handlers,   \* goroutines, one event each
          Attempts,   \* of GetLabelById (6)
          FailingDb,  \* the handlers whose SQL statements may fail
          Null

ASSUME LabelsAssumption ==
    /\ Ignored \subseteq Chats
    /\ FailingDb \subseteq Handlers
    /\ Attempts \in Nat \ {0}
    /\ Null \notin Names

VARIABLES
    shown, labeled,   \* the labels and the labeled chats, on the phones
    label,            \* gows_labels
    assoc,            \* gows_label_associations
    pc, event, tries, \* of a handler
    came, ran,        \* history: handlers in the order of their events, and of
                      \* their writes
    answer            \* a GetLabelsByJid

phones == <<shown, labeled>>
tables == <<label, assoc>>
vars == <<phones, tables, pc, event, tries, came, ran, answer>>

Events == [kind : {"edit"}, id : LabelIds, name : Names]
          \cup [kind : {"delete"}, id : LabelIds]
          \cup [kind : {"add", "remove"}, chat : Chats, id : LabelIds]

OfChat(e) == e.kind \in {"add", "remove"}

Idle == [pc |-> "idle", ids |-> {}, gone |-> {}, failed |-> FALSE, nulls |-> {}]

Init ==
    /\ shown = [l \in LabelIds |-> Null] /\ labeled = {}
    /\ label = [l \in LabelIds |-> Null] /\ assoc = {}
    /\ pc = [h \in Handlers |-> "new"]
    /\ event = [h \in Handlers |-> Null]
    /\ tries = [h \in Handlers |-> 0]
    /\ came = <<>> /\ ran = <<>>
    /\ answer = Idle

-----------------------------------------------------------------------------
(* `go storageEventHandler.handleEvent(e)`; an association of an ignored chat
   ends here, an edit never does.                                          *)
handleEvent(h, e) ==
    /\ pc[h] = "new"
    /\ pc' = [pc EXCEPT ![h] = IF OfChat(e) /\ e.chat \in Ignored THEN "ignored" ELSE e.kind]
    /\ event' = [event EXCEPT ![h] = e]
    /\ came' = Append(came, h)
    /\ UNCHANGED <<tables, tries, ran, answer>>

\* SendAppState was accepted, or the phone did the same.
UpsertLabel(h, l, name) ==
    /\ shown' = [shown EXCEPT ![l] = name]
    /\ UNCHANGED labeled
    /\ handleEvent(h, [kind |-> "edit", id |-> l, name |-> name])

DeleteLabel(h, l) ==
    /\ shown' = [shown EXCEPT ![l] = Null]
    /\ labeled' = {p \in labeled : p[2] # l}
    /\ handleEvent(h, [kind |-> "delete", id |-> l])

\* The error of ParseJID is dropped, and nothing asks whether the label exists.
\* Of an id that yields no server nothing is ever stored: its jid is NULL, which
\* migration 006 refuses, so that its writes are as WriteFails leaves them.
AddChatLabel(h, c, l) ==
    /\ labeled' = labeled \cup {<<c, l>>}
    /\ UNCHANGED shown
    /\ handleEvent(h, [kind |-> "add", chat |-> c, id |-> l])

RemoveChatLabel(h, c, l) ==
    /\ labeled' = labeled \ {<<c, l>>}
    /\ UNCHANGED shown
    /\ handleEvent(h, [kind |-> "remove", chat |-> c, id |-> l])

\* A full sync tells again what is (EmitAppStateEventsOnFullSync).
FullSync(h) ==
    /\ \/ \E l \in {i \in LabelIds : shown[i] # Null} :
             handleEvent(h, [kind |-> "edit", id |-> l, name |-> shown[l]])
       \/ \E p \in labeled : handleEvent(h, [kind |-> "add", chat |-> p[1], id |-> p[2]])
    /\ UNCHANGED phones

-----------------------------------------------------------------------------
Writes(h, statement, next) ==
    /\ pc[h] = statement
    /\ pc' = [pc EXCEPT ![h] = next]
    /\ ran' = Append(ran, h)
    /\ UNCHANGED <<phones, event, tries, came>>

\* A reader in between two SELECTs remembers the labels that went.
Forget(l) == answer' = IF answer.pc = "labels" THEN [answer EXCEPT !.gone = @ \cup {l}]
                       ELSE answer

\* handleLabelEdit
EditRow(h) ==
    /\ Writes(h, "edit", "done")
    /\ label' = [label EXCEPT ![event[h].id] = event[h].name]
    /\ UNCHANGED <<assoc, answer>>

\* mutation: no ON DELETE CASCADE
NoCascade(l) == assoc

Cascade(l) == {p \in assoc : p[2] # l}

\* handleLabelEdit with Deleted: one statement, and the cascade of 006.
DeleteRow(h) ==
    LET l == event[h].id IN
    /\ Writes(h, "delete", "done")
    /\ label' = [label EXCEPT ![l] = Null]
    /\ assoc' = Cascade(l)
    /\ Forget(l)

\* mutation: one look, no retry
NoWait(h) == FALSE

MayRetry(h) == tries[h] + 1 < Attempts

\* handleLabelAssociationChat waits for the label; the error of the last
\* attempt is overwritten and the insert tried all the same.
GetLabelById(h) ==
    /\ pc[h] = "add"
    /\ \/ /\ label[event[h].id] # Null
          /\ pc' = [pc EXCEPT ![h] = "insert"]
          /\ UNCHANGED tries
       \/ /\ label[event[h].id] = Null \/ h \in FailingDb
          /\ tries' = [tries EXCEPT ![h] = @ + 1]
          /\ pc' = [pc EXCEPT ![h] = IF MayRetry(h) THEN "add" ELSE "insert"]
    /\ UNCHANGED <<phones, tables, event, came, ran, answer>>

\* mutation: no foreign key
AnyLabel(l) == TRUE

\* The foreign key of 006 refuses an association without a label.
HasLabel(l) == label[l] # Null

AddAssociation(h) ==
    LET e == event[h] there == HasLabel(e.id) IN
    /\ Writes(h, "insert", IF there THEN "done" ELSE "refused")
    /\ assoc' = IF there THEN assoc \cup {<<e.chat, e.id>>} ELSE assoc
    /\ UNCHANGED <<label, answer>>

RemoveAssociation(h) ==
    /\ Writes(h, "remove", "done")
    /\ assoc' = assoc \ {<<event[h].chat, event[h].id>>}
    /\ UNCHANGED <<label, answer>>

\* Any of these writes fails; the error is only logged.
WriteFails(h) ==
    /\ h \in FailingDb
    /\ \E statement \in {"edit", "delete", "insert", "remove"} : Writes(h, statement, "failed")
    /\ UNCHANGED <<tables, answer>>

-----------------------------------------------------------------------------
\* GetLabelsByJid: two SELECTs; an error of the second one is dropped, and a
\* label it did not return is null in the reply.
GetLabelIDsByJID(c) ==
    /\ answer.pc = "idle"
    /\ answer' = [Idle EXCEPT !.pc = "labels",
                              !.ids = {l \in LabelIds : <<c, l>> \in assoc}]
    /\ UNCHANGED <<phones, tables, pc, event, tries, came, ran>>

GetAllLabels(failed) ==
    /\ answer.pc = "labels"
    /\ answer' = [answer EXCEPT
          !.pc = "done", !.failed = failed,
          !.nulls = {l \in answer.ids : failed \/ label[l] = Null}]
    /\ UNCHANGED <<phones, tables, pc, event, tries, came, ran>>

Reply == /\ answer.pc = "done"
         /\ answer' = Idle
         /\ UNCHANGED <<phones, tables, pc, event, tries, came, ran>>

Next ==
    \/ \E h \in Handlers, l \in LabelIds :
          \/ \E n \in Names : UpsertLabel(h, l, n)
          \/ DeleteLabel(h, l)
          \/ \E c \in Chats : AddChatLabel(h, c, l) \/ RemoveChatLabel(h, c, l)
    \/ \E h \in Handlers :
          \/ FullSync(h)
          \/ EditRow(h) \/ DeleteRow(h)
          \/ GetLabelById(h) \/ AddAssociation(h) \/ RemoveAssociation(h)
          \/ WriteFails(h)
    \/ \E c \in Chats : GetLabelIDsByJID(c)
    \/ \E failed \in BOOLEAN : GetAllLabels(failed)
    \/ Reply

Spec == Init /\ [][Next]_vars

-----------------------------------------------------------------------------
Quiet == \A h \in Handlers : pc[h] \in {"new", "ignored", "done", "refused", "failed"}

Told(h, kinds, l) == pc[h] # "new" /\ event[h].kind \in kinds /\ event[h].id = l

(* The handlers whose writes decide whether l, or the pair p, is in its table. *)
Deciding(l) == {h \in Handlers : Told(h, {"edit", "delete"}, l)}
DecidingPair(p) == {h \in Handlers : \/ Told(h, {"delete"}, p[2])
                                     \/ Told(h, {"add", "remove"}, p[2]) /\ event[h].chat = p[1]}

Before(s, g, h) == \E i, j \in DOMAIN s : i < j /\ s[i] = g /\ s[j] = h

WroteInOrder(hs) ==
    /\ \A h \in hs : pc[h] # "failed"
    /\ \A g, h \in hs : Before(came, g, h) => Before(ran, g, h)

(* Once all is handled the tables show what the phones do, as far as the
   events about a label, or about a chat and a label, were written in their
   order - whatever else overlapped.  The one exception: an association that
   found no label in all its attempts, or whose label was deleted.         *)
QuietMirrorsPhones ==
    Quiet =>
        /\ \A l \in LabelIds : WroteInOrder(Deciding(l)) => label[l] = shown[l]
        /\ \A p \in (Chats \ Ignored) \X LabelIds :
              WroteInOrder(DecidingPair(p)) =>
                  \/ p \in assoc <=> p \in labeled
                  \/ /\ p \in labeled
                     /\ \E h \in DecidingPair(p) :
                           /\ pc[h] = "refused"
                           /\ \/ tries[h] = Attempts
                              \/ \E d \in Handlers : pc[d] = "done" /\ Told(d, {"delete"}, p[2])

(* A client that asks for the labels of a chat gets labels: a null only when
   the label was deleted while it asked, or when the second SELECT failed,
   an error GetLabelsByJid drops.                                          *)
AnswersAreLabels == answer.nulls # {} => answer.failed \/ answer.nulls \subseteq answer.gone
=============================================================================

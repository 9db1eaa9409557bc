------------------------------ MODULE Ephemeral ------------------------------
(***************************************************************************)
(* The disappearing-messages setting of a chat with a user: what WhatsApp  *)
(* says of it (gows/ephemeral.go, gows/storage_event_handler.go)           *)
(* and the row that remembers it                                           *)
(* (storage/sqlstorage/chat_ephemeral_setting.go).                         *)
(*                                                                         *)
(* Every event has a goroutine of its own.  A setting is upserted whatever *)
(* is there; it is removed by a Get and, if it is old enough, a Delete.    *)
(* Time is in seconds, as the timestamps compared are.                     *)
(***************************************************************************)
EXTENDS Integers, Sequences, FiniteSets

CONSTANTS Expirations,   \* the durations a user can choose
          Handlers,      \* goroutines, one event each
          MaxTime,       \* a bound on the clock
          Serial,        \* assumption: no two handlers overlap
          Null

Off == 0                 \* Expiration: 0 or nil
NoTime == -1             \* Timestamp: nil

ASSUME ScopeAssumption ==
    /\ Expirations \subseteq Nat \ {Off}
    /\ MaxTime \in Nat
    /\ Serial \in BOOLEAN
    /\ Null \notin [time : 0..MaxTime \cup {NoTime}, value : Expirations \cup {Off}]

VARIABLES
    clock,
    truth,     \* [time, value]: the setting of the chat, on the phones
    row,       \* [time, value] or Null: StoredChatEphemeralSetting
    came, ran, \* history: the handlers in the order of their events, and as
               \* they began
    pc, event,
    before     \* deleteBefore of a removal

vars == <<clock, truth, row, came, ran, pc, event, before>>

Times == 0..MaxTime

Init ==
    /\ clock = 0
    /\ truth = [time |-> 0, value |-> Off]
    /\ row = Null
    /\ came = <<>> /\ ran = <<>>
    /\ pc = [h \in Handlers |-> "new"]
    /\ event = [h \in Handlers |-> Null]
    /\ before = [h \in Handlers |-> NoTime]

Tick == /\ clock < MaxTime
        /\ clock' = clock + 1
        /\ UNCHANGED <<truth, row, came, ran, pc, event, before>>

Dispatch(h, kind, time, value) ==
    /\ pc[h] = "new"
    /\ pc' = [pc EXCEPT ![h] = "start"]
    /\ event' = [event EXCEPT ![h] = [kind |-> kind, time |-> time, value |-> value]]
    /\ came' = Append(came, h)
    /\ UNCHANGED <<clock, row, ran, before>>

\* A user changes the setting, also to Off: the protocol message of
\* ExtractEphemeralSettingsFromProtocolMessage, stamped with its own time.  (On
\* without a DisappearingMode, which phones do not send, counts as off.)
Change(h, value) ==
    /\ value # truth.value
    /\ truth' = [time |-> clock, value |-> value]
    /\ Dispatch(h, "changed", clock, value)

\* An ordinary message that names the setting of its chat, which is asked for its
\* presence only: a message that names the duration 0 is upserted, too
\* (ExtractEphemeralSettingsFromMsg).
Message(h, time) ==
    /\ time \in {truth.time, NoTime}
    /\ Dispatch(h, "message", time, truth.value)
    /\ UNCHANGED truth

\* A history sync: ExtractEphemeralSettingsFromConversation leaves out the
\* expiration.
Conversation(h, time) ==
    /\ truth.value # Off
    /\ time \in {truth.time, NoTime}
    /\ Dispatch(h, "history", time, Off)
    /\ UNCHANGED truth

\* The chat is deleted, and its setting with it.
DeleteChat(h) ==
    /\ truth' = [time |-> clock, value |-> Off]
    /\ Dispatch(h, "deleteChat", clock, Off)

-----------------------------------------------------------------------------
Removes(e) == e.kind = "deleteChat" \/ (e.kind = "changed" /\ e.value = Off)

Begins(h) ==
    /\ pc[h] = "start"
    /\ Serial => \A o \in Handlers : pc[o] \in {"new", "start", "done"}
    /\ ran' = Append(ran, h)

\* UpsertOne, unconditionally.
UpdateChatEphemeralSetting(h) ==
    /\ Begins(h)
    /\ ~Removes(event[h])
    /\ row' = [time |-> event[h].time, value |-> event[h].value]
    /\ pc' = [pc EXCEPT ![h] = "done"]
    /\ UNCHANGED <<clock, truth, came, event, before>>

\* mutation: always the present
Now(h) == clock

DeleteBefore(h) == IF event[h].kind = "deleteChat" THEN event[h].time ELSE clock

\* DeleteChatEphemeralSetting is called: with the time of a DeleteChat, and
\* with time.Now() for a setting that is off.
CallDelete(h) ==
    /\ Begins(h)
    /\ Removes(event[h])
    /\ before' = [before EXCEPT ![h] = DeleteBefore(h)]
    /\ pc' = [pc EXCEPT ![h] = "get"]
    /\ UNCHANGED <<clock, truth, row, came, event>>

\* mutation: a setting without a timestamp stays
OnlyTimed(h) == row # Null /\ row.time # NoTime /\ row.time < before[h]

MayGo(h) == row # Null /\ (row.time = NoTime \/ row.time < before[h])

\* GetChatEphemeralSetting: a setting without a timestamp may always go.
GetSetting(h) ==
    /\ pc[h] = "get"
    /\ pc' = [pc EXCEPT ![h] = IF MayGo(h) THEN "delete" ELSE "done"]
    /\ UNCHANGED <<clock, truth, row, came, ran, event, before>>

DeleteById(h) ==
    /\ pc[h] = "delete"
    /\ row' = Null
    /\ pc' = [pc EXCEPT ![h] = "done"]
    /\ UNCHANGED <<clock, truth, came, ran, event, before>>

Next ==
    \/ Tick
    \/ \E h \in Handlers :
          \/ \E v \in Expirations \cup {Off} : Change(h, v)
          \/ \E t \in Times \cup {NoTime} : Message(h, t) \/ Conversation(h, t)
          \/ DeleteChat(h)
          \/ UpdateChatEphemeralSetting(h)
          \/ CallDelete(h) \/ GetSetting(h) \/ DeleteById(h)

Spec == Init /\ [][Next]_vars

-----------------------------------------------------------------------------
Settings == [time : Times \cup {NoTime}, value : Expirations \cup {Off}]

TypeOK ==
    /\ clock \in Times
    /\ truth \in Settings
    /\ row \in Settings \cup {Null}
    /\ pc \in [Handlers -> {"new", "start", "get", "delete", "done"}]
    /\ before \in [Handlers -> Times \cup {NoTime}]

(* "Only delete if the setting is older than the delete event"
   (chat_ephemeral_setting.go:56).  False, also when no two handlers overlap:
   an event that switches the setting off is given the time it is handled at,
   so when it is handled late it removes a setting newer than itself.      *)
DeletesSpareNewer ==
    [][\A h \in Handlers :
          pc[h] = "delete" /\ pc'[h] = "done" /\ row.time # NoTime =>
              row.time <= event[h].time]_vars

(* What is true of it as long as no two handlers overlap: the deletion of a
   chat, however late it is handled, spares a setting as new as itself.    *)
DeleteChatSparesNewer ==
    [][\A h \in Handlers :
          /\ Serial
          /\ pc[h] = "delete" /\ pc'[h] = "done" /\ event[h].kind = "deleteChat"
          /\ row.time # NoTime
          => row.time < event[h].time]_vars

Quiet == \A h \in Handlers : pc[h] \in {"new", "done"}

(* Handled in their order, the events leave the setting of the chat in the
   row, with three exceptions: a history sync loses the duration; a setting
   survives if it is removed within the second it was made in; and a message
   that names the duration 0 leaves a row that says so in a chat without one. *)
InOrderIsTruth ==
    Serial /\ Quiet /\ ran = came =>
        IF truth.value # Off
        THEN /\ row # Null
             /\ \/ row.value = truth.value
                \/ row.value = Off /\ \E h \in Handlers :
                                         pc[h] = "done" /\ event[h].kind = "history"
        ELSE row # Null =>
                \E h \in Handlers :
                   /\ pc[h] = "done"
                   /\ \/ Removes(event[h]) /\ row.time # NoTime /\ row.time >= before[h]
                      \/ event[h].kind = "message" /\ event[h].value = Off /\ row.value = Off
=============================================================================

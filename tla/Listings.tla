------------------------------- MODULE Listings -------------------------------
(***************************************************************************)
(* The lists a client reads page by page: messages, chats and contacts     *)
(* (server/storage.go, server/contacts.go, storage/views/chat.go,          *)
(* storage/meow/contact.go), and the columns of gows_messages they are     *)
(* made from (storage/sqlstorage/message.go, entity.go, tables.go).        *)
(*                                                                         *)
(* A list is a function from its items to their sort keys.  The order of   *)
(* items with equal keys is open, and may differ from one call to the next.*)
(***************************************************************************)
EXTENDS Integers, Sequences, FiniteSets, SequencesExt

CONSTANTS Ids,        \* of messages
          Chats,      \* numbered in the order of their jids
          Saves,      \* what may be saved: [id, chat, time, real]
          Users,      \* contacts
          userPart,   \* what they are sorted by: an id without its server
          Names,      \* numbers, too
          Filter,     \* the condition of a request
          Limits,     \* page sizes a client uses
          Bits,       \* of an integer (64), many more than contacts need
          Dialect,    \* "sqlite3" or "postgres"
          Failed, Panicked,   \* instead of a page
          Null

VARIABLES rows,       \* gows_messages
          contacts,   \* the names of whatsmeow's contacts
          walk        \* a client that reads a list page by page

vars == <<rows, contacts, walk>>

Rows == [jid : Chats, is_real : BOOLEAN, chat : Chats, real : BOOLEAN, time : Int]

\* What the parameters are; assumed where values are given to them.
ParametersFit ==
    /\ Chats \cup Names \subseteq Int
    /\ userPart \in [Users -> Int]
    /\ Saves \subseteq [id : Ids, chat : Chats, time : Int, real : BOOLEAN]
    /\ Limits \subseteq Nat \ {0}
    /\ Null \notin Rows \cup Names \cup Chats
    /\ Bits \in Nat \ {0}
    /\ \A items \in {Ids, Chats, Users} :
          /\ IsFiniteSet(items) /\ {Failed, Panicked} \cap Seq(items) = {}
          /\ \A n \in Limits \cup {Cardinality(items)} :
                Cardinality(items) + n < 2 ^ (Bits - 1)

Idle == [pc |-> "idle", kind |-> Null]

Init == /\ rows = [m \in Ids |-> Null]
        /\ contacts = [u \in Users |-> Null]
        /\ walk = Idle

-----------------------------------------------------------------------------
\* The rows a list may show: column is_real.
RealRows == {m \in Ids : rows[m] # Null /\ rows[m].is_real}

\* The condition a request puts on messages: a jid, a first and a last time
\* (the conditions on from_me and status are of the same kind).
Meets(m, filter) ==
    /\ filter.jid # Null => rows[m].jid = filter.jid
    /\ filter.gte # Null => rows[m].time >= filter.gte
    /\ filter.lte # Null => rows[m].time <= filter.lte

NoFilter == [jid |-> Null, gte |-> Null, lte |-> Null]

GetAllMessages(filter) == [m \in {r \in RealRows : Meets(r, filter)} |-> -rows[m].time]

GetChatMessages(jid) == GetAllMessages([NoFilter EXCEPT !.jid = jid])

\* mutation: the first message of the chat
FirstIn(m, jid) == \A o \in RealRows : rows[o].jid = jid => rows[m].time <= rows[o].time

NewestIn(m, jid) == \A o \in RealRows : rows[o].jid = jid => rows[o].time <= rows[m].time

\* getLastMessageSubquery: some newest message for each jid; all jids when the
\* filter has none.
LastMessages(jids) ==
    LET there == {j \in {rows[m].jid : m \in RealRows} : jids = {} \/ j \in jids}
    IN  {last \in [there -> RealRows] :
            \A j \in there : rows[last[j]].jid = j /\ NewestIn(last[j], j)}

\* GetChats: by jid or by time, newest first. The entry shows the chat in the
\* data of the row, which the jid column need not agree with.
ChatEntry(m) == [jid |-> rows[m].chat, time |-> rows[m].time]

Kinds == {"messages", "filtered messages", "chats by id", "chats by time",
          "contacts by id", "contacts by name"}
ContactKinds == {"contacts by id", "contacts by name"}

Listed(kind) ==
    LET last == CHOOSE l \in LastMessages({}) : TRUE
        known == {u \in Users : contacts[u] # Null}
    IN  CASE kind = "messages" -> GetAllMessages(NoFilter)
          [] kind = "filtered messages" -> GetAllMessages(Filter)
          [] kind = "chats by id" -> [j \in DOMAIN last |-> j]
          [] kind = "chats by time" -> [j \in DOMAIN last |-> -rows[last[j]].time]
          [] kind = "contacts by id" -> [u \in known |-> userPart[u]]
          [] kind = "contacts by name" -> [u \in known |-> contacts[u]]

HasTies(list) == \E x, y \in DOMAIN list : x # y /\ list[x] = list[y]

\* mutation: no ORDER BY
Unsorted(list) == SetToSeqs(DOMAIN list)

Sorted(list) ==
    {q \in SetToSeqs(DOMAIN list) : \A i, j \in DOMAIN q : i < j => list[q[i]] <= list[q[j]]}

-----------------------------------------------------------------------------
\* Neither Go's int nor the database's holds the upper half of uint64.
Half == 2 ^ (Bits - 1)
ToInt(n) == ((n + Half) % (2 * Half)) - Half

Smaller(a, b) == IF a < b THEN a ELSE b

\* Retrieve: LIMIT and OFFSET are left out when 0, and SQLite has no OFFSET
\* without a LIMIT.
Retrieve(q, offset, limit) ==
    IF \/ offset >= Half \/ limit >= Half
       \/ Dialect = "sqlite3" /\ offset > 0 /\ limit = 0
    THEN Failed
    ELSE SubSeq(q, offset + 1, IF limit = 0 THEN Len(q) ELSE Smaller(offset + limit, Len(q)))

EffectiveLimit(q, limit) == IF limit = 0 THEN Len(q) ELSE ToInt(limit)

\* mutation: the end is not cut off
Unclipped(q, end) == end

Clipped(q, end) == Smaller(end, Len(q))

\* applyPagination of the contacts: a slice expression.
applyPagination(q, offset, limit) ==
    LET start == ToInt(offset)
        end == Clipped(q, ToInt(start + EffectiveLimit(q, limit)))
    IN  IF offset = 0 /\ limit = 0 THEN q
        ELSE IF 0 <= start /\ start <= end /\ end <= Len(q) THEN SubSeq(q, start + 1, end)
        ELSE Panicked

-----------------------------------------------------------------------------
(* What a change of its list means for a walk in progress: an item that moved
   is no longer owed to it.  With equal keys, or when an item leaves its place
   to those behind it, nothing is.                                         *)
Watch ==
    \/ walk.pc # "asking" /\ UNCHANGED walk
    \/ \E kind \in {walk.kind} :
          LET old == Listed(kind)
              new == Listed(kind)'
              Moved(x) == x \notin DOMAIN new \/ new[x] # old[x]
              Leaves(x) == x \notin DOMAIN new \/ new[x] > old[x]
          IN  /\ walk.pc = "asking"
              /\ walk' = [walk EXCEPT
                    !.owed = IF HasTies(new) \/ \E x \in DOMAIN old : Leaves(x) THEN {}
                             ELSE {x \in @ : ~Moved(x)},
                    !.calm = @ /\ new = old]

\* UpsertOneMessage: a row that exists keeps its columns jid and is_real, the
\* timestamp and the data are replaced.
UpsertOneMessage(s) ==
    /\ rows' = [rows EXCEPT ![s.id] =
                   IF @ = Null
                   THEN [jid |-> s.chat, is_real |-> s.real,
                         chat |-> s.chat, real |-> s.real, time |-> s.time]
                   ELSE [@ EXCEPT !.chat = s.chat, !.real = s.real, !.time = s.time]]
    /\ UNCHANGED contacts
    /\ Watch

DeleteMessage(m) ==
    /\ rows[m] # Null
    /\ rows' = [rows EXCEPT ![m] = Null]
    /\ UNCHANGED contacts
    /\ Watch

DeleteChatMessages(c, before) ==
    /\ rows' = [m \in Ids |-> IF /\ rows[m] # Null
                                 /\ rows[m].jid = c /\ rows[m].time < before
                              THEN Null ELSE rows[m]]
    /\ UNCHANGED contacts
    /\ Watch

\* whatsmeow stores or renames a contact; it removes none.
PutContactName(u, name) ==
    /\ contacts' = [contacts EXCEPT ![u] = name]
    /\ UNCHANGED rows
    /\ Watch

-----------------------------------------------------------------------------
\* A client asks for pages of one size until one is not full.
Begin(kind, limit) ==
    /\ walk = Idle
    /\ LET list == Listed(kind) IN
       walk' = [pc |-> "asking", kind |-> kind, limit |-> limit, offset |-> 0,
                owed |-> IF HasTies(list) THEN {} ELSE DOMAIN list,
                calm |-> ~HasTies(list), again |-> FALSE]
    /\ UNCHANGED <<rows, contacts>>

\* GetMessages, GetChats or GetContacts.
GetPage ==
    /\ walk.pc = "asking"
    /\ \E q \in Sorted(Listed(walk.kind)) :
          LET page == IF walk.kind \in ContactKinds
                      THEN applyPagination(q, walk.offset, walk.limit)
                      ELSE Retrieve(q, walk.offset, walk.limit)
              answered == page \notin {Failed, Panicked}
          IN  walk' = IF ~answered THEN [walk EXCEPT !.pc = "refused"]
                      ELSE [walk EXCEPT
                              !.pc = IF Len(page) < walk.limit THEN "done" ELSE @,
                              !.offset = @ + walk.limit,
                              !.owed = @ \ ToSet(page),
                              !.again = @ \/ (walk.calm /\ ~(ToSet(page) \subseteq walk.owed))]
    /\ UNCHANGED <<rows, contacts>>

End == /\ walk.pc \in {"done", "refused"}
       /\ walk' = Idle
       /\ UNCHANGED <<rows, contacts>>

Times == {s.time : s \in Saves}

MessagesChange ==
    \/ \E s \in Saves : UpsertOneMessage(s)
    \/ \E m \in Ids : DeleteMessage(m)
    \/ \E c \in Chats, t \in Times : DeleteChatMessages(c, t)

ContactsChange == \E u \in Users, n \in Names : PutContactName(u, n)

Walk(kinds) == GetPage \/ End \/ \E kind \in kinds, limit \in Limits : Begin(kind, limit)

Next == MessagesChange \/ ContactsChange \/ Walk(Kinds)

Spec == Init /\ [][Next]_vars

-----------------------------------------------------------------------------
(* Pages read one after the other while the list changes: with distinct keys
   an item the list had at the start is missed only if it moved itself or if
   something was deleted or moved behind it; a message that arrives, or a chat
   it lifts to the top, costs nobody else its place.  If nothing changed no
   item is seen twice, and no page of such a walk is ever refused.         *)
WalkMissesNothing ==
    /\ walk.pc # "refused"
    /\ walk.pc = "done" => walk.owed = {} /\ ~walk.again

(* The chat list agrees with the messages: whatever was saved again or deleted,
   a chat is there once, with the time of its newest message, which is also the
   first GetChatMessages gives (MarkChatUnread sends it to WhatsApp).  Not so
   for a chat one of whose messages was first saved in another chat or as not
   real: the upsert keeps those columns.                                   *)
ChatListIsRight ==
    LET stored == {m \in Ids : rows[m] # Null}
        Stale(m) == rows[m].jid # rows[m].chat \/ rows[m].is_real # rows[m].real
        Real(c) == {m \in stored : rows[m].real /\ rows[m].chat = c}
        sound == {c \in Chats : \A m \in stored :
                     c \in {rows[m].jid, rows[m].chat} => ~Stale(m)}
    IN  \A jids \in SUBSET Chats : \A last \in LastMessages(jids) : \A c \in sound :
            LET shown == {j \in DOMAIN last : ChatEntry(last[j]).jid = c}
                first == {Head(q) : q \in Sorted(GetChatMessages(c)) \ {<<>>}}
            IN  IF Real(c) = {} \/ (jids # {} /\ c \notin jids) THEN shown = {}
                ELSE /\ Cardinality(shown) = 1
                     /\ \A j \in shown, m \in first \cup Real(c) :
                           rows[m].time <= ChatEntry(last[j]).time
                     /\ \A j \in shown, m \in first : rows[m].time = ChatEntry(last[j]).time

(* Contacts are cut into pages by hand, messages and chats by the database: the
   two agree on every page both deliver, and as long as the offset is within
   the list and the numbers are within an int the contacts do not panic.   *)
PaginationsAgree ==
    \A q \in Sorted(Listed("contacts by id")) : \A offset, limit \in 0..(2 * Half - 1) :
        LET byHand == applyPagination(q, offset, limit)
            bySql == Retrieve(q, offset, limit)
        IN  /\ byHand # Panicked /\ bySql # Failed => byHand = bySql
            /\ offset <= Len(q) /\ offset + limit < Half => byHand # Panicked
=============================================================================

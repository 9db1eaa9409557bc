# A verification project for the GoWS gateway

GoWS is a gRPC server in Go that keeps any number of WhatsApp *sessions*. A
client of the API starts a session, subscribes to its events with a streaming
call, sends messages through it and reads what the server has stored about its
chats. WhatsApp itself is spoken by the whatsmeow library, which calls back into
this code. Nothing here talks about the WhatsApp protocol: the modules are about
what this repository adds to the library, which is concurrency and storage.

All paths below are relative to `src/src/` of the repository.

1. [Inventory](#1-inventory)
2. [Modules and the code they model](#2-modules-and-the-code-they-model)
3. [Runs, bounds and what they show](#3-runs-bounds-and-what-they-show)
4. [Assumptions and fairness](#4-assumptions-and-fairness)
5. [Proofs](#5-proofs)
6. [Where the code and its comments disagree](#6-where-the-code-and-its-comments-disagree)
7. [Not modelled, and the plan](#7-not-modelled-and-the-plan)

To use it: `tlc -config MCSessions.cfg MCSessions.tla` (each `.cfg` names its
module in its first letters, see the table of runs) and `tlapm SessionsProofs.tla`,
likewise for every `...Proofs.tla`.

## 1. Inventory

| component | code | state | operations | hard because |
|---|---|---|---|---|
| Session manager | `gows/manager.go`, `server/session.go` | map name -> client under a RWMutex | Build, Start, Get, Stop; StartSession, StopSession, Logout | StartSession replies, then starts the session from a goroutine that looks the name up *again*; Connect and Stop run with the lock held |
| GoWS client | `gows/gows.go`, `gows/storage_builder.go` | events channel (10), context, database, socket | BuildSession, Start, Stop, QR codes, reissueEvent, emitEvent | Stop closes the channel other goroutines are sending on, then cancels the context |
| Event streams | `server/events.go`, `server/grpc.go` | session -> uuid -> buffered channel (100) | StreamEvents, SendEventToAllListeners | the fan-out sends without the lock that protects the map; full channels drop |
| Event storage handler | `gows/storage_event_handler.go` | none (all in the database) | messages, revokes, receipts, history, chat deletion, groups, labels, contacts | one goroutine per event, read-modify-write without a transaction, retries |
| Message table | `storage/sqlstorage/message.go`, `entity.go`, `tables.go` | `gows_messages` | upsert, get with retries, delete, delete chat, listings | an upsert of a row that was read some time ago |
| Group update | `storage/helpers/groups.go`, `participants.go` | none | UpdateGroupInfo | versions; four overlapping lists in one update; order of the list |
| Group cache | `gows/storage_groups_cache.go` | `gows_groups` and the settings table, a mutex, the time of the last refresh | UpdateGroup, FetchGroups, GetAllGroups, UpsertOneGroup, DeleteGroup | a refresh deletes and refills the table while updates and lists go on |
| Disappearing settings | `gows/ephemeral.go`, `storage/sqlstorage/chat_ephemeral_setting.go` | one row per chat | upsert, conditional delete | delayed events; second granularity |
| Labels | `server/labels.go`, the label handlers of `gows/storage_event_handler.go`, `storage/sqlstorage/label*.go`, migrations 005 and 006 | two tables with a foreign key and a cascade | UpsertLabel, DeleteLabel, AddChatLabel, RemoveChatLabel, GetLabelsByJid, their events | one goroutine per event: associations before their label, deletions after its return; a reader between two SELECTs |
| Sending | `server/messages.go`, `server/buttons.go`, `gows/build.go`, `gows/media.go`, `gows/status.go`, `wrpc/interceptors.go` | none | SendMessage, SendReaction, MarkRead, RevokeMessage, EditMessage, SendButtons, SendButtonReply, CancelEventMessage, status broadcast | partial failure, late acknowledgements, retries, the unary timeout |
| Listings | `server/storage.go`, `server/contacts.go`, `storage/views/`, `storage/meow/`, `storage/sqlstorage/entity.go` | none of their own | GetMessages, GetChats, GetContacts | pages by offset of a list that changes; columns an upsert leaves alone; two paginations, one by hand |
| Rest | groups, profile, presence, newsletter, call, media RPCs; codec; set-up | none | one library call each, or pure computation | - |

How they interact:

```
 whatsmeow --AddEventHandler--> handleEvent --go--> reissueEvent --go--> emitEvent
                                   |                                        |
                                   |                                 events channel (10)
                                   v                                        v
                         StorageEventHandler (go)              pump goroutine of StartSession
                          |        |         |                              |
                     messages  GroupCache  settings            SendEventToAllListeners
                          \        |        /                               |
                           session database                       listener channels (100)
                                                                            |
 gRPC client <---------------------- StreamEvents <-------------------------+
 gRPC client --StartSession/StopSession/Logout--> SessionManager --> GoWS.Start/Stop
```

What makes each part correct, in one line each:

* manager: no client is ever lost from the map while it is alive, nothing that
  was stopped comes back, a late start touches its own session only;
* client: nobody blocks for ever on the channel or is left behind by Stop;
* streams: who is registered is open, everybody gets the events of their own
  session once, a bad stream costs the others nothing;
* sending: whoever is told "ok" has reached everybody, and is on record;
* message table: what is saved stays until it is deleted, receipts only raise;
* groups: a row is a version of the group, never a mixture of two;
* settings: a deletion spares what is newer than itself;
* labels: once all is handled the tables show what the phones do, readers get
  labels;
* listings: a client that reads page by page misses nothing that stays, the chat
  list agrees with the messages.

`PROJECT.json` lists the hazards behind these, each at its line.

## 2. Modules and the code they model

| module | models | extends / instantiates |
|---|---|---|
| `SessionRegistry` | abstract: a registry of sessions with atomic operations | |
| `Sessions` | `gows/manager.go`, lifecycle in `gows/gows.go`, `server/session.go` | refines `SessionRegistry` |
| `EventStream` | `server/events.go` | |
| `Gateway` | the events channel, pumps and QR codes, joining the two | `Sessions`, `EventStream` |
| `Sending` | the sending RPCs: `server/messages.go`, `server/buttons.go`, `gows/status.go`, the vote of `gows/newsletter.go`, the unary interceptors | `Subsequences` |
| `Subsequences` | what a loop that skips elements collects from a list, in a form proofs can expand | |
| `MessageLedger` | abstract: messages with a status receipts raise, and the one race that may lower it | |
| `MessageStore` | message, receipt, history and deletion handlers over the message table | refines `MessageLedger` |
| `GroupInfo` | `storage/helpers/` as operators | `Subsequences` |
| `GroupCache` | `gows/storage_groups_cache.go` and the group events | `GroupInfo` |
| `Ephemeral` | settings of chats with users | |
| `Labels` | the label RPCs, the two label handlers and their tables | |
| `Listings` | the paged lists of messages, chats and contacts, and the columns they are made from | |
| `SessionsProofs`, `EventStreamProofs`, `SendingProofs`, `MessageStoreProofs`, `EphemeralProofs`, `GroupCacheProofs` | theorems about the module each is named after, see section 5; `GroupCacheProofs` also about `MCGroupInfo` | that module (and `MCGroupInfo`), TLAPS; `FiniteSetTheorems` where something is counted |
| `GatewayProofs` | theorems about `Gateway` | `Gateway`; instantiates `SessionsProofs` and `EventStreamProofs` |
| `MCGroupInfo` | any sequence of small updates of a group, with reference definitions of what they mean | `GroupInfo` |
| `Parts` | `Labels`, `Listings` and `GroupInfo` side by side | `Labels`, `MCGroupInfo`; instantiates `Listings` |
| `PartsProofs` | theorems about `Labels` and `Listings` | `Parts`, `FiniteSetTheorems`, TLAPS |
| `MC...` | small instances, symmetry, and what is only true of an instance | |

**Sessions.** A *call* is an RPC in flight together with the goroutines
StartSession leaves behind; a *client* is one `GoWS` value, built once and never
reused. `sessions` is the map and `lock` the holder of `sessionsLock` where a
critical section takes several steps. `stage` follows GoWS.Stop statement by
statement (Disconnect, close the database, close the channel, cancel), because
the client's own goroutines do not take the lock and see each stage. Build is
one action: nothing else can see its intermediate states while it holds the
lock. It has four outcomes: the session exists, a new one, BuildSession fails,
and SetProxyAddress fails *after* the client was put into the map. A dialect the
server does not know is refused before any of this (`UnsupportedDialect`), whether
or not the session exists. A QR channel that closes may disconnect the client, as
the library does when the codes have expired. `paired` is
`Store.ID # nil` in the session's database, which survives Stop. GetSessionState
and RequestCode change nothing this process keeps and are left out.

**EventStream.** A *sender* is a goroutine inside SendEventToAllListeners. It
copies the listeners under the read lock (`snap`) and sends to them one by one
without it (`todo`); a stream meanwhile unregisters and closes its channel under
the write lock. A send on a closed channel panics in a goroutine without
recover: `crashed`. `sentTo` and `lost` are history.

**Gateway** instantiates both: its senders are the pumps of the calls. An event is
reissued once per registered handler, each copy in a goroutine of its own
(`emitting`), so copies enter the channel in any order; what the library dispatches
is reissued from any client that was built, connected or not. The events channel of
a client is the part of `entered` not yet `taken`. The two modules it joins know
nothing of the channel, so Gateway adds the guards: a pump leaves its `range` loop
only when the closed channel is drained and between two events, a QR goroutine does
not look at the context while it is inside emitEvent.

**Sending.** A call prepares, sends, and returns through the interceptors. What it
does before it sends (`Preparation`, the steps that can fail, in their order) shares
nothing with other calls and leaves nothing behind, so failing at any of the steps
is one action, `Refuse`; steps whose error is only logged are in `Advisory` and
cannot refuse. `Deliver` stands for the library: WhatsApp takes a message for all
the given recipients or for none, and may take it although the library reports an
error. The deadline ends nothing by itself (`Expire`); it only changes the reply,
and makes library calls fail, which they may do anyway. One step of the preparation
is a step of its own because nothing limits it: the image of a link preview of high
quality is uploaded with `gows.Context` (`gows/media.go:131`), which has no deadline
(`UploadPreview`, `UploadReturns`), and the interceptor waits for the handler. Two
calls meet only in the ids they generate. `Picked` is the filter that keeps the
participants on the user server, `Chunk` is lo.Chunk. A status whose list is empty
after filtering has no batch, so nothing fails and it is reported ok, as in the
code.

**MessageStore.** A handler is one goroutine for one event; a history sync has one
per conversation. A receipt for several messages runs its messages one after the
other and does not depend on their outcome, so it is one handler per message here.
Messages of a history sync that the library cannot parse are skipped and are not
among `Ids`. One action per SQL statement; a statement may fail for the handlers in
`FailingDb`. A receipt reads a row and writes all of it back later: a handler
between the two holds a copy that is *stale* once another has changed the row
(`IsStale`). `MessageLedger` has a step for exactly that (Overwrite, of a message
somebody holds a stale copy of), and `raced` remembers the messages it happened to,
so everything else a handler does must be an atomic Save, Raise, Delete or Clear.

**GroupInfo.** UpdateGroupInfo and the ordered map it uses, as operators. A
participant has one `rank` for the two flags IsAdmin and IsSuperAdmin, `timer`
stands for the five group parameters (name, topic, locked, announce, ephemeral),
which are all copied in the same way. The ordered map is its keys in order and a
function from them to ranks; setting some keys and deleting others are stated at
once for all of them, which is what the loops of the code come to, as a key set
twice keeps its place and has one rank.

**GroupCache.** WhatsApp owns a history of versions for every group and tells of
each by an event, which a goroutine handles whenever it likes. Updates and
refreshes take `lock`; joining and leaving a group and the SELECT of a list do
not, as in the code. A refresh is its statements: fetch, delete all, then for
each group the setting and the row. To switch a setting off the code first selects
it; settings of groups have no timestamp to compare, so select and delete are one
step here. `Groups` are those shouldIgnoreJID lets pass.

**Ephemeral.** The truth is what the phones show; an event tells of it and is
handled late. An ordinary message tells the duration of its chat, and may do so for
a chat that has none: ExtractEphemeralSettingsFromMsg refuses an expiration that is
missing, not one that is 0, so such a message leaves a row that says Off. The upsert
is unconditional, the removal is a read, a comparison of whole seconds and a delete.

**Labels.** The truth is what the phones show (`shown`, `labeled`). An RPC of this
server does not touch a table: it sends WhatsApp an app state, which comes back
as an event like a change made on a phone, so RPC and phone are the same action
here, and a full sync tells again what is. Every event has a goroutine of its
own; `came` and `ran` are history, the handlers in the order of their events and
of their writes. Deleting a label takes its associations along by the cascade of
migration 006, and its foreign key refuses an association without a label (the
server switches foreign keys on for SQLite, `server/session.go:30`). An id ParseJID
finds no server in has a NULL jid, which migration 006 refuses: nothing is stored
of it, as of any write that fails (`WriteFails`). A GetLabelsByJid is its two
SELECTs.

**Listings.** A list is a function from its items to their sort keys, and a request
returns a page of *some* sequence sorted by these keys: items with equal keys have
no order, and may be ordered otherwise the next time. Contacts by id are sorted by
the id without its server (`userPart`), so they can tie as well. A row keeps, as in
the table, the columns `jid` and `is_real` of its first save beside the chat, the
time and the flag in its data. A *walk* is a client that asks for page after page of
one size while rows are saved again and deleted; `owed` are the items it may count
on (those that neither moved themselves nor lost their place to an item that left),
`calm` says that nothing changed so far. Integers have `Bits` bits, so the
conversions of `uint64` to `int` are what they are in Go.

What the parameters must be for that to describe the code is `ParametersFit`: sort
keys are integers, there are finitely many items, and their number plus a page is
far from overflowing an `int`.

**Parts** has the three small parts that share no state side by side: `part`
chooses one of them at the start, the others stay as they are. It names the
parameters of `Listings` that `Labels` has names for, too, and assumes
`ParametersFit`; `MCParts` is its instance.

## 3. Runs, bounds and what they show

Deadlock is not checked: a server with no call or event left simply idles, and
with one-shot calls and handlers every bounded behaviour ends there. That
nothing waits for ever where it must not is what the liveness properties say.

| run | configuration | instance | what it shows |
|---|---|---|---|
| sessions | `MCSessions.cfg` | 2 names, 2 clients, 3 calls; 135 000 states | overlapping StartSession, StopSession and Logout leak no client and no goroutine, revive nothing, start only their own session, and implement `SessionRegistry`; every accepted start is tried |
| event_stream | `MCEventStream.cfg` | 2 names, 2 streams, 2 senders, 2 items of which one cannot be marshalled, channels of 1; 51 000 | who is registered is open, nobody gets an event twice or another session's, nobody is skipped but for a full or closed channel, the sender always returns |
| gateway | `MCGateway.cfg` | 2 names, 2 clients, 2 calls, 1 stream, 1 event, paired devices; 98 000 | a stream only ever sees its session, order is kept while there is one pump, emitters and channel come to an end across Stop |
| gateway_qr | `MCGatewayQR.cfg` | 1 name, 1 client, 3 calls, 2 codes, not paired; 1 227 000 (symmetric calls) | no code overtakes a newer one of the same start, across stops and rebuilds, as long as one pump served the client; nothing is claimed of two pumps or of codes of different starts |
| sending | `MCSending.cfg` | a call of any kind to a chat, the status list or a newsletter, beside a reaction that competes for ids; a status list of 4 with one hidden member, batches of 2; 561 000 | recipients, announcement and reply agree, a status is tried once for each of its users, every call is answered unless it waits for the upload of a preview image |
| message_store | `MCMessageStore.cfg` | 3 overlapping handlers, one with a failing database, 2 messages and a revoke, 3 chats of which one is ignored; 1 300 000 (symmetric) | nothing saved vanishes unless it is deleted, receipts count unless a stale copy was written over them, the table implements `MessageLedger` |
| broadcast_receipts | `MCMessageStoreBroadcast.cfg` | 2 handlers | **violation**: see section 6 |
| parts | `MCParts.cfg` | labels: 3 handlers, one with a failing database, 2 labels with 2 names, 2 chats of which one is ignored; lists: 3 messages in 3 chats, 3 contacts of which two tie by id, pages of 1 and 2, integers of 4 bits; groups: 3 participants, all small updates; 502 000 (symmetric) | label events in any order end with the tables the phones show, and a reader gets labels; walks miss nothing that stays, the chat list agrees with the messages, both paginations agree; an update of a group means what its four lists mean as sets, and keeps the order |
| group_cache | `MCGroupCache.cfg` | 2 groups, 3 handlers, 3 versions, nothing missed; 237 000 (symmetric) | rows never go back, both tables agree, a list is never half a table, and once all is handled the rows are current |
| group_cache_churn | `MCGroupCacheChurn.cfg` | 1 group, 2 handlers, 4 versions, missed events, failing SQL, the account leaves and joins; 166 000 | a row is one version of the group, never a mixture; every handler ends and gives the lock back |
| ephemeral | `MCEphemeral.cfg` | 4 handlers one at a time, 2 seconds; 1 243 000 (symmetric) | handled in order the row is the truth, with three exceptions; a chat deletion spares every newer setting, in whatever order |
| ephemeral_off | `MCEphemeralOff.cfg` | 3 handlers one at a time, 3 seconds | **violation**: see section 6 |

Why the bounds are enough. The hazards are races between two actors with a third
one changing what they read: two clients per name and three calls give a start
that arrives after its session was stopped and rebuilt; two streams and two
senders give a stream that leaves in the middle of a fan-out while another one
is full; a channel of capacity 1 is full as soon as it holds anything, and
nothing in the code depends on the capacity but being full or not; a list of
three valid users in batches of two has a full and an incomplete batch; three message
handlers give a read, a change by another, and the write; one more than the
interesting retry count is reached with `Attempts = 2` instead of 6 or 10,
as all attempts but the last are alike. `MaxVersion` is large enough for an
update to be early, late and repeated. Three label handlers give an association
that comes before its label, and a deletion that is written after the label was
made anew; three items in pages of one and two give full, partial and empty last
pages and changes before, on and behind the page just read.

`LinkedDevices` separates the two questions asked of Gateway: with it devices are
paired from the start, so no QR goroutine exists (run gateway); without it the
run gateway_qr has the QR codes and no other event.

Every property of a passing run is also checked to be *able* to fail: a mutant
of one definition of the model (a dropped guard, a missing reset, a swapped
order; most of them stand in the modules under "mutation") breaks it in the very
same run.

## 4. Assumptions and fairness

Assumptions are constants, so that what depends on them says so:

* `Serial` (Ephemeral): the handlers of one chat do not overlap. The code does
  not guarantee it, but it is what its comment about deletions presupposes: the
  violation of run ephemeral_off does not need an overlap.
* `FailingDb`, `DbFails`: whether SQL statements may fail (in Labels the second
  SELECT of a reader always may).
* `MembershipStable`, `NothingMissed` (GroupCache): the account stays in its
  groups, every change arrives as an event.
* `Ignored` (MessageStore, Labels): what shouldIgnoreJID rejects.
* The library returns a new GoWS value from every successful BuildSession, opens
  no connection of its own after Disconnect, and closes a QR channel with a zero
  item. These are the only things taken from whatsmeow.

Fairness, always of single goroutines:

* `WF` of the statements of a goroutine: Go runs whatever is runnable.
* `SF` of taking a mutex or the write side of the RWMutex that others also take
  (BackgroundStart, `Locking` in GroupCache): Go's Mutex hands the lock to a
  waiter that has waited too long and its RWMutex lets no new reader overtake a
  waiting writer, so whoever waits gets it, although the lock is not free all
  the time.
* `WF(Handle)` of Sending: the library gives up when the context ends, after 30
  minutes at the latest (`main.go`), and the other calls made without that context
  have time limits of their own (the rest of a link preview has six seconds).
* None for `UploadReturns`: the upload of a preview image has no time limit, and
  EveryCallAnswered excludes a call that is in it.
* Connect returns (FinishStart): the library dials with timeouts.
* GetJoinedGroups returns: the library's requests time out.
* None for clients of the API, users or WhatsApp: nobody has to call, scan a
  code, subscribe, read a stream or send anything. A `stream.Send` that blocks
  for ever is a Forward never taken, and SenderReturns holds all the same.

## 5. Proofs

The proofs hold for *any* values of the constants that meet the assumptions named in
the modules: any sets of names, clients, calls, streams, handlers, messages, groups,
participants, labels, chats and contacts, any capacities, page sizes, batch sizes
and numbers of attempts. The assumptions are what TLC evaluates on the instances:
`Null` is none of the things it stands beside (a group, a client, an answer); a
channel holds something (an unbuffered listener channel would drop every event); the
lists of participants are sequences, and the audience WhatsApp returns for a status
ends with the own account, which is a user; ids a client chooses are none the
library generates; there are finitely many people in a group; the lists a client
pages through are finite, sorted by integers, and short against an `int` even with a
page added (`ParametersFit`); and what is in the sets of parameters. Where a
property holds under a condition only (`Serial`, `MembershipStable`,
`NothingMissed`, `~DbFails`), the condition stands in the property, so it is in the
theorem too.

| module | theorem | statement |
|---|---|---|
| `SessionsProofs` | `TypeCorrect`, `NoOrphans`, `WholeClients`, `StaysDown`, `OwnStarts`, `UnproxiedExplained` | the invariants of run sessions |
| | `StoppedIsFinal` | the action property StoppedGainsNothing |
| | `Refinement` | `Spec => ImplementsRegistry` |
| | `PumpsOwnSession` | pumps, late starts and QR goroutines hold clients of their own session |
| `EventStreamProofs` | `MapIsOpen`, `EventsOnce`, `NoneSkipped` | RegisteredIffOpen, OwnEventsOnce, NobodySkipped |
| `GatewayProofs` | `EventsStayInSession` | OwnSessionOnly |
| | `OnePumpInOrder` | OnePumpKeepsOrder |
| | `CodesInOrder` | CodesArriveInOrder |
| `SendingProofs` | `Witnesses` | WitnessesAgree |
| | `EveryUser` | EveryUserTriedOnce |
| | `UsersKept` | the filter keeps all the users of a list, and nobody else, in their order; the own account comes first |
| `MessageStoreProofs` | `NothingVanishes`, `ReceiptsAreKept` | SavedUnlessDeleted, ReceiptsCount |
| | `Refinement` | `Spec => ImplementsLedger` |
| `EphemeralProofs` | `NewerIsSpared` | the action property DeleteChatSparesNewer |
| | `OrderedIsTruth` | InOrderIsTruth |
| `PartsProofs` | `OnlyLabelsAnswered` | AnswersAreLabels |
| | `TablesMirrorPhones` | QuietMirrorsPhones |
| | `NothingMissed` | WalkMissesNothing, of `Listings` alone and side by side with the others (likewise the next two) |
| | `ChatsAreRight` | ChatListIsRight |
| | `PaginationsAlike` | PaginationsAgree |
| `GroupCacheProofs` | `UpdateMeansSets`, `UpdateKeepsOrder` | of UpdateGroupInfo: who is in the group afterwards and as what; nobody is listed twice, and who stays keeps their place |
| | `UpdatesMeanSets`, `UpdatesKeepOrder` | the action properties MeansSets and KeepsOrder, along any sequence of updates |
| | `VersionsStored` | StoredIsSomeVersion |
| | `RowsOnlyAdvance`, `SettingsFollow` | NeverRollsBack, SettingMirrorsRow |
| | `ListsAreWhole` | ListIsWhole |
| | `QuietRowsAreCurrent` | QuietMeansCurrent |

With these every safety property of every passing run is a theorem: all
invariants, all action properties and both refinements. Each module also proves
its inductive invariant (`Invariance`; also `OrderInvariance` for `Gateway`,
`StoredInvariance` for `GroupCache`, `ListsInvariance` for `Listings`), and its
type invariant where it has one of its own (`TypeCorrect`). Hardly any of the
properties is inductive by itself; this is what each proof adds, and why.

**Sessions.** `Inv` is `TypeOK` and eight parts:

* `LockInv`: exactly the calls inside a long critical section hold the lock - so
  there is at most one of them;
* `NameInv`: a received call has a name;
* `TargetInv`: the client such a call works on is *still* the one in the map, at
  the stage its next statement expects. This is the heart: nobody else can take
  the name off the map or advance the client;
* `MapInv`, `OwnerInv`: map and owner agree in both directions, which is
  NoOrphanClient;
* `TearDownInv`: a client between its stages of Stop belongs to a Stop that
  holds the lock, hence WholeClients when nobody does;
* `ConnInv`: a socket is open only at stage "open". It needs TargetInv for
  FinishStart: the client that Connect opened cannot have been stopped since;
* `ProxyInv`: a client without its proxy was left by a StartSession that failed.

There is one lemma per action, and the action property and the refinement follow
from `Inv` step by step: Build maps to Create, Connect to GoOnline, Disconnect and
the two kinds of logout to GoOffline, the end of Stop to Remove, the rest to
stuttering. `PumpInv` is a second invariant on top of it, for Gateway: the owner
of a client never changes once it is built (`OwnerStays`), so who looked it up
under a name keeps a client of that name.

**EventStream.** `TopicInv` (a stream that has not subscribed has nothing),
`SenderInv` (the streams a sender visits have its topic), `HeldInv` (what a
stream has received and what waits in its channel are disjoint, without
repetition, and of its topic) and `OnceInv`: what a sender has still to send to a
stream is not there yet, what it has sent is there or lost. OnceInv is what makes
"at most once" survive a snapshot that is older than the map.

**Gateway.** The proof is compositional. Steps of Gateway are steps of its two
components, or leave them alone, so their invariants come from `InvNext` of
their own modules, taken with INSTANCE. Three parts join them: `SourceInv` (an
event belongs to the one client that reissued it), `ChannelInv` (and waits in
that client's channel) and `SentInv` (and is sent under the name that client was
built for). A pump takes from a client of its own session by `PumpInv`, and a
stream holds only what was sent under its topic by `HeldInv`.

Order needs a second invariant. `EnteredOnce`: a copy enters its channel once.
`TakenInv` and `TakerInv`: what has been sent was taken, and a client's only pump
still works on what it took last. `InOrder`: of two events of a client with one
pump that a stream holds, the first entered the channel first. A send keeps it
because everything the stream holds was taken before, hence entered before, what
the pump sends now; a second pump breaks exactly TakerInv. Codes are issued by one
goroutine per call which waits until its code is in the channel (`CodesInv`), so
that the codes of one call enter in the order they were issued in. Of codes of
different calls, or of two pumps, neither theorem says anything.

**Sending.** `BatchesOf`: the batches a call has sent and those it has left are
together the chunks of its list, in order, and all carry the same id.
`AcceptedOf`: a batch that did not fail has reached its users. `WitnessOf` ties
the three witnesses together: whatever was announced was sent by a call that
returned "ok" and has reached all its addressees. When nothing is left to send the
batches tried are all chunks; that these, laid end to end, are the list
(`ChunkLaid`), and that the list has all users of the request (`UsersKept`), are
facts about the operators. They rest on `Counted`: the places a filter keeps are
numbered without gaps and in their order.

**MessageStore.** `EventInv` ties the statement a handler has come to to the kind
of its event. `SavedInv` is SavedUnlessDeleted in the words of a single
handler (`HasSaved`), `SourceInv` says that a row or a receipt's copy of it goes
back to a handler that saved it; with one saver only, no second save can take
the status of a receipt away. What a statement can do to the table is stated
once (`StatementEffect`) and is all these parts need. The refinement maps a save
to Save, a receipt's write to Raise or, if its copy is stale, to Overwrite, the
deletions to Delete and Clear, and a statement that fails to a stutter.

**Ephemeral.** `FieldInv` and `BeforeInv` say what a removal is called with;
`SerialInv` that handlers which do not overlap find the row as they read it, so
that the comparison still holds at the DELETE.

Handled in order the row is the truth by `OrderInv`: the truth is what the last
event to come tells (`TruthInv`), the row is what the last handler to begin has
made of it (`RowInv`: an upsert ignores what was there, a removal leaves only what
is as new as its call), and in order these two are the same handler. The last
event may be a message that names the duration 0 in a chat that has none (`TruthInv`):
its upsert leaves the row of the third exception.

**Labels.** `ReferenceInv` is the foreign key with its cascade: an association has
its label. `ReaderInv` says of a reader between its SELECTs that every label it
has read of is there or was deleted since; a null needs one that is not.

That quiet tables mirror the phones has the same shape with many handlers at work
at once. `PhonesTold`: what the phones show of a label, or of a chat and a label,
is what the last event about it told. `TablesTold`: what the tables show is what
the last handler *wrote* about it. A handler decides about a label if its event
names it, and about an association also if it deletes the label, which is the
cascade. Once all have written, both histories have the same handlers, so in the
same order they have the same last one. `RetryInv` is for the foreign key: an
addition is refused only after all attempts or when the label was deleted.

**Listings.** All three theorems rest on what a page is. The place (`PlaceOf`) of
an item is the number of items whose key is not greater; without ties it is where it
stands in *any* order the list may come in (`SortedPlaces`), so a page holds the
items whose places follow its offset (`PageFacts`), whoever cuts it
(`PagesServed`). A place depends on the list alone, which is why the proof never
needs the order of the page before.

`OwedInv` then says what a walk may count on: every owed item lies behind the
offset; as long as nothing changed, everything behind the offset is owed, so no
page shows an item the walk is not owed, hence none it has seen. A page takes
away exactly the owed items up to its end. A change keeps the rest behind the
offset by `PlaceGrows`: an item that did not move has at least the place it had,
provided no other left the list or went behind it - the condition under which the
model goes on owing it. At a page that is not full nothing is left behind the
offset, so nothing is owed when the walk is done. `OffsetInv` bounds the offset:
a walk goes on only behind a full page, so the offset is at most the number of
items there can be, far from overflowing an `int`; and for contacts, which are
never removed, at most the length of the list, so that applyPagination does not
panic. This part is not needed to miss nothing but for no page to be refused.

ChatListIsRight and PaginationsAgree follow from the types of the tables
(`TablesInv`). For the first every chat has a newest message, as a finite set of
integers has a largest (`Largest`, by counting, without induction); for the
second the conversions are computed on both sides of the overflow (`ToIntWithin`,
`ToIntBeyond`), which is where the two paginations differ.

**GroupCache** has four layers, each resting on those above it.

`UpdateMeansSets` and `UpdateKeepsOrder` first say what an update does to any
group and any four lists, overlapping or not: after it somebody is in the group
if they were and did not leave, or joined and did not leave, with the rank of the
last list that names them. The ordered map is a map throughout (`IsMap`), and the
participants rebuilt from it have its ranks (`RebuiltRanks`).

`Stored` then holds whatever happens: members who come and go, missed events,
failing statements. Each row, each copy a handler is about to write and each
group a refresh has fetched is `Faithful`, the group as it was at the version it
bears; an update about participants is `Genuine`, it leads from one version of
WhatsApp's history to a later one. An update that is applied has the version of
the row as its `prev`, as Mismatch refuses any other, and so takes a faithful
row to a faithful copy by UpdateMeansSets. This is StoredIsSomeVersion: a row is
never a mixture of two versions.

`Inv`, as long as the account stays in its groups. `LockInv`: who is between the
first and the last statement of an update or a refresh holds the lock, hence is
alone (`Alone`). `EventInv`: no event is of a version WhatsApp does not have.
`VersionInv`: a row has the highest version there ever was and not more than the
group. `CopyInv` and `FetchInv`: what is about to be written is at least as new
(`NewEnough`), for an update because Mismatch refused any other `prev`, for a
refresh because the groups were fetched with the lock held. `MirrorInv`: both
tables agree but for the one group whose setting has been written and whose row
has not.

`CompleteInv`, when no statement fails: a table that is fresh has a row for every
group, or somebody is filling it; what is missing while it is filled is what the
refresh has left to do. A list runs after a refresh or on a fresh table, so it is
whole or taken while somebody fills the table, which is what ListIsWhole says.

`ReachInv`, when no event is missed either: every version of a group has reached
its row (`top`), or a handler that was told of it is still at work or gave up, or
a refresh that fetched it, or a later one, has its row still to write (`Covered`).
The delicate step is an update that finds the cache stale: it hands its version
over to the refresh it starts, which fetches later and so fetches at least that.
When every handler is done and none gave up, only the row is left.

MeansSets and KeepsOrder speak of the same algorithm without the cache, applied to
any group again and again. `AppliedInv`, that a list names nobody twice, makes
their reference definitions (the one participant with a jid, the one place of a
jid) mean something (`ListedOnce`); then a step is UpdateMeansSets and
UpdateKeepsOrder.

Only model-checked:

* liveness, which the prover does not do (fairness and ENABLED): SenderReturns,
  StopReclaimsGoroutines, StartIsTried, NothingIsStuck, EveryCallAnswered,
  HandlersEnd.

## 6. Where the code and its comments disagree

Two runs end in a violation of what a comment or a log line says.

* **broadcast_receipts** - `gows/storage_event_handler.go:246-249`: the branch
  for receipts of `status@broadcast` says "Ignore" and logs that it ignores them,
  and falls through to the loop that applies them.
* **ephemeral_off** - `storage/sqlstorage/chat_ephemeral_setting.go:56` says "Only
  delete if the setting is older than the delete event". For a setting that is
  switched off line 36 passes `time.Now()`, so a late "off" deletes a newer "on".

Behaviour worth knowing that contradicts no comment, visible in the models:

* a second StartSession of a running session adds a second pump and a second
  event handler to the same client: events are then delivered twice and their
  order is lost, also that of QR codes, those of one start and those of different
  starts: a user may be shown a code that no longer works (OnePumpKeepsOrder and
  CodesArriveInOrder are conditional for that reason);
* a client left in the map by a failed SetProxyAddress has no pump; a later
  StartSession uses it *without* the proxy. If it is started by a background
  start that was already under way it has no pump at all, and its emitters block
  until it is stopped;
* a stream that leaves during a fan-out can bring the process down (`crashed`);
* when a group update finds the cache stale it refreshes and drops the update,
  as the refresh includes it; when the refresh fails the update is retried;
* a call whose deadline passes while it succeeds is answered with
  DeadlineExceeded, and is announced and stored all the same; a message WhatsApp
  took without the library seeing the acknowledgement is neither;
* the image of a link preview of high quality is uploaded without a time limit
  (`gows/media.go:131`), inside SendMessage and EditMessage: an upload that hangs
  leaves the call unanswered until the session is stopped;
* a message that names the expiration 0 is taken for a setting that is on
  (`gows/ephemeral.go:75-85`; lines 96 and 113 take 0 for off): it leaves a row of
  duration 0 for a chat without disappearing messages;
* CancelEventMessage overwrites the error of BuildEventUpdate with that of
  SendMessage (`server/messages.go:724-726`) and goes on without a message;
* joining and leaving a group write the tables without the cache's lock, so a
  leave during a refresh is undone by it;
* GetLabelsByJid drops the error of its second SELECT (`server/labels.go:80`) and
  looks labels up in a map: a label deleted between the two SELECTs, or the
  failure, is a `null` in the reply. AddChatLabel and RemoveChatLabel drop the
  error of ParseJID (lines 118 and 132) and have WhatsApp label whatever it
  returned. When that is the empty jid, the association that comes back as an event
  is refused by the table here, where `jid` is NOT NULL;
* an association whose label does not come within six attempts is refused by the
  foreign key and lost until the next full sync;
* a message that is saved again keeps the columns `jid`, `from_me` and `is_real`
  of its first save: one that was first saved as not real never shows in a list,
  one that moved is listed under its first chat with the data of the second;
* SQLite has no OFFSET without a LIMIT, so such a request for messages or chats
  fails there; a request for contacts whose offset is beyond the end panics
  (`storage/meow/contact.go:99`) and is answered with an internal error.

## 7. Not modelled, and the plan

Never: the WhatsApp protocol, building protobuf messages, media conversion, link
previews, codec and buffer pool, logging, migrations. They are pure data, pure
I/O or the library's.

Single library calls that keep nothing here: the other operations on groups,
newsletters, profiles, presence and calls.

Not yet, in this order:

1. Contact events and the one write to the LID map.
2. The goroutines that decrypt poll votes and event responses before they emit.

Liveness remains with TLC.

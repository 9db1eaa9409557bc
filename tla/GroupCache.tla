------------------------------ MODULE GroupCache ------------------------------
(***************************************************************************)
(* The cached groups of a session: GroupCacheStorage                       *)
(* (gows/storage_groups_cache.go) over the group and chat-ephemeral tables *)
(* and the group events of gows/storage_event_handler.go.                  *)
(*                                                                         *)
(* WhatsApp owns the truth: a history of versions per group.  It reaches   *)
(* the tables as events, each handled by its own goroutine in any order,   *)
(* and by a refresh of all groups, at least every 24 hours.  Updates and   *)
(* refreshes run under the cache's lock; joining and leaving a group, and  *)
(* reading the table, do not.                                              *)
(***************************************************************************)
EXTENDS Integers, Sequences, FiniteSets, SequencesExt, GroupInfo

CONSTANTS Groups,            \* none that shouldIgnoreJID rejects
          Off,               \* of Timers, the disappearing timers: none
          Handlers,          \* goroutines: one event or one request each
          MaxVersion,        \* a bound: versions of a group
          Attempts,          \* of retry.Do in handleGroupInfo (10)
          MembershipStable,  \* assumption: I neither join nor leave
          NothingMissed,     \* assumption: every change comes as an event
          DbFails,           \* a SQL statement may fail
          Null

RankRecords == [jid : Jids, rank : Ranks]

GroupRecords == [timer : Timers, version : Nat, participants : Seq(RankRecords)]

ASSUME ScopeAssumption ==
    /\ Off \in Timers /\ Same \notin Timers
    /\ MaxVersion \in Nat \ {0} /\ Attempts \in Nat \ {0}
    /\ {MembershipStable, NothingMissed, DbFails} \subseteq BOOLEAN
    /\ IsFiniteSet(Jids)
    /\ Null \notin Handlers /\ Null \notin GroupRecords

VARIABLES
    history,   \* WhatsApp: per group the ranks at every version
    timer,     \* WhatsApp: the disappearing timer of a group
    member,    \* WhatsApp: the groups I am in
    row,       \* table of groups: group -> [timer, version, participants]
    setting,   \* table of chat settings: group -> its timer, Off if no row
    fresh,     \* lastTimeRefreshed is less than 24 hours ago
    lock,      \* the goroutine that holds GroupCacheStorage.lock, or Null
    pc,        \* the next statement of a goroutine
    kind,      \* what it handles: an event or a request
    event,     \* the GroupInfo of an "update"
    about,     \* the group an event is about, or a refresh upserts
    copy,      \* the group as it will be upserted
    fetched,   \* the groups GetJoinedGroups returned
    todo,      \* those not yet upserted
    tries,     \* failed attempts of handleGroupInfo
    top        \* history: the highest version a group's row ever had

serverVars == <<history, timer, member>>
tableVars == <<row, setting, top>>
handlerVars == <<pc, kind, event, about, copy, fetched, todo, tries>>
vars == <<serverVars, tableVars, fresh, lock, handlerVars>>

Current(g) == Len(history[g])

\* The group as WhatsApp sends it; it may list participants in any order.
Snapshot(g) ==
    LET order == SetToSeq(DOMAIN history[g][Current(g)])
    IN  [timer |-> timer[g], version |-> Current(g),
         participants |-> [k \in DOMAIN order |->
             [jid |-> order[k], rank |-> history[g][Current(g)][order[k]]]]]

Update(g, t) == [timer |-> t, prev |-> 0, version |-> 0,
                 join |-> <<>>, leave |-> <<>>, promote |-> <<>>, demote |-> <<>>]

NewVersion(g) == [Update(g, Same) EXCEPT !.prev = Current(g), !.version = Current(g) + 1]

Init ==
    /\ history = [g \in Groups |-> <<[j \in {} |-> "member"]>>]
    /\ timer = [g \in Groups |-> Off]
    /\ member = Groups
    /\ row \in [Groups -> {Null, [timer |-> Off, version |-> 1, participants |-> <<>>]}]
    /\ setting = [g \in Groups |-> Off]
    /\ fresh = FALSE
    /\ lock = Null
    /\ pc = [h \in Handlers |-> "new"]
    /\ kind = [h \in Handlers |-> Null]
    /\ event = [h \in Handlers |-> Null]
    /\ about = [h \in Handlers |-> Null]
    /\ copy = [h \in Handlers |-> Null]
    /\ fetched = [h \in Handlers |-> <<>>]
    /\ todo = [h \in Handlers |-> {}]
    /\ tries = [h \in Handlers |-> 0]
    /\ top = [g \in Groups |-> IF row[g] = Null THEN 0 ELSE 1]

-----------------------------------------------------------------------------
(* What WhatsApp does, and the goroutine its event starts.                 *)
Dispatch(h, k, g, e, statement, c) ==
    /\ pc[h] = "new"
    /\ pc' = [pc EXCEPT ![h] = statement]
    /\ kind' = [kind EXCEPT ![h] = k]
    /\ event' = [event EXCEPT ![h] = e]
    /\ about' = [about EXCEPT ![h] = g]
    /\ copy' = [copy EXCEPT ![h] = c]
    /\ UNCHANGED <<tableVars, fresh, lock, fetched, todo, tries>>

Missed == ~NothingMissed /\ UNCHANGED <<tableVars, fresh, lock, handlerVars>>

Announce(g, u) == (\E h \in Handlers : Dispatch(h, "update", g, u, "update", Null)) \/ Missed

NewRanks(g, ranks) ==
    /\ Current(g) < MaxVersion
    /\ history' = [history EXCEPT ![g] = Append(@, ranks)]

\* A participant joins, leaves, is promoted or demoted.
ParticipantChanges(g, j) ==
    LET ranks == history[g][Current(g)]
        As(r) == [i \in DOMAIN ranks \cup {j} |-> IF i = j THEN r ELSE ranks[i]]
    IN
    /\ g \in member
    /\ \/ /\ j \notin DOMAIN ranks
          /\ NewRanks(g, As("member"))
          /\ Announce(g, [NewVersion(g) EXCEPT !.join = <<j>>])
       \/ /\ j \in DOMAIN ranks
          /\ NewRanks(g, [i \in DOMAIN ranks \ {j} |-> ranks[i]])
          /\ Announce(g, [NewVersion(g) EXCEPT !.leave = <<j>>])
       \/ /\ j \in DOMAIN ranks /\ ranks[j] = "member"
          /\ NewRanks(g, As("admin"))
          /\ Announce(g, [NewVersion(g) EXCEPT !.promote = <<j>>])
       \/ /\ j \in DOMAIN ranks /\ ranks[j] = "admin"
          /\ NewRanks(g, As("member"))
          /\ Announce(g, [NewVersion(g) EXCEPT !.demote = <<j>>])
    /\ UNCHANGED <<timer, member>>

\* A parameter change has no participant version.
TimerChanges(g, t) ==
    /\ g \in member
    /\ timer[g] # t
    /\ timer' = [timer EXCEPT ![g] = t]
    /\ Announce(g, Update(g, t))
    /\ UNCHANGED <<history, member>>

ILeave(g) ==
    /\ ~MembershipStable
    /\ g \in member
    /\ member' = member \ {g}
    /\ NewRanks(g, history[g][Current(g)])
    /\ (\E h \in Handlers : Dispatch(h, "left", g, Null, "left", Null)) \/ Missed
    /\ UNCHANGED timer

IJoin(g) ==
    /\ ~MembershipStable
    /\ g \notin member
    /\ member' = member \cup {g}
    /\ NewRanks(g, history[g][Current(g)])
    /\ (\E h \in Handlers : Dispatch(h, "joined", g, Null, "setting",
                                [Snapshot(g) EXCEPT !.version = @ + 1])) \/ Missed
    /\ UNCHANGED timer

\* A client of the API lists groups, or asks for a refresh.
Request(h, k) ==
    /\ Dispatch(h, k, Null, Null, k, Null)
    /\ UNCHANGED serverVars

Expire == /\ fresh
          /\ fresh' = FALSE
          /\ UNCHANGED <<serverVars, tableVars, lock, handlerVars>>
-----------------------------------------------------------------------------
At(h, statement, next) ==
    /\ pc[h] = statement
    /\ pc' = [pc EXCEPT ![h] = next]
    /\ UNCHANGED serverVars

\* mutation: the lock is kept
KeepsLock(h) == UNCHANGED lock

Unlock(h) == lock' = IF lock = h THEN Null ELSE lock

\* mutations: one attempt too many; a mismatch is no error
RetriesAtLimit(h) == IF tries[h] + 1 <= Attempts THEN "update" ELSE "gaveUp"
ErrorSwallowed(h) == "done"

AfterError(h) == IF tries[h] + 1 < Attempts THEN "update" ELSE "gaveUp"

\* UpdateGroup returns an error: handleGroupInfo tries again, then gives up.
Retry(h, statement) ==
    /\ At(h, statement, AfterError(h))
    /\ tries' = [tries EXCEPT ![h] = @ + 1]
    /\ copy' = [copy EXCEPT ![h] = Null]
    /\ Unlock(h)
    /\ UNCHANGED <<tableVars, fresh, kind, event, about, fetched, todo>>

\* lock.Lock, then shouldRefresh.
Acquire(h, statement, next) ==
    /\ lock = Null
    /\ lock' = h
    /\ At(h, statement, next)
    /\ UNCHANGED <<tableVars, fresh, kind, event, about, copy, fetched, todo, tries>>

UpdateGroup(h) == Acquire(h, "update", IF fresh THEN "read" ELSE "fetch")

\* mutation: a forced refresh does not take the lock
FetchUnlocked(h) ==
    /\ At(h, "force", "fetch")
    /\ UNCHANGED <<tableVars, fresh, lock, kind, event, about, copy, fetched, todo, tries>>

FetchGroups(h) == Acquire(h, "force", "fetch")

fetchGroupsIfNeeded(h) ==
    \/ ~fresh /\ Acquire(h, "list", "fetch")
    \/ /\ fresh /\ lock = Null
       /\ At(h, "list", "select")
       /\ UNCHANGED <<tableVars, fresh, lock, kind, event, about, copy, fetched, todo, tries>>

\* mutation: an update writes the group only
RowOnly(u) == "row"

FirstWrite(u) == IF u.timer = Same THEN "row" ELSE "setting"

\* UpdateGroup: GetGroup and UpdateGroupInfo.
ReadGroup(h) ==
    /\ At(h, "read", FirstWrite(event[h]))
    /\ row[about[h]] # Null
    /\ ~Mismatch(row[about[h]], event[h])
    /\ copy' = [copy EXCEPT ![h] = UpdateGroupInfo(row[about[h]], event[h])]
    /\ UNCHANGED <<tableVars, fresh, lock, kind, event, about, fetched, todo, tries>>

ReadFails(h) ==
    /\ Retry(h, "read")
    /\ \/ row[about[h]] = Null
       \/ Mismatch(row[about[h]], event[h])
       \/ DbFails

PutSetting(g, t) == setting' = [setting EXCEPT ![g] = t]

PutRow(g, group) ==
    /\ row' = [row EXCEPT ![g] = group]
    /\ top' = [top EXCEPT ![g] = IF group.version > @ THEN group.version ELSE @]

\* UpdateChatEphemeralSetting of an UpdateGroup or of UpsertOneGroup in
\* handleMeJoinedGroup; an error is only logged.  To switch a setting off takes a
\* SELECT before the DELETE, one step here: settings of groups have no timestamp
\* to compare, so it acts as if all happened at the one moment or at the other.
UpsertSetting(h) ==
    /\ At(h, "setting", "row")
    /\ PutSetting(about[h], copy[h].timer) \/ (DbFails /\ UNCHANGED setting)
    /\ UNCHANGED <<row, top, fresh, lock, kind, event, about, copy, fetched, todo, tries>>

\* The upsert that ends them.
UpsertGroup(h) ==
    /\ At(h, "row", "done")
    /\ PutRow(about[h], copy[h])
    /\ Unlock(h)
    /\ UNCHANGED <<setting, fresh, kind, event, about, copy, fetched, todo, tries>>

UpsertFails(h) ==
    /\ DbFails
    /\ \/ kind[h] = "update" /\ Retry(h, "row")
       \/ /\ kind[h] = "joined" /\ At(h, "row", "done")
          /\ UNCHANGED <<tableVars, fresh, lock, kind, event, about, copy, fetched, todo, tries>>

\* handleMeLeftGroup, DeleteGroup: the setting (it has no timestamp), then the
\* row; errors are logged.
DeleteSetting(h) ==
    /\ At(h, "left", "deleteRow")
    /\ PutSetting(about[h], Off) \/ (DbFails /\ UNCHANGED setting)
    /\ UNCHANGED <<row, top, fresh, lock, kind, event, about, copy, fetched, todo, tries>>

DeleteRow(h) ==
    /\ At(h, "deleteRow", "done")
    /\ row' = [row EXCEPT ![about[h]] = Null] \/ (DbFails /\ UNCHANGED row)
    /\ UNCHANGED <<setting, top, fresh, lock, kind, event, about, copy, fetched, todo, tries>>

-----------------------------------------------------------------------------
(* fetchGroupsUnlocked, under the lock.                                    *)
\* mutation: a list goes on although the refresh failed
ListAnyway(h) == IF kind[h] = "list" THEN "select" ELSE "done"

AfterFailure(h) == "done"

RefreshFails(h, statement) ==
    \/ kind[h] = "update" /\ Retry(h, statement)
    \/ /\ kind[h] # "update"
       /\ At(h, statement, AfterFailure(h))
       /\ Unlock(h)
       /\ UNCHANGED <<tableVars, fresh, kind, event, about, copy, fetched, todo, tries>>

GetJoinedGroups(h) ==
    \/ /\ At(h, "fetch", "clear")
       /\ fetched' = [fetched EXCEPT ![h] = [g \in member |-> Snapshot(g)]]
       /\ UNCHANGED <<tableVars, fresh, lock, kind, event, about, copy, todo, tries>>
    \/ RefreshFails(h, "fetch")

DeleteGroups(h) ==
    \/ /\ At(h, "clear", "fill")
       /\ row' = [g \in Groups |-> Null]
       /\ todo' = [todo EXCEPT ![h] = DOMAIN fetched[h]]
       /\ UNCHANGED <<setting, top, fresh, lock, kind, event, about, copy, fetched, tries>>
    \/ DbFails /\ RefreshFails(h, "clear")

\* UpsertOneGroup of the next group: its setting, then its row.
FillSetting(h) ==
    \E g \in todo[h] :
        /\ At(h, "fill", "fillRow")
        /\ about' = [about EXCEPT ![h] = g]
        /\ todo' = [todo EXCEPT ![h] = @ \ {g}]
        /\ PutSetting(g, fetched[h][g].timer) \/ (DbFails /\ UNCHANGED setting)
        /\ UNCHANGED <<row, top, fresh, lock, kind, event, copy, fetched, tries>>

FillRow(h) ==
    /\ At(h, "fillRow", "fill")
    /\ PutRow(about[h], fetched[h][about[h]]) \/ (DbFails /\ UNCHANGED <<row, top>>)
    /\ UNCHANGED <<setting, fresh, lock, kind, event, about, copy, fetched, todo, tries>>

\* lastTimeRefreshed = now, unlock.  UpdateGroup skips its update; a list goes
\* on to its SELECT.
EndRefresh(h) ==
    /\ todo[h] = {}
    /\ At(h, "fill", IF kind[h] = "list" THEN "select" ELSE "done")
    /\ fresh' = TRUE
    /\ Unlock(h)
    /\ fetched' = [fetched EXCEPT ![h] = <<>>]
    /\ UNCHANGED <<tableVars, kind, event, about, copy, todo, tries>>

\* GetAllGroups, GetGroup: the SELECT, without the lock.
SelectGroups(h) ==
    /\ At(h, "select", "done")
    /\ UNCHANGED <<tableVars, fresh, lock, kind, event, about, copy, fetched, todo, tries>>

Locking(h) == UpdateGroup(h) \/ FetchGroups(h) \/ fetchGroupsIfNeeded(h)

Statement(h) ==
    \/ ReadGroup(h) \/ ReadFails(h)
    \/ UpsertSetting(h) \/ UpsertGroup(h) \/ UpsertFails(h)
    \/ DeleteSetting(h) \/ DeleteRow(h)
    \/ GetJoinedGroups(h) \/ DeleteGroups(h)
    \/ FillSetting(h) \/ FillRow(h) \/ EndRefresh(h)
    \/ SelectGroups(h)

Next ==
    \/ \E g \in Groups :
          \/ \E j \in Jids : ParticipantChanges(g, j)
          \/ \E t \in Timers : TimerChanges(g, t)
          \/ ILeave(g) \/ IJoin(g)
    \/ \E h \in Handlers :
          \/ Request(h, "list") \/ Request(h, "force")
          \/ Locking(h) \/ Statement(h)
    \/ Expire

Spec == Init /\ [][Next]_vars

(* Goroutines run, a sync.Mutex does not starve them, and GetJoinedGroups
   returns: the library's requests time out.                               *)
FairSpec ==
    /\ Spec
    /\ \A h \in Handlers : SF_vars(Locking(h)) /\ WF_vars(Statement(h))

-----------------------------------------------------------------------------
RanksOf(group) == NewParticipantsMap(group.participants).ranks

TypeOK ==
    /\ member \subseteq Groups /\ timer \in [Groups -> Timers]
    /\ \A g \in Groups : Current(g) <= MaxVersion
    /\ row \in [Groups -> GroupRecords \cup {Null}]
    /\ \A g \in Groups : row[g] # Null => row[g].version \in 1..MaxVersion
    /\ setting \in [Groups -> Timers]
    /\ fresh \in BOOLEAN
    /\ lock \in Handlers \cup {Null}
    /\ pc \in [Handlers -> {"new", "update", "list", "force", "read", "setting", "row",
                            "left", "deleteRow", "fetch", "clear", "fill", "fillRow",
                            "select", "done", "gaveUp"}]
    /\ todo \in [Handlers -> SUBSET Groups]
    /\ tries \in [Handlers -> 0..Attempts]
    /\ top \in [Groups -> 0..MaxVersion]

(* Whatever is delayed, reordered, missed or fails, the participants in a row
   are those the group had at the version in the row: no update is ever
   applied to participants it was not made for, or applied twice.          *)
StoredIsSomeVersion ==
    \A g \in Groups : row[g] # Null => RanksOf(row[g]) = history[g][row[g].version]

(* While I stay in my groups a row never goes back to an earlier version: a
   refresh waits for the updates before it, and they for the refresh.      *)
NeverRollsBack ==
    MembershipStable => \A g \in Groups : row[g] # Null => row[g].version = top[g]

(* The setting of a group always tells the timer in its row, although they are
   two tables written by two statements and a refresh clears only one.     *)
SettingMirrorsRow ==
    MembershipStable /\ ~DbFails /\ lock = Null =>
        \A g \in Groups : row[g] # Null => setting[g] = row[g].timer

(* A client that lists its groups gets all of them, unless somebody refreshes
   the table between the check of its age and the SELECT.                  *)
ListIsWhole ==
    MembershipStable /\ ~DbFails =>
        \A h \in Handlers : pc[h] = "select" =>
            \/ \A g \in Groups : row[g] # Null
            \/ \E o \in Handlers : pc[o] \in {"fill", "fillRow"}

(* When every event has been handled the participants are those of WhatsApp,
   unless a handler gave up on a version the row has not reached: events in
   the wrong order cost attempts, a refresh in between costs nothing.      *)
QuietMeansCurrent ==
    /\ MembershipStable /\ NothingMissed /\ ~DbFails
    /\ \A h \in Handlers : pc[h] \in {"new", "done", "gaveUp"}
    => \A g \in Groups : row[g] # Null =>
          \/ row[g].version = Current(g)
          \/ \E h \in Handlers : /\ pc[h] = "gaveUp" /\ about[h] = g
                                 /\ event[h].version > row[g].version

(* Every goroutine comes to its end, although updates that find another
   version or no group are tried again, and all of them want one lock.     *)
HandlersEnd ==
    \A h \in Handlers : pc[h] # "new" ~> pc[h] \in {"done", "gaveUp"}
=============================================================================

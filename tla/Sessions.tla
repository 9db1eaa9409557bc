------------------------------ MODULE Sessions ------------------------------
(***************************************************************************)
(* The session manager (gows/manager.go), the lifecycle of the GoWS        *)
(* clients it keeps (gows/gows.go) and the RPC handlers that drive them    *)
(* (server/session.go).                                                    *)
(*                                                                         *)
(* A GoWS value is one client object: it is built once, may be started     *)
(* several times and is stopped for good.  A call is one RPC in flight     *)
(* together with the goroutines StartSession leaves behind: the pump that  *)
(* drains the events channel of the client Build returned, the background  *)
(* start, which looks the session up again BY NAME, and the goroutine that *)
(* reissues QR codes.                                                      *)
(*                                                                         *)
(* Stop and Connect take time while sessionsLock is held, and the client's *)
(* goroutines do not take that lock: Stop is one action per statement.     *)
(***************************************************************************)
CONSTANTS Names,      \* session names
          Clients,    \* the GoWS values the process can build
          Calls,      \* the RPCs it receives
          Null        \* nil: no client, no call

ASSUME NullAssumption == Null \notin Clients \cup Calls \cup Names

VARIABLES
    sessions,    \* SessionManager.sessions: name -> client or Null
    lock,        \* the call holding sessionsLock across several steps, or Null
    owner,       \* the name a client was built for, Null if not built yet
    stage,       \* how far a client is in its life
    proxied,     \* SetProxyAddress succeeded on the client
    connected,   \* the client's socket is open (or reconnecting on its own)
    handlers,    \* calls that ran AddEventHandler(handleEvent) on the client
    paired,      \* Store.ID # nil in the database of the session
    pc,          \* where a call is ("failed": Build returned an error)
    name,        \* the session name a call is about
    pump,        \* the client whose events channel the call's pump drains
    target,      \* the client the call acts on: found by Start, Stop or Get
    qr           \* the call's QR goroutine

managerVars == <<sessions, lock>>
clientVars == <<owner, stage, proxied, connected, handlers>>
callVars == <<pc, name, pump, target, qr>>
vars == <<managerVars, clientVars, paired, callVars>>

(* The stages of a client, in order: the last four are Stop's statements.  *)
Stages == {"unbuilt", "open", "disconnected", "dbClosed", "chanClosed", "stopped"}

CallStates == {"new", "accepted", "connecting", "disconnecting", "stopping",
               "loggingOut", "done", "failed"}

(* "reading": on a live QR channel.  "deaf": GetQRChannel failed, its error
   is dropped and the goroutine selects on a nil channel.                  *)
QRStates == {"none", "reading", "deaf"}

EventsClosed(g) == stage[g] \in {"chanClosed", "stopped"}
ContextDone(g) == stage[g] = "stopped"

\* mutation: the map is looked up under a key nothing is stored under
NeverBuilt(n) == FALSE

\* The guard of Build (and the misses of Get): is there a session n?
Built(n) == sessions[n] # Null

\* mutations: Connect and Stop run without the lock; the lock is kept
NoAcquire(c) == UNCHANGED lock
NoRelease == UNCHANGED lock

\* sessionsLock taken and given back by a critical section of several steps.
Acquire(c) == lock' = c
Release == lock' = Null

\* mutations: the start uses the client StartSession got from Build; the start
\* takes any session
CapturedClient(c) == pump[c]
AnySession(c) == sessions[CHOOSE n \in Names : Built(n)]

\* unlockedStart looks the session up again, by the name of the request.
Lookup(c) == sessions[name[c]]

\* mutation: the handler is registered under the name of the session
HandlerByName(c, g) == handlers' = [handlers EXCEPT ![g] = @ \cup {name[c]}]

AddEventHandler(c, g) == handlers' = [handlers EXCEPT ![g] = @ \cup {c}]

Init ==
    /\ sessions = [n \in Names |-> Null]
    /\ lock = Null
    /\ owner = [g \in Clients |-> Null]
    /\ stage = [g \in Clients |-> "unbuilt"]
    /\ proxied = [g \in Clients |-> FALSE]
    /\ connected = [g \in Clients |-> FALSE]
    /\ handlers = [g \in Clients |-> {}]
    /\ paired \in [Names -> BOOLEAN]
    /\ pc = [c \in Calls |-> "new"]
    /\ name = [c \in Calls |-> Null]
    /\ pump = [c \in Calls |-> Null]
    /\ target = [c \in Calls |-> Null]
    /\ qr = [c \in Calls |-> "none"]

(***************************************************************************)
(* StartSession: Build under the lock, then the two `go` statements and    *)
(* the reply.                                                              *)
(***************************************************************************)
\* A fresh call c about session n, past the guard `lock free`.
Receive(c, n, state) ==
    /\ pc[c] = "new"
    /\ lock = Null
    /\ pc' = [pc EXCEPT ![c] = state]
    /\ name' = [name EXCEPT ![c] = n]

\* unlockedBuild returns the session it has, whatever the configuration.
BuildExisting(c, n) ==
    /\ Built(n)
    /\ Receive(c, n, "accepted")
    /\ pump' = [pump EXCEPT ![c] = sessions[n]]
    /\ UNCHANGED <<managerVars, clientVars, paired, target, qr>>

\* unlockedBuild: BuildSession, insert, and only then SetProxyAddress, whose
\* failure returns the error and leaves the client in the map.
Insert(n, g, proxyOk) ==
    /\ ~Built(n)
    /\ stage[g] = "unbuilt"
    /\ sessions' = [sessions EXCEPT ![n] = g]
    /\ owner' = [owner EXCEPT ![g] = n]
    /\ stage' = [stage EXCEPT ![g] = "open"]
    /\ proxied' = [proxied EXCEPT ![g] = proxyOk]
    /\ UNCHANGED <<lock, connected, handlers, paired, target, qr>>

BuildNew(c, n, g) ==
    /\ Insert(n, g, TRUE)
    /\ Receive(c, n, "accepted")
    /\ pump' = [pump EXCEPT ![c] = g]

\* mutation: the error of SetProxyAddress is only logged
ProxyErrorIgnored(c, n, g) ==
    /\ Insert(n, g, FALSE)
    /\ Receive(c, n, "accepted")
    /\ pump' = [pump EXCEPT ![c] = g]

BuildProxyFails(c, n, g) ==
    /\ Insert(n, g, FALSE)
    /\ Receive(c, n, "failed")
    /\ UNCHANGED pump

\* A dialect the server does not know is refused before Build and without the
\* lock, whether or not there is such a session.
UnsupportedDialect(c, n) ==
    /\ pc[c] = "new"
    /\ pc' = [pc EXCEPT ![c] = "done"]
    /\ name' = [name EXCEPT ![c] = n]
    /\ UNCHANGED <<managerVars, clientVars, paired, pump, target, qr>>

\* BuildSession fails (database): it closes what it opened, nothing is kept.
BuildFails(c, n) ==
    /\ ~Built(n)
    /\ Receive(c, n, "failed")
    /\ UNCHANGED <<managerVars, clientVars, paired, pump, target, qr>>

(***************************************************************************)
(* The background start: SessionManager.Start looks the name up under the  *)
(* lock and runs GoWS.Start, which holds the lock until Connect returns.   *)
(***************************************************************************)
StartNotFound(c) ==
    /\ pc[c] = "accepted"
    /\ lock = Null
    /\ ~Built(name[c])
    /\ pc' = [pc EXCEPT ![c] = "done"]
    /\ UNCHANGED <<managerVars, clientVars, paired, name, pump, target, qr>>

\* AddEventHandler, then listenQRCodeEvents when the store has no ID.
BeginStart(c) ==
    LET g == Lookup(c) IN
    /\ pc[c] = "accepted"
    /\ lock = Null
    /\ Built(name[c])
    /\ Acquire(c)
    /\ pc' = [pc EXCEPT ![c] = "connecting"]
    /\ target' = [target EXCEPT ![c] = g]
    /\ AddEventHandler(c, g)
    /\ qr' = [qr EXCEPT ![c] = IF paired[name[c]] THEN "none"
                               ELSE IF connected[g] THEN "deaf" ELSE "reading"]
    /\ UNCHANGED <<sessions, owner, stage, proxied, connected, paired, name, pump>>

\* Connect returns: connected, or an error (already connected, no network).
FinishStart(c) ==
    /\ pc[c] = "connecting"
    /\ \/ connected' = [connected EXCEPT ![target[c]] = TRUE]
       \/ UNCHANGED connected
    /\ Release
    /\ pc' = [pc EXCEPT ![c] = "done"]
    /\ UNCHANGED <<sessions, owner, stage, proxied, handlers, paired,
                   name, pump, target, qr>>

(***************************************************************************)
(* StopSession: unlockedStop and GoWS.Stop, statement by statement.        *)
(***************************************************************************)
StopNotFound(c, n) ==
    /\ ~Built(n)
    /\ Receive(c, n, "done")
    /\ UNCHANGED <<managerVars, clientVars, paired, pump, target, qr>>

BeginStop(c, n) ==
    /\ Built(n)
    /\ Receive(c, n, "disconnecting")
    /\ Acquire(c)
    /\ target' = [target EXCEPT ![c] = sessions[n]]
    /\ UNCHANGED <<sessions, clientVars, paired, pump, qr>>

\* mutation: Stop leaves the socket open
StopOnlyMarks(c) ==
    /\ pc[c] = "disconnecting"
    /\ stage' = [stage EXCEPT ![target[c]] = "disconnected"]
    /\ pc' = [pc EXCEPT ![c] = "stopping"]
    /\ UNCHANGED <<managerVars, owner, proxied, connected, handlers, paired,
                   name, pump, target, qr>>

Disconnect(c) ==
    /\ pc[c] = "disconnecting"
    /\ stage' = [stage EXCEPT ![target[c]] = "disconnected"]
    /\ connected' = [connected EXCEPT ![target[c]] = FALSE]
    /\ pc' = [pc EXCEPT ![c] = "stopping"]
    /\ UNCHANGED <<managerVars, owner, proxied, handlers, paired,
                   name, pump, target, qr>>

StopStep(c, from, to) ==
    /\ pc[c] = "stopping"
    /\ stage[target[c]] = from
    /\ stage' = [stage EXCEPT ![target[c]] = to]
    /\ UNCHANGED <<owner, proxied, connected, handlers, paired,
                   name, pump, target, qr>>

CloseContainer(c) ==
    StopStep(c, "disconnected", "dbClosed") /\ UNCHANGED <<managerVars, pc>>

CloseEvents(c) ==
    StopStep(c, "dbClosed", "chanClosed") /\ UNCHANGED <<managerVars, pc>>

\* cancelContext, delete from the map, unlock, reply.
FinishStop(c) ==
    /\ StopStep(c, "chanClosed", "stopped")
    /\ sessions' = [sessions EXCEPT ![name[c]] = Null]
    /\ Release
    /\ pc' = [pc EXCEPT ![c] = "done"]

(***************************************************************************)
(* Logout: Get under the read lock, then the client is used without it.    *)
(***************************************************************************)
LogoutNotFound(c, n) ==
    /\ ~Built(n)
    /\ Receive(c, n, "done")
    /\ UNCHANGED <<managerVars, clientVars, paired, pump, target, qr>>

BeginLogout(c, n) ==
    /\ Built(n)
    /\ Receive(c, n, "loggingOut")
    /\ target' = [target EXCEPT ![c] = sessions[n]]
    /\ UNCHANGED <<managerVars, clientVars, paired, pump, qr>>

\* The library unlinks the device, drops the connection and clears the store;
\* on a client that is not connected it only returns an error.
FinishLogout(c) ==
    LET g == target[c] IN
    /\ pc[c] = "loggingOut"
    /\ \/ /\ connected[g]
          /\ paired[owner[g]]
          /\ connected' = [connected EXCEPT ![g] = FALSE]
          /\ paired' = [paired EXCEPT ![owner[g]] = FALSE]
       \/ UNCHANGED <<connected, paired>>
    /\ pc' = [pc EXCEPT ![c] = "done"]
    /\ UNCHANGED <<managerVars, owner, stage, proxied, handlers,
                   name, pump, target, qr>>

(***************************************************************************)
(* The goroutines of a client, and its user scanning the QR code.          *)
(***************************************************************************)
\* `for evt := range cli.GetEventChannel()` ends once the channel is closed.
PumpEnds(c) ==
    /\ pump[c] # Null
    /\ EventsClosed(pump[c])
    /\ pump' = [pump EXCEPT ![c] = Null]
    /\ UNCHANGED <<managerVars, clientVars, paired, pc, name, target, qr>>

QRGone(c) ==
    /\ qr' = [qr EXCEPT ![c] = "none"]
    /\ UNCHANGED <<managerVars, clientVars, paired, pc, name, pump, target>>

\* mutation: a goroutine whose GetQRChannel failed waits for the codes only
ReadersCancelled(c) == qr[c] = "reading" /\ ContextDone(target[c]) /\ QRGone(c)

\* `case <-gows.Context.Done()`
QRCancelled(c) == qr[c] # "none" /\ ContextDone(target[c]) /\ QRGone(c)

\* The library closes the channel (paired, disconnected, codes expired); the
\* zero item ends the loop.  A nil channel never yields one.  When the codes have
\* expired the library disconnects the client as well.
QRChannelCloses(c) ==
    /\ qr[c] = "reading"
    /\ qr' = [qr EXCEPT ![c] = "none"]
    /\ \/ connected' = [connected EXCEPT ![target[c]] = FALSE]
       \/ UNCHANGED connected
    /\ UNCHANGED <<managerVars, owner, stage, proxied, handlers, paired,
                   pc, name, pump, target>>

\* A user scans the code of a connected client.
Pair(g) ==
    /\ connected[g]
    /\ ~paired[owner[g]]
    /\ paired' = [paired EXCEPT ![owner[g]] = TRUE]
    /\ UNCHANGED <<managerVars, clientVars, callVars>>

\* The phone unlinks the device: the library drops the connection for good and
\* clears the store.
RemoteLogout(g) ==
    /\ connected[g]
    /\ paired[owner[g]]
    /\ connected' = [connected EXCEPT ![g] = FALSE]
    /\ paired' = [paired EXCEPT ![owner[g]] = FALSE]
    /\ UNCHANGED <<managerVars, owner, stage, proxied, handlers, callVars>>

StartSession(c, n) ==
    \/ BuildExisting(c, n)
    \/ \E g \in Clients : BuildNew(c, n, g) \/ BuildProxyFails(c, n, g)
    \/ UnsupportedDialect(c, n) \/ BuildFails(c, n)

BackgroundStart(c) == StartNotFound(c) \/ BeginStart(c)

StopSession(c, n) == StopNotFound(c, n) \/ BeginStop(c, n)

StopSteps(c) ==
    Disconnect(c) \/ CloseContainer(c) \/ CloseEvents(c) \/ FinishStop(c)

Logout(c, n) == LogoutNotFound(c, n) \/ BeginLogout(c, n)

Goroutines(c) == PumpEnds(c) \/ QRCancelled(c)

Next ==
    \/ \E c \in Calls, n \in Names :
          StartSession(c, n) \/ StopSession(c, n) \/ Logout(c, n)
    \/ \E c \in Calls :
          \/ BackgroundStart(c) \/ FinishStart(c)
          \/ StopSteps(c)
          \/ FinishLogout(c)
          \/ Goroutines(c) \/ QRChannelCloses(c)
    \/ \E g \in Clients : Pair(g) \/ RemoteLogout(g)

Spec == Init /\ [][Next]_vars

(* Go runs every runnable goroutine; its RWMutex hands the lock to a waiter
   that keeps losing it.  Nothing makes clients call or users pair.        *)
Fairness ==
    \A c \in Calls :
        /\ SF_vars(BackgroundStart(c))
        /\ WF_vars(FinishStart(c))
        /\ WF_vars(StopSteps(c))
        /\ WF_vars(FinishLogout(c))
        /\ WF_vars(PumpEnds(c))
        /\ WF_vars(QRCancelled(c))

FairSpec == Spec /\ Fairness

(***************************************************************************)
(* What all this amounts to: a registry whose operations are atomic.       *)
(***************************************************************************)
Registry == INSTANCE SessionRegistry
                WITH current <- sessions,
                     online <- {g \in Clients : connected[g]},
                     retired <- {g \in Clients : stage[g] = "stopped"}

(* However starts, stops and logouts overlap, the manager and its clients do
   what the registry may do: sessions come and go one at a time under their
   name, and only the registered client of a name goes online.             *)
ImplementsRegistry == Registry!Spec

-----------------------------------------------------------------------------
TypeOK ==
    /\ sessions \in [Names -> Clients \cup {Null}]
    /\ lock \in Calls \cup {Null}
    /\ owner \in [Clients -> Names \cup {Null}]
    /\ stage \in [Clients -> Stages]
    /\ proxied \in [Clients -> BOOLEAN]
    /\ connected \in [Clients -> BOOLEAN]
    /\ handlers \in [Clients -> SUBSET Calls]
    /\ paired \in [Names -> BOOLEAN]
    /\ pc \in [Calls -> CallStates]
    /\ name \in [Calls -> Names \cup {Null}]
    /\ pump \in [Calls -> Clients \cup {Null}]
    /\ target \in [Calls -> Clients \cup {Null}]
    /\ qr \in [Calls -> QRStates]

(* A client whose database or socket may be open is the one the map holds
   for its name: no sequence of overlapping StartSession, StopSession and
   late background starts loses a running client, so Stop can always reach
   it, and no two clients of a name ever share its database.               *)
NoOrphanClient ==
    \A g \in Clients :
        stage[g] \notin {"unbuilt", "stopped"} => sessions[owner[g]] = g

(* Whoever finds the lock free finds only whole clients in the map: Get and
   the background start never hand out one that Stop has begun to tear down. *)
MapHoldsWholeClients ==
    lock = Null => \A n \in Names : Built(n) => /\ stage[sessions[n]] = "open"
                                                /\ owner[sessions[n]] = n

(* A client that Stop has disconnected is never connected again, although
   the start of an earlier StartSession may still be on its way.           *)
StoppedStaysDown == \A g \in Clients : connected[g] => stage[g] = "open"

(* A start that runs late can start a client of a later StartSession, but
   never a client of another session.                                      *)
StartsItsOwnSession ==
    \A g \in Clients : \A c \in handlers[g] : name[c] = owner[g]

(* A client is only ever connected without its proxy after a StartSession for
   its session has reported an error: Build leaves the client whose proxy it
   could not set in the map, and any other start then uses it as it is.    *)
UnproxiedOnlyAfterError ==
    \A g \in Clients : connected[g] /\ ~proxied[g] =>
        \E c \in Calls : pc[c] = "failed" /\ name[c] = owner[g]

(* Once stopped a client gains no event handler and no pump or QR goroutine,
   so no event of it reaches a later session.                              *)
StoppedGainsNothing ==
    [][\A g \in Clients : stage[g] = "stopped" =>
          /\ handlers'[g] = handlers[g]
          /\ \A c \in Calls : pump'[c] = g => pump[c] = g
          /\ \A c \in Calls : (qr'[c] # "none" /\ target'[c] = g) => qr[c] # "none"]_vars

(* StopSession leaves no goroutine behind: every pump of a stopped client and
   every QR goroutine, the deaf ones too, comes to its end.                *)
StopReclaimsGoroutines ==
    \A c \in Calls, g \in Clients :
        stage[g] = "stopped" ~>
            /\ pump[c] # g
            /\ ~(qr[c] # "none" /\ target[c] = g)

(* StartSession replies before anything is started; the background start is
   nevertheless tried, also when stops and other starts keep taking the lock. *)
StartIsTried ==
    \A c \in Calls : pc[c] = "accepted" ~> pc[c] = "done"
=============================================================================

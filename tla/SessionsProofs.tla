--------------------------- MODULE SessionsProofs ---------------------------
(***************************************************************************)
(* The safety of the session manager, for any number of sessions, clients  *)
(* and RPCs.  The invariants of Sessions are not inductive by themselves:  *)
(* they hold because the map, the lock and the call that holds it agree    *)
(* about which client is being started or torn down, which is what Inv     *)
(* adds.                                                                   *)
(***************************************************************************)
EXTENDS Sessions, TLAPS

USE DEF Acquire, Release, Lookup, AddEventHandler

Locking == {"connecting", "disconnecting", "stopping"}
TearDown == {"disconnected", "dbClosed", "chanClosed"}

\* Exactly the call inside a critical section that spans steps has the lock.
LockInv == \A c \in Calls : pc[c] \in Locking <=> lock = c

\* Every call that was received is about a session.
NameInv == \A c \in Calls : pc[c] # "new" => name[c] \in Names

\* The client a lock holder works on is the one in the map, at a stage that
\* fits what the holder is doing.
TargetInv ==
    \A c \in Calls :
        /\ pc[c] \in Locking => /\ target[c] \in Clients
                                /\ sessions[name[c]] = target[c]
        /\ pc[c] \in {"connecting", "disconnecting"} => stage[target[c]] = "open"
        /\ pc[c] = "stopping" => stage[target[c]] \in TearDown
        /\ pc[c] = "loggingOut" => target[c] \in Clients

\* The map and the owners agree.
MapInv ==
    \A n \in Names : sessions[n] # Null =>
        /\ owner[sessions[n]] = n
        /\ stage[sessions[n]] \notin {"unbuilt", "stopped"}

OwnerInv ==
    \A g \in Clients :
        /\ stage[g] # "unbuilt" => owner[g] \in Names
        /\ stage[g] = "unbuilt" => handlers[g] = {}
        /\ stage[g] \notin {"unbuilt", "stopped"} => sessions[owner[g]] = g
        /\ \A c \in handlers[g] : pc[c] # "new" /\ name[c] = owner[g]

\* A client in tear-down belongs to the Stop that holds the lock.
TearDownInv ==
    \A g \in Clients : stage[g] \in TearDown =>
        \E c \in Calls : pc[c] = "stopping" /\ target[c] = g

ConnInv == \A g \in Clients : connected[g] => stage[g] = "open"

\* A client without its proxy was left behind by a Build that failed.
ProxyInv ==
    \A g \in Clients : stage[g] # "unbuilt" /\ ~proxied[g] =>
        \E c \in Calls : pc[c] = "failed" /\ name[c] = owner[g]

Inv == /\ TypeOK /\ LockInv /\ NameInv /\ TargetInv /\ MapInv
       /\ OwnerInv /\ TearDownInv /\ ConnInv /\ ProxyInv

-----------------------------------------------------------------------------
(* Nothing is built, held or running when the process starts. *)
LEMMA InvInit == Init => Inv
  <1> SUFFICES ASSUME Init PROVE Inv
    OBVIOUS
  <1>1. TypeOK
    BY DEF Init, TypeOK, Stages, CallStates, QRStates
  <1>2. LockInv /\ NameInv /\ TargetInv /\ MapInv /\ OwnerInv /\ TearDownInv /\ ConnInv
        /\ ProxyInv
    BY NullAssumption DEF Init, LockInv, NameInv, TargetInv, MapInv, OwnerInv,
       TearDownInv, ConnInv, ProxyInv, Locking, TearDown
  <1> QED BY <1>1, <1>2 DEF Inv

(* Switching one client off connects no other. *)
LEMMA SwitchedOff ==
    ASSUME NEW f \in [Clients -> BOOLEAN], NEW t, NEW g \in Clients, [f EXCEPT ![t] = FALSE][g]
    PROVE  f[g]
  OBVIOUS

(* Every step keeps map, lock, owners and tear-downs in agreement. *)
LEMMA InvNext == Inv /\ [Next]_vars => Inv'
  <1> SUFFICES ASSUME Inv, [Next]_vars PROVE Inv'
    OBVIOUS
  <1> USE NullAssumption
  <1> USE DEF Inv, TypeOK, LockInv, NameInv, TargetInv, MapInv, OwnerInv,
          TearDownInv, ConnInv, ProxyInv, Locking, TearDown, Stages, CallStates, QRStates,
          managerVars, clientVars, callVars, Built
  <1>1. ASSUME NEW c \in Calls, NEW n \in Names, BuildExisting(c, n) PROVE Inv'
    BY <1>1 DEF BuildExisting, Receive
  <1>2. ASSUME NEW c \in Calls, NEW n \in Names, NEW g \in Clients, BuildNew(c, n, g) PROVE Inv'
    BY <1>2, SMTT(30) DEF BuildNew, Insert, Receive
  <1>3. ASSUME NEW c \in Calls, NEW n \in Names, NEW g \in Clients, BuildProxyFails(c, n, g) PROVE Inv'
    BY <1>3, SMTT(30) DEF BuildProxyFails, Insert, Receive
  <1>4. ASSUME NEW c \in Calls, NEW n \in Names, BuildFails(c, n) PROVE Inv'
    BY <1>4 DEF BuildFails, Receive
  <1>23. ASSUME NEW c \in Calls, NEW n \in Names, UnsupportedDialect(c, n) PROVE Inv'
    BY <1>23 DEF UnsupportedDialect
  <1>5. ASSUME NEW c \in Calls, NEW n \in Names, StopNotFound(c, n) PROVE Inv'
    BY <1>5 DEF StopNotFound, Receive
  <1>6. ASSUME NEW c \in Calls, NEW n \in Names, BeginStop(c, n) PROVE Inv'
    BY <1>6 DEF BeginStop, Receive
  <1>7. ASSUME NEW c \in Calls, NEW n \in Names, LogoutNotFound(c, n) PROVE Inv'
    BY <1>7 DEF LogoutNotFound, Receive
  <1>8. ASSUME NEW c \in Calls, NEW n \in Names, BeginLogout(c, n) PROVE Inv'
    BY <1>8 DEF BeginLogout, Receive
  <1>9. ASSUME NEW c \in Calls, StartNotFound(c) PROVE Inv'
    BY <1>9 DEF StartNotFound
  <1>10. ASSUME NEW c \in Calls, BeginStart(c) PROVE Inv'
    BY <1>10 DEF BeginStart
  <1>11. ASSUME NEW c \in Calls, FinishStart(c) PROVE Inv'
    <2>1. target[c] \in Clients /\ stage[target[c]] = "open"
      BY <1>11 DEF FinishStart
    <2>2. connected' \in [Clients -> BOOLEAN] /\ ConnInv'
      <3>1. CASE connected' = [connected EXCEPT ![target[c]] = TRUE]
        BY <1>11, <2>1, <3>1 DEF FinishStart
      <3>2. CASE connected' = connected
        BY <1>11, <3>2 DEF FinishStart
      <3> QED BY <1>11, <3>1, <3>2 DEF FinishStart
    <2>3. TypeOK' /\ LockInv'
      BY <1>11, <2>2 DEF FinishStart
    <2>4. /\ NameInv' /\ TargetInv' /\ MapInv'
          /\ OwnerInv' /\ TearDownInv' /\ ProxyInv'
      BY <1>11 DEF FinishStart
    <2> QED BY <2>2, <2>3, <2>4
  <1>12. ASSUME NEW c \in Calls, Disconnect(c) PROVE Inv'
    BY <1>12 DEF Disconnect
  <1>13. ASSUME NEW c \in Calls, CloseContainer(c) PROVE Inv'
    BY <1>13 DEF CloseContainer, StopStep
  <1>14. ASSUME NEW c \in Calls, CloseEvents(c) PROVE Inv'
    BY <1>14 DEF CloseEvents, StopStep
  <1>15. ASSUME NEW c \in Calls, FinishStop(c) PROVE Inv'
    BY <1>15 DEF FinishStop, StopStep
  <1>16. ASSUME NEW c \in Calls, FinishLogout(c) PROVE Inv'
    <2> DEFINE g == target[c]
    <2>1. g \in Clients /\ pc[c] \notin Locking
      BY <1>16 DEF FinishLogout
    <2>2. /\ connected' \in [Clients -> BOOLEAN]
          /\ \A h \in Clients : connected'[h] => connected[h]
          /\ paired' \in [Names -> BOOLEAN]
      <3>0. \/ /\ connected' = [connected EXCEPT ![g] = FALSE]
               /\ paired' = [paired EXCEPT ![owner[g]] = FALSE]
            \/ connected' = connected /\ paired' = paired
        BY <1>16, Zenon DEF FinishLogout
      <3>1. CASE /\ connected' = [connected EXCEPT ![g] = FALSE]
                 /\ paired' = [paired EXCEPT ![owner[g]] = FALSE]
        <4>1. connected' \in [Clients -> BOOLEAN]
          BY <3>1
        <4>2. \A h \in Clients : connected'[h] => connected[h]
          BY <2>1, <3>1
        <4>3. paired' \in [Names -> BOOLEAN]
          BY <3>1
        <4> QED BY <4>1, <4>2, <4>3
      <3>2. CASE connected' = connected /\ paired' = paired
        BY <3>2
      <3> QED BY <3>0, <3>1, <3>2
    <2>3. TypeOK' /\ ConnInv'
      BY <1>16, <2>2 DEF FinishLogout
    <2>4. /\ LockInv' /\ NameInv' /\ TargetInv' /\ MapInv'
          /\ OwnerInv' /\ TearDownInv' /\ ProxyInv'
      BY <1>16, <2>1 DEF FinishLogout
    <2> QED BY <2>3, <2>4
  <1>17. ASSUME NEW c \in Calls, PumpEnds(c) PROVE Inv'
    BY <1>17 DEF PumpEnds, EventsClosed
  <1>18. ASSUME NEW c \in Calls, QRCancelled(c) PROVE Inv'
    BY <1>18 DEF QRCancelled, ContextDone, QRGone
  <1>19. ASSUME NEW c \in Calls, QRChannelCloses(c) PROVE Inv'
    <2>1. connected' \in [Clients -> BOOLEAN] /\ \A g \in Clients : connected'[g] => connected[g]
      <3>1. CASE connected' = [connected EXCEPT ![target[c]] = FALSE]
        <4>1. connected' \in [Clients -> BOOLEAN]
          BY <3>1
        <4>2. \A g \in Clients : connected'[g] => connected[g]
          BY <3>1, SwitchedOff
        <4> QED BY <4>1, <4>2
      <3>2. CASE connected' = connected
        BY <3>2
      <3> QED BY <1>19, <3>1, <3>2 DEF QRChannelCloses
    <2>2. TypeOK' /\ ConnInv'
      BY <1>19, <2>1 DEF QRChannelCloses
    <2>3. /\ LockInv' /\ NameInv' /\ TargetInv' /\ MapInv'
          /\ OwnerInv' /\ TearDownInv' /\ ProxyInv'
      BY <1>19 DEF QRChannelCloses
    <2> QED BY <2>2, <2>3
  <1>20. ASSUME NEW g \in Clients, Pair(g) PROVE Inv'
    BY <1>20 DEF Pair
  <1>21. ASSUME NEW g \in Clients, RemoteLogout(g) PROVE Inv'
    BY <1>21 DEF RemoteLogout
  <1>22. CASE UNCHANGED vars
    BY <1>22 DEF vars
  <1> QED
    BY [Next]_vars, <1>1, <1>2, <1>3, <1>4, <1>5, <1>6, <1>7, <1>8, <1>9, <1>10, <1>11, <1>12, <1>13, <1>14, <1>15, <1>16, <1>17, <1>18, <1>19, <1>20, <1>21, <1>22, <1>23
       DEF Next, StartSession, BackgroundStart, StopSession, StopSteps, Logout, Goroutines

(* Inv holds in every reachable state. *)
THEOREM Invariance == Spec => []Inv
  <1> QED BY InvInit, InvNext, PTL DEF Spec

-----------------------------------------------------------------------------
(* Every variable keeps its type. *)
THEOREM TypeCorrect == Spec => []TypeOK
  <1>1. Inv => TypeOK
    BY DEF Inv
  <1> QED BY <1>1, Invariance, PTL

(* No running client is ever lost from the map, whatever overlaps. *)
THEOREM NoOrphans == Spec => []NoOrphanClient
  <1>1. Inv => NoOrphanClient
    BY DEF Inv, OwnerInv, NoOrphanClient
  <1> QED BY <1>1, Invariance, PTL

(* With the lock free every client in the map is whole: a client in tear-down
   would belong to a Stop, and that Stop would hold the lock.              *)
THEOREM WholeClients == Spec => []MapHoldsWholeClients
  <1>1. Inv => MapHoldsWholeClients
    <2> SUFFICES ASSUME Inv, lock = Null, NEW n \in Names, Built(n)
                 PROVE  stage[sessions[n]] = "open" /\ owner[sessions[n]] = n
      BY DEF MapHoldsWholeClients
    <2>1. /\ sessions[n] \in Clients
          /\ owner[sessions[n]] = n
          /\ stage[sessions[n]] \in {"open"} \cup TearDown
      BY DEF Inv, TypeOK, MapInv, Built, Stages, TearDown
    <2>2. stage[sessions[n]] \notin TearDown
      BY <2>1, NullAssumption DEF Inv, TearDownInv, LockInv, Locking
    <2> QED BY <2>1, <2>2
  <1> QED BY <1>1, Invariance, PTL

(* Only open clients are connected: nothing reconnects what Stop took down. *)
THEOREM StaysDown == Spec => []StoppedStaysDown
  <1>1. Inv => StoppedStaysDown
    BY DEF Inv, ConnInv, StoppedStaysDown
  <1> QED BY <1>1, Invariance, PTL

(* A late start never registers a handler on another session's client. *)
THEOREM OwnStarts == Spec => []StartsItsOwnSession
  <1>1. Inv => StartsItsOwnSession
    BY DEF Inv, OwnerInv, StartsItsOwnSession
  <1> QED BY <1>1, Invariance, PTL

(* A client connected without its proxy was left behind by a failed Build. *)
THEOREM UnproxiedExplained == Spec => []UnproxiedOnlyAfterError
  <1>1. Inv => UnproxiedOnlyAfterError
    BY DEF Inv, ConnInv, ProxyInv, UnproxiedOnlyAfterError
  <1> QED BY <1>1, Invariance, PTL

(* A stopped client gains no handler, no pump and no QR goroutine: what the
   calls put to work is always the client in the map, which is not stopped. *)
THEOREM StoppedIsFinal == Spec => StoppedGainsNothing
  <1> DEFINE Gains(g) == /\ handlers'[g] = handlers[g]
                         /\ \A c \in Calls : pump'[c] = g => pump[c] = g
                         /\ \A c \in Calls :
                               (qr'[c] # "none" /\ target'[c] = g) => qr[c] # "none"
  <1>1. ASSUME Inv, [Next]_vars, NEW g \in Clients, stage[g] = "stopped"
        PROVE  Gains(g)
    <2> USE <1>1 DEF Inv, TypeOK, MapInv, Built
    <2>1. ASSUME NEW c \in Calls, BeginStart(c) PROVE Gains(g)
      BY <2>1 DEF BeginStart, NameInv
    <2>2. ASSUME NEW c \in Calls, NEW n \in Names, StartSession(c, n) PROVE Gains(g)
      BY <2>2 DEF StartSession, BuildExisting, BuildNew, BuildProxyFails,
                  BuildFails, UnsupportedDialect, Insert, Receive, clientVars
    <2>3. ASSUME NEW c \in Calls, NEW n \in Names, StopSession(c, n) \/ Logout(c, n)
          PROVE  Gains(g)
      BY <2>3 DEF StopSession, Logout, StopNotFound, BeginStop, LogoutNotFound,
                  BeginLogout, Receive, clientVars
    <2>4. ASSUME NEW c \in Calls,
                 StartNotFound(c) \/ FinishStart(c) \/ StopSteps(c) \/ FinishLogout(c)
          PROVE  Gains(g)
      BY <2>4 DEF StartNotFound, FinishStart, StopSteps, Disconnect, CloseContainer,
                  CloseEvents, FinishStop, StopStep, FinishLogout, clientVars
    <2>5. ASSUME NEW c \in Calls, Goroutines(c) \/ QRChannelCloses(c) PROVE Gains(g)
      BY <2>5, NullAssumption
         DEF Goroutines, PumpEnds, QRCancelled, QRChannelCloses, QRGone, clientVars
    <2>6. ASSUME NEW h \in Clients, Pair(h) \/ RemoteLogout(h) PROVE Gains(g)
      BY <2>6 DEF Pair, RemoteLogout, clientVars, callVars
    <2>7. CASE UNCHANGED vars
      BY <2>7 DEF vars, clientVars, callVars
    <2> QED BY <2>1, <2>2, <2>3, <2>4, <2>5, <2>6, <2>7 DEF Next, BackgroundStart
  <1>2. Inv /\ [Next]_vars =>
          [\A g \in Clients : stage[g] = "stopped" => Gains(g)]_vars
    BY <1>1
  <1> QED BY <1>2, Invariance, PTL DEF Spec, StoppedGainsNothing

-----------------------------------------------------------------------------
\* A pump sends under the name its client was built for, and a QR goroutine has
\* the client its call has started.
PumpInv ==
    \A c \in Calls :
        /\ pump[c] # Null => /\ pc[c] # "new" /\ stage[pump[c]] # "unbuilt"
                             /\ owner[pump[c]] = name[c]
        /\ qr[c] # "none" => target[c] \in Clients /\ pc[c] \notin {"new", "accepted"}

(* A client that has been built stays built, and for the same session. *)
LEMMA OwnerStays ==
    ASSUME Inv, [Next]_vars, NEW g \in Clients, stage[g] # "unbuilt"
    PROVE  owner'[g] = owner[g] /\ stage'[g] # "unbuilt"
  <1> DEFINE Same == owner'[g] = owner[g] /\ stage'[g] # "unbuilt"
  <1> USE DEF Inv, TypeOK, TargetInv, Locking, Stages
  <1>1. ASSUME NEW c \in Calls, NEW n \in Names, StartSession(c, n) PROVE Same
    BY <1>1 DEF StartSession, BuildExisting, BuildNew, BuildProxyFails, BuildFails,
                UnsupportedDialect, Insert, managerVars, clientVars
  <1>2. ASSUME NEW c \in Calls, NEW n \in Names, StopSession(c, n) \/ Logout(c, n)
        PROVE  Same
    BY <1>2 DEF StopSession, Logout, StopNotFound, BeginStop, LogoutNotFound,
                BeginLogout, clientVars
  <1>3. ASSUME NEW c \in Calls, BackgroundStart(c) \/ FinishStart(c) \/ FinishLogout(c)
        PROVE  Same
    BY <1>3 DEF BackgroundStart, StartNotFound, BeginStart, FinishStart, FinishLogout,
                clientVars
  <1>4. ASSUME NEW c \in Calls, StopSteps(c) PROVE Same
    BY <1>4 DEF StopSteps, Disconnect, CloseContainer, CloseEvents, FinishStop, StopStep
  <1>5. ASSUME NEW c \in Calls, Goroutines(c) \/ QRChannelCloses(c) PROVE Same
    BY <1>5 DEF Goroutines, PumpEnds, QRCancelled, QRChannelCloses, QRGone, clientVars
  <1>6. ASSUME NEW h \in Clients, Pair(h) \/ RemoteLogout(h) PROVE Same
    BY <1>6 DEF Pair, RemoteLogout, clientVars
  <1>7. ASSUME UNCHANGED vars PROVE Same
    BY <1>7 DEF vars, clientVars
  <1> QED BY <1>1, <1>2, <1>3, <1>4, <1>5, <1>6, <1>7 DEF Next

(* A call that has found its client acts on that client from then on. *)
LEMMA TargetStays ==
    ASSUME Inv, [Next]_vars, NEW c \in Calls, pc[c] \notin {"new", "accepted"}
    PROVE  target'[c] = target[c] /\ pc'[c] \notin {"new", "accepted"}
  <1> DEFINE Same == target'[c] = target[c] /\ pc'[c] \notin {"new", "accepted"}
  <1> USE DEF Inv, TypeOK, Receive, managerVars, callVars
  <1>1. ASSUME NEW d \in Calls, NEW n \in Names, StartSession(d, n) PROVE Same
    BY <1>1 DEF StartSession, BuildExisting, BuildNew, BuildProxyFails, BuildFails,
                UnsupportedDialect, Insert
  <1>2. ASSUME NEW d \in Calls, NEW n \in Names, StopSession(d, n) \/ Logout(d, n)
        PROVE  Same
    BY <1>2 DEF StopSession, Logout, StopNotFound, BeginStop, LogoutNotFound, BeginLogout
  <1>3. ASSUME NEW d \in Calls, BackgroundStart(d) \/ FinishStart(d) \/ FinishLogout(d)
        PROVE  Same
    BY <1>3 DEF BackgroundStart, StartNotFound, BeginStart, FinishStart, FinishLogout
  <1>4. ASSUME NEW d \in Calls, StopSteps(d) PROVE Same
    BY <1>4 DEF StopSteps, Disconnect, CloseContainer, CloseEvents, FinishStop, StopStep
  <1>5. ASSUME NEW d \in Calls, Goroutines(d) \/ QRChannelCloses(d) PROVE Same
    BY <1>5 DEF Goroutines, PumpEnds, QRCancelled, QRChannelCloses, QRGone
  <1>6. ASSUME NEW h \in Clients, Pair(h) \/ RemoteLogout(h) PROVE Same
    BY <1>6 DEF Pair, RemoteLogout
  <1>7. ASSUME UNCHANGED vars PROVE Same
    BY <1>7 DEF vars
  <1> QED BY <1>1, <1>2, <1>3, <1>4, <1>5, <1>6, <1>7 DEF Next

(* Before anything runs there are no pumps. *)
LEMMA PumpInit == Init => PumpInv
  BY DEF Init, PumpInv

(* A pump is bound to the client in the map when its call was made. *)
LEMMA PumpNext == Inv /\ PumpInv /\ [Next]_vars => PumpInv'
  <1> SUFFICES ASSUME Inv, PumpInv, [Next]_vars PROVE PumpInv'
    OBVIOUS
  <1>0. \A g \in Clients : stage[g] # "unbuilt" => owner'[g] = owner[g] /\ stage'[g] # "unbuilt"
    BY OwnerStays
  <1> DEFINE Good == PumpInv'
  <1> USE <1>0, NullAssumption DEF PumpInv, Inv, TypeOK, MapInv, NameInv, Built, CallStates
  <1>1. ASSUME NEW c \in Calls, NEW n \in Names,
               BuildExisting(c, n) \/ BuildFails(c, n) \/ UnsupportedDialect(c, n)
        PROVE  Good
    BY <1>1 DEF BuildExisting, BuildFails, UnsupportedDialect, Receive, clientVars, managerVars
  <1>2. ASSUME NEW c \in Calls, NEW n \in Names, NEW g \in Clients,
               BuildNew(c, n, g) \/ BuildProxyFails(c, n, g)
        PROVE  Good
    BY <1>2 DEF BuildNew, BuildProxyFails, Insert, Receive, Stages
  <1>3. ASSUME NEW c \in Calls, NEW n \in Names, StopSession(c, n) \/ Logout(c, n)
        PROVE  Good
    BY <1>3 DEF StopSession, Logout, StopNotFound, BeginStop, LogoutNotFound,
                BeginLogout, Receive, clientVars, managerVars
  <1>4. ASSUME NEW c \in Calls, BackgroundStart(c) PROVE Good
    BY <1>4 DEF BackgroundStart, StartNotFound, BeginStart, clientVars, managerVars, QRStates
  <1>5. ASSUME NEW c \in Calls, FinishStart(c) \/ FinishLogout(c) \/ StopSteps(c)
        PROVE  Good
    BY <1>5 DEF FinishStart, FinishLogout, StopSteps, Disconnect, CloseContainer,
                CloseEvents, FinishStop, StopStep, clientVars, managerVars
  <1>6. ASSUME NEW c \in Calls, Goroutines(c) \/ QRChannelCloses(c) PROVE Good
    BY <1>6 DEF Goroutines, PumpEnds, QRCancelled, QRChannelCloses, QRGone, clientVars,
                managerVars, QRStates
  <1>7. ASSUME NEW h \in Clients, Pair(h) \/ RemoteLogout(h) PROVE Good
    BY <1>7 DEF Pair, RemoteLogout, clientVars, callVars
  <1>8. ASSUME UNCHANGED vars PROVE Good
    BY <1>8 DEF vars, clientVars, callVars
  <1> QED BY <1>1, <1>2, <1>3, <1>4, <1>5, <1>6, <1>7, <1>8 DEF Next, StartSession

(* Whatever is rebuilt, stopped or started late, a pump sends the events of its
   client under the name that client was built for.                        *)
THEOREM PumpsOwnSession == Spec => []PumpInv
  <1> QED BY PumpInit, PumpNext, Invariance, PTL DEF Spec

-----------------------------------------------------------------------------
(***************************************************************************)
(* Refinement: every step is a step of SessionRegistry or leaves it alone. *)
(***************************************************************************)
Online == {g \in Clients : connected[g]}
Retired == {g \in Clients : stage[g] = "stopped"}

(* The process starts with an empty registry. *)
LEMMA RegistryInit == Init => Registry!Init
  BY NullAssumption DEF Init, Registry!Init

(* A client enters the map fresh: it is neither registered nor retired. *)
LEMMA InsertCreates ==
    ASSUME Inv, NEW n \in Names, NEW g \in Clients, NEW ok \in BOOLEAN, Insert(n, g, ok)
    PROVE  Registry!Next
  <1>1. sessions[n] = Null /\ g \notin Registry!Registered
    BY NullAssumption DEF Inv, TypeOK, MapInv, Insert, Built, Registry!Registered
  <1>2. Online' = Online /\ Retired' = Retired /\ g \notin Retired
    BY DEF Inv, TypeOK, Insert, Online, Retired, Stages
  <1>3. sessions' = [sessions EXCEPT ![n] = g]
    BY DEF Insert
  <1>4. Registry!Create(n, g)
    BY <1>1, <1>2, <1>3 DEF Registry!Create, Online, Retired
  <1> QED BY <1>4 DEF Registry!Next

(* The map is updated by the Stop that disconnected the client long before. *)
LEMMA FinishStopRemoves ==
    ASSUME Inv, NEW c \in Calls, FinishStop(c)
    PROVE  Registry!Next
  <1>1. name[c] \in Names /\ target[c] \in Clients /\ sessions[name[c]] = target[c]
    BY DEF Inv, NameInv, TargetInv, Locking, FinishStop, StopStep
  <1>2. PICK n \in Names, g \in Clients : n = name[c] /\ g = target[c]
    BY <1>1
  <1>3. g \notin Online /\ Online' = Online
    BY <1>2 DEF Inv, TargetInv, ConnInv, TearDown, Online, FinishStop, StopStep
  <1>4. Retired' = Retired \cup {g}
    BY <1>2 DEF Inv, TypeOK, Retired, FinishStop, StopStep
  <1>5. sessions' = [sessions EXCEPT ![n] = Null] /\ sessions[n] = g
    BY <1>1, <1>2 DEF FinishStop
  <1>6. Registry!Remove(n)
    BY <1>3, <1>4, <1>5 DEF Registry!Remove, Online, Retired
  <1> QED BY <1>6 DEF Registry!Next

(* Steps that only turn one client on or off line. *)
LEMMA ToggleIsRegistryStep ==
    ASSUME Inv, NEW g \in Clients, NEW b \in BOOLEAN,
           b => g \in Registry!Registered,
           connected' = [connected EXCEPT ![g] = b],
           sessions' = sessions, Retired' = Retired
    PROVE  Registry!Next
  <1>1. CASE b = TRUE
    <2>1. Online' = Online \cup {g}
      BY <1>1 DEF Inv, TypeOK, Online
    <2>2. Registry!GoOnline(g)
      BY <1>1, <2>1 DEF Registry!GoOnline, Online, Retired
    <2> QED BY <2>2 DEF Registry!Next
  <1>2. CASE b = FALSE
    <2>1. Online' = Online \ {g}
      BY <1>2 DEF Inv, TypeOK, Online
    <2>2. Registry!GoOffline(g)
      BY <2>1 DEF Registry!GoOffline, Online, Retired
    <2> QED BY <2>2 DEF Registry!Next
  <1> QED BY <1>1, <1>2

(* Inserts create, the last step of Stop removes, connecting and disconnecting
   switch on and off; every other step leaves the registry alone.          *)
LEMMA RegistryNext == Inv /\ [Next]_vars => [Registry!Next]_Registry!vars
  <1> SUFFICES ASSUME Inv, [Next]_vars
               PROVE  Registry!Next \/ (sessions' = sessions /\ Online' = Online
                                       /\ Retired' = Retired)
    BY DEF Registry!vars, Online, Retired
  <1> DEFINE Stutter == sessions' = sessions /\ Online' = Online /\ Retired' = Retired
             Quiet == sessions' = sessions /\ connected' = connected /\ stage' = stage
  <1>0. Quiet => Stutter
    BY DEF Online, Retired
  <1>1. ASSUME NEW c \in Calls, NEW n \in Names, StartSession(c, n)
        PROVE  Registry!Next \/ Quiet
    BY <1>1, InsertCreates DEF StartSession, BuildExisting, BuildNew,
       BuildProxyFails, BuildFails, UnsupportedDialect, managerVars, clientVars
  <1>2. ASSUME NEW c \in Calls, NEW n \in Names, StopSession(c, n) \/ Logout(c, n)
        PROVE  Quiet
    BY <1>2 DEF StopSession, Logout, StopNotFound, BeginStop, LogoutNotFound,
                BeginLogout, managerVars, clientVars
  <1>3. ASSUME NEW c \in Calls, BackgroundStart(c) \/ Goroutines(c)
        PROVE  Quiet
    BY <1>3 DEF BackgroundStart, StartNotFound, BeginStart, Goroutines, PumpEnds,
                QRCancelled, QRGone, managerVars, clientVars
  <1>13. ASSUME NEW c \in Calls, QRChannelCloses(c) PROVE Registry!Next \/ Stutter
    <2>1. sessions' = sessions /\ Retired' = Retired
      BY <1>13 DEF QRChannelCloses, managerVars, Retired
    <2>2. CASE target[c] \in Clients /\ connected' = [connected EXCEPT ![target[c]] = FALSE]
      BY <2>1, <2>2, ToggleIsRegistryStep
    <2>3. CASE target[c] \notin Clients \/ connected' = connected
      <3>1. connected' = connected
        BY <1>13, <2>3 DEF QRChannelCloses, Inv, TypeOK
      <3> QED BY <2>1, <3>1 DEF Online
    <2> QED BY <1>13, <2>2, <2>3 DEF QRChannelCloses
  <1>4. ASSUME NEW c \in Calls, FinishStart(c) PROVE Registry!Next \/ Stutter
    <2>1. target[c] \in Registry!Registered
      BY <1>4 DEF FinishStart, Inv, TargetInv, NameInv, Locking, Registry!Registered
    <2>2. target[c] \in Clients
      BY <2>1 DEF Registry!Registered
    <2>3. sessions' = sessions /\ Retired' = Retired
      BY <1>4 DEF FinishStart, Retired
    <2>4. CASE connected' = [connected EXCEPT ![target[c]] = TRUE]
      BY <2>1, <2>2, <2>3, <2>4, ToggleIsRegistryStep
    <2>5. CASE connected' = connected
      BY <2>3, <2>5 DEF Online
    <2> QED BY <1>4, <2>4, <2>5 DEF FinishStart
  <1>5. ASSUME NEW c \in Calls, Disconnect(c) PROVE Registry!Next
    <2>1. target[c] \in Clients /\ stage[target[c]] = "open"
      BY <1>5 DEF Disconnect, Inv, TargetInv, Locking
    <2>2. sessions' = sessions /\ Retired' = Retired
      BY <1>5, <2>1 DEF Disconnect, managerVars, Inv, TypeOK, Retired
    <2>3. connected' = [connected EXCEPT ![target[c]] = FALSE]
      BY <1>5 DEF Disconnect
    <2> QED BY <2>1, <2>2, <2>3, ToggleIsRegistryStep
  <1>6. ASSUME NEW c \in Calls, CloseContainer(c) \/ CloseEvents(c) PROVE Stutter
    <2>1. target[c] \in Clients /\ stage[target[c]] # "stopped"
      BY <1>6 DEF CloseContainer, CloseEvents, StopStep, Inv, TargetInv, TearDown, Locking
    <2>2. Retired' = Retired
      BY <1>6, <2>1 DEF CloseContainer, CloseEvents, StopStep, Inv, TypeOK, Retired
    <2> QED BY <1>6, <2>2 DEF CloseContainer, CloseEvents, StopStep, managerVars, Online
  <1>7. ASSUME NEW c \in Calls, FinishStop(c) PROVE Registry!Next
    BY <1>7, FinishStopRemoves
  <1>8. ASSUME NEW c \in Calls, FinishLogout(c) PROVE Registry!Next \/ Stutter
    <2>1. target[c] \in Clients
      BY <1>8 DEF FinishLogout, Inv, TargetInv
    <2>2. sessions' = sessions /\ Retired' = Retired
      BY <1>8 DEF FinishLogout, managerVars, Retired
    <2>3. CASE connected' = [connected EXCEPT ![target[c]] = FALSE]
      BY <2>1, <2>2, <2>3, ToggleIsRegistryStep
    <2>4. CASE connected' = connected
      BY <2>2, <2>4 DEF Online
    <2> QED BY <1>8, <2>3, <2>4, Zenon DEF FinishLogout
  <1>9. ASSUME NEW g \in Clients, RemoteLogout(g) PROVE Registry!Next
    <2>1. sessions' = sessions /\ Retired' = Retired
      BY <1>9 DEF RemoteLogout, managerVars, Retired
    <2>2. connected' = [connected EXCEPT ![g] = FALSE]
      BY <1>9 DEF RemoteLogout
    <2> QED BY <2>1, <2>2, ToggleIsRegistryStep
  <1>10. ASSUME NEW g \in Clients, Pair(g) PROVE Quiet
    BY <1>10 DEF Pair, managerVars, clientVars
  <1>11. ASSUME UNCHANGED vars PROVE Quiet
    BY <1>11 DEF vars, managerVars, clientVars
  <1> HIDE DEF Quiet, Stutter
  <1>12. Registry!Next \/ Quiet \/ Stutter
    BY <1>1, <1>2, <1>3, <1>4, <1>5, <1>6, <1>7, <1>8, <1>9, <1>10, <1>11, <1>13
       DEF Next, StopSteps
  <1> QED BY <1>0, <1>12 DEF Stutter

(* The manager and its clients implement the atomic registry: one client per
   name, only that client ever on line, removed once and for all.          *)
THEOREM Refinement == Spec => ImplementsRegistry
  <1> QED BY RegistryInit, RegistryNext, Invariance, PTL
          DEF Spec, ImplementsRegistry, Registry!Spec
=============================================================================

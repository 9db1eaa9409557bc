---------------------------- MODULE GatewayProofs ----------------------------
(***************************************************************************)
(* A stream receives only what a client of its own session reissued, for   *)
(* any number of sessions, clients, calls, streams and events.  The proof  *)
(* is put together as the module is: the theorems of the session manager   *)
(* say whose events a pump sends, those of the fan-out where they arrive,  *)
(* and what is left is the way through the channel between them.           *)
(***************************************************************************)
EXTENDS Gateway, TLAPS

MP == INSTANCE SessionsProofs
FP == INSTANCE EventStreamProofs WITH
        Senders <- Calls, Items <- Copies, Unmarshalable <- {},
        Capacity <- ListenerCapacity

Kept == MP!Inv /\ MP!PumpInv /\ FP!Inv

\* An event belongs to the one client that reissued it, and waits in its channel.
SourceInv ==
    /\ source \in [Events \cup Codes -> Clients \cup {Null}]
    /\ \A e \in Events \cup Codes : source[e] # Null => stage[source[e]] # "unbuilt"
    /\ emitting \subseteq Copies
    /\ \A m \in emitting : source[m.event] # Null

ChannelInv ==
    /\ entered \in [Clients -> Seq(Copies)]
    /\ taken \in [Clients -> Nat]
    /\ \A g \in Clients : /\ taken[g] <= Len(entered[g])
                          /\ \A k \in DOMAIN entered[g] : source[entered[g][k].event] = g

\* It is sent under the name its client was built for.
SentInv ==
    \A m \in Copies : sentTo[m] # Null =>
        source[m.event] # Null /\ owner[source[m.event]] = sentTo[m]

Inv == Kept /\ SourceInv /\ ChannelInv /\ SentInv

-----------------------------------------------------------------------------
(* The two components as their own modules know them. *)
LEMMA Manager == [M!Next]_sessionVars => [MP!Next]_(MP!vars)
  BY DEF M!Next, M!StartSession, M!BuildExisting, M!Built, M!Receive, M!managerVars,
         M!clientVars, M!callVars, M!Insert, M!BuildNew, M!BuildProxyFails, M!BuildFails,
         M!UnsupportedDialect,
         M!StopSession, M!StopNotFound, M!BeginStop, M!Acquire, M!Release, M!Logout,
         M!LogoutNotFound, M!BeginLogout, M!BackgroundStart, M!StartNotFound, M!BeginStart,
         M!Lookup, M!AddEventHandler, M!FinishStart, M!StopSteps, M!Disconnect, M!StopStep,
         M!CloseContainer, M!CloseEvents, M!FinishStop, M!FinishLogout, M!Goroutines,
         M!PumpEnds, M!EventsClosed, M!QRCancelled, M!ContextDone, M!QRGone,
         M!QRChannelCloses, M!Pair, M!RemoteLogout,
         MP!Next, MP!StartSession, MP!BuildExisting, MP!Built, MP!Receive, MP!managerVars,
         MP!clientVars, MP!callVars, MP!Insert, MP!BuildNew, MP!BuildProxyFails, MP!BuildFails,
         MP!UnsupportedDialect,
         MP!StopSession, MP!StopNotFound, MP!BeginStop, MP!Acquire, MP!Release, MP!Logout,
         MP!LogoutNotFound, MP!BeginLogout, MP!BackgroundStart, MP!StartNotFound, MP!BeginStart,
         MP!Lookup, MP!AddEventHandler, MP!FinishStart, MP!StopSteps, MP!Disconnect, MP!StopStep,
         MP!CloseContainer, MP!CloseEvents, MP!FinishStop, MP!FinishLogout, MP!Goroutines,
         MP!PumpEnds, MP!EventsClosed, MP!QRCancelled, MP!ContextDone, MP!QRGone,
         MP!QRChannelCloses, MP!Pair, MP!RemoteLogout,
         sessionVars, MP!vars

(* A step of the gateway's streams is a step of the event streams. *)
LEMMA Streaming == Fanout \/ UNCHANGED fanoutVars => [FP!Next]_(FP!vars)
  BY DEF Fanout, fanoutVars, F!addListener, F!Alive, F!ClientGone, F!StreamStep, F!Forward,
         F!Lose, F!removeListener, F!Unregister, F!SendStep, F!EndSend, F!SendOne, F!Sends,
         F!Others, F!HasRoom, F!Enqueue, F!streamVars, F!senderVars, F!history,
         FP!Next, FP!addListener, FP!Alive, FP!ClientGone, FP!StreamStep, FP!Forward,
         FP!Lose, FP!removeListener, FP!Unregister, FP!SendStep, FP!EndSend, FP!SendOne,
         FP!Sends, FP!Others, FP!HasRoom, FP!Enqueue, FP!streamVars, FP!senderVars,
         FP!history, FP!vars

(* A pump that begins to send names the session the copy is sent to. *)
LEMMA SendBegins ==
    ASSUME NEW c \in Calls, NEW n \in Names, NEW m \in Copies, F!BeginSend(c, n, m)
    PROVE  FP!Next /\ sentTo[m] = Null /\ sentTo' = [sentTo EXCEPT ![m] = n]
  BY DEF F!BeginSend, F!Alive, F!getListeners, F!streamVars,
         FP!BeginSend, FP!Alive, FP!getListeners, FP!streamVars, FP!Next

(* Both keep their invariants, and a built client its session. *)
LEMMA KeptNext ==
    ASSUME Kept, [M!Next]_sessionVars, [FP!Next]_(FP!vars)
    PROVE  /\ Kept'
           /\ \A g \in Clients : stage[g] # "unbuilt" =>
                 owner'[g] = owner[g] /\ stage'[g] # "unbuilt"
  <1>1. MP!NullAssumption /\ FP!CapacityAssumption /\ FP!ItemsAssumption
    BY NothingAssumption, ChanAssumption
       DEF MP!NullAssumption, FP!CapacityAssumption, FP!ItemsAssumption
  <1>2. [MP!Next]_(MP!vars)
    BY Manager
  <1>3. MP!Inv' /\ MP!PumpInv'
    BY <1>1, <1>2, MP!InvNext, MP!PumpNext DEF Kept
  <1>4. FP!Inv'
    BY <1>1, FP!InvNext DEF Kept
  <1>5. ASSUME NEW g \in Clients, stage[g] # "unbuilt"
        PROVE  owner'[g] = owner[g] /\ stage'[g] # "unbuilt"
    BY <1>1, <1>2, <1>5, MP!OwnerStays DEF Kept
  <1> QED BY <1>3, <1>4, <1>5 DEF Kept

(* What the proof uses of the two components' invariants. *)
LEMMA KeptFacts ==
    ASSUME Kept
    PROVE  /\ owner \in [Clients -> Names \cup {Null}]
           /\ stage \in [Clients -> MP!Stages]
           /\ sentTo \in [Copies -> Names \cup {Null}]
           /\ \A c \in Calls : pump[c] # Null => /\ pump[c] \in Clients
                                                 /\ name[c] \in Names
                                                 /\ owner[pump[c]] = name[c]
           /\ \A c \in Calls : qr[c] # "none" => target[c] \in Clients
  BY DEF Kept, MP!Inv, MP!TypeOK, MP!NameInv, MP!PumpInv, FP!Inv, FP!TypeOK

(* What is taken from the channel is the next that entered it. *)
LEMMA NextInChannel ==
    ASSUME NEW S, NEW q \in Seq(S), NEW t \in Nat, t <= Len(q),
           SubSeq(q, t + 1, Len(q)) # <<>>
    PROVE  /\ t + 1 <= Len(q)
           /\ Head(SubSeq(q, t + 1, Len(q))) = q[t + 1]
           /\ q[t + 1] \in S
  OBVIOUS

-----------------------------------------------------------------------------
(* Nothing has been built, sent or received. *)
LEMMA InvInit == Init => Inv
  <1> SUFFICES ASSUME Init PROVE Inv
    OBVIOUS
  <1>1. MP!NullAssumption /\ FP!CapacityAssumption /\ FP!ItemsAssumption
    BY NothingAssumption, ChanAssumption
       DEF MP!NullAssumption, FP!CapacityAssumption, FP!ItemsAssumption
  <1>2. MP!Init /\ FP!Init
    BY DEF Init, M!Init, MP!Init, F!Init, FP!Init
  <1>3. Kept
    BY <1>1, <1>2, MP!InvInit, MP!PumpInit, FP!InvInit DEF Kept
  <1>4. SourceInv /\ ChannelInv /\ SentInv
    BY NothingAssumption DEF Init, F!Init, SourceInv, ChannelInv, SentInv
  <1> QED BY <1>3, <1>4 DEF Inv

(* A step of the manager leaves the events where they are. *)
LEMMA LifecycleKeeps == ASSUME Inv, Lifecycle PROVE Inv'
  <1>1. M!Next /\ UNCHANGED <<fanoutVars, channelVars>>
    BY DEF Lifecycle
  <1>2. [FP!Next]_(FP!vars)
    BY <1>1, Streaming
  <1>3. Kept' /\ \A g \in Clients : stage[g] # "unbuilt" =>
                    owner'[g] = owner[g] /\ stage'[g] # "unbuilt"
    BY <1>1, <1>2, KeptNext DEF Inv
  <1>4. UNCHANGED <<source, emitting, entered, taken, sentTo>>
    BY <1>1 DEF fanoutVars, channelVars
  <1>5. SourceInv' /\ ChannelInv' /\ SentInv'
    BY <1>3, <1>4 DEF Inv, SourceInv, ChannelInv, SentInv, Copies
  <1> QED BY <1>3, <1>5 DEF Inv

(* A step that leaves the two components alone keeps their invariants. *)
LEMMA Untouched == ASSUME Inv, UNCHANGED <<sessionVars, fanoutVars>> PROVE Kept'
  <1>1. [M!Next]_sessionVars /\ [FP!Next]_(FP!vars)
    BY Streaming
  <1> QED BY <1>1, KeptNext DEF Inv

(* An event comes from a client that has been built. *)
LEMMA ReissueKeeps ==
    ASSUME Inv, NEW g \in Clients, NEW e \in Events \cup Codes, NEW copies \in SUBSET Copies,
           \A m \in copies : m.event = e, Reissue(g, e, copies)
    PROVE  Inv'
  <1>1. /\ stage[g] # "unbuilt" /\ source[e] = Null
        /\ source' = [source EXCEPT ![e] = g]
        /\ emitting' = emitting \cup copies
        /\ UNCHANGED <<sessionVars, fanoutVars, entered, taken>>
    BY DEF Reissue
  <1>2. Kept'
    BY <1>1, Untouched
  <1>3. UNCHANGED <<owner, stage, sentTo>>
    BY <1>1 DEF sessionVars, fanoutVars
  <1>5. SourceInv'
    BY <1>1, <1>3, NothingAssumption DEF Inv, SourceInv
  <1>6. ChannelInv'
    BY <1>1, NothingAssumption DEF Inv, ChannelInv
  <1>7. SentInv'
    BY <1>1, <1>3 DEF Inv, SentInv, SourceInv, Copies
  <1> QED BY <1>2, <1>5, <1>6, <1>7 DEF Inv

(* A copy enters the channel of the client that made it, or is given up. *)
LEMMA emitEventKeeps == ASSUME Inv, NEW m \in emitting, emitEvent(m) PROVE Inv'
  <1> DEFINE g == source[m.event]
  <1>1. /\ emitting' = emitting \ {m}
        /\ entered' = [entered EXCEPT ![g] = Append(entered[g], m)] \/ entered' = entered
        /\ UNCHANGED <<sessionVars, fanoutVars, source, taken>>
    BY DEF emitEvent, Enter, GivesUp
  <1>2. Kept'
    BY <1>1, Untouched
  <1>3. UNCHANGED <<owner, stage, sentTo>>
    BY <1>1 DEF sessionVars, fanoutVars
  <1>4. m \in Copies /\ g \in Clients
    BY DEF Inv, SourceInv, Copies
  <1>5. SourceInv' /\ SentInv'
    BY <1>1, <1>3 DEF Inv, SourceInv, SentInv
  <1> HIDE DEF g
  <1>6. ChannelInv'
    <2>1. CASE entered' = entered
      BY <1>1, <2>1 DEF Inv, ChannelInv
    <2>2. CASE entered' = [entered EXCEPT ![g] = Append(entered[g], m)]
      <3>1. entered[g] \in Seq(Copies) /\ entered \in [Clients -> Seq(Copies)]
        BY <1>4 DEF Inv, ChannelInv
      <3>2. /\ Append(entered[g], m) \in Seq(Copies)
            /\ Len(Append(entered[g], m)) = Len(entered[g]) + 1
            /\ \A k \in DOMAIN Append(entered[g], m) :
                  Append(entered[g], m)[k] = IF k \in DOMAIN entered[g] THEN entered[g][k] ELSE m
        BY <1>4, <3>1
      <3>3. source[m.event] = g
        BY DEF g
      <3> QED BY <1>1, <1>4, <2>2, <3>1, <3>2, <3>3 DEF Inv, ChannelInv
    <2> QED BY <1>1, <2>1, <2>2
  <1> QED BY <1>2, <1>5, <1>6 DEF Inv

(* A pump sends the next event of its client under the name of its call. *)
LEMMA PumpKeeps == ASSUME Inv, NEW c \in Calls, PumpReceives(c) PROVE Inv'
  <1> DEFINE g == pump[c]
             m == entered[g][taken[g] + 1]
  <1>1. g \in Clients /\ name[c] \in Names /\ owner[g] = name[c]
    BY KeptFacts DEF Inv, PumpReceives
  <1>2. /\ chan(g) # <<>> /\ F!BeginSend(c, name[c], Head(chan(g)))
        /\ taken' = [taken EXCEPT ![g] = taken[g] + 1]
        /\ UNCHANGED <<sessionVars, source, emitting, entered>>
    BY DEF PumpReceives, Label
  <1>3. /\ taken[g] + 1 <= Len(entered[g]) /\ Head(chan(g)) = m /\ m \in Copies
        /\ entered[g] \in Seq(Copies) /\ taken[g] \in Nat
    <2>1. entered[g] \in Seq(Copies) /\ taken[g] \in Nat /\ taken[g] <= Len(entered[g])
      BY <1>1 DEF Inv, ChannelInv
    <2> QED BY <1>2, <2>1, NextInChannel DEF chan
  <1>4. source[m.event] = g
    <2>1. taken[g] + 1 \in DOMAIN entered[g]
      BY <1>3
    <2> QED BY <1>1, <2>1 DEF Inv, ChannelInv
  <1>5. FP!Next /\ sentTo[m] = Null /\ sentTo' = [sentTo EXCEPT ![m] = name[c]]
    BY <1>1, <1>2, <1>3, SendBegins
  <1>6. Kept'
    BY <1>2, <1>5, KeptNext DEF Inv
  <1>7. UNCHANGED <<owner, stage>>
    BY <1>2 DEF sessionVars
  <1>8. SourceInv'
    BY <1>2, <1>7 DEF Inv, SourceInv
  <1>9. ChannelInv'
    BY <1>1, <1>2, <1>3 DEF Inv, ChannelInv
  <1> HIDE DEF m, g
  <1>10. SentInv'
    <2>1. sentTo \in [Copies -> Names \cup {Null}]
      BY KeptFacts DEF Inv
    <2> QED BY <1>1, <1>2, <1>3, <1>4, <1>5, <1>7, <2>1, NothingAssumption DEF Inv, SentInv
  <1> QED BY <1>6, <1>8, <1>9, <1>10 DEF Inv

(* The fan-out leaves alone what was sent, and the channels. *)
LEMMA FanoutKeeps == ASSUME Inv, Fanout PROVE Inv'
  <1>1. UNCHANGED <<sessionVars, channelVars>>
    BY DEF Fanout
  <1>2. [FP!Next]_(FP!vars)
    BY Streaming
  <1>3. Kept'
    BY <1>1, <1>2, KeptNext DEF Inv
  <1>4. UNCHANGED <<owner, stage, source, emitting, entered, taken>>
    BY <1>1 DEF sessionVars, channelVars
  <1>5. sentTo' = sentTo
    BY DEF Fanout, F!addListener, F!ClientGone, F!StreamStep, F!Forward, F!removeListener,
           F!SendStep, F!EndSend, F!SendOne, F!history
  <1>6. SourceInv' /\ ChannelInv' /\ SentInv'
    BY <1>4, <1>5 DEF Inv, SourceInv, ChannelInv, SentInv
  <1> QED BY <1>3, <1>6 DEF Inv

(* Every step keeps the invariant. *)
LEMMA InvNext == Inv /\ [Next]_vars => Inv'
  <1> SUFFICES ASSUME Inv, [Next]_vars PROVE Inv'
    OBVIOUS
  <1>1. CASE Lifecycle
    BY <1>1, LifecycleKeeps
  <1>2. ASSUME NEW g \in Clients, NEW e \in Events, handleEvent(g, e) PROVE Inv'
    <2> DEFINE copies == {[event |-> e, by |-> c] : c \in handlers[g]}
    <2>1. Reissue(g, e, copies)
      BY <1>2 DEF handleEvent
    <2>2. handlers[g] \subseteq Calls
      BY DEF Inv, Kept, MP!Inv, MP!TypeOK
    <2>3. copies \in SUBSET Copies /\ \A m \in copies : m.event = e
      BY <2>2 DEF Copies
    <2> HIDE DEF copies
    <2> QED BY <2>1, <2>3, ReissueKeeps
  <1>3. ASSUME NEW g \in Clients, NEW e \in Events, SendMessage(g, e) PROVE Inv'
    <2> DEFINE copies == {[event |-> e, by |-> Null]}
    <2>1. Reissue(g, e, copies)
      BY <1>3 DEF SendMessage
    <2>2. copies \in SUBSET Copies /\ \A m \in copies : m.event = e
      BY DEF Copies
    <2> HIDE DEF copies
    <2> QED BY <2>1, <2>2, ReissueKeeps
  <1>4. ASSUME NEW c \in Calls, NEW e \in Codes, QRCode(c, e) PROVE Inv'
    <2> DEFINE copies == {[event |-> e, by |-> c]}
    <2>1. Reissue(target[c], e, copies) /\ qr[c] # "none"
      BY <1>4 DEF QRCode
    <2>2. copies \in SUBSET Copies /\ \A m \in copies : m.event = e
      BY DEF Copies
    <2>3. target[c] \in Clients
      BY <2>1, KeptFacts DEF Inv
    <2> HIDE DEF copies
    <2> QED BY <2>1, <2>2, <2>3, ReissueKeeps
  <1>5. ASSUME NEW m \in emitting, emitEvent(m) PROVE Inv'
    BY <1>5, emitEventKeeps
  <1>6. ASSUME NEW c \in Calls, PumpReceives(c) PROVE Inv'
    BY <1>6, PumpKeeps
  <1>7. CASE Fanout
    BY <1>7, FanoutKeeps
  <1>8. CASE UNCHANGED vars
    <2>1. Kept'
      BY <1>8, Untouched DEF vars
    <2>2. SourceInv' /\ ChannelInv' /\ SentInv'
      BY <1>8 DEF vars, sessionVars, fanoutVars, channelVars, Inv, SourceInv, ChannelInv, SentInv
    <2> QED BY <2>1, <2>2 DEF Inv
  <1> QED BY <1>1, <1>2, <1>3, <1>4, <1>5, <1>6, <1>7, <1>8 DEF Next

(* The inductive invariant of the whole way of an event. *)
THEOREM Invariance == Spec => []Inv
  <1> QED BY InvInit, InvNext, PTL DEF Spec

(* However sessions are stopped, rebuilt and started late, a stream receives
   only what a client of its own session reissued.                         *)
THEOREM EventsStayInSession == Spec => []OwnSessionOnly
  <1>1. Inv => OwnSessionOnly
    <2> SUFFICES ASSUME Inv, NEW s \in Streams, NEW m \in F!Elements(got[s] \o buf[s])
                 PROVE  owner[source[m.event]] = topic[s]
      BY DEF OwnSessionOnly
    <2>1. m \in Copies /\ sentTo[m] = topic[s] /\ topic[s] # Null
      <3>1. /\ got[s] \in Seq(Copies) /\ buf[s] \in Seq(Copies)
            /\ topic[s] \in Names \/ (got[s] = <<>> /\ buf[s] = <<>>)
            /\ \A x \in FP!Held(s) : sentTo[x] = topic[s]
        BY DEF Inv, Kept, FP!Inv, FP!TypeOK, FP!TopicInv, FP!HeldInv
      <3>2. FP!Elements(got[s] \o buf[s]) = FP!Elements(got[s]) \cup FP!Elements(buf[s])
        BY <3>1, FP!ElementsConcat, NothingAssumption, ChanAssumption
           DEF FP!CapacityAssumption, FP!ItemsAssumption
      <3>3. m \in FP!Held(s)
        BY <3>2 DEF F!Elements, FP!Elements, FP!Held
      <3>4. m \in Copies /\ ~(got[s] = <<>> /\ buf[s] = <<>>)
        BY <3>1, <3>3 DEF FP!Held, FP!Elements
      <3> QED BY <3>1, <3>3, <3>4, NothingAssumption
    <2> QED BY <2>1 DEF Inv, SentInv
  <1> QED BY <1>1, Invariance, PTL

-----------------------------------------------------------------------------
(***************************************************************************)
(* The order of events.  A copy enters its channel once and a lone pump    *)
(* takes the next one only after it has worked off the last, so whatever a *)
(* stream holds already has entered before what is sent to it now.         *)
(***************************************************************************)
\* A copy enters its channel once.
EnteredOnce ==
    \A g \in Clients :
        /\ \A i, j \in DOMAIN entered[g] : entered[g][i] = entered[g][j] => i = j
        /\ \A i \in DOMAIN entered[g] : entered[g][i] \notin emitting

\* What is sent was taken from the channel; a lone pump is busy with what it
\* took last.
TakenInv ==
    \A m \in Copies : sentTo[m] # Null =>
        \E k \in 1..taken[source[m.event]] : entered[source[m.event]][k] = m

TakerInv ==
    /\ takers \in [Clients -> SUBSET Calls]
    /\ \A c \in Calls : item[c] # Null =>
          LET g == source[item[c].event] IN
          /\ c \in takers[g]
          /\ OnePump(g) => item[c] = entered[g][taken[g]]

\* Behind an event a stream holds only events that entered after it.
Follows(x, y) ==
    LET g == source[x.event] IN
    source[y.event] = g /\ OnePump(g) =>
        \E a, b \in DOMAIN entered[g] : a < b /\ entered[g][a] = x /\ entered[g][b] = y

InOrder(q) == \A j, k \in DOMAIN q : j < k => Follows(q[j], q[k])

OrderInv == EnteredOnce /\ TakenInv /\ TakerInv /\ \A s \in Streams : InOrder(got[s] \o buf[s])

\* The codes of a call: by the client it started, one at a time, and in the
\* order they were issued.
CodeOf(m, c) == m.event \in Codes /\ m.by = c

IssuedInv ==
    /\ \A k, e \in Codes : k < e /\ source[e] # Null => source[k] # Null
    /\ \A m \in emitting \cup UNION {F!Elements(entered[g]) : g \in Clients} :
          m.event \in Codes => /\ m.by \in Calls
                               /\ pc[m.by] \notin {"new", "accepted"}
                               /\ source[m.event] = target[m.by]

CodesInv ==
    \A c \in Calls :
        /\ \A m, o \in emitting : CodeOf(m, c) /\ CodeOf(o, c) => m = o
        /\ \A g \in Clients : \A j \in DOMAIN entered[g] : CodeOf(entered[g][j], c) =>
              /\ \A m \in emitting : CodeOf(m, c) => entered[g][j].event < m.event
              /\ \A k \in DOMAIN entered[g] : j < k /\ CodeOf(entered[g][k], c) =>
                    entered[g][j].event < entered[g][k].event

(* What a stream holds was sent, and comes from a client. *)
LEMMA HeldFacts ==
    ASSUME Inv, NEW s \in Streams
    PROVE  /\ got[s] \in Seq(Copies) /\ buf[s] \in Seq(Copies) /\ got[s] \o buf[s] \in Seq(Copies)
           /\ \A j \in DOMAIN (got[s] \o buf[s]) :
                 LET x == (got[s] \o buf[s])[j] IN
                 x \in FP!Held(s) /\ x \in Copies /\ sentTo[x] # Null /\ source[x.event] \in Clients
  <1>1. /\ got[s] \in Seq(Copies) /\ buf[s] \in Seq(Copies)
        /\ topic[s] \in Names \/ (got[s] = <<>> /\ buf[s] = <<>>)
        /\ \A x \in FP!Held(s) : sentTo[x] = topic[s]
    BY DEF Inv, Kept, FP!Inv, FP!TypeOK, FP!TopicInv, FP!HeldInv
  <1>2. got[s] \o buf[s] \in Seq(Copies)
    BY <1>1
  <1>3. ASSUME NEW j \in DOMAIN (got[s] \o buf[s])
        PROVE  LET x == (got[s] \o buf[s])[j] IN
               x \in FP!Held(s) /\ x \in Copies /\ sentTo[x] # Null /\ source[x.event] \in Clients
    <2> DEFINE x == (got[s] \o buf[s])[j]
    <2>1. FP!Elements(got[s] \o buf[s]) = FP!Elements(got[s]) \cup FP!Elements(buf[s])
      BY <1>1, FP!ElementsConcat, NothingAssumption, ChanAssumption
         DEF FP!CapacityAssumption, FP!ItemsAssumption
    <2>2. x \in FP!Held(s)
      BY <2>1 DEF FP!Elements, FP!Held
    <2>3. x \in Copies
      <3> DEFINE q == got[s] \o buf[s]
      <3>1. q \in Seq(Copies) /\ j \in DOMAIN q
        BY <1>2
      <3> HIDE DEF q
      <3>2. q[j] \in Copies
        BY <3>1
      <3> QED BY <3>2 DEF q
    <2>4. ~(got[s] = <<>> /\ buf[s] = <<>>)
      BY <2>2 DEF FP!Held, FP!Elements
    <2>5. sentTo[x] # Null
      BY <1>1, <2>2, <2>4, NothingAssumption
    <2>6. source[x.event] \in Clients
      BY <2>3, <2>5 DEF Inv, SentInv, SourceInv, Copies
    <2> QED BY <2>2, <2>3, <2>5, <2>6
  <1> QED BY <1>1, <1>2, <1>3

\* Sources, channels and pumps only ever grow.
Grows ==
    /\ \A e \in Events \cup Codes : source[e] # Null => source'[e] = source[e]
    /\ \A g \in Clients :
          /\ takers[g] \subseteq takers'[g]
          /\ \A a \in DOMAIN entered[g] : a \in DOMAIN entered'[g] /\ entered'[g][a] = entered[g][a]

(* What follows in the order of a channel keeps doing so. *)
LEMMA FollowsStays ==
    ASSUME Grows, NEW x \in Copies, NEW y \in Copies, source[x.event] \in Clients,
           source[y.event] \in Clients, Follows(x, y)
    PROVE  Follows(x, y)'
  <1> DEFINE g == source[x.event]
  <1>1. source'[x.event] = g /\ source'[y.event] = source[y.event]
    BY NothingAssumption DEF Grows, Copies
  <1> SUFFICES ASSUME source[y.event] = g, OnePump(g)'
               PROVE  \E a, b \in DOMAIN entered'[g] : a < b /\ entered'[g][a] = x /\ entered'[g][b] = y
    BY <1>1 DEF Follows, OnePump
  <1>2. OnePump(g)
    BY <1>1 DEF Grows, OnePump
  <1>3. PICK a, b \in DOMAIN entered[g] : a < b /\ entered[g][a] = x /\ entered[g][b] = y
    BY <1>2 DEF Follows
  <1>4. a \in DOMAIN entered'[g] /\ b \in DOMAIN entered'[g] /\ entered'[g][a] = x /\ entered'[g][b] = y
    BY <1>3 DEF Grows
  <1> QED BY <1>3, <1>4

(* Streams that are left alone stay in order. *)
LEMMA StreamsStay ==
    ASSUME Inv, OrderInv, Grows, NEW s \in Streams, got'[s] = got[s], buf'[s] = buf[s]
    PROVE  InOrder(got[s] \o buf[s])'
  <1> DEFINE q == got[s] \o buf[s]
  <1>1. \A j \in DOMAIN q : q[j] \in Copies /\ source[q[j].event] \in Clients
    BY HeldFacts
  <1>2. \A j, k \in DOMAIN q : j < k => Follows(q[j], q[k])
    BY DEF OrderInv, InOrder
  <1>3. ASSUME NEW j \in DOMAIN q, NEW k \in DOMAIN q, j < k PROVE Follows(q[j], q[k])'
    <2>1. PICK x, y : x = q[j] /\ y = q[k]
      OBVIOUS
    <2>2. Follows(x, y)
      BY <1>2, <1>3, <2>1
    <2>3. Follows(x, y)'
      BY <1>1, <2>1, <2>2, FollowsStays
    <2>4. q' = q
      OBVIOUS
    <2> HIDE DEF q
    <2> QED BY <2>1, <2>3, <2>4 DEF Follows
  <1>4. (got[s] \o buf[s])' = got[s] \o buf[s]
    OBVIOUS
  <1> QED BY <1>3, <1>4 DEF InOrder

(* What a pump is busy with was sent, and comes from a client. *)
LEMMA ItemFacts ==
    ASSUME Inv, NEW c \in Calls, item[c] # Null
    PROVE  /\ item[c] \in Copies /\ sentTo[item[c]] # Null
           /\ source[item[c].event] \in Clients
  <1>1. item[c] \in Copies /\ sentTo[item[c]] \in Names
    BY DEF Inv, Kept, FP!Inv, FP!TypeOK, FP!SenderInv
  <1>2. sentTo[item[c]] # Null
    BY <1>1, NothingAssumption
  <1> QED BY <1>1, <1>2 DEF Inv, SentInv, SourceInv, Copies

(* Steps that take nothing from a channel, send nothing and end nothing keep
   what is known of the pumps.                                             *)
LEMMA PumpsStay ==
    ASSUME Inv, OrderInv, Grows, UNCHANGED <<sentTo, item, taken, takers>>
    PROVE  TakenInv' /\ TakerInv'
  <1>1. \A m \in Copies : sentTo[m] # Null => source[m.event] \in Clients /\ source'[m.event] = source[m.event]
    BY DEF Inv, SentInv, SourceInv, Copies, Grows
  <1>2. \A g \in Clients : /\ taken[g] \in Nat
                           /\ \A k \in 1..taken[g] : entered'[g][k] = entered[g][k]
    <2>1. \A g \in Clients : taken[g] \in Nat /\ taken[g] <= Len(entered[g]) /\ entered[g] \in Seq(Copies)
      BY DEF Inv, ChannelInv
    <2>2. \A g \in Clients : \A k \in 1..taken[g] : k \in DOMAIN entered[g]
      BY <2>1
    <2> QED BY <2>1, <2>2 DEF Grows
  <1>3. TakenInv'
    <2>1. \A m \in Copies : sentTo[m] # Null =>
              \E k \in 1..taken[source[m.event]] : entered[source[m.event]][k] = m
      BY DEF OrderInv, TakenInv
    <2>2. \A m \in Copies : sentTo[m] # Null =>
              \E k \in 1..taken[source[m.event]] : entered'[source'[m.event]][k] = m
      BY <1>1, <1>2, <2>1
    <2> QED BY <1>1, <2>2 DEF TakenInv
  <1>4. ASSUME NEW c \in Calls, item[c] # Null
        PROVE  LET h == source'[item[c].event] IN
               c \in takers[h] /\ ((\A a, b \in takers[h] : a = b) => item[c] = entered'[h][taken[h]])
    <2>0. PICK g \in Clients : g = source[item[c].event]
      BY <1>4, ItemFacts
    <2>1. item[c] \in Copies /\ sentTo[item[c]] # Null /\ source'[item[c].event] = g
      BY <1>1, <1>4, <2>0, ItemFacts
    <2>2. taken[g] \in 1..taken[g]
      <3>1. \E k \in 1..taken[g] : entered[g][k] = item[c]
        BY <2>0, <2>1 DEF OrderInv, TakenInv
      <3> QED BY <1>2, <3>1
    <2>3. c \in takers[g] /\ ((\A a, b \in takers[g] : a = b) => item[c] = entered[g][taken[g]])
      BY <1>4, <2>0 DEF OrderInv, TakerInv, OnePump
    <2> QED BY <1>2, <2>1, <2>2, <2>3
  <1>5. TakerInv'
    BY <1>4 DEF OrderInv, TakerInv, OnePump
  <1> QED BY <1>3, <1>5

(* An event that comes has not entered a channel yet. *)
LEMMA ReissueOrder ==
    ASSUME Inv, OrderInv, NEW g \in Clients, NEW e \in Events \cup Codes, NEW copies \in SUBSET Copies,
           \A m \in copies : m.event = e, Reissue(g, e, copies)
    PROVE  OrderInv'
  <1>1. /\ source[e] = Null /\ source' = [source EXCEPT ![e] = g]
        /\ emitting' = emitting \cup copies
        /\ UNCHANGED <<got, buf, sentTo, item, entered, taken, takers>>
    BY DEF Reissue, fanoutVars
  <1>2. Grows
    BY <1>1 DEF Grows, Inv, SourceInv
  <1>3. EnteredOnce'
    BY <1>1, NothingAssumption DEF Inv, ChannelInv, OrderInv, EnteredOnce
  <1>4. \A s \in Streams : InOrder(got[s] \o buf[s])'
    BY <1>1, <1>2, StreamsStay
  <1> QED BY <1>1, <1>2, <1>3, <1>4, PumpsStay DEF OrderInv

(* A copy that enters the channel enters behind the others, and once. *)
LEMMA emitEventOrder == ASSUME Inv, OrderInv, NEW m \in emitting, emitEvent(m) PROVE OrderInv'
  <1> DEFINE g == source[m.event]
  <1>1. /\ emitting' = emitting \ {m}
        /\ entered' = [entered EXCEPT ![g] = Append(entered[g], m)] \/ entered' = entered
        /\ UNCHANGED <<got, buf, sentTo, item, source, taken, takers>>
    BY DEF emitEvent, Enter, GivesUp, fanoutVars
  <1>2. m \in Copies /\ g \in Clients
    BY DEF Inv, SourceInv, Copies
  <1>3. entered \in [Clients -> Seq(Copies)]
    BY DEF Inv, ChannelInv
  <1> HIDE DEF g
  <1>4. \A h \in Clients :
           \/ entered'[h] = entered[h]
           \/ /\ entered[h] \in Seq(Copies) /\ entered'[h] = Append(entered[h], m)
              /\ DOMAIN entered'[h] = 1..Len(entered[h]) + 1
              /\ DOMAIN entered[h] = 1..Len(entered[h])
              /\ entered'[h][Len(entered[h]) + 1] = m
              /\ \A a \in 1..Len(entered[h]) : entered'[h][a] = entered[h][a]
    BY <1>1, <1>2, <1>3
  <1>5. Grows
    BY <1>1, <1>3, <1>4 DEF Grows
  <1>6. EnteredOnce'
    <2>1. \A h \in Clients : \A i \in DOMAIN entered[h] : entered[h][i] # m
      BY DEF OrderInv, EnteredOnce
    <2>2. ASSUME NEW h \in Clients
          PROVE  /\ \A i, j \in DOMAIN entered'[h] : entered'[h][i] = entered'[h][j] => i = j
                 /\ \A i \in DOMAIN entered'[h] : entered'[h][i] \notin emitting'
      <3>1. /\ \A i, j \in DOMAIN entered[h] : entered[h][i] = entered[h][j] => i = j
            /\ \A i \in DOMAIN entered[h] : entered[h][i] \notin emitting
        BY DEF OrderInv, EnteredOnce
      <3>2. CASE entered'[h] = entered[h]
        BY <1>1, <3>1, <3>2
      <3>3. CASE entered'[h] # entered[h]
        <4>1. /\ DOMAIN entered'[h] = 1..Len(entered[h]) + 1
              /\ DOMAIN entered[h] = 1..Len(entered[h]) /\ Len(entered[h]) \in Nat
              /\ entered'[h][Len(entered[h]) + 1] = m
              /\ \A a \in 1..Len(entered[h]) : entered'[h][a] = entered[h][a]
          BY <1>4, <3>3
        <4>2. \A i \in DOMAIN entered'[h] :
                 \/ i = Len(entered[h]) + 1 /\ entered'[h][i] = m
                 \/ i \in DOMAIN entered[h] /\ entered'[h][i] = entered[h][i] /\ entered'[h][i] # m
          BY <2>1, <4>1
        <4>3. \A i, j \in DOMAIN entered'[h] : entered'[h][i] = entered'[h][j] => i = j
          BY <3>1, <4>2
        <4>4. \A i \in DOMAIN entered'[h] : entered'[h][i] \notin emitting'
          BY <1>1, <3>1, <4>2
        <4> QED BY <4>3, <4>4
      <3> QED BY <3>2, <3>3
    <2> QED BY <2>2 DEF EnteredOnce
  <1>7. \A s \in Streams : InOrder(got[s] \o buf[s])'
    BY <1>1, <1>5, StreamsStay
  <1> QED BY <1>1, <1>5, <1>6, <1>7, PumpsStay DEF OrderInv

(* A lone pump takes the next event after it has worked off the last. *)
LEMMA PumpOrder == ASSUME Inv, OrderInv, NEW c \in Calls, PumpReceives(c) PROVE OrderInv'
  <1> DEFINE g == pump[c]
             m == entered[g][taken[g] + 1]
  <1>1. g \in Clients /\ name[c] \in Names
    BY KeptFacts DEF Inv, PumpReceives
  <1>2. /\ chan(g) # <<>> /\ F!BeginSend(c, name[c], Head(chan(g)))
        /\ taken' = [taken EXCEPT ![g] = taken[g] + 1]
        /\ takers' = [takers EXCEPT ![g] = takers[g] \cup {c}]
        /\ UNCHANGED <<source, emitting, entered>>
    BY DEF PumpReceives, Label
  <1>3. /\ taken[g] + 1 <= Len(entered[g]) /\ Head(chan(g)) = m /\ m \in Copies
        /\ entered[g] \in Seq(Copies) /\ taken[g] \in Nat
    <2>1. entered[g] \in Seq(Copies) /\ taken[g] \in Nat /\ taken[g] <= Len(entered[g])
      BY <1>1 DEF Inv, ChannelInv
    <2> QED BY <1>2, <2>1, NextInChannel DEF chan
  <1>4. source[m.event] = g
    <2>1. taken[g] + 1 \in DOMAIN entered[g]
      BY <1>3
    <2> QED BY <1>1, <2>1 DEF Inv, ChannelInv
  <1>5. /\ item[c] = Null /\ sentTo' = [sentTo EXCEPT ![m] = name[c]]
        /\ item' = [item EXCEPT ![c] = m]
        /\ UNCHANGED <<got, buf>>
    BY <1>2, <1>3 DEF F!BeginSend, F!streamVars
  <1>6. /\ taken \in [Clients -> Nat] /\ takers \in [Clients -> SUBSET Calls]
        /\ sentTo \in [Copies -> Names \cup {Null}] /\ item \in [Calls -> Copies \cup {Null}]
    BY KeptFacts DEF Inv, ChannelInv, OrderInv, TakerInv, Kept, FP!Inv, FP!TypeOK
  <1> HIDE DEF m, g
  <1>7. Grows
    BY <1>1, <1>2, <1>6 DEF Grows
  <1>8. EnteredOnce'
    BY <1>2 DEF OrderInv, EnteredOnce
  <1>9. TakenInv'
    <2> SUFFICES ASSUME NEW x \in Copies, sentTo'[x] # Null
                 PROVE  \E k \in 1..taken'[source[x.event]] : entered[source[x.event]][k] = x
      BY <1>2 DEF TakenInv
    <2>1. CASE x = m
      <3>1. taken[g] + 1 \in 1..taken'[g] /\ entered[g][taken[g] + 1] = m
        BY <1>1, <1>2, <1>3, <1>6 DEF m
      <3> QED BY <1>4, <2>1, <3>1
    <2>2. CASE x # m
      <3>1. sentTo[x] # Null
        BY <1>5, <1>6, <2>2
      <3>2. PICK k \in 1..taken[source[x.event]] : entered[source[x.event]][k] = x
        BY <3>1 DEF OrderInv, TakenInv
      <3>3. source[x.event] \in Clients
        BY <3>1 DEF Inv, SentInv, SourceInv, Copies
      <3>4. taken'[source[x.event]] >= taken[source[x.event]]
        BY <1>2, <1>3, <1>6, <3>3
      <3> QED BY <1>1, <1>2, <1>6, <3>2, <3>3, <3>4
    <2> QED BY <2>1, <2>2
  <1>10. TakerInv'
    <2> SUFFICES ASSUME NEW d \in Calls, item'[d] # Null
                 PROVE  LET h == source[item'[d].event] IN
                        /\ d \in takers'[h]
                        /\ (\A a, b \in takers'[h] : a = b) => item'[d] = entered[h][taken'[h]]
      <3>1. takers' \in [Clients -> SUBSET Calls]
        BY <1>1, <1>2, <1>6
      <3> QED BY <1>2, <3>1 DEF TakerInv, OnePump
    <2>1. CASE d = c
      <3>1. item'[d] = m
        BY <1>5, <1>6, <2>1
      <3>2. d \in takers'[g] /\ m = entered[g][taken'[g]]
        BY <1>1, <1>2, <1>6, <2>1 DEF m
      <3> QED BY <1>4, <3>1, <3>2
    <2>2. CASE d # c
      <3>1. item'[d] = item[d] /\ item[d] # Null
        BY <1>5, <1>6, <2>2
      <3>2. PICK h \in Clients : h = source[item[d].event]
        BY <3>1, ItemFacts
      <3>3. d \in takers[h] /\ ((\A a, b \in takers[h] : a = b) => item[d] = entered[h][taken[h]])
        BY <3>1, <3>2 DEF OrderInv, TakerInv, OnePump
      <3>4. CASE h = g
        <4>1. d \in takers'[h] /\ c \in takers'[h]
          BY <1>1, <1>2, <1>6, <3>3, <3>4
        <4> QED BY <2>2, <3>1, <3>2, <4>1
      <3>5. CASE h # g
        <4>1. takers'[h] = takers[h] /\ taken'[h] = taken[h]
          BY <1>2, <1>6, <3>2, <3>5
        <4> QED BY <3>1, <3>2, <3>3, <4>1
      <3> QED BY <3>4, <3>5
    <2> QED BY <2>1, <2>2
  <1>11. \A s \in Streams : InOrder(got[s] \o buf[s])'
    BY <1>5, <1>7, StreamsStay
  <1> QED BY <1>8, <1>9, <1>10, <1>11 DEF OrderInv

(* Order is a matter of the channels alone. *)
LEMMA SameOrderOf ==
    ASSUME UNCHANGED <<source, entered, takers>>, NEW q, InOrder(q)
    PROVE  InOrder(q)'
  BY DEF InOrder, Follows, OnePump

(* A stream that is in order stays so, as long as the channels stay as they are. *)
LEMMA SameOrder ==
    ASSUME UNCHANGED <<source, entered, takers>>, NEW s \in Streams, InOrder(got'[s] \o buf'[s])
    PROVE  InOrder(got[s] \o buf[s])'
  <1>1. PICK q : q = got'[s] \o buf'[s]
    OBVIOUS
  <1>2. InOrder(q)
    BY <1>1
  <1>3. InOrder(q)'
    BY <1>2, SameOrderOf
  <1>4. (got[s] \o buf[s])' = q
    BY <1>1
  <1> QED BY <1>3, <1>4

(* A stream that forwards or drops the head of its buffer stays in order. *)
LEMMA ForwardOrder ==
    ASSUME NEW p \in Seq(Copies), NEW b \in Seq(Copies), b # <<>>, InOrder(p \o b)
    PROVE  /\ Append(p, Head(b)) \o Tail(b) = p \o b
           /\ InOrder(p \o Tail(b))
  <1>1. Append(p, Head(b)) \o Tail(b) = p \o b
    <2> DEFINE l == Append(p, Head(b)) \o Tail(b)
               r == p \o b
    <2>1. Tail(b) \in Seq(Copies) /\ Head(b) \in Copies /\ Len(Tail(b)) = Len(b) - 1 /\ Len(b) \in Nat \ {0}
      OBVIOUS
    <2>2. l \in Seq(Copies) /\ r \in Seq(Copies) /\ Len(l) = Len(p) + Len(b) /\ Len(r) = Len(p) + Len(b)
      BY <2>1
    <2>3. ASSUME NEW k \in 1..Len(p) + Len(b) PROVE l[k] = r[k]
      <3>1. CASE k <= Len(p)
        BY <2>1, <3>1
      <3>2. CASE k = Len(p) + 1
        BY <2>1, <3>2
      <3>3. CASE k > Len(p) + 1
        <4>1. l[k] = Tail(b)[k - (Len(p) + 1)]
          BY <2>1, <3>3
        <4>2. r[k] = b[k - Len(p)]
          BY <2>1, <3>3
        <4>3. k - (Len(p) + 1) \in 1..Len(b) - 1
          BY <2>1, <3>3
        <4> QED BY <2>1, <4>1, <4>2, <4>3
      <3> QED BY <3>1, <3>2, <3>3
    <2> HIDE DEF l, r
    <2> QED BY <2>2, <2>3
  <1>2. InOrder(p \o Tail(b))
    <2> DEFINE up(k) == IF k <= Len(p) THEN k ELSE k + 1
    <2>1. /\ DOMAIN (p \o Tail(b)) = 1..Len(p) + Len(b) - 1
          /\ DOMAIN (p \o b) = 1..Len(p) + Len(b)
          /\ Len(p) \in Nat /\ Len(b) \in Nat \ {0}
      OBVIOUS
    <2>2. ASSUME NEW k \in 1..Len(p) + Len(b) - 1
          PROVE  up(k) \in 1..Len(p) + Len(b) /\ (p \o Tail(b))[k] = (p \o b)[up(k)]
      <3>1. CASE k <= Len(p)
        BY <2>1, <3>1
      <3>2. CASE k > Len(p)
        <4>1. (p \o Tail(b))[k] = Tail(b)[k - Len(p)]
          BY <2>1, <3>2
        <4>2. Tail(b)[k - Len(p)] = b[k - Len(p) + 1]
          BY <2>1, <3>2
        <4>3. (p \o b)[k + 1] = b[k + 1 - Len(p)]
          BY <2>1, <3>2
        <4> QED BY <2>1, <3>2, <4>1, <4>2, <4>3
      <3> QED BY <2>1, <3>1, <3>2
    <2>3. \A j, k \in 1..Len(p) + Len(b) - 1 : j < k => up(j) < up(k)
      BY <2>1
    <2> HIDE DEF up
    <2> QED BY <2>1, <2>2, <2>3 DEF InOrder
  <1> QED BY <1>1, <1>2

(* An event that follows all a stream holds is buffered in order. *)
LEMMA EnqueueOrder ==
    ASSUME NEW p \in Seq(Copies), NEW b \in Seq(Copies), NEW m \in Copies, InOrder(p \o b),
           \A j \in DOMAIN (p \o b) : Follows((p \o b)[j], m)
    PROVE  InOrder(p \o Append(b, m))
  <1> DEFINE q == p \o b
  <1>1. /\ q \in Seq(Copies) /\ Len(q) = Len(p) + Len(b)
        /\ p \o Append(b, m) = Append(q, m)
    OBVIOUS
  <1> HIDE DEF q
  <1>2. /\ DOMAIN Append(q, m) = 1..Len(q) + 1 /\ Len(q) \in Nat /\ DOMAIN q = 1..Len(q)
        /\ Append(q, m)[Len(q) + 1] = m /\ \A j \in 1..Len(q) : Append(q, m)[j] = q[j]
    BY <1>1
  <1>3. InOrder(q) /\ \A j \in DOMAIN q : Follows(q[j], m)
    BY DEF q
  <1>4. ASSUME NEW j \in 1..Len(q) + 1, NEW k \in 1..Len(q) + 1, j < k
        PROVE  Follows(Append(q, m)[j], Append(q, m)[k])
    <2>1. j \in 1..Len(q) /\ Append(q, m)[j] = q[j]
      BY <1>2, <1>4
    <2>2. CASE k = Len(q) + 1
      BY <1>2, <1>3, <2>1, <2>2
    <2>3. CASE k # Len(q) + 1
      <3>1. k \in 1..Len(q) /\ Append(q, m)[k] = q[k]
        BY <1>2, <2>3
      <3> QED BY <1>2, <1>3, <1>4, <2>1, <3>1 DEF InOrder
    <2> QED BY <2>2, <2>3
  <1> QED BY <1>1, <1>2, <1>4 DEF InOrder

(* What a lone pump sends entered after all that its streams hold. *)
LEMMA SendOrder ==
    ASSUME Inv, OrderInv, NEW c \in Calls, item[c] # Null, NEW s \in Streams, s \in todo[c],
           NEW j \in DOMAIN (got[s] \o buf[s])
    PROVE  Follows((got[s] \o buf[s])[j], item[c])
  <1> DEFINE x == (got[s] \o buf[s])[j]
  <1>1. x \in FP!Held(s) /\ x \in Copies /\ sentTo[x] # Null /\ source[x.event] \in Clients
    BY HeldFacts
  <1>2. item[c] \in Copies /\ sentTo[item[c]] # Null
    BY ItemFacts
  <1>3. item[c] \notin FP!Held(s)
    BY DEF Inv, Kept, FP!Inv, FP!OnceInv
  <1> HIDE DEF x
  <1>4. PICK g \in Clients : g = source[x.event]
    BY <1>1
  <1> SUFFICES ASSUME source[item[c].event] = g, OnePump(g)
               PROVE  \E a, b \in DOMAIN entered[g] : a < b /\ entered[g][a] = x /\ entered[g][b] = item[c]
    BY <1>4 DEF Follows, x
  <1>5. PICK a \in 1..taken[g] : entered[g][a] = x
    BY <1>1, <1>4 DEF OrderInv, TakenInv
  <1>6. item[c] = entered[g][taken[g]]
    BY DEF OrderInv, TakerInv
  <1>7. a # taken[g]
    BY <1>1, <1>3, <1>5, <1>6
  <1>8. taken[g] \in Nat /\ taken[g] <= Len(entered[g]) /\ entered[g] \in Seq(Copies)
    BY DEF Inv, ChannelInv
  <1>9. a \in DOMAIN entered[g] /\ taken[g] \in DOMAIN entered[g] /\ a < taken[g]
    BY <1>5, <1>7, <1>8
  <1> QED BY <1>5, <1>6, <1>9

(* The streams take and lose events in order. *)
LEMMA FanoutOrder == ASSUME Inv, OrderInv, Fanout PROVE OrderInv'
  <1>1. UNCHANGED <<source, emitting, entered, taken, takers>>
    BY DEF Fanout, channelVars
  <1>2. sentTo' = sentTo
    BY DEF Fanout, F!addListener, F!ClientGone, F!StreamStep, F!Forward, F!removeListener,
           F!SendStep, F!EndSend, F!SendOne, F!history
  <1>3. EnteredOnce' /\ TakenInv'
    BY <1>1, <1>2 DEF OrderInv, EnteredOnce, TakenInv
  <1>4. ASSUME NEW s \in Streams, InOrder(got'[s] \o buf'[s]) PROVE InOrder(got[s] \o buf[s])'
    BY <1>1, <1>4, SameOrder
  <1>5. /\ \A s \in Streams : /\ got[s] \in Seq(Copies) /\ buf[s] \in Seq(Copies)
                              /\ InOrder(got[s] \o buf[s])
        /\ got \in [Streams -> Seq(Copies)] /\ buf \in [Streams -> Seq(Copies)]
        /\ item \in [Calls -> Copies \cup {Null}]
    BY HeldFacts DEF OrderInv, Inv, Kept, FP!Inv, FP!TypeOK
  <1> DEFINE Good == TakerInv' /\ \A s \in Streams : InOrder(got'[s] \o buf'[s])
  <1>6. ASSUME item' = item PROVE TakerInv'
    BY <1>1, <1>6 DEF OrderInv, TakerInv, OnePump
  <1>7. ASSUME UNCHANGED <<got, buf, item>> PROVE Good
    BY <1>5, <1>6, <1>7
  <1>8. ASSUME NEW s \in Streams,
               (\E n \in Names : F!addListener(s, n)) \/ F!ClientGone(s) \/ F!removeListener(s)
        PROVE  Good
    BY <1>7, <1>8 DEF F!addListener, F!ClientGone, F!removeListener, F!senderVars
  <1>9. ASSUME NEW s \in Streams, F!Forward(s) PROVE Good
    <2>1. /\ buf[s] # <<>> /\ buf' = [buf EXCEPT ![s] = Tail(buf[s])]
          /\ got' = [got EXCEPT ![s] = Append(got[s], Head(buf[s]))] \/ got' = got
          /\ item' = item
      BY <1>9 DEF F!Forward, F!senderVars
    <2>2. ASSUME NEW t \in Streams PROVE InOrder(got'[t] \o buf'[t])
      <3>1. CASE t = s
        <4>1. buf'[t] = Tail(buf[s]) /\ got'[t] \in {Append(got[s], Head(buf[s])), got[s]}
          BY <1>5, <2>1, <3>1
        <4>2. /\ Append(got[s], Head(buf[s])) \o Tail(buf[s]) = got[s] \o buf[s]
              /\ InOrder(got[s] \o Tail(buf[s])) /\ InOrder(got[s] \o buf[s])
          BY <1>5, <2>1, ForwardOrder
        <4>3. CASE got'[t] = Append(got[s], Head(buf[s]))
          BY <4>1, <4>2, <4>3
        <4>4. CASE got'[t] = got[s]
          BY <4>1, <4>2, <4>4
        <4> QED BY <4>1, <4>3, <4>4
      <3>2. CASE t # s
        BY <1>5, <2>1, <3>2
      <3> QED BY <3>1, <3>2
    <2> QED BY <1>6, <2>1, <2>2
  <1>10. ASSUME NEW c \in Calls, F!EndSend(c) PROVE Good
    <2>1. item' = [item EXCEPT ![c] = Null] /\ UNCHANGED <<got, buf>>
      BY <1>10 DEF F!EndSend, F!streamVars
    <2>2. \A d \in Calls : item'[d] # Null => item'[d] = item[d]
      BY <1>5, <2>1
    <2>3. \A d \in Calls : item'[d] # Null =>
             LET g == source[item'[d].event] IN
             d \in takers[g] /\ ((\A a, b \in takers[g] : a = b) => item'[d] = entered[g][taken[g]])
      BY <2>2 DEF OrderInv, TakerInv, OnePump
    <2>4. TakerInv'
      BY <1>1, <2>3 DEF OrderInv, TakerInv, OnePump
    <2> QED BY <1>5, <2>1, <2>4
  <1>11. ASSUME NEW c \in Calls, NEW s \in Streams, F!SendOne(c, s) PROVE Good
    <2>1. /\ s \in todo[c] /\ got' = got /\ item' = item
          /\ buf' = [buf EXCEPT ![s] = Append(buf[s], item[c])] \/ buf' = buf
      BY <1>11 DEF F!SendOne, F!Sends, F!Enqueue
    <2>2. item[c] # Null
      BY <2>1 DEF Inv, Kept, FP!Inv, FP!SenderInv
    <2>3. item[c] \in Copies
      BY <1>5, <2>2
    <2>4. InOrder(got[s] \o Append(buf[s], item[c]))
      BY <1>5, <2>1, <2>2, <2>3, SendOrder, EnqueueOrder
    <2>5. ASSUME NEW t \in Streams PROVE InOrder(got'[t] \o buf'[t])
      BY <1>5, <2>1, <2>4
    <2> QED BY <1>6, <2>1, <2>5
  <1> HIDE DEF Good
  <1>12. Good
    BY <1>8, <1>9, <1>10, <1>11 DEF Fanout, F!StreamStep, F!SendStep
  <1> QED BY <1>3, <1>4, <1>12 DEF OrderInv, Good

(* A step that leaves the channels and the streams alone keeps the order. *)
LEMMA OrderUntouched == ASSUME OrderInv, UNCHANGED <<fanoutVars, channelVars>> PROVE OrderInv'
  <1>1. UNCHANGED <<source, emitting, entered, taken, takers, got, buf, item, sentTo>>
    BY DEF fanoutVars, channelVars
  <1>2. EnteredOnce' /\ TakenInv' /\ TakerInv'
    BY <1>1 DEF OrderInv, EnteredOnce, TakenInv, TakerInv, OnePump
  <1>3. \A s \in Streams : InOrder(got[s] \o buf[s])'
    BY <1>1, SameOrder DEF OrderInv
  <1> QED BY <1>2, <1>3 DEF OrderInv

(* Nothing has entered a channel. *)
LEMMA OrderInit == Init => OrderInv
  BY NothingAssumption DEF Init, F!Init, OrderInv, EnteredOnce, TakenInv, TakerInv, InOrder

(* The copies of an event that comes, however it does. *)
LEMMA Reissues ==
    ASSUME Inv, NEW g \in Clients, NEW e \in Events, handleEvent(g, e) \/ SendMessage(g, e)
    PROVE  \E copies \in SUBSET Copies : (\A m \in copies : m.event = e) /\ Reissue(g, e, copies)
  <1>1. CASE handleEvent(g, e)
    <2> DEFINE copies == {[event |-> e, by |-> c] : c \in handlers[g]}
    <2>1. handlers[g] \subseteq Calls
      BY DEF Inv, Kept, MP!Inv, MP!TypeOK
    <2>2. copies \in SUBSET Copies /\ (\A m \in copies : m.event = e) /\ Reissue(g, e, copies)
      BY <1>1, <2>1 DEF Copies, handleEvent
    <2> QED BY <2>2
  <1>2. CASE SendMessage(g, e)
    <2> DEFINE copies == {[event |-> e, by |-> Null]}
    <2>1. copies \in SUBSET Copies /\ (\A m \in copies : m.event = e) /\ Reissue(g, e, copies)
      BY <1>2 DEF Copies, SendMessage
    <2> QED BY <2>1
  <1> QED BY <1>1, <1>2

(* The one copy of a code that is issued. *)
LEMMA Issues ==
    ASSUME Inv, NEW c \in Calls, NEW e \in Codes, QRCode(c, e)
    PROVE  LET m == [event |-> e, by |-> c] IN
           /\ m \in Copies /\ target[c] \in Clients /\ pc[c] \notin {"new", "accepted"}
           /\ Reissue(target[c], e, {m}) /\ {m} \in SUBSET Copies /\ \A o \in {m} : o.event = e
  <1>1. qr[c] # "none" /\ Reissue(target[c], e, {[event |-> e, by |-> c]})
    BY DEF QRCode
  <1>2. target[c] \in Clients /\ pc[c] \notin {"new", "accepted"}
    BY <1>1 DEF Inv, Kept, MP!PumpInv
  <1> QED BY <1>1, <1>2 DEF Copies

(* Every step keeps the order of events. *)
LEMMA OrderNext == Inv /\ OrderInv /\ [Next]_vars => OrderInv'
  <1> SUFFICES ASSUME Inv, OrderInv, [Next]_vars PROVE OrderInv'
    OBVIOUS
  <1>1. CASE Lifecycle
    BY <1>1, OrderUntouched DEF Lifecycle
  <1>2. ASSUME NEW g \in Clients, NEW e \in Events, handleEvent(g, e) \/ SendMessage(g, e) PROVE OrderInv'
    <2>1. PICK copies \in SUBSET Copies : (\A m \in copies : m.event = e) /\ Reissue(g, e, copies)
      BY <1>2, Reissues
    <2> QED BY <2>1, ReissueOrder
  <1>3. ASSUME NEW c \in Calls, NEW e \in Codes, QRCode(c, e) PROVE OrderInv'
    <2>1. PICK m : m = [event |-> e, by |-> c]
      OBVIOUS
    <2>2. /\ target[c] \in Clients /\ Reissue(target[c], e, {m}) /\ {m} \in SUBSET Copies
          /\ \A o \in {m} : o.event = e
      BY <1>3, <2>1, Issues
    <2> QED BY <2>2, ReissueOrder
  <1>4. ASSUME NEW m \in emitting, emitEvent(m) PROVE OrderInv'
    BY <1>4, emitEventOrder
  <1>5. ASSUME NEW c \in Calls, PumpReceives(c) PROVE OrderInv'
    BY <1>5, PumpOrder
  <1>6. CASE Fanout
    BY <1>6, FanoutOrder
  <1>7. CASE UNCHANGED vars
    BY <1>7, OrderUntouched DEF vars
  <1> QED BY <1>1, <1>2, <1>3, <1>4, <1>5, <1>6, <1>7 DEF Next

(* What is known of the order of events. *)
THEOREM OrderInvariance == Spec => []OrderInv
  <1> QED BY Invariance, InvNext, OrderInit, OrderNext, PTL DEF Spec

(* As long as one pump serves a client its events reach every stream in the order
   in which their copies entered its channel.  The order in which they enter it
   is open, as every copy has a goroutine of its own.                      *)
THEOREM OnePumpInOrder == Spec => []OnePumpKeepsOrder
  <1>1. ASSUME Inv, OrderInv PROVE OnePumpKeepsOrder
    <2> SUFFICES ASSUME NEW g \in Clients, NEW s \in Streams, OnePump(g),
                        NEW j \in DOMAIN (got[s] \o buf[s]), NEW k \in DOMAIN (got[s] \o buf[s]), j < k,
                        source[(got[s] \o buf[s])[j].event] = g, source[(got[s] \o buf[s])[k].event] = g
                 PROVE  Position(g, (got[s] \o buf[s])[j]) < Position(g, (got[s] \o buf[s])[k])
      BY DEF OnePumpKeepsOrder
    <2> DEFINE x == (got[s] \o buf[s])[j]
               y == (got[s] \o buf[s])[k]
    <2>1. Follows(x, y)
      BY <1>1 DEF OrderInv, InOrder
    <2> HIDE DEF x, y
    <2>2. PICK a, b \in DOMAIN entered[g] : a < b /\ entered[g][a] = x /\ entered[g][b] = y
      BY <2>1 DEF Follows, x, y
    <2>3. \A i \in DOMAIN entered[g] : (entered[g][i] = x => i = a) /\ (entered[g][i] = y => i = b)
      BY <1>1, <2>2 DEF OrderInv, EnteredOnce
    <2>4. Position(g, x) = a /\ Position(g, y) = b
      BY <2>2, <2>3 DEF Position
    <2> QED BY <2>2, <2>4 DEF x, y
  <1> QED BY <1>1, Invariance, OrderInvariance, PTL

-----------------------------------------------------------------------------
(* What IssuedInv says of one copy: its call has started the client it is from. *)
LEMMA IssuedFacts ==
    ASSUME Inv, IssuedInv, NEW m, m.event \in Codes,
           m \in emitting \/ \E g \in Clients : \E k \in DOMAIN entered[g] : entered[g][k] = m
    PROVE  m.by \in Calls /\ pc[m.by] \notin {"new", "accepted"} /\ source[m.event] = target[m.by]
  BY DEF IssuedInv, F!Elements

(* A copy that is on its way or in a channel has a source. *)
LEMMA Sourced ==
    ASSUME Inv
    PROVE  /\ \A m \in emitting : source[m.event] # Null
           /\ \A g \in Clients : \A k \in DOMAIN entered[g] :
                 /\ entered[g][k] \in Copies
                 /\ source[entered[g][k].event] # Null
  <1>1. \A g \in Clients : entered[g] \in Seq(Copies)
    BY DEF Inv, ChannelInv
  <1>2. \A g \in Clients : \A k \in DOMAIN entered[g] : entered[g][k] \in Copies
    BY <1>1
  <1> QED BY <1>2, NothingAssumption DEF Inv, SourceInv, ChannelInv

(* No code has been issued. *)
LEMMA CodesInit == Init => IssuedInv /\ CodesInv
  BY DEF Init, IssuedInv, CodesInv, F!Elements

(* An event that is no code changes nothing about codes. *)
LEMMA ReissueCodes ==
    ASSUME Inv, IssuedInv, CodesInv, NEW g \in Clients, NEW e \in Events,
           NEW copies \in SUBSET Copies, \A m \in copies : m.event = e, Reissue(g, e, copies)
    PROVE  IssuedInv' /\ CodesInv'
  <1>1. /\ source[e] = Null /\ source' = [source EXCEPT ![e] = g] /\ emitting' = emitting \cup copies
        /\ UNCHANGED <<entered, pc, target>>
    BY DEF Reissue, sessionVars
  <1>2. e \notin Codes /\ \A m \in copies : m.event \notin Codes
    BY CodesAssumption
  <1>3. \A k \in Codes : source'[k] = source[k]
    BY <1>1, <1>2 DEF Inv, SourceInv
  <1>4. IssuedInv'
    <2>1. \A k, l \in Codes : k < l /\ source'[l] # Null => source'[k] # Null
      BY <1>3 DEF IssuedInv
    <2>2. ASSUME NEW m \in emitting' \cup UNION {F!Elements(entered[h]) : h \in Clients}, m.event \in Codes
          PROVE  m.by \in Calls /\ pc[m.by] \notin {"new", "accepted"} /\ source'[m.event] = target[m.by]
      BY <1>1, <1>2, <1>3, <2>2 DEF IssuedInv
    <2> QED BY <1>1, <2>1, <2>2 DEF IssuedInv, F!Elements
  <1>5. CodesInv'
    BY <1>1, <1>2 DEF CodesInv, CodeOf
  <1> QED BY <1>4, <1>5

(* A code is issued after all smaller ones, and when its goroutine has let go of
   the code before.                                                        *)
LEMMA QRCodeCodes ==
    ASSUME Inv, IssuedInv, CodesInv, NEW c \in Calls, NEW e \in Codes, QRCode(c, e)
    PROVE  IssuedInv' /\ CodesInv'
  <1>0. PICK m : m = [event |-> e, by |-> c]
    OBVIOUS
  <1>1. /\ m \in Copies /\ m.event = e /\ m.by = c /\ target[c] \in Clients /\ pc[c] \notin {"new", "accepted"}
        /\ source[e] = Null /\ source' = [source EXCEPT ![e] = target[c]]
        /\ emitting' = emitting \cup {m} /\ UNCHANGED <<entered, pc, target>>
        /\ \A o \in emitting : ~CodeOf(o, c)
        /\ \A k \in Codes : k < e => source[k] # Null
    BY <1>0, Issues DEF Reissue, sessionVars, QRCode, OwnCodes, CodeOf
  <1>2. \A k \in Codes : source'[k] = IF k = e THEN target[c] ELSE source[k]
    BY <1>1 DEF Inv, SourceInv
  <1>3. target[c] # Null
    BY <1>1, NothingAssumption
  <1>4. IssuedInv'
    <2>1. \A k, l \in Codes : k < l /\ source'[l] # Null => source'[k] # Null
      BY <1>1, <1>2, <1>3 DEF IssuedInv
    <2>2. ASSUME NEW o \in emitting' \cup UNION {F!Elements(entered[h]) : h \in Clients}, o.event \in Codes
          PROVE  o.by \in Calls /\ pc[o.by] \notin {"new", "accepted"} /\ source'[o.event] = target[o.by]
      <3>1. CASE o = m
        BY <1>1, <1>2, <3>1
      <3>2. CASE o # m
        <4>1. o \in emitting \cup UNION {F!Elements(entered[h]) : h \in Clients}
          BY <1>1, <2>2, <3>2
        <4>2. source[o.event] # Null
          BY <4>1, Sourced DEF F!Elements
        <4>3. o.by \in Calls /\ pc[o.by] \notin {"new", "accepted"} /\ source[o.event] = target[o.by]
          BY <2>2, <4>1 DEF IssuedInv
        <4> QED BY <1>1, <1>2, <2>2, <4>2, <4>3
      <3> QED BY <3>1, <3>2
    <2> QED BY <1>1, <2>1, <2>2 DEF IssuedInv, F!Elements
  <1>5. \A g \in Clients : \A j \in DOMAIN entered[g] : CodeOf(entered[g][j], c) => entered[g][j].event < e
    <2> SUFFICES ASSUME NEW g \in Clients, NEW j \in DOMAIN entered[g], CodeOf(entered[g][j], c)
                 PROVE  entered[g][j].event < e
      OBVIOUS
    <2>1. PICK k \in Codes : k = entered[g][j].event
      BY DEF CodeOf
    <2>2. source[k] # Null
      BY <2>1, Sourced
    <2>3. ~(e < k)
      BY <1>1, <2>2 DEF IssuedInv
    <2>4. k # e /\ k \in Nat /\ e \in Nat
      BY <1>1, <2>2, CodesAssumption
    <2> QED BY <2>1, <2>3, <2>4
  <1>6. CodesInv'
    <2> SUFFICES ASSUME NEW d \in Calls
                 PROVE  /\ \A x, y \in emitting' : CodeOf(x, d) /\ CodeOf(y, d) => x = y
                        /\ \A g \in Clients : \A j \in DOMAIN entered[g] : CodeOf(entered[g][j], d) =>
                              /\ \A x \in emitting' : CodeOf(x, d) => entered[g][j].event < x.event
                              /\ \A k \in DOMAIN entered[g] : j < k /\ CodeOf(entered[g][k], d) =>
                                    entered[g][j].event < entered[g][k].event
      BY <1>1 DEF CodesInv, CodeOf
    <2>1. CodeOf(m, d) => d = c
      BY <1>1 DEF CodeOf
    <2>2. \A x, y \in emitting' : CodeOf(x, d) /\ CodeOf(y, d) => x = y
      BY <1>1, <2>1 DEF CodesInv
    <2>3. \A g \in Clients : \A j \in DOMAIN entered[g] : CodeOf(entered[g][j], d) =>
             /\ \A x \in emitting' : CodeOf(x, d) => entered[g][j].event < x.event
             /\ \A k \in DOMAIN entered[g] : j < k /\ CodeOf(entered[g][k], d) =>
                   entered[g][j].event < entered[g][k].event
      BY <1>1, <1>5, <2>1 DEF CodesInv
    <2> QED BY <2>2, <2>3
  <1> QED BY <1>4, <1>6

(* A code enters the channel behind the codes of its call. *)
LEMMA emitEventCodes ==
    ASSUME Inv, IssuedInv, CodesInv, NEW m \in emitting, emitEvent(m)
    PROVE  IssuedInv' /\ CodesInv'
  <1>1. PICK g \in Clients : g = source[m.event]
    BY DEF Inv, SourceInv, Copies
  <1>2. /\ emitting' = emitting \ {m} /\ UNCHANGED <<source, pc, target>>
        /\ entered' = [entered EXCEPT ![g] = Append(entered[g], m)] \/ entered' = entered
    BY <1>1 DEF emitEvent, Enter, GivesUp, sessionVars
  <1>3. /\ entered \in [Clients -> Seq(Copies)] /\ m \in Copies
    BY DEF Inv, ChannelInv, SourceInv
  <1>4. \A h \in Clients : \A j \in DOMAIN entered'[h] :
           \/ j \in DOMAIN entered[h] /\ entered'[h][j] = entered[h][j]
           \/ entered'[h][j] = m /\ j = Len(entered[h]) + 1
    <2>1. CASE entered' = entered
      BY <2>1
    <2>2. CASE entered' = [entered EXCEPT ![g] = Append(entered[g], m)]
      <3>1. ASSUME NEW h \in Clients, NEW j \in DOMAIN entered'[h]
            PROVE  \/ j \in DOMAIN entered[h] /\ entered'[h][j] = entered[h][j]
                   \/ entered'[h][j] = m /\ j = Len(entered[h]) + 1
        <4>1. CASE h # g
          BY <1>3, <2>2, <4>1
        <4>2. CASE h = g
          <5>1. entered'[h] = Append(entered[h], m) /\ entered[h] \in Seq(Copies)
            BY <1>3, <2>2, <4>2
          <5>2. /\ DOMAIN entered'[h] = 1..Len(entered[h]) + 1 /\ Len(entered[h]) \in Nat
                /\ DOMAIN entered[h] = 1..Len(entered[h])
                /\ entered'[h][Len(entered[h]) + 1] = m
                /\ \A i \in 1..Len(entered[h]) : entered'[h][i] = entered[h][i]
            BY <1>3, <5>1
          <5> QED BY <5>2
        <4> QED BY <4>1, <4>2
      <3> QED BY <3>1
    <2> QED BY <1>2, <2>1, <2>2
  <1>5. IssuedInv'
    <2>1. ASSUME NEW o, o.event \in Codes,
                 o \in emitting' \/ \E h \in Clients : \E k \in DOMAIN entered'[h] : entered'[h][k] = o
          PROVE  o.by \in Calls /\ pc[o.by] \notin {"new", "accepted"} /\ source[o.event] = target[o.by]
      <3>1. o \in emitting \/ \E h \in Clients : \E k \in DOMAIN entered[h] : entered[h][k] = o
        BY <1>2, <1>4, <2>1
      <3> QED BY <2>1, <3>1, IssuedFacts
    <2> QED BY <1>2, <2>1 DEF IssuedInv, F!Elements
  <1>6. CodesInv'
    <2> SUFFICES ASSUME NEW d \in Calls
                 PROVE  /\ \A x, y \in emitting' : CodeOf(x, d) /\ CodeOf(y, d) => x = y
                        /\ \A h \in Clients : \A j \in DOMAIN entered'[h] : CodeOf(entered'[h][j], d) =>
                              /\ \A x \in emitting' : CodeOf(x, d) => entered'[h][j].event < x.event
                              /\ \A k \in DOMAIN entered'[h] : j < k /\ CodeOf(entered'[h][k], d) =>
                                    entered'[h][j].event < entered'[h][k].event
      BY DEF CodesInv, CodeOf
    <2>1. \A x, y \in emitting' : CodeOf(x, d) /\ CodeOf(y, d) => x = y
      BY <1>2 DEF CodesInv
    <2>2. ASSUME NEW h \in Clients, NEW j \in DOMAIN entered'[h], CodeOf(entered'[h][j], d),
                 NEW x \in emitting', CodeOf(x, d)
          PROVE  entered'[h][j].event < x.event
      <3>1. entered'[h][j] # m
        BY <1>2, <2>2 DEF CodesInv
      <3> QED BY <1>2, <1>4, <2>2, <3>1 DEF CodesInv
    <2>3. ASSUME NEW h \in Clients, NEW j \in DOMAIN entered'[h], CodeOf(entered'[h][j], d),
                 NEW k \in DOMAIN entered'[h], j < k, CodeOf(entered'[h][k], d)
          PROVE  entered'[h][j].event < entered'[h][k].event
      <3>0. DOMAIN entered[h] = 1..Len(entered[h]) /\ Len(entered[h]) \in Nat
        BY <1>3
      <3>1. j \in DOMAIN entered[h] /\ entered'[h][j] = entered[h][j]
        <4>1. CASE j = Len(entered[h]) + 1
          <5>1. k \in DOMAIN entered[h] \/ k = Len(entered[h]) + 1
            BY <1>4
          <5> QED BY <2>3, <3>0, <4>1, <5>1
        <4> QED BY <1>4, <4>1
      <3>2. CASE k \in DOMAIN entered[h] /\ entered'[h][k] = entered[h][k]
        BY <2>3, <3>1, <3>2 DEF CodesInv
      <3>3. CASE entered'[h][k] = m
        BY <2>3, <3>1, <3>3 DEF CodesInv
      <3> QED BY <1>4, <3>2, <3>3
    <2> QED BY <2>1, <2>2, <2>3
  <1> QED BY <1>5, <1>6

(* Every step keeps the codes of a call in the order they were issued in. *)
LEMMA CodesNext == Inv /\ IssuedInv /\ CodesInv /\ [Next]_vars => IssuedInv' /\ CodesInv'
  <1> SUFFICES ASSUME Inv, IssuedInv, CodesInv, [Next]_vars PROVE IssuedInv' /\ CodesInv'
    OBVIOUS
  <1>1. ASSUME UNCHANGED <<source, emitting, entered>>, [M!Next]_sessionVars PROVE IssuedInv' /\ CodesInv'
    <2>1. ASSUME NEW c \in Calls, pc[c] \notin {"new", "accepted"}
          PROVE  target'[c] = target[c] /\ pc'[c] \notin {"new", "accepted"}
      <3>1. MP!NullAssumption
        BY NothingAssumption DEF MP!NullAssumption
      <3>2. [MP!Next]_(MP!vars)
        BY <1>1, Manager
      <3> QED BY <2>1, <3>1, <3>2, MP!TargetStays DEF Inv, Kept
    <2>2. IssuedInv'
      BY <1>1, <2>1 DEF IssuedInv, F!Elements
    <2>3. CodesInv'
      BY <1>1 DEF CodesInv, CodeOf
    <2> QED BY <2>2, <2>3
  <1>2. CASE Lifecycle
    BY <1>1, <1>2 DEF Lifecycle, channelVars
  <1>3. ASSUME NEW g \in Clients, NEW e \in Events, handleEvent(g, e) \/ SendMessage(g, e)
        PROVE  IssuedInv' /\ CodesInv'
    <2>1. PICK copies \in SUBSET Copies : (\A m \in copies : m.event = e) /\ Reissue(g, e, copies)
      BY <1>3, Reissues
    <2> QED BY <2>1, ReissueCodes
  <1>4. ASSUME NEW c \in Calls, PumpReceives(c) PROVE IssuedInv' /\ CodesInv'
    BY <1>1, <1>4 DEF PumpReceives
  <1>5. CASE Fanout
    BY <1>1, <1>5 DEF Fanout, channelVars
  <1>6. CASE UNCHANGED vars
    BY <1>1, <1>6 DEF vars, channelVars
  <1> QED BY <1>2, <1>3, QRCodeCodes, emitEventCodes, <1>4, <1>5, <1>6 DEF Next

(* As long as one pump serves the client, the codes of a start reach a stream in
   the order in which that start issued them.                              *)
THEOREM CodesInOrder == Spec => []CodesArriveInOrder
  <1>1. ASSUME Inv, OrderInv, IssuedInv, CodesInv PROVE CodesArriveInOrder
    <2> SUFFICES ASSUME NEW s \in Streams,
                        NEW j \in DOMAIN (got[s] \o buf[s]), NEW k \in DOMAIN (got[s] \o buf[s]), j < k,
                        {(got[s] \o buf[s])[j].event, (got[s] \o buf[s])[k].event} \subseteq Codes,
                        (got[s] \o buf[s])[j].by = (got[s] \o buf[s])[k].by,
                        OnePump(source[(got[s] \o buf[s])[j].event])
                 PROVE  (got[s] \o buf[s])[j].event < (got[s] \o buf[s])[k].event
      BY DEF CodesArriveInOrder
    <2>1. PICK x, y : x = (got[s] \o buf[s])[j] /\ y = (got[s] \o buf[s])[k]
      OBVIOUS
    <2>2. /\ x.event \in Codes /\ y.event \in Codes /\ x.by = y.by /\ OnePump(source[x.event])
          /\ Follows(x, y)
      BY <1>1, <2>1 DEF OrderInv, InOrder
    <2>3. \A z \in {x, y} : /\ z \in Copies /\ sentTo[z] # Null /\ source[z.event] \in Clients
      BY <1>1, <2>1, HeldFacts
    <2>4. \A z \in {x, y} : \E g \in Clients : \E i \in DOMAIN entered[g] : entered[g][i] = z
      <3>1. ASSUME NEW z \in {x, y} PROVE \E g \in Clients : \E i \in DOMAIN entered[g] : entered[g][i] = z
        <4>1. PICK i \in 1..taken[source[z.event]] : entered[source[z.event]][i] = z
          BY <1>1, <2>3 DEF OrderInv, TakenInv
        <4>2. i \in DOMAIN entered[source[z.event]]
          BY <1>1, <2>3, <4>1 DEF Inv, ChannelInv
        <4> QED BY <2>3, <4>1, <4>2
      <3> QED BY <3>1
    <2>5. source[x.event] = source[y.event] /\ x.by \in Calls
      BY <1>1, <2>2, <2>4, IssuedFacts
    <2>6. PICK g \in Clients : g = source[x.event]
      BY <2>3
    <2>7. PICK a, b \in DOMAIN entered[g] : a < b /\ entered[g][a] = x /\ entered[g][b] = y
      BY <2>2, <2>5, <2>6 DEF Follows
    <2> QED BY <1>1, <2>1, <2>2, <2>5, <2>7 DEF CodesInv, CodeOf
  <1>2. Spec => [](IssuedInv /\ CodesInv)
    BY CodesInit, CodesNext, InvNext, Invariance, PTL DEF Spec
  <1> QED BY <1>1, <1>2, Invariance, OrderInvariance, PTL
=============================================================================

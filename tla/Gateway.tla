------------------------------- MODULE Gateway -------------------------------
(***************************************************************************)
(* The way of an event from the WhatsApp library to the gRPC streams: the  *)
(* session lifecycle of Sessions and the fan-out of EventStream, joined by *)
(* the events channel of each client (gows/gows.go) and by the pump        *)
(* goroutines StartSession spawns (server/session.go), which are the       *)
(* senders of EventStream.                                                 *)
(*                                                                         *)
(* Every AddEventHandler makes one more goroutine per event, each copy in  *)
(* a goroutine of its own (reissueEvent, then emitEvent), so copies enter  *)
(* the channel in any order and may still be on their way after Stop.      *)
(***************************************************************************)
EXTENDS Naturals, Sequences, FiniteSets

CONSTANTS Names, Clients, Calls, Null,
          Streams, ListenerCapacity,
          Events,         \* what the library hands to the event handlers
          Codes,          \* QR codes, numbered in the order they are issued
          LinkedDevices,  \* a bound: only devices that are and stay paired
          ChanCapacity    \* of the events channel (10)

ASSUME ChanAssumption == {ChanCapacity, ListenerCapacity} \subseteq Nat \ {0}
ASSUME CodesAssumption == Codes \subseteq Nat /\ Events \cap Codes = {}

VARIABLES
    sessions, lock, owner, stage, proxied, connected, handlers, paired,
    pc, name, pump, target, qr,
    listeners, state, topic, buf, got, item, snap, todo, sentTo, lost, crashed,
    source,     \* the client an event came from, Null before it comes
    emitting,   \* the copies whose goroutine has not left emitEvent
    entered,    \* what entered a client's events channel, in order
    taken,      \* how much of it the pumps have received
    takers      \* history: the calls whose pump received from the client

(* A copy of an event: `by` is the registration that reissues it, or Null for
   the copy SendMessage makes of the message it sent.                      *)
Copies == [event : Events \cup Codes, by : Calls \cup {Null}]

ASSUME NothingAssumption == Null \notin Names \cup Clients \cup Calls \cup Copies

M == INSTANCE Sessions
F == INSTANCE EventStream WITH
        Senders <- Calls, Items <- Copies, Unmarshalable <- {},
        Capacity <- ListenerCapacity

sessionVars == <<sessions, lock, owner, stage, proxied, connected, handlers,
                 paired, pc, name, pump, target, qr>>
fanoutVars == <<listeners, state, topic, buf, got, item, snap, todo,
                sentTo, lost, crashed>>
channelVars == <<source, emitting, entered, taken, takers>>
vars == <<sessionVars, fanoutVars, channelVars>>

chan(g) == SubSeq(entered[g], taken[g] + 1, Len(entered[g]))
Pumped(g) == \E c \in Calls : pump[c] = g
\* mutation: every code gets a goroutine of its own
NoOwnCodes(c) == {}

\* The codes the QR goroutine of call c is busy emitting.
OwnCodes(c) == {m \in emitting : m.event \in Codes /\ m.by = c}

Init ==
    /\ M!Init /\ F!Init
    /\ LinkedDevices => paired = [n \in Names |-> TRUE]
    /\ source = [e \in Events \cup Codes |-> Null]
    /\ emitting = {}
    /\ entered = [g \in Clients |-> <<>>]
    /\ taken = [g \in Clients |-> 0]
    /\ takers = [g \in Clients |-> {}]

PumpMayEnd(c) == item[c] = Null /\ chan(pump[c]) = <<>>

(***************************************************************************)
(* A lifecycle step.  A pump leaves its range loop only between two events *)
(* and with the closed channel drained; a QR goroutine does not look at    *)
(* its channels while it is inside emitEvent.                              *)
(***************************************************************************)
Lifecycle ==
    /\ ~crashed
    /\ M!Next
    /\ LinkedDevices => paired' = paired
    /\ \A c \in Calls :
         /\ pump[c] # Null /\ pump'[c] = Null => PumpMayEnd(c)
         /\ qr[c] # "none" /\ qr'[c] = "none" => OwnCodes(c) = {}
    /\ UNCHANGED <<fanoutVars, channelVars>>

\* Whatever the library hands over is reissued, also what it received before a
\* disconnect and dispatches after it: nothing asks for the state of the client.
Reissue(g, e, copies) ==
    /\ ~crashed
    /\ stage[g] # "unbuilt"
    /\ source[e] = Null
    /\ source' = [source EXCEPT ![e] = g]
    /\ emitting' = emitting \cup copies
    /\ UNCHANGED <<sessionVars, fanoutVars, entered, taken, takers>>

\* The library dispatches e to every registered handler.
handleEvent(g, e) ==
    Reissue(g, e, {[event |-> e, by |-> c] : c \in handlers[g]})

\* SendMessage: `go gows.handleEvent(evt)` with the message it has just sent.
SendMessage(g, e) == Reissue(g, e, {[event |-> e, by |-> Null]})

\* listenQRCodeEvents: one code at a time.
QRCode(c, e) ==
    /\ qr[c] = "reading"
    /\ OwnCodes(c) = {}
    /\ \A k \in Codes : k < e => source[k] # Null
    /\ Reissue(target[c], e, {[event |-> e, by |-> c]})

HasRoom(g) == Len(chan(g)) < ChanCapacity

Enter(g, m) == /\ ~M!EventsClosed(g)
               /\ HasRoom(g)
               /\ entered' = [entered EXCEPT ![g] = Append(@, m)]

\* mutation: Stop sets the channel to nil, on which a send waits forever
NeverGivesUp(g) == FALSE

\* The send on a closed channel panics and is recovered; when the context is
\* done the copy is given up.
GivesUp(g) == M!EventsClosed(g) /\ UNCHANGED entered

emitEvent(m) ==
    LET g == source[m.event] IN
    /\ ~crashed
    /\ m \in emitting
    /\ emitting' = emitting \ {m}
    /\ Enter(g, m) \/ GivesUp(g)
    /\ UNCHANGED <<sessionVars, fanoutVars, source, taken, takers>>

\* mutation: all pumps share one label
SharedLabel(c) == CHOOSE n \in Names : TRUE

\* The session the pump of call c sends under: that of its StartSession.
Label(c) == name[c]

\* The pump of call c receives the next event and starts to fan it out under
\* the name of the call.
PumpReceives(c) ==
    LET g == pump[c] IN
    /\ g # Null
    /\ chan(g) # <<>>
    /\ F!BeginSend(c, Label(c), Head(chan(g)))
    /\ taken' = [taken EXCEPT ![g] = @ + 1]
    /\ takers' = [takers EXCEPT ![g] = @ \cup {c}]
    /\ UNCHANGED <<sessionVars, source, emitting, entered>>

Fanout ==
    /\ \/ \E s \in Streams :
             \/ \E n \in Names : F!addListener(s, n)
             \/ F!ClientGone(s) \/ F!StreamStep(s)
       \/ \E c \in Calls : F!SendStep(c)
    /\ UNCHANGED <<sessionVars, channelVars>>

Next ==
    \/ Lifecycle
    \/ \E g \in Clients, e \in Events : handleEvent(g, e) \/ SendMessage(g, e)
    \/ \E c \in Calls, e \in Codes : QRCode(c, e)
    \/ \E m \in emitting : emitEvent(m)
    \/ \E c \in Calls : PumpReceives(c)
    \/ Fanout

Spec == Init /\ [][Next]_vars

(* The goroutines of the process run.  Nothing makes clients call, stop or
   subscribe, and nothing makes WhatsApp send.                             *)
FairSpec ==
    /\ Spec
    /\ \A m \in Copies : WF_vars(emitEvent(m))
    /\ \A c \in Calls : WF_vars(PumpReceives(c))
    /\ \A c \in Calls : WF_vars(F!SendStep(c) /\ UNCHANGED <<sessionVars, channelVars>>)

-----------------------------------------------------------------------------
(* A stream only ever receives what a client of the session it subscribed to
   reissued, however often sessions are stopped, rebuilt and started by
   starts that were meant for an earlier client.                           *)
OwnSessionOnly ==
    \A s \in Streams : \A m \in F!Elements(got[s] \o buf[s]) :
        owner[source[m.event]] = topic[s]

Position(g, m) == CHOOSE k \in DOMAIN entered[g] : entered[g][k] = m

(* Every event of the client was received by one and the same pump. *)
OnePump(g) == \A c, d \in takers[g] : c = d

(* As long as one pump serves a client its events reach every stream in the
   order they entered the channel.  A second StartSession adds a second pump
   to the same channel, and with it this order is gone.                    *)
OnePumpKeepsOrder ==
    \A g \in Clients, s \in Streams : OnePump(g) =>
        LET all == got[s] \o buf[s]
        IN  \A j, k \in DOMAIN all :
                j < k /\ source[all[j].event] = g /\ source[all[k].event] = g
                => Position(g, all[j]) < Position(g, all[k])

(* No code of a start overtakes a newer one of the same start on the way to a
   stream, as long as one pump serves the client.  A second StartSession adds a
   second pump: then codes of one start, and of different starts, may arrive in
   any order.                                                              *)
CodesArriveInOrder ==
    \A s \in Streams :
        LET all == got[s] \o buf[s]
        IN  \A j, k \in DOMAIN all :
                /\ j < k
                /\ {all[j].event, all[k].event} \subseteq Codes
                /\ all[j].by = all[k].by
                /\ OnePump(source[all[j].event])
                => all[j].event < all[k].event

EmittersFinish ==
    \A g \in Clients, m \in Copies :
        (m \in emitting /\ source[m.event] = g /\ (Pumped(g) \/ M!EventsClosed(g)))
            ~> (m \notin emitting \/ crashed)

ChannelIsDrained ==
    \A g \in Clients, m \in Copies :
        (m \in F!Elements(chan(g)) /\ Pumped(g))
            ~> (m \notin F!Elements(chan(g)) \/ crashed)

(* No event is stuck between emitEvent and the fan-out.  As long as a pump
   serves the client a copy gets into the channel, and when Stop has closed the
   channel it is given up; what entered while a pump serves the channel is
   handed on, also when Stop closes it first, as range drains a closed channel.
   (A client left behind by a failed SetProxyAddress has no pump: see README.) *)
NothingIsStuck == EmittersFinish /\ ChannelIsDrained
=============================================================================

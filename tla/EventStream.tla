----------------------------- MODULE EventStream -----------------------------
(***************************************************************************)
(* The fan-out of session events to gRPC streams (server/events.go).       *)
(*                                                                         *)
(* A stream is one StreamEvents call: it registers a buffered channel,     *)
(* forwards what arrives there and, when its client goes away or Send      *)
(* fails, unregisters and closes the channel.  A sender is a goroutine in  *)
(* SendEventToAllListeners: it copies the listeners of the session under   *)
(* the read lock and then sends WITHOUT it, so a stream may close its      *)
(* channel in between.  A send on a closed channel panics in a goroutine   *)
(* nothing recovers in: the process dies.                                  *)
(***************************************************************************)
EXTENDS Naturals, Sequences

CONSTANTS Names,          \* session names
          Streams,        \* StreamEvents calls, each with a fresh uuid
          Senders,        \* goroutines that send session events
          Items,          \* events
          Unmarshalable,  \* the events safeMarshal turns into ""
          Capacity,       \* of a listener channel (100)
          Null            \* no session, no event

ASSUME CapacityAssumption == Capacity \in Nat \ {0}
ASSUME ItemsAssumption == Unmarshalable \subseteq Items /\ Null \notin Names \cup Items

VARIABLES
    listeners,   \* session -> the registered streams
    state,       \* of a stream: "new", "open", "leaving" or "closed"
    topic,       \* the session of a stream
    buf,         \* the listener channel of a stream
    got,         \* what the stream's client received
    item,        \* the event a sender is delivering, or Null
    snap,        \* the listeners the sender copied
    todo,        \* those of them it has not reached yet
    sentTo,      \* history: the session an event was sent to
    lost,        \* history: what reached a stream and not its client
    crashed      \* the process died

history == <<sentTo, lost>>
senderVars == <<item, snap, todo>>
streamVars == <<listeners, state, topic, buf, got>>
vars == <<streamVars, senderVars, history, crashed>>

Init ==
    /\ listeners = [n \in Names |-> {}]
    /\ state = [s \in Streams |-> "new"]
    /\ topic = [s \in Streams |-> Null]
    /\ buf = [s \in Streams |-> <<>>]
    /\ got = [s \in Streams |-> <<>>]
    /\ item = [p \in Senders |-> Null]
    /\ snap = [p \in Senders |-> {}]
    /\ todo = [p \in Senders |-> {}]
    /\ sentTo = [x \in Items |-> Null]
    /\ lost = [s \in Streams |-> {}]
    /\ crashed = FALSE

Alive == ~crashed /\ UNCHANGED crashed

\* Does `ch <- event` find room, or is the default branch taken?
HasRoom(s) == Len(buf[s]) < Capacity

\* mutation: the buffer is read from the wrong end
PushFront(q, x) == <<x>> \o q

Enqueue(q, x) == Append(q, x)

Lose(s, x) == lost' = [lost EXCEPT ![s] = @ \cup {x}]

-----------------------------------------------------------------------------
(* StreamEvents.  A client may subscribe to a session that does not exist. *)
addListener(s, n) ==
    /\ Alive
    /\ state[s] = "new"
    /\ state' = [state EXCEPT ![s] = "open"]
    /\ topic' = [topic EXCEPT ![s] = n]
    /\ listeners' = [listeners EXCEPT ![n] = @ \cup {s}]
    /\ UNCHANGED <<buf, got, senderVars, history>>

\* `case event := <-listener`: what cannot be marshalled is skipped, a Send
\* that fails loses the event and ends the loop.
Forward(s) ==
    /\ Alive
    /\ state[s] = "open"
    /\ buf[s] # <<>>
    /\ buf' = [buf EXCEPT ![s] = Tail(@)]
    /\ IF Head(buf[s]) \in Unmarshalable
       THEN Lose(s, Head(buf[s])) /\ UNCHANGED <<got, state>>
       ELSE \/ /\ got' = [got EXCEPT ![s] = Append(@, Head(buf[s]))]
               /\ UNCHANGED <<state, lost>>
            \/ /\ state' = [state EXCEPT ![s] = "leaving"]
               /\ Lose(s, Head(buf[s])) /\ UNCHANGED got
    /\ UNCHANGED <<listeners, topic, senderVars, sentTo>>

\* `case <-stream.Context().Done()`
ClientGone(s) ==
    /\ Alive
    /\ state[s] = "open"
    /\ state' = [state EXCEPT ![s] = "leaving"]
    /\ UNCHANGED <<listeners, topic, buf, got, senderVars, history>>

\* mutation: the channel is closed and stays in the map
KeepRegistered(s) == UNCHANGED listeners

Unregister(s) == listeners' = [listeners EXCEPT ![topic[s]] = @ \ {s}]

\* The deferred call: delete and close under the write lock.
removeListener(s) ==
    /\ Alive
    /\ state[s] = "leaving"
    /\ Unregister(s)
    /\ state' = [state EXCEPT ![s] = "closed"]
    /\ UNCHANGED <<topic, buf, got, senderVars, history>>

-----------------------------------------------------------------------------
(* SendEventToAllListeners(n, x) *)
\* mutation: the listeners of all sessions
allListeners(n) == UNION {listeners[m] : m \in Names}

getListeners(n) == listeners[n]

\* getListeners, under the read lock.  Each event is sent once.
BeginSend(p, n, x) ==
    /\ Alive
    /\ item[p] = Null
    /\ sentTo[x] = Null
    /\ sentTo' = [sentTo EXCEPT ![x] = n]
    /\ item' = [item EXCEPT ![p] = x]
    /\ snap' = [snap EXCEPT ![p] = getListeners(n)]
    /\ todo' = [todo EXCEPT ![p] = getListeners(n)]
    /\ UNCHANGED <<streamVars, lost>>

\* mutation: the send waits for room
SendWaits(p, s) == s \in todo[p] /\ HasRoom(s)

Sends(p, s) == s \in todo[p]

\* mutation: a full listener ends the loop
StopAtFull(p, s) == IF HasRoom(s) THEN todo[p] \ {s} ELSE {}

\* The listeners left when s has had its turn.
Others(p, s) == todo[p] \ {s}

\* The non-blocking send to the next listener of the copy (Go iterates over a
\* map in any order).
SendOne(p, s) ==
    /\ ~crashed
    /\ Sends(p, s)
    /\ crashed' = (state[s] = "closed")
    /\ todo' = [todo EXCEPT ![p] = Others(p, s)]
    /\ IF HasRoom(s)
       THEN buf' = [buf EXCEPT ![s] = Enqueue(@, item[p])] /\ UNCHANGED lost
       ELSE Lose(s, item[p]) /\ UNCHANGED buf
    /\ UNCHANGED <<listeners, state, topic, got, item, snap, sentTo>>

EndSend(p) ==
    /\ Alive
    /\ item[p] # Null
    /\ todo[p] = {}
    /\ item' = [item EXCEPT ![p] = Null]
    /\ snap' = [snap EXCEPT ![p] = {}]
    /\ UNCHANGED <<streamVars, todo, history>>

StreamStep(s) == Forward(s) \/ removeListener(s)

SendStep(p) == EndSend(p) \/ \E s \in Streams : SendOne(p, s)

Next ==
    \/ \E s \in Streams :
          (\E n \in Names : addListener(s, n)) \/ ClientGone(s) \/ StreamStep(s)
    \/ \E p \in Senders :
          (\E n \in Names, x \in Items : BeginSend(p, n, x)) \/ SendStep(p)

Spec == Init /\ [][Next]_vars

(* The goroutines of the server run; clients need not subscribe or leave,
   and a stream.Send that takes forever is a Forward that is not taken.    *)
FairSpec ==
    /\ Spec
    /\ \A p \in Senders : WF_vars(SendStep(p))

-----------------------------------------------------------------------------
Elements(q) == {q[k] : k \in DOMAIN q}

TypeOK ==
    /\ listeners \in [Names -> SUBSET Streams]
    /\ state \in [Streams -> {"new", "open", "leaving", "closed"}]
    /\ topic \in [Streams -> Names \cup {Null}]
    /\ buf \in [Streams -> Seq(Items)] /\ \A s \in Streams : Len(buf[s]) <= Capacity
    /\ got \in [Streams -> Seq(Items)]
    /\ item \in [Senders -> Items \cup {Null}]
    /\ snap \in [Senders -> SUBSET Streams]
    /\ todo \in [Senders -> SUBSET Streams]
    /\ sentTo \in [Items -> Names \cup {Null}]
    /\ lost \in [Streams -> SUBSET Items]
    /\ crashed \in BOOLEAN

(* A stream is registered exactly while its channel may be sent on, under the
   one session it subscribed to: neither a leak of dead listeners nor a closed
   channel that later sends would find.                                    *)
RegisteredIffOpen ==
    \A s \in Streams, n \in Names :
        s \in listeners[n] <=> state[s] \in {"open", "leaving"} /\ topic[s] = n

(* A stream receives events of its own session only, and no event twice.  *)
OwnEventsOnce ==
    \A s \in Streams :
        LET all == got[s] \o buf[s] IN
        /\ \A x \in Elements(all) : sentTo[x] = topic[s]
        /\ \A j, k \in DOMAIN all : all[j] = all[k] => j = k

(* One slow or failing stream costs the others nothing: whatever the sender
   has worked off its copy has been delivered, is buffered, or was lost to
   that very stream.                                                       *)
NobodySkipped ==
    \A p \in Senders : item[p] # Null =>
        \A s \in snap[p] \ todo[p] :
            item[p] \in Elements(buf[s] \o got[s]) \cup lost[s]

(* "Drop the event if the listener buffer is full to avoid blocking" (line
   64): the sender, and so the pump of the session, always comes back,
   whether the streams read or not - unless the process dies under it.     *)
SenderReturns ==
    \A p \in Senders : item[p] # Null ~> item[p] = Null \/ crashed

=============================================================================

------------------------- MODULE EventStreamProofs -------------------------
(***************************************************************************)
(* The safety of the fan-out, for any number of sessions, streams, senders *)
(* and events and any capacity.  What a stream holds is compared with what *)
(* the senders have sent and have yet to send: an event on its way to a    *)
(* stream is not there yet, one that has been sent is there or was lost.   *)
(***************************************************************************)
EXTENDS EventStream, TLAPS

Distinct(q) == \A j, k \in DOMAIN q : q[j] = q[k] => j = k

(* What a sequence contains after the operations the streams use. *)
LEMMA ElementsConcat ==
    ASSUME NEW S, NEW a \in Seq(S), NEW b \in Seq(S)
    PROVE  Elements(a \o b) = Elements(a) \cup Elements(b)
  <1>1. ASSUME NEW x \in Elements(a \o b) PROVE x \in Elements(a) \cup Elements(b)
    <2>1. PICK k \in DOMAIN (a \o b) : x = (a \o b)[k]
      BY DEF Elements
    <2>2. CASE k <= Len(a)
      BY <2>1, <2>2 DEF Elements
    <2>3. CASE k > Len(a)
      <3>1. k - Len(a) \in DOMAIN b /\ x = b[k - Len(a)]
        BY <2>1, <2>3
      <3> QED BY <3>1 DEF Elements
    <2> QED BY <2>1, <2>2, <2>3
  <1>2. ASSUME NEW x \in Elements(a) PROVE x \in Elements(a \o b)
    <2>1. PICK k \in DOMAIN a : x = a[k]
      BY DEF Elements
    <2>2. k \in DOMAIN (a \o b) /\ (a \o b)[k] = x
      BY <2>1
    <2> QED BY <2>2 DEF Elements
  <1>3. ASSUME NEW x \in Elements(b) PROVE x \in Elements(a \o b)
    <2>1. PICK k \in DOMAIN b : x = b[k]
      BY DEF Elements
    <2>2. Len(a) + k \in DOMAIN (a \o b) /\ (a \o b)[Len(a) + k] = x
      BY <2>1
    <2> QED BY <2>2 DEF Elements
  <1> QED BY <1>1, <1>2, <1>3

(* An item that enters a buffer joins its elements. *)
LEMMA AppendElements ==
    ASSUME NEW S, NEW a \in Seq(S), NEW x \in S
    PROVE  /\ Elements(Append(a, x)) = Elements(a) \cup {x}
           /\ Distinct(a) /\ x \notin Elements(a) => Distinct(Append(a, x))
  <1>1. /\ DOMAIN Append(a, x) = DOMAIN a \cup {Len(a) + 1}
        /\ Append(a, x)[Len(a) + 1] = x
        /\ \A k \in DOMAIN a : Append(a, x)[k] = a[k]
    OBVIOUS
  <1>2. Elements(Append(a, x)) = Elements(a) \cup {x}
    BY <1>1 DEF Elements
  <1>3. ASSUME Distinct(a), x \notin Elements(a) PROVE Distinct(Append(a, x))
    BY <1>1, <1>3 DEF Distinct, Elements
  <1> QED BY <1>2, <1>3

(* A buffer is its head and the rest. *)
LEMMA HeadTailElements ==
    ASSUME NEW S, NEW b \in Seq(S), b # <<>>
    PROVE  /\ Head(b) \in S /\ Tail(b) \in Seq(S)
           /\ Elements(b) = {Head(b)} \cup Elements(Tail(b))
           /\ Distinct(b) => Distinct(Tail(b)) /\ Head(b) \notin Elements(Tail(b))
  <1>1. /\ Head(b) \in S /\ Tail(b) \in Seq(S)
        /\ Head(b) = b[1] /\ 1 \in DOMAIN b
        /\ \A k \in DOMAIN Tail(b) : k \in Nat \ {0} /\ k + 1 \in DOMAIN b /\ Tail(b)[k] = b[k + 1]
        /\ \A k \in DOMAIN b : k # 1 => k - 1 \in DOMAIN Tail(b) /\ Tail(b)[k - 1] = b[k]
    OBVIOUS
  <1>2. Elements(b) \subseteq {Head(b)} \cup Elements(Tail(b))
    BY <1>1 DEF Elements
  <1>3. {Head(b)} \cup Elements(Tail(b)) \subseteq Elements(b)
    BY <1>1 DEF Elements
  <1>4. ASSUME Distinct(b) PROVE Distinct(Tail(b)) /\ Head(b) \notin Elements(Tail(b))
    BY <1>1, <1>4 DEF Distinct, Elements
  <1> QED BY <1>1, <1>2, <1>3, <1>4

(* Two buffers without repetition and nothing in common, one after the other. *)
LEMMA DistinctConcat ==
    ASSUME NEW S, NEW a \in Seq(S), NEW b \in Seq(S),
           Distinct(a), Distinct(b), Elements(a) \cap Elements(b) = {}
    PROVE  Distinct(a \o b)
  <1>1. SUFFICES ASSUME NEW j \in DOMAIN (a \o b), NEW k \in DOMAIN (a \o b),
                        (a \o b)[j] = (a \o b)[k]
                 PROVE  j = k
    BY DEF Distinct
  <1>2. /\ j \in 1 .. Len(a) + Len(b) /\ k \in 1 .. Len(a) + Len(b)
        /\ \A i \in 1 .. Len(a) : (a \o b)[i] = a[i]
        /\ \A i \in Len(a) + 1 .. Len(a) + Len(b) :
              i - Len(a) \in 1 .. Len(b) /\ (a \o b)[i] = b[i - Len(a)]
        /\ DOMAIN a = 1 .. Len(a) /\ DOMAIN b = 1 .. Len(b)
        /\ Len(a) \in Nat /\ Len(b) \in Nat
    OBVIOUS
  <1>3. CASE j <= Len(a) /\ k <= Len(a)
    BY <1>1, <1>2, <1>3 DEF Distinct
  <1>4. CASE j > Len(a) /\ k > Len(a)
    <2>1. j - Len(a) = k - Len(a)
      BY <1>1, <1>2, <1>4 DEF Distinct
    <2> QED BY <1>2, <2>1
  <1>5. ASSUME NEW i \in 1 .. Len(a), NEW l \in Len(a) + 1 .. Len(a) + Len(b)
        PROVE  (a \o b)[i] # (a \o b)[l]
    <2>1. (a \o b)[i] \in Elements(a)
      BY <1>2 DEF Elements
    <2>2. (a \o b)[l] \in Elements(b)
      BY <1>2 DEF Elements
    <2> QED BY <2>1, <2>2
  <1> QED BY <1>1, <1>2, <1>3, <1>4, <1>5

-----------------------------------------------------------------------------
\* What a stream received or is about to read.
Held(s) == Elements(got[s]) \cup Elements(buf[s])

TopicInv ==
    \A s \in Streams :
        /\ state[s] = "new" => got[s] = <<>> /\ buf[s] = <<>>
        /\ state[s] # "new" => topic[s] \in Names

\* A sender delivers one event to streams that were registered for it, and no
\* other sender has it.
SenderInv ==
    \A p \in Senders :
        /\ todo[p] \subseteq snap[p]
        /\ item[p] = Null => snap[p] = {}
        /\ item[p] # Null => /\ sentTo[item[p]] \in Names
                             /\ \A s \in snap[p] : /\ state[s] # "new"
                                                   /\ topic[s] = sentTo[item[p]]
                             /\ \A q \in Senders : item[q] = item[p] => q = p

HeldInv ==
    \A s \in Streams :
        /\ Distinct(got[s]) /\ Distinct(buf[s])
        /\ Elements(got[s]) \cap Elements(buf[s]) = {}
        /\ \A x \in Held(s) : sentTo[x] = topic[s]

\* What has yet to be sent to a stream is not there, what was sent is.
OnceInv ==
    \A p \in Senders :
        /\ \A s \in todo[p] : item[p] \notin Held(s)
        /\ \A s \in snap[p] \ todo[p] : item[p] \in Held(s) \cup lost[s]

Inv == TypeOK /\ RegisteredIffOpen /\ TopicInv /\ SenderInv /\ HeldInv /\ OnceInv

(* An empty buffer holds nothing, once. *)
LEMMA NoElements == Elements(<<>>) = {} /\ Distinct(<<>>)
  BY DEF Elements, Distinct

(* What a stream holds, in its buffers and on the wire, are items. *)
LEMMA HeldItems == TypeOK => \A s \in Streams : Held(s) \subseteq Items
  <1>1. ASSUME NEW q \in Seq(Items) PROVE Elements(q) \subseteq Items
    BY DEF Elements
  <1> QED BY <1>1 DEF TypeOK, Held

(* Nobody has subscribed or sent. *)
LEMMA InvInit == Init => Inv
  <1> SUFFICES ASSUME Init PROVE Inv
    OBVIOUS
  <1>1. TypeOK
    <2>1. <<>> \in Seq(Items) /\ Len(<<>>) <= Capacity
      BY CapacityAssumption
    <2> QED BY <2>1 DEF Init, TypeOK
  <1>2. RegisteredIffOpen /\ TopicInv /\ SenderInv /\ HeldInv /\ OnceInv
    BY NoElements, ItemsAssumption
       DEF Init, RegisteredIffOpen, TopicInv, SenderInv, HeldInv, OnceInv, Held
  <1> QED BY <1>1, <1>2 DEF Inv

(* Forwarding takes the oldest event out of the channel; it is received, or lost
   to the stream.                                                          *)
LEMMA ForwardKeeps ==
    ASSUME Inv, NEW s \in Streams, Forward(s) PROVE Inv'
  <1> DEFINE x == Head(buf[s])
  <1>1. /\ buf \in [Streams -> Seq(Items)] /\ got \in [Streams -> Seq(Items)]
        /\ lost \in [Streams -> SUBSET Items]
        /\ \A t \in Streams : Len(buf[t]) <= Capacity
        /\ state \in [Streams -> {"new", "open", "leaving", "closed"}]
    BY DEF Inv, TypeOK
  <1>2. /\ state[s] = "open" /\ buf[s] # <<>>
        /\ buf' = [buf EXCEPT ![s] = Tail(buf[s])]
        /\ \/ /\ got' = [got EXCEPT ![s] = Append(got[s], x)]
              /\ lost' = lost
           \/ /\ got' = got
              /\ lost' = [lost EXCEPT ![s] = lost[s] \cup {x}]
        /\ state' = state \/ state' = [state EXCEPT ![s] = "leaving"]
        /\ UNCHANGED <<listeners, topic, item, snap, todo, sentTo, crashed>>
    BY DEF Forward, Lose, Alive, senderVars
  <1>3. /\ Distinct(buf[s]) /\ Distinct(got[s])
        /\ Elements(got[s]) \cap Elements(buf[s]) = {}
    BY DEF Inv, HeldInv
  <1>4. /\ x \in Items /\ Tail(buf[s]) \in Seq(Items)
        /\ Len(Tail(buf[s])) <= Capacity
    <2>1. buf[s] \in Seq(Items) /\ Len(buf[s]) <= Capacity
      BY <1>1
    <2> QED BY <1>2, <2>1, CapacityAssumption
  <1>5. /\ Elements(buf[s]) = {x} \cup Elements(Tail(buf[s]))
        /\ Distinct(Tail(buf[s])) /\ x \notin Elements(Tail(buf[s]))
    BY <1>1, <1>2, <1>3, HeadTailElements
  <1>6. /\ Append(got[s], x) \in Seq(Items)
        /\ Elements(Append(got[s], x)) = Elements(got[s]) \cup {x}
        /\ Distinct(Append(got[s], x))
    BY <1>1, <1>3, <1>4, <1>5, AppendElements
  <1> HIDE DEF x
  <1>7. TypeOK'
    <2>1. buf' \in [Streams -> Seq(Items)] /\ \A t \in Streams : Len(buf'[t]) <= Capacity
      BY <1>1, <1>2, <1>4
    <2>2. got' \in [Streams -> Seq(Items)] /\ lost' \in [Streams -> SUBSET Items]
      <3>1. CASE got' = [got EXCEPT ![s] = Append(got[s], x)] /\ lost' = lost
        BY <1>1, <1>6, <3>1
      <3>2. CASE got' = got /\ lost' = [lost EXCEPT ![s] = lost[s] \cup {x}]
        BY <1>1, <1>4, <3>2
      <3> QED BY <1>2, <3>1, <3>2
    <2>3. state' \in [Streams -> {"new", "open", "leaving", "closed"}]
      BY <1>1, <1>2
    <2> QED BY <1>2, <2>1, <2>2, <2>3 DEF Inv, TypeOK
  <1>8. \A t \in Streams : /\ state'[t] = "new" <=> state[t] = "new"
                           /\ state'[t] \in {"open", "leaving"} <=> state[t] \in {"open", "leaving"}
                           /\ state[t] = "new" => buf'[t] = buf[t] /\ got'[t] = got[t]
    BY <1>1, <1>2
  <1>9. RegisteredIffOpen' /\ TopicInv' /\ SenderInv'
    <2>1. RegisteredIffOpen' /\ TopicInv'
      BY <1>2, <1>8 DEF Inv, RegisteredIffOpen, TopicInv
    <2>2. \A p \in Senders : snap[p] \subseteq Streams
      BY DEF Inv, TypeOK
    <2>3. SenderInv'
      BY <1>2, <1>8, <2>2 DEF Inv, SenderInv
    <2> QED BY <2>1, <2>3
  <1>10. ASSUME NEW t \in Streams
         PROVE  /\ Distinct(got'[t]) /\ Distinct(buf'[t])
                /\ Elements(got'[t]) \cap Elements(buf'[t]) = {}
                /\ Held(t)' \subseteq Held(t)
                /\ Held(t) \cup lost[t] \subseteq Held(t)' \cup lost'[t]
    <2>1. CASE t # s
      BY <1>1, <1>2, <2>1 DEF Held, Inv, HeldInv
    <2>2. CASE t = s /\ got'[s] = Append(got[s], x) /\ lost' = lost
      BY <1>1, <1>2, <1>3, <1>5, <1>6, <2>2 DEF Held
    <2>3. CASE t = s /\ got'[s] = got[s] /\ lost'[s] = lost[s] \cup {x}
      BY <1>1, <1>2, <1>3, <1>5, <2>3 DEF Held
    <2> QED BY <1>1, <1>2, <2>1, <2>2, <2>3
  <1>11. HeldInv'
    BY <1>2, <1>10 DEF Inv, HeldInv
  <1>12. OnceInv'
    <2>1. /\ \A p \in Senders : todo[p] \subseteq Streams /\ snap[p] \subseteq Streams
      BY DEF Inv, TypeOK
    <2> QED BY <1>2, <1>10, <2>1 DEF Inv, OnceInv
  <1> QED BY <1>7, <1>9, <1>11, <1>12 DEF Inv

(* A send puts the sender's event into the channel of a stream it has not yet
   reached, or loses it to the stream.                                     *)
LEMMA SendOneKeeps ==
    ASSUME Inv, NEW p \in Senders, NEW s \in Streams, SendOne(p, s) PROVE Inv'
  <1> DEFINE x == item[p]
  <1>1. /\ buf \in [Streams -> Seq(Items)] /\ got \in [Streams -> Seq(Items)]
        /\ lost \in [Streams -> SUBSET Items]
        /\ \A t \in Streams : Len(buf[t]) <= Capacity
        /\ item \in [Senders -> Items \cup {Null}]
        /\ snap \in [Senders -> SUBSET Streams] /\ todo \in [Senders -> SUBSET Streams]
    BY DEF Inv, TypeOK
  <1>2. /\ s \in todo[p]
        /\ todo' = [todo EXCEPT ![p] = todo[p] \ {s}]
        /\ \/ /\ Len(buf[s]) < Capacity
              /\ buf' = [buf EXCEPT ![s] = Append(buf[s], x)]
              /\ lost' = lost
           \/ /\ buf' = buf
              /\ lost' = [lost EXCEPT ![s] = lost[s] \cup {x}]
        /\ crashed' \in BOOLEAN
        /\ UNCHANGED <<listeners, state, topic, got, item, snap, sentTo>>
    BY DEF SendOne, Sends, Others, HasRoom, Enqueue, Lose
  <1>3. /\ s \in snap[p] /\ x \in Items /\ x \notin Held(s)
        /\ sentTo[x] = topic[s] /\ state[s] # "new"
    BY <1>1, <1>2 DEF Inv, SenderInv, OnceInv
  <1>4. /\ Distinct(buf[s]) /\ Distinct(got[s])
        /\ Elements(got[s]) \cap Elements(buf[s]) = {}
    BY DEF Inv, HeldInv
  <1>5. /\ Append(buf[s], x) \in Seq(Items)
        /\ Len(buf[s]) < Capacity => Len(Append(buf[s], x)) <= Capacity
    <2>1. buf[s] \in Seq(Items)
      BY <1>1
    <2> QED BY <1>3, <2>1, CapacityAssumption
  <1>6. /\ Elements(Append(buf[s], x)) = Elements(buf[s]) \cup {x}
        /\ Distinct(Append(buf[s], x))
    BY <1>1, <1>3, <1>4, AppendElements DEF Held
  <1> HIDE DEF x
  <1>7. TypeOK'
    <2>1. /\ buf' \in [Streams -> Seq(Items)] /\ lost' \in [Streams -> SUBSET Items]
          /\ \A t \in Streams : Len(buf'[t]) <= Capacity
      <3>1. CASE /\ Len(buf[s]) < Capacity /\ lost' = lost
                 /\ buf' = [buf EXCEPT ![s] = Append(buf[s], x)]
        BY <1>1, <1>5, <3>1
      <3>2. CASE buf' = buf /\ lost' = [lost EXCEPT ![s] = lost[s] \cup {x}]
        BY <1>1, <1>3, <3>2
      <3> QED BY <1>2, <3>1, <3>2
    <2>2. todo' \in [Senders -> SUBSET Streams]
      BY <1>1, <1>2
    <2> QED BY <1>2, <2>1, <2>2 DEF Inv, TypeOK
  <1>8. RegisteredIffOpen' /\ TopicInv'
    BY <1>1, <1>2, <1>3 DEF Inv, RegisteredIffOpen, TopicInv
  <1>9. SenderInv'
    BY <1>1, <1>2 DEF Inv, SenderInv
  <1>10. ASSUME NEW t \in Streams
         PROVE  /\ Distinct(got'[t]) /\ Distinct(buf'[t])
                /\ Elements(got'[t]) \cap Elements(buf'[t]) = {}
                /\ Held(t) \subseteq Held(t)' /\ lost[t] \subseteq lost'[t]
                /\ Held(t)' \subseteq Held(t) \cup (IF t = s THEN {x} ELSE {})
                /\ t = s => x \in Held(t)' \cup lost'[t]
    <2>1. CASE t # s
      BY <1>1, <1>2, <2>1 DEF Held, Inv, HeldInv
    <2>2. CASE t = s /\ buf'[s] = Append(buf[s], x) /\ lost' = lost
      BY <1>1, <1>2, <1>3, <1>4, <1>6, <2>2 DEF Held
    <2>3. CASE t = s /\ buf'[s] = buf[s] /\ lost'[s] = lost[s] \cup {x}
      BY <1>1, <1>2, <1>4, <2>3 DEF Held
    <2> QED BY <1>1, <1>2, <2>1, <2>2, <2>3
  <1>11. HeldInv'
    BY <1>2, <1>3, <1>10 DEF Inv, HeldInv
  <1>12. OnceInv'
    <2>1. ASSUME NEW q \in Senders, NEW t \in todo'[q] PROVE item'[q] \notin Held(t)'
      <3>1. t \in todo[q] /\ t \in Streams /\ item[q] \notin Held(t) /\ (q = p => t # s)
        BY <1>1, <1>2, <2>1 DEF Inv, OnceInv
      <3>2. item[q] = x => q = p
        BY <1>3 DEF x, Inv, SenderInv
      <3> QED BY <1>2, <1>10, <3>1, <3>2
    <2>2. ASSUME NEW q \in Senders, NEW t \in snap'[q] \ todo'[q]
          PROVE  item'[q] \in Held(t)' \cup lost'[t]
      <3>1. t \in Streams /\ t \in snap[q] /\ (t \notin todo[q] \/ (q = p /\ t = s))
        BY <1>1, <1>2, <2>2
      <3> QED BY <1>2, <1>10, <3>1 DEF x, Inv, OnceInv
    <2> QED BY <2>1, <2>2 DEF OnceInv
  <1> QED BY <1>7, <1>8, <1>9, <1>11, <1>12 DEF Inv

(* A sender begins with an event nobody sent before and a copy of the listeners
   of its session.                                                         *)
LEMMA BeginSendKeeps ==
    ASSUME Inv, NEW p \in Senders, NEW n \in Names, NEW x \in Items, BeginSend(p, n, x)
    PROVE  Inv'
  <1>1. /\ item[p] = Null /\ sentTo[x] = Null
        /\ sentTo' = [sentTo EXCEPT ![x] = n]
        /\ item' = [item EXCEPT ![p] = x]
        /\ snap' = [snap EXCEPT ![p] = listeners[n]]
        /\ todo' = [todo EXCEPT ![p] = listeners[n]]
        /\ UNCHANGED <<listeners, state, topic, buf, got, lost, crashed>>
    BY DEF BeginSend, getListeners, streamVars, Alive
  <1>2. /\ listeners \in [Names -> SUBSET Streams]
        /\ item \in [Senders -> Items \cup {Null}] /\ sentTo \in [Items -> Names \cup {Null}]
        /\ snap \in [Senders -> SUBSET Streams] /\ todo \in [Senders -> SUBSET Streams]
    BY DEF Inv, TypeOK
  <1>3. \A s \in Streams : x \notin Held(s)
    <2> SUFFICES ASSUME NEW s \in Streams, x \in Held(s) PROVE FALSE
      OBVIOUS
    <2>1. sentTo[x] = topic[s]
      BY DEF Inv, HeldInv
    <2>2. state[s] # "new"
      BY NoElements DEF Inv, TopicInv, Held
    <2> QED BY <1>1, <2>1, <2>2, ItemsAssumption DEF Inv, TopicInv
  <1>4. \A q \in Senders : item[q] # x
    BY <1>1, ItemsAssumption DEF Inv, SenderInv
  <1>5. \A s \in listeners[n] : s \in Streams /\ state[s] # "new" /\ topic[s] = n
    BY <1>2 DEF Inv, RegisteredIffOpen
  <1>6. TypeOK'
    BY <1>1, <1>2 DEF Inv, TypeOK
  <1>7. RegisteredIffOpen' /\ TopicInv'
    BY <1>1 DEF Inv, RegisteredIffOpen, TopicInv
  <1>8. SenderInv'
    BY <1>1, <1>2, <1>4, <1>5, ItemsAssumption DEF Inv, SenderInv
  <1>9. HeldInv'
    BY <1>1, <1>2, <1>3, HeldItems DEF Inv, HeldInv, Held
  <1>10. OnceInv'
    BY <1>1, <1>2, <1>3 DEF Inv, OnceInv, Held
  <1> QED BY <1>6, <1>7, <1>8, <1>9, <1>10 DEF Inv

(* Every step keeps them. *)
LEMMA InvNext == Inv /\ [Next]_vars => Inv'
  <1> SUFFICES ASSUME Inv, [Next]_vars PROVE Inv'
    OBVIOUS
  <1> USE CapacityAssumption, ItemsAssumption
  <1> USE DEF Inv, TypeOK, RegisteredIffOpen, TopicInv, SenderInv, HeldInv, OnceInv, Held,
          Alive, streamVars, senderVars, history
  <1>1. ASSUME NEW s \in Streams, NEW n \in Names, addListener(s, n) PROVE Inv'
    <2>1. TypeOK' /\ RegisteredIffOpen' /\ TopicInv'
      BY <1>1 DEF addListener
    <2>2. SenderInv'
      BY <1>1 DEF addListener
    <2>3. HeldInv'
      BY <1>1, NoElements DEF addListener
    <2>4. OnceInv'
      BY <1>1 DEF addListener
    <2> QED BY <2>1, <2>2, <2>3, <2>4
  <1>2. ASSUME NEW s \in Streams, Forward(s) PROVE Inv'
    BY <1>2, ForwardKeeps
  <1>3. ASSUME NEW s \in Streams, ClientGone(s) PROVE Inv'
    <2>1. TypeOK' /\ RegisteredIffOpen' /\ TopicInv'
      BY <1>3 DEF ClientGone
    <2>2. SenderInv'
      BY <1>3 DEF ClientGone
    <2>3. HeldInv' /\ OnceInv'
      BY <1>3 DEF ClientGone
    <2> QED BY <2>1, <2>2, <2>3
  <1>4. ASSUME NEW s \in Streams, removeListener(s) PROVE Inv'
    <2>1. topic[s] \in Names /\ s \in listeners[topic[s]]
      BY <1>4 DEF removeListener
    <2>2. TypeOK'
      BY <1>4, <2>1 DEF removeListener, Unregister
    <2>3. RegisteredIffOpen'
      BY <1>4, <2>1 DEF removeListener, Unregister
    <2>4. TopicInv' /\ SenderInv'
      BY <1>4 DEF removeListener
    <2>5. HeldInv' /\ OnceInv'
      BY <1>4 DEF removeListener
    <2> QED BY <2>2, <2>3, <2>4, <2>5
  <1>5. ASSUME NEW p \in Senders, NEW n \in Names, NEW x \in Items, BeginSend(p, n, x) PROVE Inv'
    BY <1>5, BeginSendKeeps
  <1>6. ASSUME NEW p \in Senders, NEW s \in Streams, SendOne(p, s) PROVE Inv'
    BY <1>6, SendOneKeeps
  <1>7. ASSUME NEW p \in Senders, EndSend(p) PROVE Inv'
    BY <1>7 DEF EndSend
  <1>8. ASSUME UNCHANGED vars PROVE Inv'
    BY <1>8 DEF vars
  <1> QED BY <1>1, <1>2, <1>3, <1>4, <1>5, <1>6, <1>7, <1>8 DEF Next, StreamStep, SendStep

(* The inductive invariant of the fan-out. *)
THEOREM Invariance == Spec => []Inv
  <1> QED BY InvInit, InvNext, PTL DEF Spec

(* Every reachable state is well typed; in particular no listener channel ever
   holds more than its capacity.                                           *)
THEOREM TypeCorrect == Spec => []TypeOK
  <1> QED BY Invariance, PTL DEF Inv

(* The map holds exactly the streams whose channels are open, each under its
   session: getListeners never copies a channel that is already closed.    *)
THEOREM MapIsOpen == Spec => []RegisteredIffOpen
  <1> QED BY Invariance, PTL DEF Inv

(* Streams receive events of their session only, and none twice, however
   subscribing, leaving and sending overlap.                               *)
THEOREM EventsOnce == Spec => []OwnEventsOnce
  <1>1. Inv => OwnEventsOnce
    <2> SUFFICES ASSUME Inv, NEW s \in Streams
                 PROVE  /\ \A x \in Elements(got[s] \o buf[s]) : sentTo[x] = topic[s]
                        /\ Distinct(got[s] \o buf[s])
      BY DEF OwnEventsOnce, Distinct
    <2>1. /\ got[s] \in Seq(Items) /\ buf[s] \in Seq(Items)
          /\ Distinct(got[s]) /\ Distinct(buf[s])
          /\ Elements(got[s]) \cap Elements(buf[s]) = {}
          /\ \A x \in Held(s) : sentTo[x] = topic[s]
      BY DEF Inv, TypeOK, HeldInv
    <2>2. Elements(got[s] \o buf[s]) = Held(s)
      BY <2>1, ElementsConcat DEF Held
    <2>3. Distinct(got[s] \o buf[s])
      BY <2>1, DistinctConcat
    <2> QED BY <2>1, <2>2, <2>3
  <1> QED BY <1>1, Invariance, PTL

(* What a sender has worked off its copy of the listeners is delivered, buffered
   or lost to that very stream: no stream's failure costs another an event. *)
THEOREM NoneSkipped == Spec => []NobodySkipped
  <1>1. Inv => NobodySkipped
    <2> SUFFICES ASSUME Inv, NEW p \in Senders, NEW s \in snap[p] \ todo[p]
                 PROVE  item[p] \in Elements(buf[s] \o got[s]) \cup lost[s]
      BY DEF NobodySkipped
    <2>1. s \in Streams /\ got[s] \in Seq(Items) /\ buf[s] \in Seq(Items)
      BY DEF Inv, TypeOK
    <2>2. Elements(buf[s] \o got[s]) = Held(s)
      BY <2>1, ElementsConcat DEF Held
    <2> QED BY <2>2 DEF Inv, OnceInv
  <1> QED BY <1>1, Invariance, PTL
=============================================================================

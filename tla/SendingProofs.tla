---------------------------- MODULE SendingProofs ----------------------------
(***************************************************************************)
(* Theorems about Sending.                                                 *)
(***************************************************************************)
EXTENDS Sending, FiniteSetTheorems, TLAPS

(* The batches of lo.Chunk, laid end to end, are the slice it was given. *)
LEMMA ChunkLaid ==
    ASSUME NEW S, NEW q \in Seq(S), NEW n \in Nat \ {0}
    PROVE  /\ Chunk(q, n) \in Seq(Seq(S))
           /\ Laid(Chunk(q, n), q, n)
           /\ q # <<>> => Chunk(q, n) # <<>> /\ Head(Chunk(q, n)[1]) = q[1]
  <1> DEFINE C == Chunk(q, n)
             m == (Len(q) + n - 1) \div n
             start(k) == n * (k - 1)
             end(k) == IF n * k <= Len(q) THEN n * k ELSE Len(q)
  <1>1. /\ m \in Nat /\ DOMAIN C = 1..m /\ C = [k \in 1..m |-> C[k]]
        /\ \A k \in 1..m : C[k] = SubSeq(q, start(k) + 1, end(k))
    <2>1. C = [k \in 1..m |-> SubSeq(q, start(k) + 1, end(k))]
      BY Zenon DEF Chunk
    <2>2. m \in Nat
      OBVIOUS
    <2> HIDE DEF C, m, start, end
    <2> QED BY <2>1, <2>2
  <1>2. ASSUME NEW k \in 1..m
        PROVE  /\ start(k) \in Nat /\ end(k) \in Nat
               /\ start(k) < end(k) /\ end(k) <= start(k) + n /\ end(k) <= Len(q)
               /\ end(k) = start(k) + n \/ end(k) = Len(q)
    OBVIOUS
  <1>3. ASSUME NEW i \in DOMAIN q
        PROVE  \E k \in 1..m : start(k) < i /\ i <= start(k) + n
    <2> DEFINE d == (i - 1) \div n
    <2>1. i \in Nat /\ 1 <= i /\ i <= Len(q)
      OBVIOUS
    <2>2. d \in Nat /\ n * d <= i - 1 /\ i - 1 < n * d + n
      BY <2>1
    <2>3. d + 1 <= m
      <3>2. n * d + n <= Len(q) + n - 1
        BY <2>1, <2>2
      <3>3. m \in Nat /\ n * m <= Len(q) + n - 1 /\ Len(q) + n - 1 < n * m + n
        OBVIOUS
      <3>4. n * d + n = n * (d + 1) /\ n * m + n = n * (m + 1)
        BY <2>2, <3>3
      <3> HIDE DEF d, m
      <3>5. n * (d + 1) < n * (m + 1)
        BY <3>2, <3>3, <3>4, <2>2
      <3>6. m < d + 1 => n * (m + 1) <= n * (d + 1)
        BY <3>3, <2>2
      <3> QED BY <3>3, <3>5, <3>6, <2>2
    <2>4. start(d + 1) = n * d
      BY <2>2
    <2>5. m \in Nat
      OBVIOUS
    <2> HIDE DEF d, m, start
    <2>6. d + 1 \in 1..m /\ start(d + 1) < i /\ i <= start(d + 1) + n
      BY <2>1, <2>2, <2>3, <2>4, <2>5
    <2> QED BY <2>6
  <1> HIDE DEF C, m, start, end
  <1>4. ASSUME NEW k \in 1..m
        PROVE  /\ C[k] \in Seq(S) /\ DOMAIN C[k] = 1..(end(k) - start(k))
               /\ \A j \in DOMAIN C[k] : C[k][j] = q[start(k) + j]
    <2>1. PICK a \in Nat : a = start(k)
      BY <1>2
    <2>2. PICK b \in Nat : b = end(k)
      BY <1>2
    <2>3. a < b /\ b <= Len(q) /\ C[k] = SubSeq(q, a + 1, b)
      BY <1>1, <1>2, <2>1, <2>2
    <2>4. /\ SubSeq(q, a + 1, b) \in Seq(S) /\ DOMAIN SubSeq(q, a + 1, b) = 1..(b - a)
          /\ \A j \in 1..(b - a) : SubSeq(q, a + 1, b)[j] = q[a + j]
      BY <2>3
    <2> QED BY <2>1, <2>2, <2>3, <2>4
  <1>5. C \in Seq(Seq(S))
    BY <1>1, <1>4
  <1>6. ASSUME NEW k \in 1..m, NEW j \in DOMAIN C[k]
        PROVE  /\ j <= n /\ start(k) + j \in DOMAIN q /\ C[k][j] = q[start(k) + j]
    <2>1. j \in 1..(end(k) - start(k)) /\ C[k][j] = q[start(k) + j]
      BY <1>4
    <2>2. start(k) + j \in 1..Len(q) /\ j <= n
      BY <1>2, <2>1
    <2> QED BY <2>1, <2>2
  <1>7. ASSUME NEW i \in DOMAIN q
        PROVE  \E k \in 1..m : \E j \in DOMAIN C[k] : i = start(k) + j
    <2>1. PICK k \in 1..m : start(k) < i /\ i <= start(k) + n
      BY <1>3
    <2>2. i \in Nat /\ i <= Len(q)
      OBVIOUS
    <2>3. i - start(k) \in 1..(end(k) - start(k)) /\ i = start(k) + (i - start(k))
      BY <1>2, <2>1, <2>2
    <2> QED BY <1>4, <2>1, <2>3
  <1>8. q # <<>> => C # <<>> /\ Head(C[1]) = q[1]
    <2> SUFFICES ASSUME q # <<>> PROVE C # <<>> /\ Head(C[1]) = q[1]
      OBVIOUS
    <2>1. 1 \in DOMAIN q /\ start(1) = 0
      BY DEF start
    <2>2. 1 \in 1..m
      BY <1>1, <1>7, <2>1
    <2>3. 1 \in DOMAIN C[1] /\ C[1][1] = q[1] /\ C[1] \in Seq(S)
      BY <1>2, <1>4, <2>1, <2>2
    <2> QED BY <1>1, <2>2, <2>3
  <1> QED BY <1>1, <1>5, <1>6, <1>7, <1>8 DEF Laid, C, start

-----------------------------------------------------------------------------
(* The places of a finite set of numbers are counted without gaps, and in
   their order.                                                            *)
LEMMA Counted ==
    ASSUME NEW N \in Nat, NEW P \in SUBSET (1..N)
    PROVE  /\ Cardinality(P) \in Nat
           /\ \A n \in 1..Cardinality(P) :
                 /\ Nth(P, n) \in P
                 /\ Cardinality({i \in P : i <= Nth(P, n)}) = n
           /\ \A k \in P : \E n \in 1..Cardinality(P) : Nth(P, n) = k
           /\ \A m, n \in 1..Cardinality(P) : m < n => Nth(P, m) < Nth(P, n)
  <1> DEFINE rank(k) == Cardinality({i \in P : i <= k})
             f == [k \in P |-> rank(k)]
             S == Cardinality(P)
  <1>1. IsFiniteSet(P) /\ S \in Nat
    <2>1. IsFiniteSet(1..N)
      BY FS_Interval
    <2> QED BY <2>1, FS_Subset, FS_CardinalityType
  <1>2. ASSUME NEW k \in Nat
        PROVE  /\ IsFiniteSet({i \in P : i <= k}) /\ rank(k) \in Nat /\ rank(k) <= S
    <2>1. {i \in P : i <= k} \in SUBSET P
      OBVIOUS
    <2> QED BY <1>1, <2>1, FS_Subset, FS_CardinalityType
  <1>3. ASSUME NEW k \in P PROVE rank(k) \in 1..S
    <2>1. {k} \in SUBSET {i \in P : i <= k} /\ Cardinality({k}) = 1 /\ k \in Nat
      BY FS_Singleton
    <2>2. 1 <= rank(k)
      BY <1>2, <2>1, FS_Subset
    <2> QED BY <1>1, <1>2, <2>1, <2>2
  <1>4. ASSUME NEW k \in P, NEW l \in P, k < l PROVE rank(k) < rank(l)
    <2>1. k \in Nat /\ l \in Nat
      OBVIOUS
    <2>2. /\ {i \in P : i <= k} \in SUBSET {i \in P : i <= l}
          /\ {i \in P : i <= k} # {i \in P : i <= l}
      <3>1. \A i \in P : i \in Nat
        OBVIOUS
      <3>2. l \in {i \in P : i <= l} /\ l \notin {i \in P : i <= k}
        BY <1>4, <2>1
      <3>3. \A i \in P : i <= k => i <= l
        BY <1>4, <2>1, <3>1
      <3> QED BY <3>2, <3>3
    <2>3. rank(k) <= rank(l) /\ rank(l) # rank(k)
      BY <1>2, <2>1, <2>2, FS_Subset
    <2> QED BY <1>2, <2>1, <2>3
  <1>5. \A n \in 1..S : \E k \in P : rank(k) = n
    <2>1. f \in [P -> 1..S] /\ \A k, l \in P : f[k] = f[l] => k = l
      <3>1. f \in [P -> 1..S]
        BY <1>3
      <3>2. ASSUME NEW k \in P, NEW l \in P, f[k] = f[l] PROVE k = l
        <4>1. ~(k < l) /\ ~(l < k)
          <5> HIDE DEF rank
          <5>1. rank(k) \in Nat /\ rank(l) \in Nat /\ rank(k) = rank(l)
            BY <1>3, <3>2
          <5> QED BY <1>4, <5>1
        <4> QED BY <4>1
      <3> HIDE DEF f
      <3> QED BY <3>1, <3>2
    <2>2. f \in Injection(P, 1..S)
      BY <2>1 DEF Injection, IsInjective
    <2>3. IsFiniteSet(1..S) /\ Cardinality(1..S) = S
      BY <1>1, FS_Interval
    <2>4. f \in Surjection(P, 1..S)
      BY <2>2, <2>3, FS_Injection
    <2> QED BY <2>4 DEF Surjection
  <1>6. ASSUME NEW n \in 1..S PROVE Nth(P, n) \in P /\ rank(Nth(P, n)) = n
    BY <1>5 DEF Nth
  <1> HIDE DEF rank, S
  <1>7. ASSUME NEW k \in P PROVE \E n \in 1..S : Nth(P, n) = k
    <2>1. rank(k) \in 1..S
      BY <1>3
    <2>2. Nth(P, rank(k)) \in P /\ rank(Nth(P, rank(k))) = rank(k)
      BY <1>6, <2>1
    <2>3. Nth(P, rank(k)) = k
      <3> DEFINE l == Nth(P, rank(k))
      <3>1. l \in P /\ rank(l) = rank(k) /\ rank(k) \in Nat
        BY <2>1, <2>2
      <3> HIDE DEF l
      <3>2. ~(k < l) /\ ~(l < k) /\ k \in Nat /\ l \in Nat
        BY <1>4, <3>1
      <3> QED BY <3>1, <3>2 DEF l
    <2> QED BY <2>1, <2>3
  <1>8. ASSUME NEW m \in 1..S, NEW n \in 1..S, m < n PROVE Nth(P, m) < Nth(P, n)
    <2>1. PICK k \in P : k = Nth(P, m) /\ rank(k) = m
      BY <1>6
    <2>2. PICK l \in P : l = Nth(P, n) /\ rank(l) = n
      BY <1>6
    <2>3. k # l /\ ~(l < k)
      BY <1>4, <1>8, <2>1, <2>2
    <2> QED BY <2>1, <2>2, <2>3
  <1> QED BY <1>1, <1>6, <1>7, <1>8 DEF rank, S

(* A list of participants is a sequence. *)
LEMMA ListIsSeq ==
    ASSUME NEW q \in Requests
    PROVE  /\ q.list \in Seq(ToSet(q.list))
           /\ AllParticipants(q) \in Seq(ToSet(AllParticipants(q)))
           /\ q.list = <<>> => AllParticipants(q) # <<>> /\ AllParticipants(q)[1] = Last(Audience)
  <1>1. q.list \in Lists
    BY DEF Requests
  <1>2. q.list \in Seq(ToSet(q.list)) /\ Audience \in Seq(ToSet(Audience))
    BY <1>1, ListsAssumption
  <1>3. CASE q.list # <<>>
    BY <1>2, <1>3 DEF AllParticipants
  <1>4. CASE q.list = <<>>
    <2>1. /\ AllParticipants(q) = [i \in 1..Len(Audience) |-> Audience[(Len(Audience) - i) + 1]]
          /\ Audience # <<>> /\ Len(Audience) \in Nat
      BY <1>2, <1>4, ListsAssumption DEF AllParticipants, Reverse
    <2>2. /\ DOMAIN AllParticipants(q) = 1..Len(Audience) /\ Len(Audience) > 0
          /\ AllParticipants(q)[1] = Audience[Len(Audience)]
      BY <1>2, <2>1
    <2>3. AllParticipants(q) \in Seq(ToSet(AllParticipants(q)))
      <3> DEFINE all == AllParticipants(q)
      <3>1. Len(Audience) \in Nat /\ all = [i \in 1..Len(Audience) |-> all[i]]
        BY <2>1
      <3>2. \A i \in 1..Len(Audience) : all[i] \in ToSet(all)
        BY <2>2 DEF ToSet
      <3> HIDE DEF all
      <3>3. [i \in 1..Len(Audience) |-> all[i]] \in Seq(ToSet(all))
        BY <3>1, <3>2
      <3> QED BY <3>1, <3>3 DEF all
    <2>4. AllParticipants(q) # <<>>
      BY <2>2, <2>3
    <2> QED BY <1>2, <2>2, <2>3, <2>4 DEF Last
  <1> QED BY <1>3, <1>4

(* The participants kept are those on the user server, all of them, in the
   order of the list; the own account, last in the audience, is the first.  *)
THEOREM UsersKept ==
    ASSUME NEW q \in Requests
    PROVE  /\ ValidParticipants(q) \in Seq(Users)
           /\ \E f \in [DOMAIN ValidParticipants(q) -> DOMAIN AllParticipants(q)] :
                 /\ \A n \in DOMAIN f : ValidParticipants(q)[n] = AllParticipants(q)[f[n]]
                 /\ \A m, n \in DOMAIN f : m < n => f[m] < f[n]
                 /\ \A k \in DOMAIN AllParticipants(q) :
                       AllParticipants(q)[k] \in Users => \E n \in DOMAIN f : f[n] = k
           /\ q.list = <<>> => /\ ValidParticipants(q) # <<>>
                               /\ ValidParticipants(q)[1] = Last(Audience)
           /\ ParticipantsBatchSize(q) \in Nat \ {0}
  <1> DEFINE all == AllParticipants(q)
             list == ValidParticipants(q)
             P == {k \in DOMAIN all : all[k] \in Users}
             S == Cardinality(P)
             f == [n \in 1..S |-> Nth(P, n)]
  <1>1. all \in Seq(ToSet(all)) /\ DOMAIN all = 1..Len(all) /\ Len(all) \in Nat
    BY ListIsSeq
  <1>2. P \in SUBSET (1..Len(all))
    BY <1>1
  <1>3. list = [n \in 1..S |-> all[Nth(P, n)]]
    BY DEF ValidParticipants, Picked
  <1> HIDE DEF all, list, P
  <1>4. /\ S \in Nat
        /\ \A n \in 1..S : Nth(P, n) \in P /\ Cardinality({i \in P : i <= Nth(P, n)}) = n
        /\ \A k \in P : \E n \in 1..S : Nth(P, n) = k
        /\ \A m, n \in 1..S : m < n => Nth(P, m) < Nth(P, n)
    BY <1>1, <1>2, Counted
  <1> HIDE DEF S
  <1>5. \A k \in P : k \in DOMAIN all /\ all[k] \in Users
    BY DEF P
  <1>6. list \in Seq(Users) /\ DOMAIN list = 1..S
    <2>1. \A n \in 1..S : all[Nth(P, n)] \in Users
      BY <1>4, <1>5
    <2>2. [n \in 1..S |-> all[Nth(P, n)]] \in Seq(Users)
      BY <1>4, <2>1
    <2> QED BY <1>3, <2>2
  <1>7. /\ f \in [DOMAIN list -> DOMAIN all]
        /\ \A n \in DOMAIN f : list[n] = all[f[n]]
        /\ \A m, n \in DOMAIN f : m < n => f[m] < f[n]
        /\ \A k \in DOMAIN all : all[k] \in Users => \E n \in DOMAIN f : f[n] = k
    <2>1. \A k \in DOMAIN all : all[k] \in Users => k \in P
      BY DEF P
    <2> QED BY <1>3, <1>4, <1>5, <1>6, <2>1
  <1>8. q.list = <<>> => list # <<>> /\ list[1] = Last(Audience)
    <2> SUFFICES ASSUME q.list = <<>> PROVE list # <<>> /\ list[1] = Last(Audience)
      OBVIOUS
    <2>1. all # <<>> /\ all[1] = Last(Audience) /\ Last(Audience) \in Users
      BY ListIsSeq, ListsAssumption DEF all
    <2>2. 1 \in P
      BY <1>1, <2>1 DEF P
    <2>3. PICK n \in 1..S : Nth(P, n) = 1
      BY <1>4, <2>2
    <2>4. 1 \in 1..S /\ Nth(P, 1) = 1
      <3>1. 1 \in 1..S /\ Nth(P, 1) \in P
        <4>1. S \in Nat
          BY <1>4
        <4>2. 1 \in 1..S
          BY <2>3, <4>1
        <4> QED BY <1>4, <4>2
      <3>2. Nth(P, 1) \in Nat /\ 1 <= Nth(P, 1)
        <4>1. \A k \in P : k \in Nat /\ 1 <= k
          BY <1>2
        <4> QED BY <3>1, <4>1
      <3>3. ~(1 < n)
        <4>1. 1 < n => Nth(P, 1) < Nth(P, n)
          BY <1>4, <3>1
        <4> QED BY <2>3, <3>2, <4>1
      <3>4. n = 1
        <4>1. S \in Nat
          BY <1>4
        <4> QED BY <3>3, <4>1
      <3> QED BY <2>3, <3>4
    <2>5. list[1] = all[1]
      BY <1>3, <2>4
    <2>6. list # <<>>
      <3>1. 1 \in DOMAIN list
        BY <1>6, <2>4
      <3>2. DOMAIN <<>> = {}
        OBVIOUS
      <3> QED BY <3>1, <3>2
    <2> QED BY <2>1, <2>5, <2>6
  <1>9. ParticipantsBatchSize(q) \in Nat \ {0}
    BY ListIsSeq, BatchAssumption DEF ParticipantsBatchSize
  <1> QED BY <1>6, <1>7, <1>8, <1>9 DEF all, list

-----------------------------------------------------------------------------
List(c) == ValidParticipants(req[c])
Size(c) == ParticipantsBatchSize(req[c])

Sent(c) == pc[c] \in {"returning", "returned"}

(* The batches sent and those still to be sent are the chunks of the list. *)
Progress(c) ==
    LET all == Chunk(List(c), Size(c)) IN
    /\ IsStatus(req[c])
    /\ Len(tried[c]) + Len(batches[c]) = Len(all)
    /\ \A k \in DOMAIN tried[c] : tried[c][k].batch = all[k] /\ tried[c][k].id = id[c]
    /\ \A k \in DOMAIN batches[c] : batches[c][k] = all[Len(tried[c]) + k]

(* The batches of a call, and the id it uses. *)
BatchesOf(c) ==
    /\ pc[c] \in {"new", "preparing", "uploading", "uploaded"} => tried[c] = <<>>
    /\ pc[c] = "batches" => Progress(c)
    /\ Sent(c) /\ tried[c] # <<>> => Progress(c) /\ batches[c] = <<>>
    /\ pc[c] # "new" /\ ~InNewsletter(req[c]) /\ req[c].id # Null => id[c] = req[c].id

(* What its batches that did not fail have reached. *)
AcceptedOf(c) ==
    \A k \in DOMAIN tried[c] : tried[c][k].ok =>
        \A u \in ToSet(tried[c][k].batch) :
            [by |-> c, id |-> tried[c][k].id, to |-> u] \in accepted

Reached(c, m) == \A u \in Addressees(c) : [by |-> c, id |-> m, to |-> u] \in accepted

Silent(c) == InNewsletter(req[c]) /\ req[c].kind = "reaction"

(* Its result says what was announced, and that what was reached. *)
WitnessOf(c) ==
    /\ \A a \in announced : a.by = c => Sent(c) /\ result[c] = "ok" /\ Reached(c, a.id)
    /\ Sent(c) => result[c] \in {"ok", "error", "panic"}
    /\ Sent(c) /\ result[c] = "ok" => Silent(c) \/ \E a \in announced : a.by = c
    /\ pc[c] # "returned" => reply[c] = Null
    /\ pc[c] = "returned" => \/ reply[c] = "deadline"
                             \/ reply[c] = "error" /\ result[c] \in {"error", "panic"}
                             \/ reply[c] = "ok" /\ result[c] = "ok"

CallInv(c) == BatchesOf(c) /\ AcceptedOf(c) /\ WitnessOf(c)

Inv == TypeOK /\ \A c \in Calls : CallInv(c)

(* Initially no call has arrived. *)
LEMMA InvInit == Init => Inv
  BY IdsAssumption DEF Init, Inv, TypeOK, CallInv, BatchesOf, AcceptedOf, WitnessOf, Sent, Ids

(* A step of one call leaves the invariant of the others alone: WhatsApp
   forgets nothing, and only a call itself announces what it sent.         *)
LEMMA OthersKeep ==
    ASSUME NEW o \in Calls, CallInv(o),
           pc'[o] = pc[o], req'[o] = req[o], id'[o] = id[o], batches'[o] = batches[o],
           tried'[o] = tried[o], result'[o] = result[o], reply'[o] = reply[o],
           accepted \subseteq accepted',
           announced \subseteq announced', \A a \in announced' \ announced : a.by # o
    PROVE  CallInv(o)'
  <1>1. BatchesOf(o)'
    BY DEF CallInv, BatchesOf, Progress, List, Size, Sent
  <1>2. AcceptedOf(o)'
    BY DEF CallInv, AcceptedOf
  <1>3. WitnessOf(o)'
    BY DEF CallInv, WitnessOf, Sent, Reached, Addressees, Silent
  <1> QED BY <1>1, <1>2, <1>3 DEF CallInv

(* The chunks of a call's list of participants. *)
LEMMA Chunks ==
    ASSUME NEW q \in Requests
    PROVE  LET all == Chunk(ValidParticipants(q), ParticipantsBatchSize(q)) IN
           /\ all \in Seq(Seq(Users))
           /\ Laid(all, ValidParticipants(q), ParticipantsBatchSize(q))
           /\ q.list = <<>> => all # <<>> /\ Head(all[1]) = Last(Audience)
  <1>1. PICK list \in Seq(Users) : list = ValidParticipants(q)
    BY UsersKept
  <1>2. PICK n \in Nat \ {0} : n = ParticipantsBatchSize(q)
    BY UsersKept
  <1>3. q.list = <<>> => list # <<>> /\ list[1] = Last(Audience)
    BY <1>1, UsersKept
  <1>4. /\ Chunk(list, n) \in Seq(Seq(Users)) /\ Laid(Chunk(list, n), list, n)
        /\ list # <<>> => Chunk(list, n) # <<>> /\ Head(Chunk(list, n)[1]) = list[1]
    BY ChunkLaid
  <1> QED BY <1>1, <1>2, <1>3, <1>4

(* A call arrives. *)
LEMMA ReceiveKeeps ==
    ASSUME Inv, NEW c \in Calls, NEW q \in Requests, Receive(c, q)
    PROVE  Inv'
  <1>1. /\ pc[c] = "new" /\ pc' = [pc EXCEPT ![c] = "preparing"]
        /\ req' = [req EXCEPT ![c] = q] /\ id' = [id EXCEPT ![c] = q.id]
        /\ UNCHANGED <<batches, tried, result, expired, reply, accepted, announced>>
    BY DEF Receive, outcome
  <1>2. q.id \in Ids \cup {Null}
    BY DEF Requests, Ids
  <1>3. TypeOK'
    BY <1>1, <1>2 DEF Inv, TypeOK
  <1>4. CallInv(c)'
    <2>1. pc'[c] = "preparing" /\ req'[c] = q /\ id'[c] = q.id
      BY <1>1 DEF Inv, TypeOK
    <2> QED BY <1>1, <2>1 DEF Inv, CallInv, BatchesOf, AcceptedOf, WitnessOf, Sent
  <1>5. ASSUME NEW o \in Calls, o # c PROVE CallInv(o)'
    BY <1>1, <1>5, OthersKeep DEF Inv, TypeOK
  <1> QED BY <1>3, <1>4, <1>5 DEF Inv

(* The upload of a preview image begins or ends. *)
LEMMA UploadKeeps ==
    ASSUME Inv, NEW c \in Calls, UploadPreview(c) \/ UploadReturns(c)
    PROVE  Inv'
  <1>1. PICK s \in {"uploading", "uploaded"} :
           /\ pc[c] \in {"preparing", "uploading"} /\ pc' = [pc EXCEPT ![c] = s]
           /\ UNCHANGED <<req, id, batches, tried, result, expired, reply, accepted, announced>>
    BY DEF UploadPreview, UploadReturns, outcome
  <1>2. TypeOK'
    BY <1>1 DEF Inv, TypeOK
  <1>3. CallInv(c)'
    <2>1. pc'[c] = s
      BY <1>1 DEF Inv, TypeOK
    <2> QED BY <1>1, <2>1 DEF Inv, CallInv, BatchesOf, AcceptedOf, WitnessOf, Sent
  <1>4. ASSUME NEW o \in Calls, o # c PROVE CallInv(o)'
    BY <1>1, <1>4, OthersKeep DEF Inv, TypeOK
  <1> QED BY <1>2, <1>3, <1>4 DEF Inv

(* It returns without having announced anything. *)
LEMMA FailKeeps ==
    ASSUME Inv, NEW c \in Calls, NEW r \in {"error", "panic"}, Ready(c),
           Return(c, r), UNCHANGED <<req, id, batches, tried, expired, reply, outcome>>
    PROVE  Inv'
  <1>1. /\ pc' = [pc EXCEPT ![c] = "returning"] /\ result' = [result EXCEPT ![c] = r]
        /\ UNCHANGED <<req, id, batches, tried, expired, reply, accepted, announced>>
    BY DEF Return, outcome
  <1>2. TypeOK'
    <2>1. \A o \in Calls : pc'[o] # "new" => req'[o] \in Requests
      BY <1>1 DEF Ready, Inv, TypeOK
    <2> QED BY <1>1, <2>1 DEF Inv, TypeOK
  <1>3. CallInv(c)'
    <2>1. pc'[c] = "returning" /\ result'[c] = r
      BY <1>1 DEF Inv, TypeOK
    <2> QED BY <1>1, <2>1 DEF Ready, Inv, CallInv, BatchesOf, AcceptedOf, WitnessOf, Sent
  <1>4. ASSUME NEW o \in Calls, o # c PROVE CallInv(o)'
    BY <1>1, <1>4, OthersKeep DEF Inv, TypeOK
  <1> QED BY <1>2, <1>3, <1>4 DEF Inv

(* The id of a message is the client's, or a fresh one. *)
LEMMA IdOf ==
    ASSUME TypeOK, NEW c \in Calls, NEW m \in MessageId(c)
    PROVE  /\ m \in Ids
           /\ id[c] # Null /\ ~InNewsletter(req[c]) => m = id[c]
  BY DEF TypeOK, MessageId, Ids

(* WhatsApp takes a message for its recipients, or fails. *)
LEMMA Delivered ==
    ASSUME TypeOK, NEW c \in Calls, NEW m \in Ids, NEW R, NEW ok \in BOOLEAN,
           Deliver(c, m, R, ok)
    PROVE  /\ accepted \subseteq accepted'
           /\ \A a \in accepted' : a.by \in Calls /\ a.id \in Ids
           /\ ok => \A u \in R : [by |-> c, id |-> m, to |-> u] \in accepted'
  BY DEF TypeOK, Deliver

(* One call of the library. *)
LEMMA SendOnceKeeps == ASSUME Inv, NEW c \in Calls, SendOnce(c) PROVE Inv'
  <1>1. PICK m \in MessageId(c), ok \in BOOLEAN :
           /\ id' = [id EXCEPT ![c] = m]
           /\ Deliver(c, m, Recipients(req[c]), ok)
           /\ IF ok THEN Announce(c, m) ELSE UNCHANGED announced
           /\ pc' = [pc EXCEPT ![c] = "returning"]
           /\ result' = [result EXCEPT ![c] = IF ok THEN "ok" ELSE "error"]
    BY DEF SendOnce, Return
  <1>2. /\ pc[c] \in {"preparing", "uploaded"} /\ ~IsStatus(req[c])
        /\ UNCHANGED <<req, batches, tried, expired, reply>>
    BY DEF SendOnce, Ready
  <1>3. /\ m \in Ids /\ (id[c] # Null /\ ~InNewsletter(req[c]) => m = id[c])
        /\ accepted \subseteq accepted'
        /\ \A a \in accepted' : a.by \in Calls /\ a.id \in Ids
        /\ ok => \A u \in Recipients(req[c]) : [by |-> c, id |-> m, to |-> u] \in accepted'
    BY <1>1, IdOf, Delivered DEF Inv
  <1>4. /\ announced \subseteq announced'
        /\ \A a \in announced' \ announced : a = [by |-> c, id |-> m]
        /\ ok /\ ~Silent(c) => [by |-> c, id |-> m] \in announced'
        /\ ~ok => announced' = announced
    BY <1>1 DEF Announce, Silent
  <1>5. TypeOK'
    <2>1. announced' \subseteq [by : Calls, id : Ids]
      BY <1>3, <1>4 DEF Inv, TypeOK
    <2> QED BY <1>1, <1>2, <1>3, <2>1 DEF Inv, TypeOK
  <1>6. CallInv(c)'
    <2>1. /\ pc'[c] = "returning" /\ id'[c] = m /\ tried[c] = <<>>
          /\ result'[c] = IF ok THEN "ok" ELSE "error"
          /\ \A a \in announced : a.by # c
      <3>1. tried[c] = <<>> /\ \A a \in announced : a.by # c
        BY <1>2 DEF Inv, CallInv, BatchesOf, WitnessOf, Sent
      <3>2. pc'[c] = "returning" /\ id'[c] = m /\ result'[c] = IF ok THEN "ok" ELSE "error"
        BY <1>1 DEF Inv, TypeOK
      <3> QED BY <3>1, <3>2
    <2>2. BatchesOf(c)'
      <3>1. ~InNewsletter(req[c]) /\ req[c].id # Null => id[c] = req[c].id
        BY <1>2 DEF Inv, CallInv, BatchesOf
      <3> QED BY <1>2, <1>3, <2>1, <3>1 DEF BatchesOf, Sent
    <2>3. AcceptedOf(c)'
      BY <1>2, <2>1 DEF AcceptedOf
    <2>4. WitnessOf(c)'
      <3>1. ASSUME NEW a \in announced', a.by = c
            PROVE  ok /\ Reached(c, a.id)'
        BY <1>2, <1>3, <1>4, <2>1, <3>1 DEF Reached, Addressees
      <3>2. ok => Silent(c) \/ \E a \in announced' : a.by = c
        BY <1>4
      <3>3. reply[c] = Null
        BY <1>2 DEF Inv, CallInv, WitnessOf
      <3> QED BY <1>2, <2>1, <3>1, <3>2, <3>3 DEF WitnessOf, Sent, Silent
    <2> QED BY <2>2, <2>3, <2>4 DEF CallInv
  <1>7. ASSUME NEW o \in Calls, o # c PROVE CallInv(o)'
    <2>1. /\ pc'[o] = pc[o] /\ req'[o] = req[o] /\ id'[o] = id[o] /\ batches'[o] = batches[o]
          /\ tried'[o] = tried[o] /\ result'[o] = result[o] /\ reply'[o] = reply[o]
      BY <1>1, <1>2, <1>7 DEF Inv, TypeOK
    <2>2. \A a \in announced' \ announced : a.by = c
      BY <1>4
    <2> QED BY <1>3, <1>4, <1>7, <2>1, <2>2, OthersKeep DEF Inv
  <1> QED BY <1>5, <1>6, <1>7 DEF Inv

(* A status begins: its participants are cut into batches. *)
LEMMA BeginKeeps == ASSUME Inv, NEW c \in Calls, BeginStatus(c) PROVE Inv'
  <1> DEFINE all == Chunk(List(c), Size(c))
  <1>1. /\ pc[c] \in {"preparing", "uploaded"} /\ IsStatus(req[c]) /\ ~InNewsletter(req[c])
        /\ UNCHANGED <<req, tried, expired, reply, accepted, announced>>
    BY DEF BeginStatus, Ready, outcome, IsStatus, InNewsletter
  <1>2. CASE Return(c, "error") /\ UNCHANGED <<batches, id>>
    BY <1>1, <1>2, FailKeeps DEF outcome, Ready
  <1>3. ASSUME NEW m \in MessageId(c),
               pc' = [pc EXCEPT ![c] = "batches"], batches' = [batches EXCEPT ![c] = all],
               id' = [id EXCEPT ![c] = m], UNCHANGED result
        PROVE  Inv'
    <2>1. req[c] \in Requests
      BY <1>1 DEF Inv, TypeOK
    <2>2. all \in Seq(Seq(Users))
      BY <2>1, Chunks DEF List, Size
    <2> HIDE DEF all
    <2>3. m \in Ids /\ (id[c] # Null => m = id[c])
      BY <1>1, IdOf DEF Inv
    <2>4. TypeOK'
      BY <1>1, <1>3, <2>2, <2>3 DEF Inv, TypeOK
    <2>5. CallInv(c)'
      <3>1. /\ pc'[c] = "batches" /\ id'[c] = m /\ batches'[c] = all
        BY <1>1, <1>3 DEF Inv, TypeOK
      <3>2. /\ tried[c] = <<>> /\ (req[c].id # Null => id[c] = req[c].id)
            /\ reply[c] = Null /\ \A a \in announced : a.by # c
        BY <1>1 DEF Inv, CallInv, BatchesOf, WitnessOf, Sent
      <3>3. Progress(c)'
        <4>1. Len(<<>>) = 0 /\ DOMAIN <<>> = {} /\ Len(all) \in Nat
          BY <2>2
        <4>2. \A k \in DOMAIN all : all[k] = all[0 + k]
          BY <2>2
        <4> QED BY <1>1, <3>1, <3>2, <4>1, <4>2 DEF Progress, List, Size, all
      <3>4. BatchesOf(c)'
        BY <1>1, <2>3, <3>1, <3>2, <3>3 DEF BatchesOf, Sent
      <3>5. AcceptedOf(c)' /\ WitnessOf(c)'
        BY <1>1, <3>1, <3>2 DEF AcceptedOf, WitnessOf, Sent
      <3> QED BY <3>4, <3>5 DEF CallInv
    <2>6. ASSUME NEW o \in Calls, o # c PROVE CallInv(o)'
      BY <1>1, <1>3, <2>6, OthersKeep DEF Inv, TypeOK
    <2> QED BY <2>4, <2>5, <2>6 DEF Inv
  <1> QED BY <1>2, <1>3 DEF BeginStatus, List, Size

(* The next batch is sent. *)
LEMMA BatchKeeps == ASSUME Inv, NEW c \in Calls, SendBatch(c) PROVE Inv'
  <1> DEFINE b == Head(batches[c])
             all == Chunk(List(c), Size(c))
  <1>1. PICK ok \in BOOLEAN :
           /\ Deliver(c, id[c], ToSet(b), ok)
           /\ tried' = [tried EXCEPT ![c] =
                  Append(tried[c], [batch |-> b, id |-> id[c], ok |-> ok])]
           /\ batches' = [batches EXCEPT ![c] = Tail(batches[c])]
    BY DEF SendBatch
  <1>2. /\ pc[c] = "batches" /\ batches[c] # <<>>
        /\ UNCHANGED <<pc, req, id, result, expired, reply, announced>>
    BY DEF SendBatch
  <1>3. /\ id[c] \in Ids /\ tried[c] \in Seq([batch : Seq(Users), id : Ids, ok : BOOLEAN])
        /\ batches[c] \in Seq(Seq(Users)) /\ req[c] \in Requests
    BY <1>2 DEF Inv, TypeOK
  <1>4. b \in Seq(Users) /\ b = batches[c][1] /\ 1 \in DOMAIN batches[c]
    BY <1>2, <1>3
  <1>5. /\ accepted \subseteq accepted'
        /\ \A a \in accepted' : a.by \in Calls /\ a.id \in Ids
        /\ ok => \A u \in ToSet(b) : [by |-> c, id |-> id[c], to |-> u] \in accepted'
    BY <1>1, <1>3, Delivered DEF Inv
  <1>6. Progress(c)
    BY <1>2 DEF Inv, CallInv, BatchesOf
  <1> DEFINE r == [batch |-> b, id |-> id[c], ok |-> ok]
             n == Len(tried[c])
  <1>7. r \in [batch : Seq(Users), id : Ids, ok : BOOLEAN]
    BY <1>3, <1>4
  <1>8. /\ r.batch = b /\ r.id = id[c] /\ r.ok = ok
    OBVIOUS
  <1> HIDE DEF b, r
  <1>9. /\ tried'[c] = Append(tried[c], r) /\ batches'[c] = Tail(batches[c])
        /\ tried' = [tried EXCEPT ![c] = Append(tried[c], r)]
    BY <1>1 DEF Inv, TypeOK, r
  <1>10. TypeOK'
    <2>1. /\ Append(tried[c], r) \in Seq([batch : Seq(Users), id : Ids, ok : BOOLEAN])
          /\ Tail(batches[c]) \in Seq(Seq(Users))
      BY <1>2, <1>3, <1>7
    <2> QED BY <1>1, <1>2, <1>5, <1>9, <2>1 DEF Inv, TypeOK
  <1>11. /\ DOMAIN tried'[c] = DOMAIN tried[c] \cup {n + 1} /\ n \in Nat
         /\ \A k \in DOMAIN tried[c] : tried'[c][k] = tried[c][k]
         /\ tried'[c][n + 1] = r /\ Len(tried'[c]) = n + 1
    BY <1>3, <1>7, <1>9
  <1>12. CallInv(c)'
    <2>1. Progress(c)'
      <3>1. /\ IsStatus(req[c]) /\ n + Len(batches[c]) = Len(all)
            /\ \A k \in DOMAIN tried[c] : tried[c][k].batch = all[k] /\ tried[c][k].id = id[c]
            /\ \A k \in DOMAIN batches[c] : batches[c][k] = all[n + k]
        BY <1>6 DEF Progress
      <3>2. b = all[n + 1]
        BY <1>4, <3>1
      <3> HIDE DEF all, n
      <3>3. /\ Len(batches'[c]) = Len(batches[c]) - 1 /\ Len(batches[c]) \in Nat
            /\ \A k \in DOMAIN batches'[c] :
                  k \in Nat /\ k + 1 \in DOMAIN batches[c] /\ batches'[c][k] = batches[c][k + 1]
        BY <1>2, <1>3, <1>9
      <3>4. Len(tried'[c]) + Len(batches'[c]) = Len(all)
        <4>1. n \in Nat /\ Len(tried'[c]) = n + 1 /\ n + Len(batches[c]) = Len(all)
          BY <1>11, <3>1
        <4>2. Len(batches'[c]) = Len(batches[c]) - 1 /\ Len(batches[c]) \in Nat
          BY <3>3
        <4>3. PICK x \in Nat : x = Len(batches[c])
          BY <4>2
        <4>4. (n + 1) + (x - 1) = n + x
          BY <4>1
        <4> QED BY <4>1, <4>2, <4>3, <4>4
      <3>5. \A k \in DOMAIN tried'[c] : tried'[c][k].batch = all[k] /\ tried'[c][k].id = id[c]
        BY <1>8, <1>11, <3>1, <3>2
      <3>6. \A k \in DOMAIN batches'[c] : batches'[c][k] = all[Len(tried'[c]) + k]
        <4> SUFFICES ASSUME NEW k \in DOMAIN batches'[c]
                     PROVE  batches'[c][k] = all[Len(tried'[c]) + k]
          OBVIOUS
        <4>1. n + (k + 1) = (n + 1) + k
          <5>1. n \in Nat /\ k \in Nat
            BY <1>11, <3>3
          <5> QED BY <5>1
        <4>2. batches'[c][k] = all[n + (k + 1)]
          BY <3>1, <3>3
        <4> QED BY <1>11, <4>1, <4>2
      <3> QED BY <1>2, <3>1, <3>4, <3>5, <3>6 DEF Progress, List, Size, all
    <2>2. BatchesOf(c)'
      BY <1>2, <2>1 DEF Inv, CallInv, BatchesOf, Sent
    <2>3. AcceptedOf(c)'
      <3>1. \A k \in DOMAIN tried[c] : tried[c][k].ok =>
               \A u \in ToSet(tried[c][k].batch) :
                  [by |-> c, id |-> tried[c][k].id, to |-> u] \in accepted
        BY DEF Inv, CallInv, AcceptedOf
      <3> QED BY <1>5, <1>8, <1>11, <3>1 DEF AcceptedOf
    <2>4. WitnessOf(c)'
      BY <1>2 DEF Inv, CallInv, WitnessOf, Sent
    <2> QED BY <2>2, <2>3, <2>4 DEF CallInv
  <1>13. ASSUME NEW o \in Calls, o # c PROVE CallInv(o)'
    <2>1. tried'[o] = tried[o] /\ batches'[o] = batches[o]
      BY <1>1, <1>9, <1>13 DEF Inv, TypeOK
    <2> QED BY <1>2, <1>5, <1>13, <2>1, OthersKeep DEF Inv
  <1> QED BY <1>10, <1>12, <1>13 DEF Inv

(* The elements of a sequence are of its set. *)
LEMMA ElementOf == ASSUME NEW S, NEW s \in Seq(S), NEW k \in DOMAIN s PROVE s[k] \in S
  OBVIOUS

(* When every batch has been sent, they are the list laid end to end. *)
LEMMA AllLaid ==
    ASSUME Inv, NEW c \in Calls, Progress(c), batches[c] = <<>>, req[c] \in Requests
    PROVE  /\ [k \in DOMAIN tried[c] |-> tried[c][k].batch] = Chunk(List(c), Size(c))
           /\ Laid([k \in DOMAIN tried[c] |-> tried[c][k].batch], List(c), Size(c))
  <1>1. PICK all \in Seq(Seq(Users)) : all = Chunk(List(c), Size(c))
    BY Chunks DEF List, Size
  <1>2. tried[c] \in Seq([batch : Seq(Users), id : Ids, ok : BOOLEAN])
    BY DEF Inv, TypeOK
  <1>3. /\ Len(tried[c]) + 0 = Len(all)
        /\ \A k \in DOMAIN tried[c] : tried[c][k].batch = all[k]
    BY <1>1 DEF Progress
  <1>4. DOMAIN tried[c] = DOMAIN all /\ all = [k \in DOMAIN all |-> all[k]]
    BY <1>1, <1>2, <1>3
  <1>5. [k \in DOMAIN tried[c] |-> tried[c][k].batch] = all
    BY <1>3, <1>4
  <1>6. Laid(all, List(c), Size(c))
    BY <1>1, Chunks DEF List, Size
  <1> QED BY <1>1, <1>5, <1>6

(* The status is announced when no batch failed: then it has reached all. *)
LEMMA EndKeeps == ASSUME Inv, NEW c \in Calls, EndStatus(c) PROVE Inv'
  <1>1. /\ pc[c] = "batches" /\ batches[c] = <<>>
        /\ UNCHANGED <<req, id, batches, tried, expired, reply, accepted>>
    BY DEF EndStatus
  <1>2. Progress(c) /\ IsStatus(req[c]) /\ req[c] \in Requests /\ id[c] \in Ids
    BY <1>1 DEF Inv, TypeOK, CallInv, BatchesOf, Progress
  <1>3. ~InNewsletter(req[c]) /\ ~Silent(c)
    BY <1>2 DEF IsStatus, InNewsletter, Silent
  <1>4. /\ \A a \in announced : a.by # c
        /\ reply[c] = Null /\ AcceptedOf(c)
    BY <1>1 DEF Inv, CallInv, WitnessOf, Sent
  <1>5. ASSUME ~HasErrors(c) PROVE Reached(c, id[c])
    <2>1. \A k \in DOMAIN tried[c] : tried[c][k].ok /\ tried[c][k].id = id[c]
      <3>1. \A k \in DOMAIN tried[c] : tried[c][k].ok \in BOOLEAN
        <4>1. tried[c] \in Seq([batch : Seq(Users), id : Ids, ok : BOOLEAN])
          BY DEF Inv, TypeOK
        <4>2. ASSUME NEW k \in DOMAIN tried[c]
              PROVE  tried[c][k] \in [batch : Seq(Users), id : Ids, ok : BOOLEAN]
          BY <4>1, ElementOf
        <4> QED BY <4>2
      <3> QED BY <1>2, <1>5, <3>1 DEF HasErrors, Progress
    <2>2. Laid([k \in DOMAIN tried[c] |-> tried[c][k].batch], List(c), Size(c))
      BY <1>1, <1>2, AllLaid
    <2>3. ASSUME NEW i \in DOMAIN List(c)
          PROVE  \E k \in DOMAIN tried[c] : List(c)[i] \in ToSet(tried[c][k].batch)
      <3> DEFINE parts == [k \in DOMAIN tried[c] |-> tried[c][k].batch]
      <3>1. \A k \in DOMAIN tried[c] : parts[k] = tried[c][k].batch
        OBVIOUS
      <3>2. DOMAIN parts = DOMAIN tried[c]
        OBVIOUS
      <3> HIDE DEF parts
      <3>3. PICK k \in DOMAIN parts : \E j \in DOMAIN parts[k] :
               i = Size(c) * (k - 1) + j /\ parts[k][j] = List(c)[i]
        <4>1. Laid(parts, List(c), Size(c))
          BY <2>2 DEF parts
        <4>2. PICK k \in DOMAIN parts : \E j \in DOMAIN parts[k] : i = Size(c) * (k - 1) + j
          BY <4>1 DEF Laid
        <4>3. PICK j \in DOMAIN parts[k] : i = Size(c) * (k - 1) + j
          BY <4>2
        <4>4. parts[k][j] = List(c)[i]
          BY <4>1, <4>3 DEF Laid
        <4> QED BY <4>3, <4>4
      <3>4. List(c)[i] \in ToSet(parts[k])
        BY <3>3 DEF ToSet
      <3> QED BY <3>1, <3>2, <3>4
    <2>4. ASSUME NEW u \in ToSet(List(c))
          PROVE  [by |-> c, id |-> id[c], to |-> u] \in accepted
      BY <1>4, <2>1, <2>3 DEF AcceptedOf, ToSet
    <2> QED BY <1>2, <2>4 DEF Reached, Addressees, List
  <1>6. /\ pc' = [pc EXCEPT ![c] = "returning"]
        /\ result' = [result EXCEPT ![c] = IF HasErrors(c) THEN "error" ELSE "ok"]
        /\ announced' = IF HasErrors(c) THEN announced
                        ELSE announced \cup {[by |-> c, id |-> id[c]]}
    BY <1>3 DEF EndStatus, Return, Announce
  <1>7. TypeOK'
    <2>1. announced' \subseteq [by : Calls, id : Ids]
      BY <1>2, <1>6 DEF Inv, TypeOK
    <2>2. result' \in [Calls -> {"ok", "error", "panic", Null}]
      BY <1>6 DEF Inv, TypeOK
    <2> QED BY <1>1, <1>2, <1>6, <2>1, <2>2 DEF Inv, TypeOK
  <1>8. CallInv(c)'
    <2>1. pc'[c] = "returning" /\ result'[c] = IF HasErrors(c) THEN "error" ELSE "ok"
      BY <1>6 DEF Inv, TypeOK
    <2>2. BatchesOf(c)'
      <3>1. Progress(c)'
        BY <1>1, <1>2 DEF Progress, List, Size
      <3> QED BY <1>1, <1>2, <2>1, <3>1 DEF Inv, CallInv, BatchesOf, Sent
    <2>3. AcceptedOf(c)'
      BY <1>1, <1>4 DEF AcceptedOf
    <2>4. WitnessOf(c)'
      <3>1. ASSUME NEW a \in announced', a.by = c
            PROVE  ~HasErrors(c) /\ Reached(c, a.id)'
        <4>1. ~HasErrors(c) /\ a.id = id[c]
          BY <1>4, <1>6, <3>1
        <4> QED BY <1>1, <1>5, <4>1 DEF Reached, Addressees
      <3>2. ~HasErrors(c) => \E a \in announced' : a.by = c
        <4>1. ~HasErrors(c) => [by |-> c, id |-> id[c]] \in announced'
          BY <1>6
        <4>2. [by |-> c, id |-> id[c]].by = c
          OBVIOUS
        <4> QED BY <4>1, <4>2
      <3> QED BY <1>1, <1>4, <2>1, <3>1, <3>2 DEF WitnessOf, Sent, Silent
    <2> QED BY <2>2, <2>3, <2>4 DEF CallInv
  <1>9. ASSUME NEW o \in Calls, o # c PROVE CallInv(o)'
    <2>1. pc'[o] = pc[o] /\ result'[o] = result[o]
      BY <1>6, <1>9 DEF Inv, TypeOK
    <2>2. announced \subseteq announced' /\ \A a \in announced' \ announced : a.by = c
      BY <1>6
    <2> QED BY <1>1, <1>9, <2>1, <2>2, OthersKeep DEF Inv
  <1> QED BY <1>7, <1>8, <1>9 DEF Inv

(* The reply, after a deadline or not. *)
LEMMA ReplyKeeps == ASSUME Inv, NEW c \in Calls, Reply(c) PROVE Inv'
  <1>1. /\ pc[c] = "returning" /\ pc' = [pc EXCEPT ![c] = "returned"]
        /\ reply' = [reply EXCEPT ![c] = Answer(c)]
        /\ UNCHANGED <<req, id, batches, tried, result, expired, accepted, announced>>
    BY DEF Reply, outcome
  <1>2. result[c] \in {"ok", "error", "panic"}
    BY <1>1 DEF Inv, CallInv, WitnessOf, Sent
  <1>3. \/ Answer(c) = "deadline"
        \/ Answer(c) = "error" /\ result[c] \in {"error", "panic"}
        \/ Answer(c) = "ok" /\ result[c] = "ok"
    BY <1>2 DEF Answer
  <1>4. TypeOK'
    BY <1>1, <1>3 DEF Inv, TypeOK
  <1>5. CallInv(c)'
    <2>1. pc'[c] = "returned" /\ reply'[c] = Answer(c)
      BY <1>1 DEF Inv, TypeOK
    <2>2. BatchesOf(c)' /\ AcceptedOf(c)'
      BY <1>1, <2>1
         DEF Inv, CallInv, BatchesOf, AcceptedOf, Sent, Progress, List, Size
    <2>3. WitnessOf(c)'
      BY <1>1, <1>2, <1>3, <2>1
         DEF Inv, CallInv, WitnessOf, Sent, Silent, Reached, Addressees
    <2> QED BY <2>2, <2>3 DEF CallInv
  <1>6. ASSUME NEW o \in Calls, o # c PROVE CallInv(o)'
    BY <1>1, <1>6, OthersKeep DEF Inv, TypeOK
  <1> QED BY <1>4, <1>5, <1>6 DEF Inv

(* Every step keeps the invariant. *)
LEMMA InvNext == Inv /\ [Next]_vars => Inv'
  <1> SUFFICES ASSUME Inv, [Next]_vars PROVE Inv'
    OBVIOUS
  <1>1. ASSUME NEW c \in Calls, Refuse(c) PROVE Inv'
    BY <1>1, FailKeeps DEF Refuse
  <1>2. ASSUME NEW c \in Calls, Expire(c) PROVE Inv'
    <2>1. TypeOK'
      BY <1>2 DEF Expire, outcome, Inv, TypeOK
    <2>2. ASSUME NEW o \in Calls PROVE CallInv(o)'
      BY <1>2, OthersKeep DEF Expire, outcome, Inv
    <2> QED BY <2>1, <2>2 DEF Inv
  <1>3. CASE UNCHANGED vars
    <2>1. TypeOK'
      BY <1>3 DEF vars, outcome, Inv, TypeOK
    <2>2. ASSUME NEW o \in Calls PROVE CallInv(o)'
      BY <1>3, OthersKeep DEF vars, outcome, Inv
    <2> QED BY <2>1, <2>2 DEF Inv
  <1> QED BY <1>1, <1>2, <1>3, ReceiveKeeps, UploadKeeps, SendOnceKeeps, BeginKeeps, BatchKeeps, EndKeeps,
             ReplyKeeps DEF Next, Handle

(* The inductive invariant of the calls. *)
THEOREM Invariance == Spec => []Inv
  <1> QED BY InvInit, InvNext, PTL DEF Spec

(* Every variable keeps its type; batches hold users only. *)
THEOREM TypeCorrect == Spec => []TypeOK
  <1>1. Inv => TypeOK
    BY DEF Inv
  <1> QED BY <1>1, Invariance, PTL

(* What is announced has reached every addressee, "ok" means announced, and
   "error" not announced, whatever failed, was lost or came late.          *)
THEOREM Witnesses == Spec => []WitnessesAgree
  <1>1. Inv => WitnessesAgree
    <2> SUFFICES ASSUME Inv, NEW c \in Calls
                 PROVE  /\ \A a \in announced : a.by = c => Reached(c, a.id)
                        /\ reply[c] = "ok" => Silent(c) \/ \E a \in announced : a.by = c
                        /\ reply[c] = "error" => ~\E a \in announced : a.by = c
      BY DEF WitnessesAgree, Reached, Silent
    <2>1. WitnessOf(c)
      BY DEF Inv, CallInv
    <2>2. \A a \in announced : a.by = c => result[c] = "ok" /\ Reached(c, a.id)
      BY <2>1 DEF WitnessOf
    <2>3. reply[c] = "ok" => result[c] = "ok" /\ Sent(c)
      BY <2>1, IdsAssumption DEF WitnessOf, Sent
    <2>4. reply[c] = "error" => result[c] # "ok"
      BY <2>1, IdsAssumption DEF WitnessOf
    <2> QED BY <2>1, <2>2, <2>3, <2>4 DEF WitnessOf
  <1> QED BY <1>1, Invariance, PTL

(* A status is tried once for every user of its list, in order and the own
   account first, under one id, for every audience and every batch size.   *)
THEOREM EveryUser == Spec => []EveryUserTriedOnce
  <1>1. Inv => EveryUserTriedOnce
    <2> SUFFICES ASSUME Inv, NEW c \in Calls, pc[c] = "returned", tried[c] # <<>>
                 PROVE  /\ Laid([k \in DOMAIN tried[c] |-> tried[c][k].batch], List(c), Size(c))
                        /\ \A k \in DOMAIN tried[c] :
                              /\ tried[c][k].id = id[c]
                              /\ req[c].id # Null => tried[c][k].id = req[c].id
                        /\ req[c].list = <<>> => Head(tried[c][1].batch) = Last(Audience)
      BY DEF EveryUserTriedOnce, List, Size
    <2>1. BatchesOf(c) /\ req[c] \in Requests
      BY DEF Inv, CallInv, TypeOK
    <2>2. Progress(c) /\ batches[c] = <<>>
      BY <2>1 DEF BatchesOf, Sent
    <2>3. \A k \in DOMAIN tried[c] : tried[c][k].id = id[c]
      BY <2>2 DEF Progress
    <2>4. ~InNewsletter(req[c])
      BY <2>2 DEF Progress, IsStatus, InNewsletter
    <2>5. req[c].id # Null => id[c] = req[c].id
      BY <2>1, <2>4 DEF BatchesOf
    <2>6. /\ [k \in DOMAIN tried[c] |-> tried[c][k].batch] = Chunk(List(c), Size(c))
          /\ Laid([k \in DOMAIN tried[c] |-> tried[c][k].batch], List(c), Size(c))
      BY <2>1, <2>2, AllLaid
    <2>7. 1 \in DOMAIN tried[c]
      BY DEF Inv, TypeOK
    <2>8. tried[c][1].batch = Chunk(List(c), Size(c))[1]
      BY <2>6, <2>7
    <2>9. req[c].list = <<>> => Head(Chunk(List(c), Size(c))[1]) = Last(Audience)
      BY <2>1, Chunks DEF List, Size
    <2> QED BY <2>3, <2>5, <2>6, <2>8, <2>9
  <1> QED BY <1>1, Invariance, PTL
=============================================================================

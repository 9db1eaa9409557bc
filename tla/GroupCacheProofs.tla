--------------------------- MODULE GroupCacheProofs ---------------------------
(***************************************************************************)
(* The cached groups, for any number of groups, participants, handlers and *)
(* versions.                                                               *)
(*                                                                         *)
(* Stored: whatever is delayed, reordered, missed or fails, the            *)
(* participants of a row are those of the row's version.  An update means  *)
(* what its lists mean as sets, so it leads from the participants of the   *)
(* version before it to those of its own, and is refused by others.        *)
(*                                                                         *)
(* Inv, while I stay in my groups: a row never goes back, and the settings *)
(* table tells the timers of the rows.  Both rest on the lock: whoever     *)
(* holds a copy of a group, from the table or from WhatsApp, is the only   *)
(* one to write until he is done with it.                                  *)
(*                                                                         *)
(* CompleteInv and ReachInv rest on both: a list is whole, and nothing     *)
(* that was announced is lost but by a handler that gave up.               *)
(*                                                                         *)
(* AppliedInv, for the update algorithm by itself: whatever is applied to  *)
(* a group, its list names nobody twice.                                   *)
(***************************************************************************)
EXTENDS GroupCache, MCGroupInfo, FiniteSetTheorems, TLAPS

RankFunctions == UNION {[D -> Ranks] : D \in SUBSET Jids}

Updates == [timer : Timers \cup {Same}, prev : Nat, version : Nat,
            join : Seq(Jids), leave : Seq(Jids), promote : Seq(Jids), demote : Seq(Jids)]

(* The places of a finite set of numbers are counted without gaps, and in
   their order.                                                            *)
LEMMA Counted ==
    ASSUME NEW N \in Nat, NEW P \in SUBSET (1..N)
    PROVE  /\ Cardinality(P) \in Nat
           /\ \A n \in 1..Cardinality(P) :
                 /\ Nth(P, n) \in P
                 /\ Cardinality({i \in P : i <= Nth(P, n)}) = n
           /\ \A k \in P : \E n \in 1..Cardinality(P) : Nth(P, n) = k
           /\ \A m, n \in 1..Cardinality(P) : m < n => Nth(P, m) < Nth(P, n)
  <1> DEFINE rank(k) == Cardinality({i \in P : i <= k})
             f == [k \in P |-> rank(k)]
             S == Cardinality(P)
  <1>1. IsFiniteSet(P) /\ S \in Nat
    <2>1. IsFiniteSet(1..N)
      BY FS_Interval
    <2> QED BY <2>1, FS_Subset, FS_CardinalityType
  <1>2. ASSUME NEW k \in Nat
        PROVE  /\ IsFiniteSet({i \in P : i <= k}) /\ rank(k) \in Nat /\ rank(k) <= S
    <2>1. {i \in P : i <= k} \in SUBSET P
      OBVIOUS
    <2> QED BY <1>1, <2>1, FS_Subset, FS_CardinalityType
  <1>3. ASSUME NEW k \in P PROVE rank(k) \in 1..S
    <2>1. {k} \in SUBSET {i \in P : i <= k} /\ Cardinality({k}) = 1 /\ k \in Nat
      BY FS_Singleton
    <2>2. 1 <= rank(k)
      BY <1>2, <2>1, FS_Subset
    <2> QED BY <1>1, <1>2, <2>1, <2>2
  <1>4. ASSUME NEW k \in P, NEW l \in P, k < l PROVE rank(k) < rank(l)
    <2>1. k \in Nat /\ l \in Nat
      OBVIOUS
    <2>2. /\ {i \in P : i <= k} \in SUBSET {i \in P : i <= l}
          /\ {i \in P : i <= k} # {i \in P : i <= l}
      <3>1. \A i \in P : i \in Nat
        OBVIOUS
      <3>2. l \in {i \in P : i <= l} /\ l \notin {i \in P : i <= k}
        BY <1>4, <2>1
      <3>3. \A i \in P : i <= k => i <= l
        BY <1>4, <2>1, <3>1
      <3> QED BY <3>2, <3>3
    <2>3. rank(k) <= rank(l) /\ rank(l) # rank(k)
      BY <1>2, <2>1, <2>2, FS_Subset
    <2> QED BY <1>2, <2>1, <2>3
  <1>5. \A n \in 1..S : \E k \in P : rank(k) = n
    <2>1. f \in [P -> 1..S] /\ \A k, l \in P : f[k] = f[l] => k = l
      <3>1. f \in [P -> 1..S]
        BY <1>3
      <3>2. ASSUME NEW k \in P, NEW l \in P, f[k] = f[l] PROVE k = l
        <4>1. ~(k < l) /\ ~(l < k)
          <5> HIDE DEF rank
          <5>1. rank(k) \in Nat /\ rank(l) \in Nat /\ rank(k) = rank(l)
            BY <1>3, <3>2
          <5> QED BY <1>4, <5>1
        <4> QED BY <4>1
      <3> HIDE DEF f
      <3> QED BY <3>1, <3>2
    <2>2. f \in Injection(P, 1..S)
      BY <2>1 DEF Injection, IsInjective
    <2>3. IsFiniteSet(1..S) /\ Cardinality(1..S) = S
      BY <1>1, FS_Interval
    <2>4. f \in Surjection(P, 1..S)
      BY <2>2, <2>3, FS_Injection
    <2> QED BY <2>4 DEF Surjection
  <1>6. ASSUME NEW n \in 1..S PROVE Nth(P, n) \in P /\ rank(Nth(P, n)) = n
    BY <1>5 DEF Nth
  <1> HIDE DEF rank, S
  <1>7. ASSUME NEW k \in P PROVE \E n \in 1..S : Nth(P, n) = k
    <2>1. rank(k) \in 1..S
      BY <1>3
    <2>2. Nth(P, rank(k)) \in P /\ rank(Nth(P, rank(k))) = rank(k)
      BY <1>6, <2>1
    <2>3. Nth(P, rank(k)) = k
      <3> DEFINE l == Nth(P, rank(k))
      <3>1. l \in P /\ rank(l) = rank(k) /\ rank(k) \in Nat
        BY <2>1, <2>2
      <3> HIDE DEF l
      <3>2. ~(k < l) /\ ~(l < k) /\ k \in Nat /\ l \in Nat
        BY <1>4, <3>1
      <3> QED BY <3>1, <3>2 DEF l
    <2> QED BY <2>1, <2>3
  <1>8. ASSUME NEW m \in 1..S, NEW n \in 1..S, m < n PROVE Nth(P, m) < Nth(P, n)
    <2>1. PICK k \in P : k = Nth(P, m) /\ rank(k) = m
      BY <1>6
    <2>2. PICK l \in P : l = Nth(P, n) /\ rank(l) = n
      BY <1>6
    <2>3. k # l /\ ~(l < k)
      BY <1>4, <1>8, <2>1, <2>2
    <2> QED BY <2>1, <2>2, <2>3
  <1> QED BY <1>1, <1>6, <1>7, <1>8 DEF rank, S

(* What is picked from a sequence: the elements at the places, in order. *)
LEMMA PickedElements ==
    ASSUME NEW S, NEW s \in Seq(S), NEW P \in SUBSET DOMAIN s
    PROVE  /\ Picked(s, P) \in Seq(S)
           /\ ToSet(Picked(s, P)) = {s[k] : k \in P}
  <1> DEFINE n == Cardinality(P)
             p == Picked(s, P)
  <1>1. Len(s) \in Nat /\ P \in SUBSET (1..Len(s))
    OBVIOUS
  <1>2. /\ n \in Nat /\ \A i \in 1..n : Nth(P, i) \in P
        /\ \A k \in P : \E i \in 1..n : Nth(P, i) = k
    BY <1>1, Counted
  <1> HIDE DEF n
  <1>3. p = [i \in 1..n |-> s[Nth(P, i)]]
    BY DEF Picked, n
  <1> HIDE DEF p
  <1>4. \A i \in 1..n : s[Nth(P, i)] \in S
    BY <1>2
  <1>5. [i \in 1..n |-> s[Nth(P, i)]] \in Seq(S)
    BY <1>2, <1>4
  <1>6. DOMAIN p = 1..n /\ \A i \in 1..n : p[i] = s[Nth(P, i)]
    BY <1>3
  <1>7. {p[i] : i \in DOMAIN p} = {s[k] : k \in P}
    <2>1. ASSUME NEW i \in DOMAIN p PROVE p[i] \in {s[k] : k \in P}
      BY <1>2, <1>6
    <2>2. ASSUME NEW k \in P PROVE s[k] \in {p[i] : i \in DOMAIN p}
      <3>1. PICK i \in 1..n : Nth(P, i) = k
        BY <1>2
      <3> QED BY <1>6, <3>1
    <2> QED BY <2>1, <2>2
  <1> QED BY <1>3, <1>5, <1>7 DEF ToSet, p

(* The first place of an element, *)
LEMMA FirstPlace ==
    ASSUME NEW S, NEW s \in Seq(S), NEW j \in ToSet(s)
    PROVE  \E k \in DOMAIN s : s[k] = j /\ \A i \in DOMAIN s : s[i] = j => k <= i
  <1> DEFINE P == {i \in DOMAIN s : s[i] = j}
             k == Nth(P, 1)
  <1>1. Len(s) \in Nat /\ P \in SUBSET (1..Len(s)) /\ \E i \in DOMAIN s : i \in P
    BY DEF ToSet
  <1>2. /\ Cardinality(P) \in Nat
        /\ \A n \in 1..Cardinality(P) : Nth(P, n) \in P
        /\ \A i \in P : \E n \in 1..Cardinality(P) : Nth(P, n) = i
        /\ \A m, n \in 1..Cardinality(P) : m < n => Nth(P, m) < Nth(P, n)
    BY <1>1, Counted
  <1> HIDE DEF P
  <1>3. 1 \in 1..Cardinality(P)
    BY <1>1, <1>2
  <1>4. k \in P
    BY <1>2, <1>3
  <1>5. ASSUME NEW i \in P PROVE k <= i
    <2>1. PICK n \in 1..Cardinality(P) : Nth(P, n) = i
      BY <1>2
    <2>2. n = 1 \/ 1 < n
      BY <1>2
    <2>3. i \in Nat /\ k \in Nat
      BY <1>1, <1>4
    <2> QED BY <1>2, <1>3, <2>1, <2>2, <2>3
  <1> QED BY <1>4, <1>5 DEF P

(* and the last. *)
LEMMA LastPlace ==
    ASSUME NEW S, NEW s \in Seq(S), NEW j \in ToSet(s)
    PROVE  \E k \in DOMAIN s : s[k] = j /\ \A i \in DOMAIN s : s[i] = j => i <= k
  <1> DEFINE P == {i \in DOMAIN s : s[i] = j}
             k == Nth(P, Cardinality(P))
  <1>1. Len(s) \in Nat /\ P \in SUBSET (1..Len(s)) /\ \E i \in DOMAIN s : i \in P
    BY DEF ToSet
  <1>2. /\ Cardinality(P) \in Nat
        /\ \A n \in 1..Cardinality(P) : Nth(P, n) \in P
        /\ \A i \in P : \E n \in 1..Cardinality(P) : Nth(P, n) = i
        /\ \A m, n \in 1..Cardinality(P) : m < n => Nth(P, m) < Nth(P, n)
    BY <1>1, Counted
  <1> HIDE DEF P
  <1>3. Cardinality(P) \in 1..Cardinality(P)
    BY <1>1, <1>2
  <1>4. k \in P
    BY <1>2, <1>3
  <1>5. ASSUME NEW i \in P PROVE i <= k
    <2>1. PICK n \in 1..Cardinality(P) : Nth(P, n) = i
      BY <1>2
    <2>2. n = Cardinality(P) \/ n < Cardinality(P)
      BY <1>2
    <2>3. i \in Nat /\ k \in Nat
      BY <1>1, <1>4
    <2> QED BY <1>2, <1>3, <2>1, <2>2, <2>3
  <1> QED BY <1>4, <1>5 DEF P

-----------------------------------------------------------------------------
(* A participants map: ranks for those present, all of whom are in its order. *)
IsMap(pm) ==
    /\ pm = [ranks |-> pm.ranks, originalOrder |-> pm.originalOrder,
             newlyJoined |-> pm.newlyJoined]
    /\ pm.originalOrder \in Seq(Jids) /\ pm.newlyJoined \in Seq(Jids)
    /\ DOMAIN pm.ranks \subseteq ToSet(pm.originalOrder) \cup ToSet(pm.newlyJoined)
    /\ pm.ranks \in [DOMAIN pm.ranks -> Ranks]

(* A list of participants, read into a map. *)
LEMMA MapOf ==
    ASSUME NEW p \in Seq(RankRecords)
    PROVE  /\ IsMap(NewParticipantsMap(p))
           /\ NewParticipantsMap(p).newlyJoined = <<>>
           /\ DOMAIN NewParticipantsMap(p).ranks = {p[k].jid : k \in DOMAIN p}
           /\ \A j \in DOMAIN NewParticipantsMap(p).ranks :
                 \E k \in DOMAIN p : p[k].jid = j /\ NewParticipantsMap(p).ranks[j] = p[k].rank
  <1> DEFINE jids == [k \in DOMAIN p |-> p[k].jid]
             LastOf(j) == CHOOSE k \in DOMAIN jids :
                             jids[k] = j /\ \A i \in DOMAIN jids : jids[i] = j => i <= k
             ranks == [j \in ToSet(jids) |-> p[LastOf(j)].rank]
             pm == NewParticipantsMap(p)
  <1>1. \A k \in DOMAIN p : p[k].jid \in Jids /\ p[k].rank \in Ranks
    <2>1. ASSUME NEW k \in DOMAIN p PROVE p[k] \in RankRecords
      OBVIOUS
    <2> QED BY <2>1 DEF RankRecords
  <1>2. jids \in Seq(Jids) /\ DOMAIN jids = DOMAIN p
    BY <1>1
  <1>3. pm = [ranks |-> ranks, originalOrder |-> jids, newlyJoined |-> <<>>]
    BY DEF NewParticipantsMap
  <1>4. ASSUME NEW j \in ToSet(jids)
        PROVE  LastOf(j) \in DOMAIN p /\ jids[LastOf(j)] = j
    <2>1. \E k \in DOMAIN jids : jids[k] = j /\ \A i \in DOMAIN jids : jids[i] = j => i <= k
      BY <1>2, LastPlace
    <2> QED BY <1>2, <2>1
  <1> HIDE DEF LastOf
  <1>5. \A k \in DOMAIN p : jids[k] = p[k].jid
    OBVIOUS
  <1> HIDE DEF jids
  <1>6. ToSet(jids) = {p[k].jid : k \in DOMAIN p}
    BY <1>2, <1>5 DEF ToSet
  <1>7. ranks \in [ToSet(jids) -> Ranks]
    BY <1>1, <1>4
  <1>8. \A j \in ToSet(jids) : \E k \in DOMAIN p : p[k].jid = j /\ ranks[j] = p[k].rank
    BY <1>4, <1>5
  <1> HIDE DEF ranks, pm
  <1>9. /\ pm.ranks = ranks /\ pm.originalOrder = jids /\ pm.newlyJoined = <<>>
        /\ pm = [ranks |-> pm.ranks, originalOrder |-> pm.originalOrder,
                 newlyJoined |-> pm.newlyJoined]
    BY <1>3
  <1>10. IsMap(pm)
    BY <1>2, <1>7, <1>9 DEF IsMap
  <1> QED BY <1>6, <1>7, <1>8, <1>9, <1>10 DEF pm

(* Who is in a list once has the rank the list gives. *)
LEMMA MapOfFunction ==
    ASSUME NEW s \in Seq(Jids), NEW f, \A j \in ToSet(s) : f[j] \in Ranks
    PROVE  LET p == [k \in DOMAIN s |-> [jid |-> s[k], rank |-> f[s[k]]]] IN
           /\ p \in Seq(RankRecords)
           /\ NewParticipantsMap(p).ranks = [j \in ToSet(s) |-> f[j]]
  <1> DEFINE p == [k \in DOMAIN s |-> [jid |-> s[k], rank |-> f[s[k]]]]
             ranks == NewParticipantsMap(p).ranks
  <1>1. \A k \in DOMAIN s : /\ s[k] \in Jids /\ s[k] \in ToSet(s)
                            /\ [jid |-> s[k], rank |-> f[s[k]]] \in RankRecords
    BY DEF ToSet, RankRecords
  <1>2. p \in Seq(RankRecords) /\ DOMAIN p = DOMAIN s
    BY <1>1
  <1>3. \A k \in DOMAIN s : p[k].jid = s[k] /\ p[k].rank = f[s[k]]
    OBVIOUS
  <1> HIDE DEF p, ranks
  <1>4. /\ ranks = [j \in DOMAIN ranks |-> ranks[j]]
        /\ DOMAIN ranks = {p[k].jid : k \in DOMAIN p}
        /\ \A j \in DOMAIN ranks : \E k \in DOMAIN p : p[k].jid = j /\ ranks[j] = p[k].rank
    BY <1>2, MapOf DEF IsMap, ranks
  <1>5. DOMAIN ranks = ToSet(s)
    BY <1>2, <1>3, <1>4 DEF ToSet
  <1>6. \A j \in DOMAIN ranks : ranks[j] = f[j]
    BY <1>2, <1>3, <1>4
  <1>7. ranks = [j \in ToSet(s) |-> f[j]]
    BY <1>4, <1>5, <1>6
  <1> QED BY <1>2, <1>7 DEF p, ranks

(* The list a map is rebuilt into has the ranks of the map. *)
LEMMA RebuiltRanks ==
    ASSUME NEW pm, IsMap(pm)
    PROVE  /\ Participants(pm) \in Seq(RankRecords)
           /\ NewParticipantsMap(Participants(pm)).ranks = pm.ranks
  <1> DEFINE order == Order(pm)
             P == {k \in DOMAIN order : order[k] \in DOMAIN pm.ranks}
             present == Picked(order, P)
  <1>1. order \in Seq(Jids) /\ DOMAIN pm.ranks \subseteq ToSet(order)
    <2>1. PICK a \in Seq(Jids), b \in Seq(Jids) : a = pm.originalOrder /\ b = pm.newlyJoined
      BY DEF IsMap
    <2>2. order = a \o b
      BY <2>1 DEF Order
    <2>3. ToSet(a) \cup ToSet(b) \subseteq ToSet(a \o b)
      <3>1. ASSUME NEW k \in DOMAIN a PROVE k \in DOMAIN (a \o b) /\ (a \o b)[k] = a[k]
        OBVIOUS
      <3>2. ASSUME NEW k \in DOMAIN b
            PROVE  Len(a) + k \in DOMAIN (a \o b) /\ (a \o b)[Len(a) + k] = b[k]
        OBVIOUS
      <3> QED BY <3>1, <3>2 DEF ToSet
    <2> QED BY <2>1, <2>2, <2>3 DEF IsMap
  <1>2. /\ present \in Seq(Jids) /\ ToSet(present) = {order[k] : k \in P}
    BY <1>1, PickedElements
  <1>3. {order[k] : k \in P} = DOMAIN pm.ranks
    BY <1>1 DEF ToSet
  <1>4. Participants(pm) = [k \in DOMAIN present |-> [jid |-> present[k], rank |-> pm.ranks[present[k]]]]
    BY DEF Participants
  <1> HIDE DEF present, P, order
  <1>5. \A j \in ToSet(present) : pm.ranks[j] \in Ranks
    BY <1>2, <1>3 DEF IsMap
  <1>6. pm.ranks = [j \in ToSet(present) |-> pm.ranks[j]]
    BY <1>2, <1>3 DEF IsMap
  <1>7. PICK s \in Seq(Jids) : s = present
    BY <1>2
  <1> DEFINE f == pm.ranks
  <1>8. LET p == [k \in DOMAIN s |-> [jid |-> s[k], rank |-> f[s[k]]]] IN
        /\ p \in Seq(RankRecords)
        /\ NewParticipantsMap(p).ranks = [j \in ToSet(s) |-> f[j]]
    <2>1. \A j \in ToSet(s) : f[j] \in Ranks
      BY <1>5, <1>7
    <2> HIDE DEF f
    <2> QED BY <2>1, MapOfFunction, Zenon
  <1> QED BY <1>4, <1>6, <1>7, <1>8

(* What an update means for the ranks: who joins is added, then who leaves is
   removed; the last of promote and demote decides a rank.                 *)
Changed(ranks, u) ==
    [j \in (DOMAIN ranks \cup ToSet(u.join)) \ ToSet(u.leave) |->
        IF j \in ToSet(u.demote) THEN "member"
        ELSE IF j \in ToSet(u.promote) THEN "admin"
        ELSE IF j \in DOMAIN ranks THEN ranks[j] ELSE "member"]

(* Joining, leaving and a change of rank, on the map. *)
LEMMA JoinMap ==
    ASSUME NEW pm, IsMap(pm), pm.newlyJoined = <<>>, NEW jids \in Seq(Jids)
    PROVE  /\ IsMap(Join(pm, jids))
           /\ Join(pm, jids).ranks = [j \in DOMAIN pm.ranks \cup ToSet(jids) |->
                 IF j \in DOMAIN pm.ranks THEN pm.ranks[j] ELSE "member"]
  <1> DEFINE new == {k \in DOMAIN jids : /\ jids[k] \notin DOMAIN pm.ranks
                                         /\ \A i \in 1..(k - 1) : jids[i] # jids[k]}
             ranks == [j \in DOMAIN pm.ranks \cup ToSet(jids) |->
                          IF j \in DOMAIN pm.ranks THEN pm.ranks[j] ELSE "member"]
             q == Join(pm, jids)
  <1>1. q = [pm EXCEPT !.ranks = ranks, !.newlyJoined = pm.newlyJoined \o Picked(jids, new)]
    BY DEF Join
  <1>2. new \in SUBSET DOMAIN jids
    OBVIOUS
  <1>3. /\ Picked(jids, new) \in Seq(Jids)
        /\ ToSet(Picked(jids, new)) = {jids[k] : k \in new}
    BY <1>2, PickedElements
  <1>4. ASSUME NEW j \in ToSet(jids), j \notin DOMAIN pm.ranks
        PROVE  j \in {jids[k] : k \in new}
    <2>1. PICK k \in DOMAIN jids : jids[k] = j
               /\ \A i \in DOMAIN jids : jids[i] = j => k <= i
      BY FirstPlace
    <2>2. k \in Nat /\ \A i \in 1..(k - 1) : i \in DOMAIN jids /\ ~(k <= i)
      OBVIOUS
    <2>3. k \in new
      BY <1>4, <2>1, <2>2
    <2> QED BY <2>1, <2>3
  <1>5. ranks \in [DOMAIN pm.ranks \cup ToSet(jids) -> Ranks]
    BY DEF IsMap, Ranks
  <1>6. <<>> \o Picked(jids, new) = Picked(jids, new)
    BY <1>3
  <1> HIDE DEF new, ranks, q
  <1>7. /\ q.ranks = ranks /\ q.originalOrder = pm.originalOrder
        /\ q.newlyJoined = Picked(jids, new)
        /\ q = [ranks |-> q.ranks, originalOrder |-> q.originalOrder,
                newlyJoined |-> q.newlyJoined]
    BY <1>1, <1>6 DEF IsMap
  <1>8. DOMAIN pm.ranks \subseteq ToSet(pm.originalOrder)
    BY DEF IsMap, ToSet
  <1>9. IsMap(q)
    BY <1>3, <1>4, <1>5, <1>7, <1>8 DEF IsMap
  <1> QED BY <1>7, <1>9 DEF q, ranks

(* Leaving. *)
LEMMA LeaveMap ==
    ASSUME NEW pm, IsMap(pm), NEW jids
    PROVE  /\ IsMap(Leave(pm, jids))
           /\ Leave(pm, jids).ranks = [j \in DOMAIN pm.ranks \ ToSet(jids) |-> pm.ranks[j]]
  BY DEF IsMap, Leave

(* A change of rank. *)
LEMMA SetRankMap ==
    ASSUME NEW pm, IsMap(pm), NEW jids, NEW rank \in Ranks
    PROVE  /\ IsMap(SetRank(pm, jids, rank))
           /\ SetRank(pm, jids, rank).ranks =
                 [j \in DOMAIN pm.ranks |-> IF j \in ToSet(jids) THEN rank ELSE pm.ranks[j]]
  BY DEF IsMap, SetRank

(* An update of a group means what its lists mean as sets, whatever the group
   and the lists: somebody in both lists has left, and nobody is added by being
   promoted.                                                               *)
THEOREM UpdateMeansSets ==
    ASSUME NEW r \in GroupRecords, NEW u \in Updates
    PROVE  /\ UpdateGroupInfo(r, u) \in GroupRecords
           /\ TouchesParticipants(u) => UpdateGroupInfo(r, u).version = u.version
           /\ ~TouchesParticipants(u) => UpdateGroupInfo(r, u).version = r.version
           /\ RanksOf(UpdateGroupInfo(r, u)) =
                 IF TouchesParticipants(u) THEN Changed(RanksOf(r), u) ELSE RanksOf(r)
  <1> DEFINE p == updateGroupParams(r, u)
  <1>1. /\ p \in GroupRecords /\ p.version = r.version /\ p.participants = r.participants
        /\ UpdateGroupInfo(r, u) = updateGroupParticipants(p, u)
    <2>1. p \in GroupRecords /\ p.version = r.version /\ p.participants = r.participants
      BY DEF updateGroupParams, GroupRecords, Updates
    <2> QED BY <2>1 DEF UpdateGroupInfo
  <1> HIDE DEF p
  <1>2. CASE ~TouchesParticipants(u)
    BY <1>1, <1>2 DEF updateGroupParticipants, RanksOf
  <1>3. CASE TouchesParticipants(u)
    <2> DEFINE old == NewParticipantsMap(p.participants)
               joined == Join(old, u.join)
               left == Leave(joined, u.leave)
               raised == SetRank(left, u.promote, "admin")
               ranked == SetRank(raised, u.demote, "member")
               D == (DOMAIN old.ranks \cup ToSet(u.join)) \ ToSet(u.leave)
    <2>1. p.participants \in Seq(RankRecords) /\ u.join \in Seq(Jids)
          /\ u.version \in Nat /\ "admin" \in Ranks /\ "member" \in Ranks
      BY <1>1 DEF GroupRecords, Updates, Ranks
    <2>2. IsMap(old) /\ old.newlyJoined = <<>>
      BY <2>1, MapOf
    <2> HIDE DEF old
    <2>3. /\ IsMap(joined)
          /\ joined.ranks = [j \in DOMAIN old.ranks \cup ToSet(u.join) |->
                                IF j \in DOMAIN old.ranks THEN old.ranks[j] ELSE "member"]
      BY <2>1, <2>2, JoinMap
    <2> HIDE DEF joined
    <2>4. /\ IsMap(left)
          /\ left.ranks = [j \in DOMAIN joined.ranks \ ToSet(u.leave) |-> joined.ranks[j]]
      BY <2>3, LeaveMap
    <2> HIDE DEF left
    <2>5. /\ IsMap(raised)
          /\ raised.ranks = [j \in DOMAIN left.ranks |->
                               IF j \in ToSet(u.promote) THEN "admin" ELSE left.ranks[j]]
      <3>1. PICK rank \in Ranks : rank = "admin"
        BY <2>1
      <3>2. PICK pm : pm = left /\ IsMap(pm)
        BY <2>4
      <3>3. /\ IsMap(SetRank(pm, u.promote, rank))
            /\ SetRank(pm, u.promote, rank).ranks =
                  [j \in DOMAIN pm.ranks |-> IF j \in ToSet(u.promote) THEN rank ELSE pm.ranks[j]]
        BY <3>2, SetRankMap
      <3> QED BY <3>1, <3>2, <3>3
    <2> HIDE DEF raised
    <2>6. /\ IsMap(ranked)
          /\ ranked.ranks = [j \in DOMAIN raised.ranks |->
                               IF j \in ToSet(u.demote) THEN "member" ELSE raised.ranks[j]]
      <3>1. PICK rank \in Ranks : rank = "member"
        BY <2>1
      <3>2. PICK pm : pm = raised /\ IsMap(pm)
        BY <2>5
      <3>3. /\ IsMap(SetRank(pm, u.demote, rank))
            /\ SetRank(pm, u.demote, rank).ranks =
                  [j \in DOMAIN pm.ranks |-> IF j \in ToSet(u.demote) THEN rank ELSE pm.ranks[j]]
        BY <3>2, SetRankMap
      <3> QED BY <3>1, <3>2, <3>3
    <2>7. ranked.ranks = Changed(old.ranks, u)
      <3>1. DOMAIN left.ranks = D /\ DOMAIN raised.ranks = D /\ DOMAIN ranked.ranks = D
        BY <2>3, <2>4, <2>5, <2>6
      <3> HIDE DEF ranked
      <3>2. ASSUME NEW j \in D
            PROVE  /\ ranked.ranks[j] = IF j \in ToSet(u.demote) THEN "member" ELSE raised.ranks[j]
                   /\ raised.ranks[j] = IF j \in ToSet(u.promote) THEN "admin" ELSE left.ranks[j]
                   /\ left.ranks[j] = IF j \in DOMAIN old.ranks THEN old.ranks[j] ELSE "member"
        BY <2>3, <2>4, <2>5, <2>6, <3>1
      <3>3. ranked.ranks = [j \in D |-> ranked.ranks[j]]
        BY <2>6, <3>1
      <3> QED BY <3>2, <3>3 DEF Changed
    <2>8. UpdateGroupInfo(r, u) = [p EXCEPT !.participants = Participants(ranked),
                                            !.version = u.version]
      BY <1>1, <1>3 DEF updateGroupParticipants, Promote, Demote, old, joined, left, raised
    <2> HIDE DEF ranked
    <2>9. /\ Participants(ranked) \in Seq(RankRecords)
          /\ NewParticipantsMap(Participants(ranked)).ranks = ranked.ranks
      BY <2>6, RebuiltRanks
    <2>10. /\ UpdateGroupInfo(r, u) \in GroupRecords
           /\ UpdateGroupInfo(r, u).version = u.version
           /\ UpdateGroupInfo(r, u).participants = Participants(ranked)
      BY <1>1, <2>1, <2>8, <2>9 DEF GroupRecords
    <2>11. RanksOf(UpdateGroupInfo(r, u)) = Changed(RanksOf(r), u)
      BY <1>1, <2>7, <2>9, <2>10 DEF RanksOf, old
    <2> QED BY <1>3, <2>10, <2>11
  <1> QED BY <1>2, <1>3

(* What is picked keeps its order. *)
LEMMA PickedOrder ==
    ASSUME NEW S, NEW s \in Seq(S), NEW P \in SUBSET DOMAIN s
    PROVE  /\ Picked(s, P) \in Seq(S)
           /\ \A m \in DOMAIN Picked(s, P) :
                 Nth(P, m) \in P /\ Picked(s, P)[m] = s[Nth(P, m)]
           /\ \A m, n \in DOMAIN Picked(s, P) : m < n => Nth(P, m) < Nth(P, n)
  <1>1. Len(s) \in Nat /\ P \in SUBSET (1..Len(s))
    OBVIOUS
  <1>2. /\ \A n \in 1..Cardinality(P) : Nth(P, n) \in P
        /\ \A m, n \in 1..Cardinality(P) : m < n => Nth(P, m) < Nth(P, n)
    BY <1>1, Counted
  <1>3. /\ DOMAIN Picked(s, P) = 1..Cardinality(P)
        /\ \A n \in 1..Cardinality(P) : Picked(s, P)[n] = s[Nth(P, n)]
    BY DEF Picked
  <1> QED BY <1>2, <1>3, PickedElements

\* A sequence in which nothing occurs twice.
Once(s) == \A i, k \in DOMAIN s : i < k => s[i] # s[k]

(* Who joins without being there is added once. *)
LEMMA JoinedOnce ==
    ASSUME NEW jids \in Seq(Jids), NEW D
    PROVE  LET new == {k \in DOMAIN jids : /\ jids[k] \notin D
                                           /\ \A i \in 1..(k - 1) : jids[i] # jids[k]}
           IN  /\ Picked(jids, new) \in Seq(Jids) /\ Once(Picked(jids, new))
               /\ \A n \in DOMAIN Picked(jids, new) : Picked(jids, new)[n] \notin D
  <1> DEFINE new == {k \in DOMAIN jids : /\ jids[k] \notin D
                                         /\ \A i \in 1..(k - 1) : jids[i] # jids[k]}
             p == Picked(jids, new)
  <1>1. new \in SUBSET DOMAIN jids
    OBVIOUS
  <1>2. /\ p \in Seq(Jids)
        /\ \A m \in DOMAIN p : Nth(new, m) \in new /\ p[m] = jids[Nth(new, m)]
        /\ \A m, n \in DOMAIN p : m < n => Nth(new, m) < Nth(new, n)
    BY <1>1, PickedOrder
  <1>3. \A i, k \in new : i < k => jids[i] # jids[k]
    <2>1. ASSUME NEW i \in new, NEW k \in new, i < k PROVE jids[i] # jids[k]
      <3>1. i \in Nat /\ k \in Nat /\ 1 <= i
        OBVIOUS
      <3>2. i \in 1..(k - 1)
        BY <2>1, <3>1
      <3> QED BY <3>2
    <2> QED BY <2>1
  <1>4. \A k \in new : jids[k] \notin D
    OBVIOUS
  <1> HIDE DEF new, p
  <1>5. Once(p) /\ \A n \in DOMAIN p : p[n] \notin D
    BY <1>2, <1>3, <1>4 DEF Once
  <1> QED BY <1>2, <1>5 DEF new, p

\* Whether x may come before y in a list that was old: those who were there
\* keep their order, newcomers come last.
InOrder(x, y, old) ==
    \/ \E i, k \in DOMAIN old : i < k /\ old[i] = x /\ old[k] = y
    \/ x \in ToSet(old) /\ y \notin ToSet(old)
    \/ x \notin ToSet(old) /\ y \notin ToSet(old)

JidsOf(p) == [k \in DOMAIN p |-> p[k].jid]

(* The list a map is rebuilt into is in the order of the map. *)
LEMMA RebuiltOrder ==
    ASSUME NEW a \in Seq(Jids), NEW b \in Seq(Jids), Once(a), Once(b),
           \A k \in DOMAIN b : b[k] \notin ToSet(a),
           NEW pm, pm.originalOrder = a, pm.newlyJoined = b
    PROVE  /\ Once(JidsOf(Participants(pm)))
           /\ \A m, n \in DOMAIN Participants(pm) : m < n =>
                 InOrder(Participants(pm)[m].jid, Participants(pm)[n].jid, a)
  <1> DEFINE order == a \o b
             P == {k \in DOMAIN order : order[k] \in DOMAIN pm.ranks}
             present == Picked(order, P)
             q == Participants(pm)
  <1>1. Order(pm) = order
    BY DEF Order
  <1>2. order \in Seq(Jids) /\ P \in SUBSET DOMAIN order
    OBVIOUS
  <1>3. /\ present \in Seq(Jids)
        /\ \A m \in DOMAIN present : Nth(P, m) \in P /\ present[m] = order[Nth(P, m)]
        /\ \A m, n \in DOMAIN present : m < n => Nth(P, m) < Nth(P, n)
    BY <1>2, PickedOrder
  <1>4. q = [k \in DOMAIN present |-> [jid |-> present[k], rank |-> pm.ranks[present[k]]]]
    BY <1>1 DEF Participants
  <1>5. ASSUME NEW i \in DOMAIN order, NEW k \in DOMAIN order, i < k
        PROVE  order[i] # order[k] /\ InOrder(order[i], order[k], a)
    <2>1. PICK l \in Nat : l = Len(a) /\ DOMAIN a = 1..l /\ DOMAIN b = 1..Len(b) /\ Len(b) \in Nat
                           /\ DOMAIN order = 1..(l + Len(b))
      OBVIOUS
    <2>2. /\ \A n \in 1..l : order[n] = a[n]
          /\ \A n \in (l + 1)..(l + Len(b)) : order[n] = b[n - l] /\ n - l \in DOMAIN b
      BY <2>1
    <2>3. i \in Nat /\ k \in Nat /\ 1 <= i /\ k <= l + Len(b)
      BY <2>1
    <2> HIDE DEF order
    <2>4. CASE k <= l
      <3>1. i \in DOMAIN a /\ k \in DOMAIN a /\ order[i] = a[i] /\ order[k] = a[k]
        BY <1>5, <2>1, <2>2, <2>3, <2>4
      <3> QED BY <1>5, <3>1 DEF Once, InOrder
    <2>5. CASE i <= l /\ l < k
      <3>1. i \in DOMAIN a /\ order[i] = a[i] /\ k - l \in DOMAIN b /\ order[k] = b[k - l]
        BY <2>1, <2>2, <2>3, <2>5
      <3>2. a[i] \in ToSet(a) /\ b[k - l] \notin ToSet(a)
        BY <3>1 DEF ToSet
      <3> QED BY <3>1, <3>2 DEF InOrder
    <2>6. CASE l < i
      <3>1. /\ i - l \in DOMAIN b /\ order[i] = b[i - l]
            /\ k - l \in DOMAIN b /\ order[k] = b[k - l] /\ i - l < k - l
        <4>1. /\ i \in (l + 1)..(l + Len(b)) /\ k \in (l + 1)..(l + Len(b))
              /\ i - l < k - l
          BY <1>5, <2>1, <2>3, <2>6
        <4> QED BY <2>2, <4>1
      <3> QED BY <3>1 DEF Once, InOrder
    <2> QED BY <1>5, <2>1, <2>3, <2>4, <2>5, <2>6
  <1> HIDE DEF present, order, q
  <1>6. DOMAIN q = DOMAIN present /\ \A k \in DOMAIN q : q[k].jid = present[k]
    BY <1>4
  <1>7. ASSUME NEW m \in DOMAIN q, NEW n \in DOMAIN q, m < n
        PROVE  q[m].jid # q[n].jid /\ InOrder(q[m].jid, q[n].jid, a)
    <2>1. PICK i \in DOMAIN order, k \in DOMAIN order :
             i < k /\ q[m].jid = order[i] /\ q[n].jid = order[k]
      BY <1>2, <1>3, <1>6, <1>7
    <2> QED BY <1>5, <2>1
  <1>8. Once(JidsOf(q))
    <2>1. DOMAIN JidsOf(q) = DOMAIN q /\ \A k \in DOMAIN q : JidsOf(q)[k] = q[k].jid
      BY DEF JidsOf
    <2> QED BY <1>7, <2>1 DEF Once
  <1> QED BY <1>7, <1>8 DEF q

(* An update lists nobody twice in a group that did not; who stays keeps their
   place relative to the others, and newcomers come last.                  *)
THEOREM UpdateKeepsOrder ==
    ASSUME NEW r \in GroupRecords, NEW u \in Updates, Once(JidsOf(r.participants))
    PROVE  LET q == UpdateGroupInfo(r, u).participants IN
           /\ Once(JidsOf(q))
           /\ \A m, n \in DOMAIN q :
                 m < n => InOrder(q[m].jid, q[n].jid, JidsOf(r.participants))
  <1> DEFINE p == updateGroupParams(r, u)
             q == UpdateGroupInfo(r, u).participants
             s == JidsOf(r.participants)
  <1>1. /\ p \in GroupRecords /\ p.participants = r.participants
        /\ UpdateGroupInfo(r, u) = updateGroupParticipants(p, u)
    <2>1. p \in GroupRecords /\ p.participants = r.participants
      BY DEF updateGroupParams, GroupRecords, Updates
    <2> QED BY <2>1 DEF UpdateGroupInfo
  <1> HIDE DEF p
  <1>2. s \in Seq(Jids)
    <2>1. r.participants \in Seq(RankRecords)
      BY DEF GroupRecords
    <2>2. ASSUME NEW k \in DOMAIN r.participants PROVE r.participants[k].jid \in Jids
      <3>1. r.participants[k] \in RankRecords
        BY <2>1
      <3> QED BY <3>1 DEF RankRecords
    <2> QED BY <2>1, <2>2 DEF JidsOf
  <1>3. CASE ~TouchesParticipants(u)
    <2>1. q = r.participants
      BY <1>1, <1>3 DEF updateGroupParticipants
    <2>2. DOMAIN s = DOMAIN r.participants /\ \A k \in DOMAIN s : s[k] = r.participants[k].jid
      BY DEF JidsOf
    <2>3. \A m, n \in DOMAIN q : m < n => InOrder(q[m].jid, q[n].jid, s)
      BY <2>1, <2>2 DEF InOrder
    <2> QED BY <2>1, <2>3
  <1>4. CASE TouchesParticipants(u)
    <2> DEFINE old == NewParticipantsMap(r.participants)
               new == {k \in DOMAIN u.join : /\ u.join[k] \notin DOMAIN old.ranks
                                             /\ \A i \in 1..(k - 1) : u.join[i] # u.join[k]}
               b == Picked(u.join, new)
               ranked == Demote(Promote(Leave(Join(old, u.join), u.leave), u.promote), u.demote)
    <2>1. /\ old.originalOrder = s /\ old.newlyJoined = <<>> /\ DOMAIN old.ranks = ToSet(s)
      BY DEF NewParticipantsMap, JidsOf
    <2>2. u.join \in Seq(Jids)
      BY DEF Updates
    <2>3. b \in Seq(Jids) /\ Once(b) /\ \A n \in DOMAIN b : b[n] \notin DOMAIN old.ranks
      BY <2>2, JoinedOnce
    <2>4. IsMap(old)
      BY <1>1, MapOf DEF GroupRecords
    <2>5. \E ranks : Join(old, u.join) = [old EXCEPT !.ranks = ranks, !.newlyJoined = old.newlyJoined \o b]
      BY DEF Join
    <2> HIDE DEF old, b
    <2>6. PICK j : j = Join(old, u.join) /\ j.originalOrder = s /\ j.newlyJoined = b
      <3>1. <<>> \o b = b
        BY <2>3
      <3> QED BY <2>1, <2>4, <2>5, <3>1 DEF IsMap
    <2>7. ranked.originalOrder = j.originalOrder /\ ranked.newlyJoined = j.newlyJoined
      BY <2>6 DEF Demote, Promote, SetRank, Leave
    <2>8. q = Participants(ranked)
      <3>1. UpdateGroupInfo(r, u) = [p EXCEPT !.participants = Participants(ranked),
                                              !.version = u.version]
        BY <1>1, <1>4 DEF updateGroupParticipants, old
      <3> HIDE DEF ranked
      <3> QED BY <1>1, <3>1 DEF GroupRecords
    <2> HIDE DEF ranked, q
    <2>9. ranked.originalOrder = s /\ ranked.newlyJoined = b
      BY <2>6, <2>7
    <2>10. PICK a, c, pm : a \in Seq(Jids) /\ c \in Seq(Jids) /\ a = s /\ c = b /\ pm = ranked
      BY <1>2, <2>3
    <2> QED BY <2>1, <2>3, <2>8, <2>9, <2>10, RebuiltOrder DEF q
  <1> QED BY <1>3, <1>4

(* A group as WhatsApp sends it has the ranks of its version. *)
LEMMA SnapshotRanks ==
    ASSUME history \in [Groups -> Seq(RankFunctions)], timer \in [Groups -> Timers],
           NEW g \in Groups, Current(g) >= 1
    PROVE  /\ Snapshot(g) \in GroupRecords /\ Snapshot(g).version = Current(g)
           /\ RanksOf(Snapshot(g)) = history[g][Current(g)]
  <1> DEFINE f == history[g][Current(g)]
             S == DOMAIN f
             n == Cardinality(S)
             order == SetToSeq(S)
  <1>1. f \in RankFunctions
    BY DEF Current
  <1>2. S \in SUBSET Jids /\ f \in [S -> Ranks]
    BY <1>1 DEF RankFunctions
  <1> HIDE DEF f
  <1>3. IsFiniteSet(S) /\ n \in Nat
    BY <1>2, ScopeAssumption, FS_Subset, FS_CardinalityType
  <1>4. order \in [1..n -> S] /\ IsInjective(order)
    <2>1. Bijection(1..n, S) # {}
      BY <1>3, FS_CardinalityType DEF ExistsBijection
    <2>2. \E b \in [1..n -> S] : IsInjective(b)
      BY <2>1 DEF Bijection, Injection
    <2> QED BY <2>2 DEF SetToSeq
  <1>5. \A j \in S : \E k \in 1..n : order[k] = j
    <2>1. order \in Injection(1..n, S)
      BY <1>4 DEF Injection
    <2>2. Cardinality(1..n) = n
      BY <1>3, FS_Interval
    <2>3. order \in Surjection(1..n, S)
      BY <1>3, <2>1, <2>2, FS_Injection
    <2> QED BY <2>3 DEF Surjection
  <1>6. PICK s \in Seq(Jids) : s = order
    <2>1. order \in [1..n -> Jids]
      BY <1>2, <1>4
    <2> HIDE DEF order, n
    <2>2. order \in Seq(Jids)
      BY <1>3, <2>1
    <2> QED BY <2>2
  <1>7. ToSet(s) = S
    BY <1>4, <1>5, <1>6 DEF ToSet
  <1> DEFINE p == [k \in DOMAIN s |-> [jid |-> s[k], rank |-> f[s[k]]]]
  <1>8. Snapshot(g) = [timer |-> timer[g], version |-> Current(g), participants |-> p]
    BY <1>6 DEF Snapshot, f
  <1> HIDE DEF S, order
  <1>9. p \in Seq(RankRecords) /\ NewParticipantsMap(p).ranks = [j \in ToSet(s) |-> f[j]]
    <2>1. \A j \in ToSet(s) : f[j] \in Ranks
      BY <1>2, <1>7
    <2>2. PICK e : e = f
      OBVIOUS
    <2> QED BY <2>1, <2>2, MapOfFunction, Zenon
  <1>10. [j \in ToSet(s) |-> f[j]] = f
    BY <1>2, <1>7
  <1> HIDE DEF p
  <1>11. Current(g) \in Nat /\ timer[g] \in Timers
    BY DEF Current
  <1>12. Snapshot(g) \in GroupRecords /\ Snapshot(g).version = Current(g)
         /\ Snapshot(g).participants = p
    BY <1>8, <1>9, <1>11 DEF GroupRecords
  <1> QED BY <1>9, <1>10, <1>12 DEF RanksOf, f
-----------------------------------------------------------------------------
(* The participants of a row are those of its version, also when I leave and
   join my groups, events are missed and statements fail.                  *)
Statements == {"new", "update", "list", "force", "read", "setting", "row", "left", "deleteRow",
               "fetch", "clear", "fill", "fillRow", "select", "done", "gaveUp"}

\* A group as it was at its version.
Faithful(r, g) ==
    /\ r \in GroupRecords /\ r.version \in 1..Current(g)
    /\ RanksOf(r) = history[g][r.version]

\* An update that leads from one version to the next.
Genuine(u, g) ==
    /\ g \in Groups /\ u \in Updates
    /\ TouchesParticipants(u) =>
          /\ u.prev \in 1..Current(g) /\ u.version \in 1..Current(g)
          /\ history[g][u.version] = Changed(history[g][u.prev], u)

ServerInv ==
    /\ history \in [Groups -> Seq(RankFunctions)]
    /\ \A g \in Groups : Current(g) \in 1..MaxVersion
    /\ timer \in [Groups -> Timers]
    /\ member \subseteq Groups

TableInv ==
    /\ row \in [Groups -> GroupRecords \cup {Null}]
    /\ \A g \in Groups : row[g] # Null => Faithful(row[g], g)
    /\ setting \in [Groups -> Timers]
    /\ top \in [Groups -> 0..MaxVersion]

FlagInv == fresh \in BOOLEAN /\ lock \in Handlers \cup {Null}

FunctionInv ==
    /\ pc = [h \in Handlers |-> pc[h]] /\ kind = [h \in Handlers |-> kind[h]]
    /\ event = [h \in Handlers |-> event[h]] /\ about = [h \in Handlers |-> about[h]]
    /\ copy = [h \in Handlers |-> copy[h]] /\ fetched = [h \in Handlers |-> fetched[h]]
    /\ todo = [h \in Handlers |-> todo[h]] /\ tries = [h \in Handlers |-> tries[h]]

HandlerInv(h) ==
    /\ pc[h] \in Statements /\ todo[h] \subseteq Groups
    /\ tries[h] \in 0..Attempts /\ (pc[h] # "gaveUp" => tries[h] < Attempts)
    /\ pc[h] \in {"update", "read"} => kind[h] = "update"
    /\ pc[h] \in {"list", "force"} => kind[h] # "update"
    /\ pc[h] \in {"setting", "row", "left", "deleteRow"} => about[h] \in Groups
    /\ pc[h] \in {"setting", "row"} => Faithful(copy[h], about[h])
    /\ kind[h] = "update" /\ pc[h] \in {"update", "read", "setting", "row", "fetch", "clear"} =>
          Genuine(event[h], about[h])
    /\ pc[h] \in {"clear", "fill", "fillRow"} =>
          /\ DOMAIN fetched[h] \subseteq Groups
          /\ \A g \in DOMAIN fetched[h] : Faithful(fetched[h][g], g)
    /\ pc[h] \in {"fill", "fillRow"} => todo[h] \subseteq DOMAIN fetched[h]
    /\ pc[h] = "fillRow" => about[h] \in DOMAIN fetched[h]

Stored ==
    /\ ServerInv /\ TableInv /\ FlagInv /\ FunctionInv
    /\ \A h \in Handlers : HandlerInv(h)

(* Initially a group has one version, without participants, in the row or not. *)
LEMMA StoredInit == Init => Stored
  <1> SUFFICES ASSUME Init PROVE Stored
    OBVIOUS
  <1> DEFINE none == [j \in {} |-> "member"]
  <1>1. none \in RankFunctions
    <2>1. none \in [{} -> Ranks] /\ {} \in SUBSET Jids
      OBVIOUS
    <2> QED BY <2>1 DEF RankFunctions
  <1>2. history = [g \in Groups |-> <<none>>] /\ <<none>> \in Seq(RankFunctions)
    BY <1>1 DEF Init
  <1>3. \A g \in Groups : Current(g) = 1 /\ history[g][1] = none
    BY <1>2 DEF Current
  <1>4. ServerInv
    BY <1>2, <1>3, ScopeAssumption DEF Init, ServerInv
  <1>5. ASSUME NEW g \in Groups, row[g] # Null PROVE Faithful(row[g], g)
    <2> DEFINE r == [timer |-> Off, version |-> 1, participants |-> <<>>]
    <2>1. row[g] = r
      BY <1>5 DEF Init
    <2>2. <<>> \in Seq(RankRecords) /\ DOMAIN <<>> = {}
      OBVIOUS
    <2>3. r \in GroupRecords /\ r.version = 1 /\ r.participants = <<>>
      BY <2>2, ScopeAssumption DEF GroupRecords
    <2> HIDE DEF r
    <2>4. RanksOf(r) = none
      <3>1. /\ RanksOf(r) = [j \in DOMAIN RanksOf(r) |-> RanksOf(r)[j]]
            /\ DOMAIN RanksOf(r) = {<<>>[k].jid : k \in DOMAIN <<>>}
        BY <2>2, <2>3, MapOf DEF RanksOf, IsMap
      <3>2. DOMAIN RanksOf(r) = {}
        BY <2>2, <3>1
      <3> QED BY <3>1, <3>2
    <2> QED BY <1>3, <2>1, <2>3, <2>4 DEF Faithful
  <1>6. TableInv
    <2>1. /\ row \in [Groups -> GroupRecords \cup {Null}]
      <3>1. row = [g \in Groups |-> row[g]]
        BY DEF Init
      <3>2. \A g \in Groups : row[g] \in GroupRecords \cup {Null}
        BY <1>5 DEF Faithful
      <3> QED BY <3>1, <3>2
    <2> QED BY <1>5, <2>1, ScopeAssumption DEF Init, TableInv
  <1>7. FlagInv /\ FunctionInv
    BY DEF Init, FlagInv, FunctionInv
  <1>8. ASSUME NEW h \in Handlers PROVE HandlerInv(h)
    BY ScopeAssumption DEF Init, HandlerInv, Statements
  <1> QED BY <1>4, <1>6, <1>7, <1>8 DEF Stored

(* The history of a group only grows. *)
Grown ==
    \A g \in Groups : /\ Current(g) <= Current(g)'
                      /\ \A v \in 1..Current(g) : history'[g][v] = history[g][v]

(* What was so of a version stays so. *)
LEMMA GrownKeeps ==
    ASSUME ServerInv, ServerInv', Grown
    PROVE  /\ \A r : \A g \in Groups : Faithful(r, g) => Faithful(r, g)'
           /\ \A u : \A g : Genuine(u, g) => Genuine(u, g)'
  <1>1. \A g \in Groups : Current(g) \in Nat /\ Current(g)' \in Nat
    BY ScopeAssumption DEF ServerInv
  <1>2. ASSUME NEW r, NEW g \in Groups, Faithful(r, g) PROVE Faithful(r, g)'
    BY <1>1, <1>2 DEF Faithful, Grown
  <1>3. ASSUME NEW u, NEW g, Genuine(u, g) PROVE Genuine(u, g)'
    BY <1>1, <1>3 DEF Genuine, Grown
  <1> QED BY <1>2, <1>3

\* A step of one handler.
StepOf(h) ==
    /\ FunctionInv'
    /\ \A o \in Handlers : o # h =>
          /\ pc'[o] = pc[o] /\ kind'[o] = kind[o] /\ event'[o] = event[o] /\ about'[o] = about[o]
          /\ copy'[o] = copy[o] /\ fetched'[o] = fetched[o] /\ todo'[o] = todo[o]
          /\ tries'[o] = tries[o]

(* It leaves the others alone. *)
LEMMA StepKeeps ==
    ASSUME Stored, ServerInv', Grown, NEW h, StepOf(h), TableInv', FlagInv',
           h \in Handlers => HandlerInv(h)'
    PROVE  Stored'
  <1>1. ASSUME NEW o \in Handlers, o # h PROVE HandlerInv(o)'
    <2>1. /\ pc'[o] = pc[o] /\ kind'[o] = kind[o] /\ event'[o] = event[o] /\ about'[o] = about[o]
          /\ copy'[o] = copy[o] /\ fetched'[o] = fetched[o] /\ todo'[o] = todo[o]
          /\ tries'[o] = tries[o]
      BY <1>1 DEF StepOf
    <2>2. HandlerInv(o)
      BY DEF Stored
    <2>3. /\ \A r : \A g \in Groups : Faithful(r, g) => Faithful(r, g)'
          /\ \A u : \A g : Genuine(u, g) => Genuine(u, g)'
      BY GrownKeeps DEF Stored
    <2> QED BY <2>1, <2>2, <2>3 DEF HandlerInv
  <1> QED BY <1>1 DEF Stored, StepOf

(* A step in which WhatsApp does nothing. *)
LEMMA SameServer ==
    ASSUME Stored, UNCHANGED serverVars
    PROVE  /\ ServerInv' /\ Grown
           /\ \A r, g : Faithful(r, g)' <=> Faithful(r, g)
           /\ \A u, g : Genuine(u, g)' <=> Genuine(u, g)
           /\ \A g : Current(g)' = Current(g)
           /\ \A g \in Groups : Current(g) \in Nat /\ 1 <= Current(g) /\ Current(g) <= MaxVersion
  <1>1. history' = history /\ timer' = timer /\ member' = member
    BY DEF serverVars
  <1>2. \A g : Current(g)' = Current(g)
    BY <1>1 DEF Current
  <1>3. \A g \in Groups : Current(g) \in Nat /\ 1 <= Current(g) /\ Current(g) <= MaxVersion
    BY ScopeAssumption DEF Stored, ServerInv
  <1> QED BY <1>1, <1>2, <1>3 DEF Stored, ServerInv, Grown, Faithful, Genuine

(* A handler moves on without writing a table. *)
LEMMA MoveKeeps ==
    ASSUME Stored, NEW h \in Handlers,
           NEW next \in {"update", "read", "fetch", "select", "done", "gaveUp"},
           pc[h] # "gaveUp", pc' = [pc EXCEPT ![h] = next],
           UNCHANGED <<serverVars, tableVars, kind, event, about, todo>>,
           fetched' = fetched \/ fetched' = [fetched EXCEPT ![h] = <<>>],
           copy' = copy \/ copy' = [copy EXCEPT ![h] = Null],
           \/ tries' = tries
           \/ /\ tries' = [tries EXCEPT ![h] = tries[h] + 1]
              /\ next = "gaveUp" \/ tries[h] + 1 < Attempts,
           FlagInv',
           next \in {"update", "read"} => kind[h] = "update",
           kind[h] = "update" /\ next \in {"update", "read", "fetch"} =>
               Genuine(event[h], about[h])
    PROVE  Stored'
  <1>1. StepOf(h) /\ pc'[h] = next /\ todo' = todo
    BY DEF Stored, FunctionInv, StepOf
  <1>2. tries'[h] = tries[h] \/ (tries'[h] = tries[h] + 1 /\ (next = "gaveUp" \/ tries[h] + 1 < Attempts))
    BY DEF Stored, FunctionInv
  <1>3. TableInv'
    <2>1. UNCHANGED <<row, setting, top>>
      BY DEF tableVars
    <2> QED BY <2>1, SameServer DEF Stored, TableInv
  <1>4. HandlerInv(h)'
    <2>1. HandlerInv(h) /\ tries[h] \in Nat /\ Attempts \in Nat
      BY ScopeAssumption DEF Stored, HandlerInv
    <2>2. next \in Statements
      BY DEF Statements
    <2>3. tries'[h] \in 0..Attempts /\ (next # "gaveUp" => tries'[h] < Attempts)
      BY <1>2, <2>1 DEF HandlerInv
    <2> QED BY <1>1, <2>1, <2>2, <2>3, SameServer DEF HandlerInv
  <1> QED BY <1>1, <1>3, <1>4, SameServer, StepKeeps
(* A handler fails: its update is tried again or given up. *)
LEMMA RetryStored ==
    ASSUME Stored, NEW h \in Handlers, NEW statement \in {"read", "row", "fetch", "clear"},
           kind[h] = "update", Retry(h, statement)
    PROVE  Stored'
  <1>1. /\ pc[h] = statement /\ pc' = [pc EXCEPT ![h] = AfterError(h)]
        /\ tries' = [tries EXCEPT ![h] = tries[h] + 1]
        /\ copy' = [copy EXCEPT ![h] = Null] /\ lock' = (IF lock = h THEN Null ELSE lock)
        /\ UNCHANGED <<serverVars, tableVars, fresh, kind, event, about, fetched, todo>>
    BY DEF Retry, At, Unlock
  <1>2. /\ AfterError(h) \in {"update", "gaveUp"}
        /\ AfterError(h) = "gaveUp" \/ tries[h] + 1 < Attempts
    BY DEF AfterError
  <1>3. Genuine(event[h], about[h])
    BY <1>1 DEF Stored, HandlerInv
  <1>4. FlagInv'
    BY <1>1 DEF Stored, FlagInv
  <1> QED BY <1>1, <1>2, <1>3, <1>4, MoveKeeps

(* The lock is taken, or need not be. *)
LEMMA LockingStored == ASSUME Stored, NEW h \in Handlers, Locking(h) PROVE Stored'
  <1>1. ASSUME NEW statement \in {"update", "list", "force"}, NEW next \in {"read", "fetch"},
               next = "read" => statement = "update", Acquire(h, statement, next)
        PROVE  Stored'
    <2>1. /\ pc[h] = statement /\ pc' = [pc EXCEPT ![h] = next] /\ lock' = h
          /\ UNCHANGED <<serverVars, tableVars, fresh, kind, event, about, copy, fetched, todo,
                         tries>>
      BY <1>1 DEF Acquire, At
    <2>2. HandlerInv(h)
      BY DEF Stored
    <2>3. statement = "update" => kind[h] = "update" /\ Genuine(event[h], about[h])
      BY <2>1, <2>2 DEF HandlerInv
    <2>4. FlagInv'
      BY <2>1 DEF Stored, FlagInv
    <2>5. ASSUME kind[h] = "update", statement # "update" PROVE FALSE
      BY <2>1, <2>2, <2>5 DEF HandlerInv
    <2> QED BY <1>1, <2>1, <2>3, <2>4, <2>5, MoveKeeps
  <1>2. CASE UpdateGroup(h)
    BY <1>1, <1>2 DEF UpdateGroup
  <1>3. CASE FetchGroups(h)
    BY <1>1, <1>3 DEF FetchGroups
  <1>4. CASE ~fresh /\ Acquire(h, "list", "fetch")
    BY <1>1, <1>4
  <1>5. CASE /\ lock = Null /\ At(h, "list", "select")
             /\ UNCHANGED <<tableVars, fresh, lock, kind, event, about, copy, fetched, todo, tries>>
    <2>1. FlagInv'
      BY <1>5 DEF Stored, FlagInv
    <2> QED BY <1>5, <2>1, MoveKeeps DEF At
  <1> QED BY <1>2, <1>3, <1>4, <1>5 DEF Locking, fetchGroupsIfNeeded

(* An update reads the row it was made for: its version becomes the next one,
   its participants those of that version.                                 *)
LEMMA ReadStored == ASSUME Stored, NEW h \in Handlers, ReadGroup(h) PROVE Stored'
  <1> DEFINE g == about[h]
             u == event[h]
             new == UpdateGroupInfo(row[g], u)
  <1>1. /\ pc[h] = "read" /\ pc' = [pc EXCEPT ![h] = FirstWrite(u)]
        /\ row[g] # Null /\ ~Mismatch(row[g], u)
        /\ copy' = [copy EXCEPT ![h] = new]
        /\ UNCHANGED <<serverVars, tableVars, fresh, lock, kind, event, about, fetched, todo, tries>>
    BY DEF ReadGroup, At
  <1>2. HandlerInv(h) /\ FirstWrite(u) \in {"setting", "row"}
    BY DEF Stored, FirstWrite
  <1>3. kind[h] = "update" /\ Genuine(u, g) /\ g \in Groups
    BY <1>1, <1>2 DEF HandlerInv, Genuine
  <1>4. Faithful(row[g], g)
    BY <1>1, <1>3 DEF Stored, TableInv
  <1>5. Faithful(new, g)
    <2>1. /\ new \in GroupRecords
          /\ TouchesParticipants(u) => new.version = u.version
          /\ ~TouchesParticipants(u) => new.version = row[g].version
          /\ RanksOf(new) = IF TouchesParticipants(u) THEN Changed(RanksOf(row[g]), u)
                                                      ELSE RanksOf(row[g])
      BY <1>3, <1>4, UpdateMeansSets DEF Faithful, Genuine
    <2>2. TouchesParticipants(u) => u.prev = row[g].version
      BY <1>1 DEF Mismatch
    <2> HIDE DEF new
    <2> QED BY <1>3, <1>4, <2>1, <2>2 DEF Faithful, Genuine
  <1> HIDE DEF new
  <1>6. StepOf(h) /\ pc'[h] = FirstWrite(u) /\ copy'[h] = new
    BY <1>1 DEF Stored, FunctionInv, StepOf
  <1>7. TableInv' /\ FlagInv'
    <2>1. UNCHANGED <<row, setting, top, fresh, lock>>
      BY <1>1 DEF tableVars
    <2> QED BY <1>1, <2>1, SameServer DEF Stored, TableInv, FlagInv
  <1>8. HandlerInv(h)'
    <2>1. FirstWrite(u) \in Statements
      BY <1>2 DEF Statements
    <2>2. \A r, o : Faithful(r, o)' <=> Faithful(r, o)
      BY <1>1, SameServer
    <2>3. \A w, o : Genuine(w, o)' <=> Genuine(w, o)
      BY <1>1, SameServer
    <2>4. /\ UNCHANGED <<kind, event, about, fetched, todo, tries>>
      BY <1>1
    <2> QED BY <1>1, <1>2, <1>3, <1>5, <1>6, <2>1, <2>2, <2>3, <2>4 DEF HandlerInv
  <1> QED BY <1>1, <1>6, <1>7, <1>8, SameServer, StepKeeps

(* Writing a row or a setting. *)
LEMMA PutStored ==
    ASSUME Stored, UNCHANGED serverVars, NEW g \in Groups, NEW r, Faithful(r, g)
    PROVE  /\ r.timer \in Timers
           /\ PutRow(g, r) /\ UNCHANGED setting => TableInv'
           /\ PutSetting(g, r.timer) /\ UNCHANGED <<row, top>> => TableInv'
  <1>1. /\ r \in GroupRecords /\ r.timer \in Timers /\ r.version \in Nat
        /\ r.version \in 0..MaxVersion
    BY SameServer, ScopeAssumption DEF Faithful, GroupRecords
  <1>2. ASSUME PutRow(g, r), UNCHANGED setting PROVE TableInv'
    <2>1. /\ row' = [row EXCEPT ![g] = r]
          /\ top' = [top EXCEPT ![g] = IF r.version > top[g] THEN r.version ELSE top[g]]
      BY <1>2 DEF PutRow
    <2>2. row' \in [Groups -> GroupRecords \cup {Null}] /\ top' \in [Groups -> 0..MaxVersion]
      BY <1>1, <2>1 DEF Stored, TableInv
    <2>3. ASSUME NEW o \in Groups, row'[o] # Null PROVE Faithful(row'[o], o)
      BY <2>1, <2>3 DEF Stored, TableInv
    <2>4. \A o \in Groups : row'[o] # Null => Faithful(row[o], o)'
      <3>1. \A x, o : Faithful(x, o)' <=> Faithful(x, o)
        BY SameServer
      <3> QED BY <2>3, <3>1 DEF Faithful
    <2> QED BY <1>2, <2>2, <2>4 DEF Stored, TableInv
  <1>3. ASSUME PutSetting(g, r.timer), UNCHANGED <<row, top>> PROVE TableInv'
    BY <1>1, <1>3, SameServer DEF PutSetting, Stored, TableInv
  <1> QED BY <1>1, <1>2, <1>3

(* The setting of an update, and of a group I joined. *)
LEMMA UpsertSettingStored == ASSUME Stored, NEW h \in Handlers, UpsertSetting(h) PROVE Stored'
  <1>1. /\ pc[h] = "setting" /\ pc' = [pc EXCEPT ![h] = "row"]
        /\ PutSetting(about[h], copy[h].timer) \/ setting' = setting
        /\ UNCHANGED <<serverVars, row, top, fresh, lock, kind, event, about, copy, fetched, todo,
                       tries>>
    BY DEF UpsertSetting, At
  <1>2. HandlerInv(h) /\ about[h] \in Groups /\ Faithful(copy[h], about[h])
    BY <1>1 DEF Stored, HandlerInv
  <1>3. TableInv'
    <2>1. CASE PutSetting(about[h], copy[h].timer)
      BY <1>1, <1>2, <2>1, PutStored
    <2>2. CASE setting' = setting
      BY <1>1, <2>2, SameServer DEF Stored, TableInv
    <2> QED BY <1>1, <2>1, <2>2
  <1>4. StepOf(h) /\ pc'[h] = "row" /\ FlagInv'
    BY <1>1 DEF Stored, FunctionInv, StepOf, FlagInv
  <1>5. HandlerInv(h)'
    <2>1. /\ \A r, o : Faithful(r, o)' <=> Faithful(r, o)
          /\ \A u, o : Genuine(u, o)' <=> Genuine(u, o)
      BY <1>1, SameServer
    <2> QED BY <1>1, <1>2, <1>4, <2>1 DEF HandlerInv, Statements
  <1> QED BY <1>1, <1>3, <1>4, <1>5, SameServer, StepKeeps

(* Their row. *)
LEMMA UpsertStored == ASSUME Stored, NEW h \in Handlers, UpsertGroup(h) PROVE Stored'
  <1>1. /\ pc[h] = "row" /\ pc' = [pc EXCEPT ![h] = "done"] /\ PutRow(about[h], copy[h])
        /\ lock' = (IF lock = h THEN Null ELSE lock)
        /\ UNCHANGED <<serverVars, setting, fresh, kind, event, about, copy, fetched, todo, tries>>
    BY DEF UpsertGroup, At, Unlock
  <1>2. HandlerInv(h) /\ about[h] \in Groups /\ Faithful(copy[h], about[h])
    BY <1>1 DEF Stored, HandlerInv
  <1>3. TableInv'
    BY <1>1, <1>2, PutStored
  <1>4. StepOf(h) /\ pc'[h] = "done" /\ FlagInv'
    BY <1>1 DEF Stored, FunctionInv, StepOf, FlagInv
  <1>5. HandlerInv(h)'
    BY <1>1, <1>2, <1>4 DEF HandlerInv, Statements
  <1> QED BY <1>1, <1>3, <1>4, <1>5, SameServer, StepKeeps

(* A statement of an update or a refresh fails, or a list has its rows. *)
LEMMA FailureStored ==
    ASSUME Stored, NEW h \in Handlers,
           \/ ReadFails(h) \/ UpsertFails(h) \/ SelectGroups(h)
           \/ RefreshFails(h, "fetch") \/ RefreshFails(h, "clear")
    PROVE  Stored'
  <1>1. CASE ReadFails(h)
    <2>1. Retry(h, "read") /\ pc[h] = "read"
      BY <1>1 DEF ReadFails, Retry, At
    <2>2. kind[h] = "update"
      BY <2>1 DEF Stored, HandlerInv
    <2> QED BY <2>1, <2>2, RetryStored
  <1>2. ASSUME NEW statement \in Statements \ {"gaveUp"}, At(h, statement, "done"),
               lock' = lock \/ lock' = IF lock = h THEN Null ELSE lock,
               UNCHANGED <<tableVars, fresh, kind, event, about, copy, fetched, todo, tries>>
        PROVE  Stored'
    <2>1. FlagInv'
      BY <1>2 DEF Stored, FlagInv
    <2> QED BY <1>2, <2>1, MoveKeeps DEF At
  <1>3. CASE UpsertFails(h)
    BY <1>2, <1>3, RetryStored DEF UpsertFails, Statements
  <1>4. CASE SelectGroups(h)
    BY <1>2, <1>4 DEF SelectGroups, Statements
  <1>5. CASE RefreshFails(h, "fetch")
    BY <1>2, <1>5, RetryStored DEF RefreshFails, AfterFailure, Unlock, Statements
  <1>6. CASE RefreshFails(h, "clear")
    BY <1>2, <1>6, RetryStored DEF RefreshFails, AfterFailure, Unlock, Statements
  <1> QED BY <1>1, <1>3, <1>4, <1>5, <1>6

(* A group I left is deleted. *)
LEMMA DeleteStored ==
    ASSUME Stored, NEW h \in Handlers, DeleteSetting(h) \/ DeleteRow(h) PROVE Stored'
  <1>1. PICK next \in {"deleteRow", "done"} :
           /\ pc[h] \in {"left", "deleteRow"} /\ pc' = [pc EXCEPT ![h] = next]
           /\ setting' = setting \/ setting' = [setting EXCEPT ![about[h]] = Off]
           /\ row' = row \/ row' = [row EXCEPT ![about[h]] = Null]
           /\ UNCHANGED <<serverVars, top, fresh, lock, kind, event, about, copy, fetched, todo,
                          tries>>
    BY DEF DeleteSetting, DeleteRow, At, PutSetting
  <1>2. HandlerInv(h) /\ about[h] \in Groups
    BY <1>1 DEF Stored, HandlerInv
  <1>3. TableInv'
    <2>1. setting' \in [Groups -> Timers] /\ row' \in [Groups -> GroupRecords \cup {Null}]
      BY <1>1, <1>2, ScopeAssumption DEF Stored, TableInv
    <2>2. \A g \in Groups : row'[g] # Null => row'[g] = row[g]
      BY <1>1, <1>2 DEF Stored, TableInv
    <2> QED BY <1>1, <2>1, <2>2, SameServer DEF Stored, TableInv
  <1>4. StepOf(h) /\ pc'[h] = next /\ FlagInv'
    BY <1>1 DEF Stored, FunctionInv, StepOf, FlagInv
  <1>5. HandlerInv(h)'
    BY <1>1, <1>2, <1>4 DEF HandlerInv, Statements
  <1> QED BY <1>1, <1>3, <1>4, <1>5, SameServer, StepKeeps

(* A refresh has the groups as they are, *)
LEMMA FetchStored == ASSUME Stored, NEW h \in Handlers, GetJoinedGroups(h) PROVE Stored'
  <1> SUFFICES ASSUME At(h, "fetch", "clear"),
                      fetched' = [fetched EXCEPT ![h] = [g \in member |-> Snapshot(g)]],
                      UNCHANGED <<tableVars, fresh, lock, kind, event, about, copy, todo, tries>>
               PROVE  Stored'
    BY FailureStored DEF GetJoinedGroups
  <1>1. /\ pc[h] = "fetch" /\ pc' = [pc EXCEPT ![h] = "clear"]
        /\ UNCHANGED <<serverVars, row, setting, top>>
    BY DEF At, tableVars
  <1>2. \A g \in member : Faithful(Snapshot(g), g)
    <2>1. ASSUME NEW g \in Groups PROVE Faithful(Snapshot(g), g)
      <3>1. Current(g) \in Nat /\ 1 <= Current(g)
        BY <1>1, SameServer
      <3> QED BY <3>1, SnapshotRanks DEF Faithful, Stored, ServerInv
    <2> QED BY <2>1 DEF Stored, ServerInv
  <1>3. StepOf(h) /\ pc'[h] = "clear" /\ fetched'[h] = [g \in member |-> Snapshot(g)]
    BY <1>1 DEF Stored, FunctionInv, StepOf
  <1>4. TableInv' /\ FlagInv'
    BY <1>1, SameServer DEF Stored, TableInv, FlagInv
  <1>5. HandlerInv(h)'
    <2>1. /\ \A r, o : Faithful(r, o)' <=> Faithful(r, o)
          /\ \A u, o : Genuine(u, o)' <=> Genuine(u, o)
      BY <1>1, SameServer
    <2>2. HandlerInv(h) /\ member \subseteq Groups
      BY DEF Stored, ServerInv
    <2>3. /\ DOMAIN fetched'[h] \subseteq Groups
          /\ \A g \in DOMAIN fetched'[h] : Faithful(fetched'[h][g], g)
      BY <1>2, <1>3, <2>2
    <2> QED BY <1>1, <1>3, <2>1, <2>2, <2>3 DEF HandlerInv, Statements
  <1> QED BY <1>1, <1>3, <1>4, <1>5, SameServer, StepKeeps

(* empties the table, *)
LEMMA ClearStored == ASSUME Stored, NEW h \in Handlers, DeleteGroups(h) PROVE Stored'
  <1> SUFFICES ASSUME At(h, "clear", "fill"), row' = [g \in Groups |-> Null],
                      todo' = [todo EXCEPT ![h] = DOMAIN fetched[h]],
                      UNCHANGED <<setting, top, fresh, lock, kind, event, about, copy, fetched,
                                  tries>>
               PROVE  Stored'
    BY FailureStored DEF DeleteGroups
  <1>1. pc[h] = "clear" /\ pc' = [pc EXCEPT ![h] = "fill"] /\ UNCHANGED serverVars
    BY DEF At
  <1>2. StepOf(h) /\ pc'[h] = "fill" /\ todo'[h] = DOMAIN fetched[h]
    BY <1>1 DEF Stored, FunctionInv, StepOf
  <1>3. TableInv' /\ FlagInv'
    BY <1>1, SameServer DEF Stored, TableInv, FlagInv
  <1>4. HandlerInv(h)'
    <2>1. \A r, o : Faithful(r, o)' <=> Faithful(r, o)
      BY <1>1, SameServer
    <2> QED BY <1>1, <1>2, <2>1 DEF Stored, HandlerInv, Statements
  <1> QED BY <1>1, <1>2, <1>3, <1>4, SameServer, StepKeeps

(* writes the setting of each group *)
LEMMA FillSettingStored == ASSUME Stored, NEW h \in Handlers, FillSetting(h) PROVE Stored'
  <1>1. PICK g \in todo[h] :
           /\ pc[h] = "fill" /\ pc' = [pc EXCEPT ![h] = "fillRow"]
           /\ about' = [about EXCEPT ![h] = g] /\ todo' = [todo EXCEPT ![h] = todo[h] \ {g}]
           /\ PutSetting(g, fetched[h][g].timer) \/ setting' = setting
           /\ UNCHANGED <<serverVars, row, top, fresh, lock, kind, event, copy, fetched, tries>>
    BY DEF FillSetting, At
  <1>2. /\ HandlerInv(h) /\ g \in Groups /\ g \in DOMAIN fetched[h] /\ Faithful(fetched[h][g], g)
    BY <1>1 DEF Stored, HandlerInv
  <1>3. TableInv'
    <2>1. CASE PutSetting(g, fetched[h][g].timer)
      BY <1>1, <1>2, <2>1, PutStored
    <2>2. CASE setting' = setting
      BY <1>1, <2>2, SameServer DEF Stored, TableInv
    <2> QED BY <1>1, <2>1, <2>2
  <1>4. StepOf(h) /\ pc'[h] = "fillRow" /\ about'[h] = g /\ todo'[h] = todo[h] \ {g} /\ FlagInv'
    BY <1>1 DEF Stored, FunctionInv, StepOf, FlagInv
  <1>5. HandlerInv(h)'
    <2>1. \A r, o : Faithful(r, o)' <=> Faithful(r, o)
      BY <1>1, SameServer
    <2> QED BY <1>1, <1>2, <1>4, <2>1 DEF HandlerInv, Statements
  <1> QED BY <1>1, <1>3, <1>4, <1>5, SameServer, StepKeeps

(* and its row. *)
LEMMA FillRowStored == ASSUME Stored, NEW h \in Handlers, FillRow(h) PROVE Stored'
  <1> DEFINE g == about[h]
  <1>1. /\ pc[h] = "fillRow" /\ pc' = [pc EXCEPT ![h] = "fill"]
        /\ PutRow(g, fetched[h][g]) \/ UNCHANGED <<row, top>>
        /\ UNCHANGED <<serverVars, setting, fresh, lock, kind, event, about, copy, fetched, todo,
                       tries>>
    BY DEF FillRow, At
  <1>2. /\ HandlerInv(h) /\ g \in Groups /\ g \in DOMAIN fetched[h] /\ Faithful(fetched[h][g], g)
    BY <1>1 DEF Stored, HandlerInv
  <1>3. TableInv'
    <2>1. CASE PutRow(g, fetched[h][g])
      BY <1>1, <1>2, <2>1, PutStored
    <2>2. CASE UNCHANGED <<row, top>>
      BY <1>1, <2>2, SameServer DEF Stored, TableInv
    <2> QED BY <1>1, <2>1, <2>2
  <1>4. StepOf(h) /\ pc'[h] = "fill" /\ FlagInv'
    BY <1>1 DEF Stored, FunctionInv, StepOf, FlagInv
  <1>5. HandlerInv(h)'
    <2>1. \A r, o : Faithful(r, o)' <=> Faithful(r, o)
      BY <1>1, SameServer
    <2> QED BY <1>1, <1>2, <1>4, <2>1 DEF HandlerInv, Statements
  <1> QED BY <1>1, <1>3, <1>4, <1>5, SameServer, StepKeeps

(* Then it ends. *)
LEMMA EndStored == ASSUME Stored, NEW h \in Handlers, EndRefresh(h) PROVE Stored'
  <1>1. PICK next \in {"select", "done"} :
           /\ pc[h] = "fill" /\ pc' = [pc EXCEPT ![h] = next] /\ fresh' = TRUE
           /\ lock' = (IF lock = h THEN Null ELSE lock)
           /\ fetched' = [fetched EXCEPT ![h] = <<>>]
           /\ UNCHANGED <<serverVars, tableVars, kind, event, about, copy, todo, tries>>
    BY DEF EndRefresh, At, Unlock
  <1>2. FlagInv'
    BY <1>1 DEF Stored, FlagInv
  <1> QED BY <1>1, <1>2, MoveKeeps

(* Every statement of a handler. *)
LEMMA StatementStored == ASSUME Stored, NEW h \in Handlers, Statement(h) PROVE Stored'
  BY ReadStored, UpsertSettingStored, UpsertStored, FailureStored, DeleteStored, FetchStored,
     ClearStored, FillSettingStored, FillRowStored, EndStored DEF Statement

-----------------------------------------------------------------------------
(* A version is added to the history of a group. *)
LEMMA HistoryGrows ==
    ASSUME ServerInv, NEW g \in Groups, NEW ranks \in RankFunctions, NewRanks(g, ranks),
           timer' = timer, member' \subseteq Groups
    PROVE  /\ ServerInv' /\ Grown /\ Current(g)' = Current(g) + 1
           /\ history'[g][Current(g) + 1] = ranks
           /\ history'[g][Current(g)] = history[g][Current(g)]
           /\ Current(g) \in Nat /\ 1 <= Current(g)
  <1>1. /\ Current(g) < MaxVersion /\ history' = [history EXCEPT ![g] = Append(history[g], ranks)]
        /\ history[g] \in Seq(RankFunctions) /\ MaxVersion \in Nat
        /\ \A o \in Groups : Current(o) \in Nat /\ 1 <= Current(o) /\ Current(o) <= MaxVersion
    BY ScopeAssumption DEF NewRanks, ServerInv
  <1>2. PICK s \in Seq(RankFunctions) : s = history[g] /\ Len(s) = Current(g)
    BY <1>1 DEF Current
  <1>3. /\ Append(s, ranks) \in Seq(RankFunctions) /\ Len(Append(s, ranks)) = Len(s) + 1
        /\ Append(s, ranks)[Len(s) + 1] = ranks
        /\ \A v \in 1..Len(s) : Append(s, ranks)[v] = s[v]
    OBVIOUS
  <1>4. /\ history'[g] = Append(s, ranks) /\ history' \in [Groups -> Seq(RankFunctions)]
        /\ \A o \in Groups : o # g => history'[o] = history[o]
    BY <1>1, <1>2, <1>3 DEF ServerInv
  <1>5. Current(g)' = Current(g) + 1 /\ \A o \in Groups : o # g => Current(o)' = Current(o)
    BY <1>2, <1>3, <1>4 DEF Current
  <1>6. \A o \in Groups : Current(o)' \in 1..MaxVersion
    BY <1>1, <1>5
  <1>7. ServerInv'
    BY <1>4, <1>6 DEF ServerInv
  <1>8. Grown
    BY <1>1, <1>2, <1>3, <1>4, <1>5 DEF Grown
  <1> QED BY <1>1, <1>2, <1>3, <1>4, <1>5, <1>7, <1>8

(* What the tables held they hold, whatever WhatsApp does. *)
LEMMA TablesStored ==
    ASSUME Stored, ServerInv', Grown, UNCHANGED tableVars
    PROVE  TableInv'
  <1>1. \A r : \A g \in Groups : Faithful(r, g) => Faithful(r, g)'
    BY GrownKeeps DEF Stored
  <1> QED BY <1>1 DEF Stored, TableInv, tableVars

(* An event nobody hears of. *)
LEMMA MissedStored == ASSUME Stored, ServerInv', Grown, Missed PROVE Stored'
  <1>1. UNCHANGED <<tableVars, fresh, lock, handlerVars>>
    BY DEF Missed
  <1>2. TableInv' /\ FlagInv'
    BY <1>1, TablesStored DEF Stored, FlagInv
  <1>3. StepOf(Null)
    BY <1>1 DEF handlerVars, StepOf, Stored, FunctionInv
  <1> QED BY <1>2, <1>3, ScopeAssumption, StepKeeps

(* A goroutine starts. *)
LEMMA DispatchStored ==
    ASSUME Stored, ServerInv', Grown, NEW h \in Handlers,
           NEW k \in {"update", "list", "force", "left", "joined"}, NEW g, NEW e, NEW c,
           NEW statement \in {"update", "list", "force", "left", "setting"},
           Dispatch(h, k, g, e, statement, c),
           k = "update" <=> statement = "update",
           k = "update" => Genuine(e, g)',
           statement \in {"left", "setting"} => g \in Groups,
           statement = "setting" => Faithful(c, g)'
    PROVE  Stored'
  <1>1. /\ pc[h] = "new" /\ pc' = [pc EXCEPT ![h] = statement] /\ kind' = [kind EXCEPT ![h] = k]
        /\ event' = [event EXCEPT ![h] = e] /\ about' = [about EXCEPT ![h] = g]
        /\ copy' = [copy EXCEPT ![h] = c]
        /\ UNCHANGED <<tableVars, fresh, lock, fetched, todo, tries>>
    BY DEF Dispatch
  <1>2. /\ StepOf(h) /\ pc'[h] = statement /\ kind'[h] = k /\ event'[h] = e /\ about'[h] = g
        /\ copy'[h] = c /\ FlagInv'
    BY <1>1 DEF Stored, FunctionInv, StepOf, FlagInv
  <1>3. TableInv'
    BY <1>1, TablesStored
  <1>4. HandlerInv(h)'
    <2>1. HandlerInv(h)
      BY DEF Stored
    <2>2. statement \in Statements
      BY DEF Statements
    <2>3. todo'[h] \subseteq Groups /\ tries'[h] \in 0..Attempts /\ tries'[h] < Attempts
      BY <1>1, <2>1 DEF HandlerInv
    <2> QED BY <1>2, <2>2, <2>3 DEF HandlerInv
  <1> QED BY <1>2, <1>3, <1>4, StepKeeps

(* An announced update that is genuine. *)
LEMMA AnnounceStored ==
    ASSUME Stored, ServerInv', Grown, NEW g \in Groups, NEW u, Announce(g, u), Genuine(u, g)'
    PROVE  Stored'
  <1>1. ASSUME NEW h \in Handlers, Dispatch(h, "update", g, u, "update", Null) PROVE Stored'
    BY <1>1, DispatchStored
  <1> QED BY <1>1, MissedStored DEF Announce

\* One participant joins, leaves, is promoted or demoted.
OneChange(D, ranks, j, n, u, new) ==
    \/ /\ j \notin D /\ u = [n EXCEPT !.join = <<j>>]
       /\ new = [i \in D \cup {j} |-> IF i = j THEN "member" ELSE ranks[i]]
    \/ u = [n EXCEPT !.leave = <<j>>] /\ new = [i \in D \ {j} |-> ranks[i]]
    \/ /\ j \in D /\ u = [n EXCEPT !.promote = <<j>>]
       /\ new = [i \in D \cup {j} |-> IF i = j THEN "admin" ELSE ranks[i]]
    \/ /\ j \in D /\ u = [n EXCEPT !.demote = <<j>>]
       /\ new = [i \in D \cup {j} |-> IF i = j THEN "member" ELSE ranks[i]]

(* Its update leads to the next version. *)
LEMMA OneChanges ==
    ASSUME NEW D \in SUBSET Jids, NEW ranks \in [D -> Ranks], NEW j \in Jids, NEW v \in Nat,
           NEW n, n = [timer |-> Same, prev |-> v, version |-> v + 1,
                       join |-> <<>>, leave |-> <<>>, promote |-> <<>>, demote |-> <<>>],
           NEW u, NEW new, OneChange(D, ranks, j, n, u, new)
    PROVE  /\ u \in Updates /\ u.prev = v /\ u.version = v + 1
           /\ new \in RankFunctions /\ new = Changed(ranks, u)
  <1>1. /\ <<j>> \in Seq(Jids) /\ <<>> \in Seq(Jids) /\ ToSet(<<j>>) = {j} /\ ToSet(<<>>) = {}
        /\ v + 1 \in Nat
    BY DEF ToSet
  <1> USE DEF OneChange
  <1> DEFINE U(a, b, c, d) == [timer |-> Same, prev |-> v, version |-> v + 1,
                               join |-> a, leave |-> b, promote |-> c, demote |-> d]
  <1>2. \A a, b, c, d \in Seq(Jids) : /\ U(a, b, c, d) \in Updates
                                      /\ U(a, b, c, d).prev = v /\ U(a, b, c, d).version = v + 1
    BY <1>1 DEF Updates
  <1>3. \/ u = U(<<j>>, <<>>, <<>>, <<>>) \/ u = U(<<>>, <<j>>, <<>>, <<>>)
        \/ u = U(<<>>, <<>>, <<j>>, <<>>) \/ u = U(<<>>, <<>>, <<>>, <<j>>)
    OBVIOUS
  <1>4. u \in Updates /\ u.prev = v /\ u.version = v + 1
    <2>1. PICK a \in Seq(Jids), b \in Seq(Jids), c \in Seq(Jids), d \in Seq(Jids) :
             u = U(a, b, c, d)
      <3> HIDE DEF U
      <3>1. CASE u = U(<<j>>, <<>>, <<>>, <<>>)
        BY <1>1, <3>1
      <3>2. CASE u = U(<<>>, <<j>>, <<>>, <<>>)
        BY <1>1, <3>2
      <3>3. CASE u = U(<<>>, <<>>, <<j>>, <<>>)
        BY <1>1, <3>3
      <3>4. CASE u = U(<<>>, <<>>, <<>>, <<j>>)
        BY <1>1, <3>4
      <3> QED BY <1>3, <3>1, <3>2, <3>3, <3>4
    <2> HIDE DEF U
    <2> QED BY <1>2, <2>1
  <1>5. "member" \in Ranks /\ "admin" \in Ranks
    BY DEF Ranks
  <1>6. new \in [D \cup {j} -> Ranks] \/ new \in [D \ {j} -> Ranks]
    BY <1>5
  <1>7. new \in RankFunctions
    BY <1>6 DEF RankFunctions
  <1>8. CASE j \notin D /\ u = [n EXCEPT !.join = <<j>>]
             /\ new = [i \in D \cup {j} |-> IF i = j THEN "member" ELSE ranks[i]]
    <2>1. u.join = <<j>> /\ u.leave = <<>> /\ u.promote = <<>> /\ u.demote = <<>>
      BY <1>8
    <2> QED BY <1>1, <1>4, <1>7, <1>8, <2>1 DEF Changed
  <1>9. CASE u = [n EXCEPT !.leave = <<j>>] /\ new = [i \in D \ {j} |-> ranks[i]]
    <2>1. u.join = <<>> /\ u.leave = <<j>> /\ u.promote = <<>> /\ u.demote = <<>>
      BY <1>9
    <2> QED BY <1>1, <1>4, <1>7, <1>9, <2>1 DEF Changed
  <1>10. CASE j \in D /\ u = [n EXCEPT !.promote = <<j>>]
              /\ new = [i \in D \cup {j} |-> IF i = j THEN "admin" ELSE ranks[i]]
    <2>1. u.join = <<>> /\ u.leave = <<>> /\ u.promote = <<j>> /\ u.demote = <<>>
      BY <1>10
    <2> QED BY <1>1, <1>4, <1>7, <1>10, <2>1 DEF Changed
  <1>11. CASE j \in D /\ u = [n EXCEPT !.demote = <<j>>]
              /\ new = [i \in D \cup {j} |-> IF i = j THEN "member" ELSE ranks[i]]
    <2>1. u.join = <<>> /\ u.leave = <<>> /\ u.promote = <<>> /\ u.demote = <<j>>
      BY <1>11
    <2> QED BY <1>1, <1>4, <1>7, <1>11, <2>1 DEF Changed
  <1> QED BY <1>8, <1>9, <1>10, <1>11

(* WhatsApp makes a version and announces what leads to it. *)
LEMMA ParticipantsStored ==
    ASSUME Stored, NEW g \in Groups, NEW j \in Jids, ParticipantChanges(g, j) PROVE Stored'
  <1>1. PICK v \in Nat : v = Current(g) /\ 1 <= v
    BY DEF Stored, ServerInv
  <1>2. PICK ranks \in RankFunctions : ranks = history[g][v]
    BY <1>1 DEF Stored, ServerInv, Current
  <1>3. PICK D \in SUBSET Jids : ranks \in [D -> Ranks]
    BY <1>2 DEF RankFunctions
  <1>4. PICK n : n = NewVersion(g)
    OBVIOUS
  <1>5. n = [timer |-> Same, prev |-> v, version |-> v + 1,
             join |-> <<>>, leave |-> <<>>, promote |-> <<>>, demote |-> <<>>]
    <2>1. PICK r : r = Update(g, Same)
      OBVIOUS
    <2>2. n = [r EXCEPT !.prev = v, !.version = v + 1]
      BY <1>1, <1>4, <2>1 DEF NewVersion
    <2>3. r = [timer |-> Same, prev |-> 0, version |-> 0,
               join |-> <<>>, leave |-> <<>>, promote |-> <<>>, demote |-> <<>>]
      BY <2>1 DEF Update
    <2> QED BY <2>2, <2>3
  <1>6. PICK u, new : OneChange(D, ranks, j, n, u, new) /\ NewRanks(g, new) /\ Announce(g, u)
    <2>1. DOMAIN ranks = D
      BY <1>3
    <2> QED BY <1>1, <1>2, <1>4, <2>1 DEF ParticipantChanges, OneChange
  <1>7. /\ u \in Updates /\ u.prev = v /\ u.version = v + 1
        /\ new \in RankFunctions /\ new = Changed(ranks, u)
    BY <1>3, <1>5, <1>6, OneChanges
  <1>8. /\ ServerInv' /\ Grown /\ Current(g)' = v + 1
        /\ history'[g][v + 1] = new /\ history'[g][v] = ranks
    BY <1>1, <1>2, <1>6, <1>7, HistoryGrows DEF ParticipantChanges, Stored, ServerInv
  <1>9. Genuine(u, g)'
    BY <1>1, <1>7, <1>8 DEF Genuine
  <1> QED BY <1>6, <1>8, <1>9, AnnounceStored

(* A new timer is announced without a version. *)
LEMMA TimerStored ==
    ASSUME Stored, NEW g \in Groups, NEW t \in Timers, TimerChanges(g, t) PROVE Stored'
  <1>1. /\ timer' = [timer EXCEPT ![g] = t] /\ Announce(g, Update(g, t))
        /\ UNCHANGED <<history, member>>
    BY DEF TimerChanges
  <1>2. Update(g, t) \in Updates /\ ~TouchesParticipants(Update(g, t))
    BY DEF Update, Updates, TouchesParticipants
  <1>3. ServerInv' /\ Grown
    BY <1>1, ScopeAssumption DEF Stored, ServerInv, Grown, Current
  <1>4. Genuine(Update(g, t), g)'
    BY <1>2 DEF Genuine
  <1> QED BY <1>1, <1>3, <1>4, AnnounceStored

(* I leave a group. *)
LEMMA LeaveStored == ASSUME Stored, NEW g \in Groups, ILeave(g) PROVE Stored'
  <1>1. history[g][Current(g)] \in RankFunctions
    BY DEF Stored, ServerInv, Current
  <1>2. member' \subseteq Groups
    BY DEF ILeave, Stored, ServerInv
  <1>3. ServerInv' /\ Grown
    BY <1>1, <1>2, HistoryGrows DEF ILeave, Stored
  <1>4. ASSUME NEW h \in Handlers, Dispatch(h, "left", g, Null, "left", Null) PROVE Stored'
    BY <1>3, <1>4, DispatchStored
  <1> QED BY <1>3, <1>4, MissedStored DEF ILeave

(* I join a group, and am told how it is. *)
LEMMA JoinStored == ASSUME Stored, NEW g \in Groups, IJoin(g) PROVE Stored'
  <1>1. history[g][Current(g)] \in RankFunctions
    BY DEF Stored, ServerInv, Current
  <1>2. member' \subseteq Groups
    BY DEF IJoin, Stored, ServerInv
  <1>3. /\ ServerInv' /\ Grown /\ Current(g)' = Current(g) + 1
        /\ history'[g][Current(g) + 1] = history[g][Current(g)]
        /\ Current(g) \in Nat /\ 1 <= Current(g)
    BY <1>1, <1>2, HistoryGrows DEF IJoin, Stored
  <1>c. PICK c : c = [Snapshot(g) EXCEPT !.version = @ + 1]
    OBVIOUS
  <1>4. Faithful(c, g)'
    <2>1. PICK s \in GroupRecords : /\ s = Snapshot(g) /\ s.version = Current(g)
                                    /\ RanksOf(s) = history[g][Current(g)]
      BY <1>3, SnapshotRanks DEF Stored, ServerInv
    <2>2. /\ c \in GroupRecords /\ c.version = Current(g) + 1 /\ c.participants = s.participants
      BY <1>3, <1>c, <2>1 DEF GroupRecords
    <2>3. RanksOf(c) = RanksOf(s)
      BY <2>2 DEF RanksOf
    <2>4. c.version \in 1..Current(g)'
      BY <1>3, <2>2
    <2> QED BY <1>3, <2>1, <2>2, <2>3, <2>4 DEF Faithful, RanksOf
  <1>5. ASSUME NEW h \in Handlers, Dispatch(h, "joined", g, Null, "setting", c) PROVE Stored'
    BY <1>3, <1>4, <1>5, DispatchStored
  <1> QED BY <1>3, <1>c, <1>5, MissedStored DEF IJoin

(* Every step. *)
LEMMA StoredNext == Stored /\ [Next]_vars => Stored'
  <1> SUFFICES ASSUME Stored, [Next]_vars PROVE Stored'
    OBVIOUS
  <1>1. ASSUME NEW h \in Handlers, Request(h, "list") \/ Request(h, "force") PROVE Stored'
    <2>1. UNCHANGED serverVars
      BY <1>1 DEF Request
    <2>2. ServerInv' /\ Grown
      BY <2>1, SameServer
    <2> QED BY <1>1, <2>2, DispatchStored DEF Request
  <1>2. CASE Expire \/ UNCHANGED vars
    <2>1. UNCHANGED <<serverVars, tableVars, lock, handlerVars>> /\ fresh' \in BOOLEAN
      BY <1>2 DEF Expire, vars, Stored, FlagInv
    <2>2. ServerInv' /\ Grown /\ FlagInv'
      BY <2>1, SameServer DEF Stored, FlagInv
    <2>3. TableInv'
      BY <2>1, <2>2, TablesStored
    <2>4. StepOf(Null)
      BY <2>1 DEF handlerVars, StepOf, Stored, FunctionInv
    <2> QED BY <2>2, <2>3, <2>4, ScopeAssumption, StepKeeps
  <1> QED BY <1>1, <1>2, ParticipantsStored, TimerStored, LeaveStored, JoinStored, LockingStored,
             StatementStored DEF Next

(* The inductive invariant of what is stored. *)
THEOREM StoredInvariance == Spec => []Stored
  <1> QED BY StoredInit, StoredNext, PTL DEF Spec

(* The type invariant. *)
THEOREM TypeCorrect == Spec => []TypeOK
  <1>1. Stored => TypeOK
    <2> SUFFICES ASSUME Stored PROVE TypeOK
      OBVIOUS
    <2>1. \A g \in Groups : Current(g) <= MaxVersion
                            /\ (row[g] # Null => row[g].version \in 1..MaxVersion)
      BY ScopeAssumption DEF Stored, ServerInv, TableInv, Faithful
    <2>2. /\ pc \in [Handlers -> Statements] /\ todo \in [Handlers -> SUBSET Groups]
          /\ tries \in [Handlers -> 0..Attempts]
      BY DEF Stored, FunctionInv, HandlerInv
    <2> QED BY <2>1, <2>2 DEF TypeOK, Stored, ServerInv, TableInv, FlagInv, Statements
  <1> QED BY <1>1, StoredInvariance, PTL

(* Whatever is delayed, reordered, missed or fails, and also when I leave and
   join groups, the participants of a row are those of its version.        *)
THEOREM VersionsStored == Spec => []StoredIsSomeVersion
  <1>1. Stored => StoredIsSomeVersion
    BY DEF Stored, TableInv, Faithful, StoredIsSomeVersion
  <1> QED BY <1>1, StoredInvariance, PTL

-----------------------------------------------------------------------------
(* While I stay in my groups.                                              *)
States == {"new", "update", "list", "force", "read", "setting", "row", "fetch", "clear",
           "fill", "fillRow", "select", "done", "gaveUp"}

\* A group, whatever its participants.
IsGroup(r) ==
    /\ r = [timer |-> r.timer, version |-> r.version, participants |-> r.participants]
    /\ r.timer \in Timers /\ r.version \in Nat

TypeInv ==
    /\ history \in [Groups -> Seq(RankFunctions)]
    /\ timer \in [Groups -> Timers]
    /\ member \subseteq Groups
    /\ row = [g \in Groups |-> row[g]]
    /\ setting \in [Groups -> Timers]
    /\ top \in [Groups -> Nat]
    /\ lock \in Handlers \cup {Null}
    /\ pc \in [Handlers -> States]
    /\ kind \in [Handlers -> {"update", "list", "force", Null}]
    /\ event = [h \in Handlers |-> event[h]]
    /\ about = [h \in Handlers |-> about[h]]
    /\ copy = [h \in Handlers |-> copy[h]]
    /\ fetched = [h \in Handlers |-> fetched[h]]
    /\ todo \in [Handlers -> SUBSET Groups]

Inside == {"read", "setting", "row", "fetch", "clear", "fill", "fillRow"}

LockInv ==
    \A h \in Handlers :
        /\ pc[h] \in Inside => lock = h
        /\ pc[h] \in {"update", "read", "setting", "row"} => kind[h] = "update"
        /\ pc[h] \in {"list", "force"} => kind[h] # "update"

\* An update leads from one version to the next, and WhatsApp is that far.
EventInv ==
    \A h \in Handlers :
        kind[h] = "update" /\ pc[h] \in {"update", "read", "setting", "row", "fetch", "clear"} =>
            /\ about[h] \in Groups /\ event[h] \in Updates
            /\ event[h].version <= Current(about[h])
            /\ TouchesParticipants(event[h]) => event[h].version = event[h].prev + 1

VersionInv ==
    \A g \in Groups :
        /\ 1 <= Current(g) /\ top[g] <= Current(g)
        /\ row[g] # Null => IsGroup(row[g]) /\ row[g].version = top[g]

\* What will be written is at least as new as what was.
NewEnough(r, g) == IsGroup(r) /\ top[g] <= r.version /\ r.version <= Current(g)

CopyInv == \A h \in Handlers : pc[h] \in {"setting", "row"} => NewEnough(copy[h], about[h])

FetchInv ==
    \A h \in Handlers : pc[h] \in {"clear", "fill", "fillRow"} =>
        /\ DOMAIN fetched[h] \subseteq Groups
        /\ \A g \in DOMAIN fetched[h] : NewEnough(fetched[h][g], g)
        /\ pc[h] \in {"fill", "fillRow"} => todo[h] \subseteq DOMAIN fetched[h]
        /\ pc[h] = "fillRow" => about[h] \in DOMAIN fetched[h] \ todo[h]

\* The two tables agree, but for the group that is being written: its setting
\* is a statement ahead of its row.
MirrorInv ==
    ~DbFails =>
        /\ \A g \in Groups :
              row[g] # Null /\ (\A h \in Handlers : pc[h] = "row" => about[h] # g) =>
                  setting[g] = row[g].timer
        /\ \A h \in Handlers :
              /\ pc[h] = "row" => setting[about[h]] = copy[h].timer
              /\ pc[h] \in {"fill", "fillRow"} => \A g \in todo[h] : row[g] = Null
              /\ pc[h] = "fillRow" => /\ row[about[h]] = Null
                                      /\ setting[about[h]] = fetched[h][about[h]].timer

All == TypeInv /\ LockInv /\ EventInv /\ VersionInv /\ CopyInv /\ FetchInv /\ MirrorInv

Inv == MembershipStable => All

-----------------------------------------------------------------------------
(* What an update makes of a group, the participants left aside. *)
LEMMA UpdatedGroup ==
    ASSUME NEW r, IsGroup(r), NEW u \in Updates
    PROVE  /\ IsGroup(UpdateGroupInfo(r, u))
           /\ UpdateGroupInfo(r, u).timer = (IF u.timer = Same THEN r.timer ELSE u.timer)
           /\ UpdateGroupInfo(r, u).version =
                 (IF TouchesParticipants(u) THEN u.version ELSE r.version)
  <1> DEFINE p == updateGroupParams(r, u)
  <1>1. IsGroup(p) /\ p.timer = (IF u.timer = Same THEN r.timer ELSE u.timer)
        /\ p.version = r.version
    BY DEF IsGroup, updateGroupParams, Updates
  <1> HIDE DEF p
  <1>2. \E q : updateGroupParticipants(p, u) =
                  IF ~TouchesParticipants(u) THEN p
                  ELSE [p EXCEPT !.participants = q, !.version = u.version]
    BY Zenon DEF updateGroupParticipants
  <1>3. UpdateGroupInfo(r, u) = updateGroupParticipants(p, u)
    BY DEF UpdateGroupInfo, p
  <1> QED BY <1>1, <1>2, <1>3 DEF IsGroup, Updates

(* A new version of a group is the last of its history. *)
LEMMA NextVersion ==
    ASSUME TypeInv, NEW g \in Groups, NEW ranks \in RankFunctions, NewRanks(g, ranks)
    PROVE  /\ history' \in [Groups -> Seq(RankFunctions)]
           /\ Current(g)' = Current(g) + 1
           /\ \A o \in Groups : Current(o) \in Nat /\ Current(o) <= Current(o)'
  <1>1. history[g] \in Seq(RankFunctions) /\ history' = [history EXCEPT ![g] = Append(history[g], ranks)]
    BY DEF TypeInv, NewRanks
  <1>2. /\ Append(history[g], ranks) \in Seq(RankFunctions)
        /\ Len(Append(history[g], ranks)) = Len(history[g]) + 1
    BY <1>1
  <1>3. \A o \in Groups : Len(history[o]) \in Nat
    BY DEF TypeInv
  <1> QED BY <1>1, <1>2, <1>3 DEF TypeInv, Current

(* Only one handler at a time is inside the lock. *)
LEMMA Alone ==
    ASSUME All, NEW h \in Handlers, NEW o \in Handlers, pc[h] \in Inside, pc[o] \in Inside
    PROVE  o = h
  BY DEF All, LockInv

(* No group has more than its first version. *)
LEMMA InvInit == Init => Inv
  <1> SUFFICES ASSUME Init PROVE All
    BY DEF Inv
  <1>1. history \in [Groups -> Seq(RankFunctions)] /\ \A g \in Groups : Current(g) = 1
    <2>1. [j \in {} |-> "member"] \in RankFunctions
      <3>1. [j \in {} |-> "member"] \in [{} -> Ranks] /\ {} \in SUBSET Jids
        BY DEF Ranks
      <3> QED BY <3>1 DEF RankFunctions
    <2> QED BY <2>1 DEF Init, Current
  <1>2. \A g \in Groups : row[g] = Null \/ (IsGroup(row[g]) /\ row[g].version = 1 /\ row[g].timer = Off)
    BY ScopeAssumption DEF Init, IsGroup
  <1>3. TypeInv
    <2>1. row = [g \in Groups |-> row[g]]
      BY DEF Init
    <2> QED BY <1>1, <2>1, ScopeAssumption DEF Init, TypeInv, States
  <1>4. LockInv /\ EventInv /\ CopyInv /\ FetchInv
    BY DEF Init, LockInv, EventInv, CopyInv, FetchInv, Inside
  <1>5. VersionInv
    BY <1>1, <1>2 DEF Init, VersionInv
  <1>6. MirrorInv
    BY <1>2 DEF Init, MirrorInv
  <1> QED BY <1>3, <1>4, <1>5, <1>6 DEF All

-----------------------------------------------------------------------------
(* What WhatsApp does moves only WhatsApp forward; a handler is started, or the
   event is missed.                                                        *)
LEMMA ServerKeeps ==
    ASSUME All, history' \in [Groups -> Seq(RankFunctions)], timer' \in [Groups -> Timers],
           \A g \in Groups : Current(g) <= Current(g)', member' = member,
           UNCHANGED <<tableVars, lock, handlerVars>>
    PROVE  All'
  <1>1. \A g \in Groups : Current(g) \in Nat /\ Current(g)' \in Nat
    BY DEF All, TypeInv, Current
  <1>2. UNCHANGED <<row, setting, top, lock, pc, kind, event, about, copy, fetched, todo>>
    BY DEF tableVars, handlerVars
  <1>3. TypeInv' /\ LockInv' /\ MirrorInv'
    BY <1>2 DEF All, TypeInv, LockInv, MirrorInv
  <1>4. \A r, g : NewEnough(r, g) /\ g \in Groups => NewEnough(r, g)'
    BY <1>1, <1>2 DEF NewEnough, IsGroup, All, TypeInv
  <1>5. EventInv' /\ VersionInv'
    BY <1>1, <1>2 DEF All, TypeInv, EventInv, VersionInv, Updates
  <1>6. CopyInv' /\ FetchInv'
    BY <1>2, <1>4 DEF All, CopyInv, FetchInv, LockInv, EventInv
  <1> QED BY <1>3, <1>5, <1>6 DEF All

(* A goroutine that starts: an event's update, a list or a refresh. *)
LEMMA DispatchKeeps ==
    ASSUME All, NEW h \in Handlers, NEW k \in {"update", "list", "force"}, NEW g, NEW e,
           Dispatch(h, k, g, e, k, Null),
           history' \in [Groups -> Seq(RankFunctions)], timer' \in [Groups -> Timers],
           \A o \in Groups : Current(o) <= Current(o)', member' = member,
           k = "update" => /\ g \in Groups /\ e \in Updates
                           /\ e.version <= Current(g)'
                           /\ TouchesParticipants(e) => e.version = e.prev + 1
    PROVE  All'
  <1>1. \A o \in Groups : Current(o) \in Nat /\ Current(o)' \in Nat
    BY DEF All, TypeInv, Current
  <1>2. /\ pc[h] = "new" /\ pc' = [pc EXCEPT ![h] = k] /\ kind' = [kind EXCEPT ![h] = k]
        /\ event' = [event EXCEPT ![h] = e] /\ about' = [about EXCEPT ![h] = g]
        /\ copy' = [copy EXCEPT ![h] = Null]
        /\ UNCHANGED <<row, setting, top, lock, fetched, todo>>
    BY DEF Dispatch, tableVars
  <1>3. TypeInv'
    BY <1>2 DEF All, TypeInv, States
  <1>4. LockInv'
    BY <1>2 DEF All, TypeInv, LockInv, Inside
  <1>5. EventInv'
    <2>1. ASSUME NEW o \in Handlers, o # h
          PROVE  /\ pc'[o] = pc[o] /\ kind'[o] = kind[o] /\ event'[o] = event[o]
                 /\ about'[o] = about[o]
      BY <1>2, <2>1 DEF All, TypeInv
    <2>2. /\ kind'[h] = k /\ event'[h] = e /\ about'[h] = g
      BY <1>2 DEF All, TypeInv
    <2>3. \A u \in Updates : u.version \in Nat
      BY DEF Updates
    <2> QED BY <1>1, <2>1, <2>2, <2>3 DEF All, EventInv, Current
  <1>6. VersionInv'
    BY <1>1, <1>2 DEF All, TypeInv, VersionInv
  <1>7. \A r, o : NewEnough(r, o) /\ o \in Groups => NewEnough(r, o)'
    BY <1>1, <1>2 DEF NewEnough, IsGroup, All, TypeInv
  <1>8. CopyInv' /\ FetchInv'
    BY <1>2, <1>7 DEF All, TypeInv, CopyInv, FetchInv, LockInv, EventInv
  <1>9. MirrorInv'
    BY <1>2 DEF All, TypeInv, MirrorInv
  <1> QED BY <1>3, <1>4, <1>5, <1>6, <1>8, <1>9 DEF All

(* An announced update, or one that is missed. *)
LEMMA AnnounceKeeps ==
    ASSUME All, NEW g \in Groups, NEW u \in Updates, Announce(g, u),
           history' \in [Groups -> Seq(RankFunctions)], timer' \in [Groups -> Timers],
           \A o \in Groups : Current(o) <= Current(o)', member' = member,
           u.version <= Current(g)', TouchesParticipants(u) => u.version = u.prev + 1
    PROVE  All'
  <1>1. CASE Missed
    BY <1>1, ServerKeeps DEF Missed
  <1>2. ASSUME NEW h \in Handlers, Dispatch(h, "update", g, u, "update", Null) PROVE All'
    BY <1>2, DispatchKeeps
  <1> QED BY <1>1, <1>2 DEF Announce

(* WhatsApp makes a new version of a group and announces it. *)
LEMMA ParticipantsKeep ==
    ASSUME All, NEW g \in Groups, NEW j \in Jids, ParticipantChanges(g, j) PROVE All'
  <1> DEFINE ranks == history[g][Current(g)]
             As(r) == [i \in DOMAIN ranks \cup {j} |-> IF i = j THEN r ELSE ranks[i]]
             Without == [i \in DOMAIN ranks \ {j} |-> ranks[i]]
  <1> DEFINE Told(u) == /\ u \in Updates /\ u.prev = Current(g) /\ u.version = Current(g) + 1
                        /\ Announce(g, u)
  <1>1. \E new : /\ NewRanks(g, new) /\ new \in {As("member"), As("admin"), Without}
                 /\ \E u : Told(u)
    <2>1. /\ Current(g) \in Nat /\ <<j>> \in Seq(Jids) /\ <<>> \in Seq(Jids)
      BY DEF All, TypeInv, Current
    <2>a. PICK n : n = NewVersion(g)
      OBVIOUS
    <2>b. n = [timer |-> Same, prev |-> Current(g), version |-> Current(g) + 1,
               join |-> <<>>, leave |-> <<>>, promote |-> <<>>, demote |-> <<>>]
      <3>1. PICK r : r = Update(g, Same)
        OBVIOUS
      <3>2. n = [r EXCEPT !.prev = Current(g), !.version = Current(g) + 1]
        BY <2>a, <3>1 DEF NewVersion
      <3>3. r = [timer |-> Same, prev |-> 0, version |-> 0,
                 join |-> <<>>, leave |-> <<>>, promote |-> <<>>, demote |-> <<>>]
        BY <3>1 DEF Update
      <3> QED BY <3>2, <3>3
    <2> DEFINE U(a, b, c, d) ==
                 [timer |-> Same, prev |-> Current(g), version |-> Current(g) + 1,
                  join |-> a, leave |-> b, promote |-> c, demote |-> d]
    <2>c. \A a, b, c, d \in Seq(Jids) :
             /\ U(a, b, c, d) \in Updates
             /\ U(a, b, c, d).prev = Current(g) /\ U(a, b, c, d).version = Current(g) + 1
      BY <2>1 DEF Updates
    <2>d. /\ [n EXCEPT !.join = <<j>>] = U(<<j>>, <<>>, <<>>, <<>>)
          /\ [n EXCEPT !.leave = <<j>>] = U(<<>>, <<j>>, <<>>, <<>>)
          /\ [n EXCEPT !.promote = <<j>>] = U(<<>>, <<>>, <<j>>, <<>>)
          /\ [n EXCEPT !.demote = <<j>>] = U(<<>>, <<>>, <<>>, <<j>>)
      BY <2>b
    <2> HIDE DEF U
    <2> DEFINE Fine(u) == u \in Updates /\ u.prev = Current(g) /\ u.version = Current(g) + 1
    <2>e. /\ Fine(U(<<j>>, <<>>, <<>>, <<>>)) /\ Fine(U(<<>>, <<j>>, <<>>, <<>>))
          /\ Fine(U(<<>>, <<>>, <<j>>, <<>>)) /\ Fine(U(<<>>, <<>>, <<>>, <<j>>))
      BY <2>1, <2>c, Zenon
    <2>2. /\ Fine([n EXCEPT !.join = <<j>>]) /\ Fine([n EXCEPT !.leave = <<j>>])
          /\ Fine([n EXCEPT !.promote = <<j>>]) /\ Fine([n EXCEPT !.demote = <<j>>])
      BY <2>d, <2>e, Zenon
    <2> QED BY <2>a, <2>2 DEF ParticipantChanges
  <1>2. ranks \in RankFunctions
    BY DEF All, TypeInv, VersionInv, Current
  <1>3. As("member") \in RankFunctions /\ As("admin") \in RankFunctions /\ Without \in RankFunctions
    <2>1. PICK D \in SUBSET Jids : ranks \in [D -> Ranks]
      BY <1>2 DEF RankFunctions
    <2> HIDE DEF ranks
    <2>2. \A r \in Ranks : As(r) \in [D \cup {j} -> Ranks]
      BY <2>1
    <2>3. Without \in [D \ {j} -> Ranks]
      BY <2>1
    <2>4. D \cup {j} \in SUBSET Jids /\ D \ {j} \in SUBSET Jids
      OBVIOUS
    <2>5. "member" \in Ranks /\ "admin" \in Ranks
      BY DEF Ranks
    <2> HIDE DEF As, Without
    <2> QED BY <2>2, <2>3, <2>4, <2>5 DEF RankFunctions
  <1> HIDE DEF As, Without, ranks
  <1>4. PICK new \in RankFunctions : NewRanks(g, new)
    BY <1>1, <1>3
  <1>5. PICK u : Told(u)
    BY <1>1
  <1>6. /\ history' \in [Groups -> Seq(RankFunctions)] /\ Current(g)' = Current(g) + 1
        /\ \A o \in Groups : Current(o) \in Nat /\ Current(o) <= Current(o)'
    BY <1>4, NextVersion DEF All
  <1>7. timer' = timer /\ member' = member
    BY DEF ParticipantChanges
  <1>8. timer' \in [Groups -> Timers]
    BY <1>7 DEF All, TypeInv
  <1> QED BY <1>5, <1>6, <1>7, <1>8, AnnounceKeeps

(* WhatsApp changes a group's timer and announces it. *)
LEMMA TimerKeeps ==
    ASSUME All, NEW g \in Groups, NEW t \in Timers, TimerChanges(g, t) PROVE All'
  <1>1. /\ timer' = [timer EXCEPT ![g] = t] /\ Announce(g, Update(g, t))
        /\ UNCHANGED <<history, member>>
    BY DEF TimerChanges
  <1>2. /\ Update(g, t) \in Updates /\ Update(g, t).version = 0
        /\ ~TouchesParticipants(Update(g, t))
    BY DEF Update, Updates, TouchesParticipants
  <1>3. \A o \in Groups : Current(o) \in Nat /\ Current(o) <= Current(o)'
    BY <1>1 DEF All, TypeInv, Current
  <1>4. history' \in [Groups -> Seq(RankFunctions)] /\ timer' \in [Groups -> Timers]
    BY <1>1 DEF All, TypeInv
  <1>5. Current(g)' = Current(g)
    BY <1>1 DEF Current
  <1> QED BY <1>1, <1>2, <1>3, <1>4, <1>5, AnnounceKeeps

-----------------------------------------------------------------------------
\* A step of handler h that writes no table and moves it to another statement.
Moves(h, next) ==
    /\ pc' = [pc EXCEPT ![h] = next]
    /\ UNCHANGED <<history, timer, member, row, setting, top, kind, event, about>>

(* Facts about the handlers and groups a step does not concern. *)
LEMMA MovesFrame ==
    ASSUME All, NEW h \in Handlers, NEW next \in States, Moves(h, next)
    PROVE  /\ pc'[h] = next /\ \A o \in Handlers : o # h => pc'[o] = pc[o]
           /\ pc' \in [Handlers -> States]
           /\ \A r, g : NewEnough(r, g)' <=> NewEnough(r, g)
           /\ \A g : Current(g)' = Current(g)
           /\ VersionInv'
  BY DEF Moves, All, TypeInv, NewEnough, IsGroup, VersionInv, Current

(* The lock is taken by a handler that waits for it. *)
LEMMA AcquireKeeps ==
    ASSUME All, NEW h \in Handlers, NEW statement \in {"update", "list", "force"},
           NEW next \in {"read", "fetch"}, next = "read" => statement = "update",
           Acquire(h, statement, next)
    PROVE  All'
  <1>1. /\ pc[h] = statement /\ lock = Null /\ lock' = h /\ Moves(h, next)
        /\ UNCHANGED <<copy, fetched, todo>>
    BY DEF Acquire, At, serverVars, tableVars, Moves
  <1>2. next \in States
    BY DEF States
  <1>3. \A o \in Handlers : pc[o] \notin Inside
    BY <1>1, ScopeAssumption DEF All, LockInv
  <1> USE <1>1, <1>2, MovesFrame
  <1>4. TypeInv' /\ VersionInv'
    BY DEF All, TypeInv, Moves
  <1>5. LockInv'
    BY <1>3 DEF All, LockInv, Moves, Inside
  <1>6. EventInv'
    BY DEF All, EventInv, LockInv, Moves, Current
  <1>7. CopyInv' /\ FetchInv'
    BY <1>3 DEF All, CopyInv, FetchInv, Inside
  <1>8. MirrorInv'
    BY <1>3 DEF All, MirrorInv, Moves, Inside
  <1> QED BY <1>4, <1>5, <1>6, <1>7, <1>8 DEF All

(* A handler that never wrote, or failed to, gives the lock back. *)
LEMMA LeaveKeeps ==
    ASSUME All, NEW h \in Handlers, pc[h] \in {"read", "row", "fetch", "clear", "list", "select"},
           pc[h] \in {"row", "clear"} => DbFails,
           NEW next \in {"update", "done", "gaveUp", "select"}, Moves(h, next),
           next = "update" => kind[h] = "update" /\ pc[h] \in {"read", "row", "fetch", "clear"},
           \/ lock' = IF lock = h THEN Null ELSE lock
           \/ pc[h] \in {"list", "select"} /\ lock' = lock,
           copy' = [copy EXCEPT ![h] = Null] \/ copy' = copy, UNCHANGED <<fetched, todo>>
    PROVE  All'
  <1>2. next \in States
    BY DEF States
  <1> USE <1>2, MovesFrame
  <1>4. TypeInv' /\ VersionInv'
    BY DEF All, TypeInv, Moves
  <1>5. LockInv'
    BY DEF All, LockInv, Moves, Inside
  <1>6. EventInv'
    BY DEF All, EventInv, Moves, Current
  <1>0. \A o \in Handlers : o # h => copy'[o] = copy[o]
    BY DEF All, TypeInv
  <1>7. CopyInv'
    BY <1>0 DEF All, CopyInv, Moves
  <1>8. FetchInv'
    BY DEF All, FetchInv, Moves
  <1>9. MirrorInv'
    BY <1>0 DEF All, MirrorInv, Moves
  <1> QED BY <1>4, <1>5, <1>6, <1>7, <1>8, <1>9 DEF All

(* An update reads the row it will replace, while nobody else writes. *)
LEMMA ReadKeeps == ASSUME All, NEW h \in Handlers, ReadGroup(h) PROVE All'
  <1> DEFINE g == about[h]
             new == UpdateGroupInfo(row[g], event[h])
  <1>1. PICK next \in {"setting", "row"} :
           /\ Moves(h, next) /\ (next = "row" => event[h].timer = Same)
           /\ pc[h] = "read" /\ row[g] # Null /\ ~Mismatch(row[g], event[h])
           /\ copy' = [copy EXCEPT ![h] = new]
           /\ UNCHANGED <<lock, fetched, todo>>
    BY DEF ReadGroup, At, FirstWrite, Moves, serverVars, tableVars
  <1>2. next \in States
    BY DEF States
  <1>3. /\ g \in Groups /\ event[h] \in Updates /\ event[h].version <= Current(g)
        /\ TouchesParticipants(event[h]) => event[h].version = event[h].prev + 1
        /\ IsGroup(row[g]) /\ row[g].version = top[g]
        /\ top[g] \in Nat /\ top[g] <= Current(g) /\ Current(g) \in Nat
    BY <1>1 DEF All, LockInv, EventInv, VersionInv, TypeInv, Current
  <1>4. /\ NewEnough(new, g)
        /\ new.timer = IF event[h].timer = Same THEN row[g].timer ELSE event[h].timer
    <2>1. /\ IsGroup(new)
          /\ new.timer = (IF event[h].timer = Same THEN row[g].timer ELSE event[h].timer)
          /\ new.version = (IF TouchesParticipants(event[h]) THEN event[h].version
                                                             ELSE row[g].version)
      BY <1>3, UpdatedGroup
    <2>2. TouchesParticipants(event[h]) => event[h].prev = row[g].version
      BY <1>1 DEF Mismatch
    <2> HIDE DEF new, g
    <2>3. event[h].prev \in Nat
      BY <1>3 DEF Updates
    <2> QED BY <1>3, <2>1, <2>2, <2>3 DEF NewEnough
  <1>5. copy'[h] = new /\ \A o \in Handlers : o # h => copy'[o] = copy[o]
    BY <1>1 DEF All, TypeInv
  <1>6. \A o \in Handlers : pc[o] \in Inside => o = h
    BY <1>1, Alone DEF Inside
  <1> HIDE DEF new
  <1> USE <1>1, <1>2, MovesFrame
  <1>7. TypeInv' /\ VersionInv'
    BY DEF All, TypeInv, Moves
  <1>8. LockInv' /\ EventInv'
    BY DEF All, LockInv, EventInv, Moves, Inside, Current
  <1>9. CopyInv' /\ FetchInv'
    BY <1>4, <1>5 DEF All, CopyInv, FetchInv, Moves, NewEnough, IsGroup, Current
  <1>10. MirrorInv'
    BY <1>3, <1>4, <1>5, <1>6 DEF All, MirrorInv, Moves, Inside
  <1> QED BY <1>7, <1>8, <1>9, <1>10 DEF All

(* Writing the setting of an update. *)
LEMMA SettingKeeps == ASSUME All, NEW h \in Handlers, UpsertSetting(h) PROVE All'
  <1> DEFINE g == about[h]
  <1>1. /\ pc[h] = "setting" /\ pc' = [pc EXCEPT ![h] = "row"]
        /\ \/ setting' = [setting EXCEPT ![g] = copy[h].timer]
           \/ DbFails /\ setting' = setting
        /\ UNCHANGED <<history, timer, member, row, top, lock, kind, event, about, copy,
                       fetched, todo>>
    BY DEF UpsertSetting, At, PutSetting, serverVars
  <1>2. /\ g \in Groups /\ copy[h].timer \in Timers
    BY <1>1 DEF All, LockInv, EventInv, CopyInv, NewEnough, IsGroup
  <1>3. \A o \in Handlers : pc[o] \in Inside => o = h
    BY <1>1, Alone DEF Inside
  <1>4. TypeInv'
    BY <1>1, <1>2 DEF All, TypeInv, States
  <1>5. LockInv' /\ EventInv' /\ VersionInv'
    BY <1>1 DEF All, TypeInv, LockInv, EventInv, VersionInv, Inside, Current, IsGroup
  <1>6. CopyInv' /\ FetchInv'
    BY <1>1 DEF All, TypeInv, CopyInv, FetchInv, NewEnough, IsGroup, Current
  <1>7. MirrorInv'
    BY <1>1, <1>2, <1>3 DEF All, TypeInv, MirrorInv, Inside
  <1> QED BY <1>4, <1>5, <1>6, <1>7 DEF All

(* A row is replaced by one that is at least as new. *)
LEMMA PutKeepsVersions ==
    ASSUME All, NEW g \in Groups, NEW new, NewEnough(new, g), PutRow(g, new),
           UNCHANGED history
    PROVE  /\ top' \in [Groups -> Nat] /\ top'[g] = new.version
           /\ row' = [row EXCEPT ![g] = new] /\ row' = [o \in Groups |-> row'[o]]
           /\ \A o \in Groups : o # g => top'[o] = top[o] /\ row'[o] = row[o]
           /\ VersionInv'
  <1>1. /\ row' = [row EXCEPT ![g] = new]
        /\ top' = [top EXCEPT ![g] = IF new.version > top[g] THEN new.version ELSE top[g]]
    BY DEF PutRow
  <1>2. /\ new.version \in Nat /\ top[g] <= new.version /\ new.version <= Current(g)
        /\ IsGroup(new)
    BY DEF NewEnough, IsGroup
  <1>3. top' \in [Groups -> Nat] /\ top'[g] = new.version
    BY <1>1, <1>2 DEF All, TypeInv
  <1>4. /\ \A o \in Groups : o # g => top'[o] = top[o] /\ row'[o] = row[o]
        /\ row' = [o \in Groups |-> row'[o]] /\ row'[g] = new
    BY <1>1 DEF All, TypeInv
  <1>5. VersionInv'
    BY <1>2, <1>3, <1>4 DEF All, VersionInv, IsGroup, Current
  <1> QED BY <1>1, <1>3, <1>4, <1>5

(* The row of an update. *)
LEMMA UpsertKeeps == ASSUME All, NEW h \in Handlers, UpsertGroup(h) PROVE All'
  <1> DEFINE g == about[h]
  <1>1. /\ pc[h] = "row" /\ pc' = [pc EXCEPT ![h] = "done"] /\ PutRow(g, copy[h])
        /\ lock' = IF lock = h THEN Null ELSE lock
        /\ UNCHANGED <<history, timer, member, setting, kind, event, about, copy, fetched, todo>>
    BY DEF UpsertGroup, At, Unlock, serverVars
  <1>2. g \in Groups /\ NewEnough(copy[h], g)
    BY <1>1 DEF All, LockInv, EventInv, CopyInv
  <1>3. \A o \in Handlers : pc[o] \in Inside => o = h
    BY <1>1, Alone DEF Inside
  <1>4. /\ top' \in [Groups -> Nat]
        /\ row' = [row EXCEPT ![g] = copy[h]] /\ row' = [o \in Groups |-> row'[o]]
        /\ VersionInv'
    BY <1>1, <1>2, PutKeepsVersions
  <1>5. TypeInv'
    BY <1>1, <1>4 DEF All, TypeInv, States
  <1>6. LockInv' /\ EventInv'
    BY <1>1, <1>3 DEF All, TypeInv, LockInv, EventInv, Inside, Current
  <1>7. CopyInv' /\ FetchInv'
    BY <1>1, <1>3 DEF All, TypeInv, CopyInv, FetchInv, Inside
  <1>8. MirrorInv'
    <2> SUFFICES ASSUME ~DbFails PROVE MirrorInv'
      BY DEF MirrorInv
    <2>1. /\ setting[g] = copy[h].timer /\ row'[g] = copy[h]
          /\ \A o \in Groups : o # g => row'[o] = row[o]
      BY <1>1, <1>2, <1>4 DEF All, TypeInv, MirrorInv
    <2>2. \A o \in Handlers : pc'[o] \notin Inside /\ (pc[o] = "row" => o = h)
      BY <1>1, <1>3 DEF All, TypeInv, Inside
    <2>3. \A o \in Groups : row'[o] # Null => setting[o] = row'[o].timer
      BY <2>1, <2>2 DEF All, MirrorInv
    <2> QED BY <1>1, <2>2, <2>3 DEF MirrorInv, Inside
  <1> QED BY <1>4, <1>5, <1>6, <1>7, <1>8 DEF All

-----------------------------------------------------------------------------
(* A refresh takes the groups as WhatsApp has them now. *)
LEMMA FetchKeeps ==
    ASSUME All, NEW h \in Handlers, At(h, "fetch", "clear"),
           fetched' = [fetched EXCEPT ![h] = [g \in member |-> Snapshot(g)]],
           UNCHANGED <<tableVars, lock, kind, event, about, copy, todo>>
    PROVE  All'
  <1>1. /\ pc[h] = "fetch" /\ Moves(h, "clear") /\ UNCHANGED <<lock, copy, todo>>
    BY DEF At, Moves, serverVars, tableVars
  <1>2. "clear" \in States
    BY DEF States
  <1>3. \A o \in Handlers : pc[o] \in Inside => o = h
    BY <1>1, Alone DEF Inside
  <1>4. \A g \in member : NewEnough(Snapshot(g), g)
    BY DEF Snapshot, NewEnough, IsGroup, All, TypeInv, VersionInv, Current
  <1>5. /\ fetched'[h] = [g \in member |-> Snapshot(g)]
        /\ fetched' = [o \in Handlers |-> fetched'[o]]
    BY DEF All, TypeInv
  <1> USE <1>1, <1>2, MovesFrame
  <1>6. TypeInv' /\ VersionInv'
    BY <1>5 DEF All, TypeInv, Moves
  <1>7. LockInv' /\ EventInv'
    BY DEF All, LockInv, EventInv, Moves, Inside, Current
  <1>8. CopyInv' /\ FetchInv'
    <2>1. CopyInv'
      BY <1>3 DEF All, CopyInv, Inside
    <2>2. /\ DOMAIN fetched'[h] \subseteq Groups
          /\ \A g \in DOMAIN fetched'[h] : NewEnough(fetched'[h][g], g)
      BY <1>4, <1>5 DEF All, TypeInv
    <2>3. \A g \in DOMAIN fetched'[h] : NewEnough(fetched[h][g], g)'
      BY <2>2 DEF NewEnough, IsGroup, Current, Moves
    <2>4. \A o \in Handlers : pc'[o] \in {"clear", "fill", "fillRow"} => o = h
      BY <1>3 DEF Inside
    <2>5. FetchInv'
      BY <2>2, <2>3, <2>4 DEF FetchInv
    <2> QED BY <2>1, <2>5
  <1>9. MirrorInv'
    BY DEF All, MirrorInv, Moves
  <1> QED BY <1>6, <1>7, <1>8, <1>9 DEF All

(* The table is emptied before it is filled. *)
LEMMA ClearKeeps ==
    ASSUME All, NEW h \in Handlers, At(h, "clear", "fill"),
           row' = [g \in Groups |-> Null], todo' = [todo EXCEPT ![h] = DOMAIN fetched[h]],
           UNCHANGED <<setting, top, lock, kind, event, about, copy, fetched>>
    PROVE  All'
  <1>1. /\ pc[h] = "clear" /\ pc' = [pc EXCEPT ![h] = "fill"]
        /\ UNCHANGED <<history, timer, member>>
    BY DEF At, serverVars
  <1>2. \A o \in Handlers : pc[o] \in Inside => o = h
    BY <1>1, Alone DEF Inside
  <1>3. TypeInv'
    BY <1>1 DEF All, TypeInv, States, FetchInv
  <1>4. LockInv' /\ EventInv' /\ VersionInv'
    BY <1>1 DEF All, TypeInv, LockInv, EventInv, VersionInv, Inside, Current
  <1>5. CopyInv'
    BY <1>1, <1>2 DEF All, TypeInv, CopyInv, Inside
  <1>6. FetchInv'
    BY <1>1, <1>2 DEF All, TypeInv, FetchInv, Inside, NewEnough, IsGroup, Current
  <1>7. MirrorInv'
    BY <1>1, <1>2 DEF All, TypeInv, MirrorInv, Inside, FetchInv
  <1> QED BY <1>3, <1>4, <1>5, <1>6, <1>7 DEF All

(* A group of the refresh: its setting, *)
LEMMA FillSettingKeeps == ASSUME All, NEW h \in Handlers, FillSetting(h) PROVE All'
  <1>1. PICK g \in todo[h] :
           /\ pc[h] = "fill" /\ pc' = [pc EXCEPT ![h] = "fillRow"]
           /\ about' = [about EXCEPT ![h] = g] /\ todo' = [todo EXCEPT ![h] = todo[h] \ {g}]
           /\ \/ setting' = [setting EXCEPT ![g] = fetched[h][g].timer]
              \/ DbFails /\ setting' = setting
           /\ UNCHANGED <<history, timer, member, row, top, lock, kind, event, copy, fetched>>
    BY DEF FillSetting, At, PutSetting, serverVars
  <1>2. /\ g \in Groups /\ g \in DOMAIN fetched[h] /\ fetched[h][g].timer \in Timers
    BY <1>1 DEF All, FetchInv, NewEnough, IsGroup
  <1>3. \A o \in Handlers : pc[o] \in Inside => o = h
    BY <1>1, Alone DEF Inside
  <1>4. TypeInv'
    BY <1>1, <1>2 DEF All, TypeInv, States
  <1>5. LockInv' /\ EventInv' /\ VersionInv'
    BY <1>1 DEF All, TypeInv, LockInv, EventInv, VersionInv, Inside, Current, IsGroup
  <1>6. CopyInv'
    BY <1>1, <1>3 DEF All, TypeInv, CopyInv, Inside
  <1>7. FetchInv'
    BY <1>1, <1>2, <1>3 DEF All, TypeInv, FetchInv, Inside, NewEnough, IsGroup, Current
  <1>8. MirrorInv'
    <2> SUFFICES ASSUME ~DbFails PROVE MirrorInv'
      BY <1>1 DEF MirrorInv
    <2>1. /\ setting'[g] = fetched[h][g].timer
          /\ \A o \in Groups : o # g => setting'[o] = setting[o]
          /\ about'[h] = g /\ pc'[h] = "fillRow" /\ todo'[h] \subseteq todo[h]
      BY <1>1, <1>2 DEF All, TypeInv
    <2>2. \A o \in todo[h] : row[o] = Null
      BY <1>1 DEF All, MirrorInv
    <2>3. \A o \in Handlers : pc[o] # "row" /\ (pc'[o] \in Inside => o = h)
      BY <1>1, <1>3 DEF All, TypeInv, Inside
    <2>4. \A o \in Groups : row[o] # Null => setting'[o] = row[o].timer
      BY <1>1, <2>1, <2>2, <2>3 DEF All, MirrorInv
    <2> QED BY <1>1, <2>1, <2>2, <2>3, <2>4 DEF MirrorInv, Inside
  <1> QED BY <1>4, <1>5, <1>6, <1>7, <1>8 DEF All

(* and its row. *)
LEMMA FillRowKeeps == ASSUME All, NEW h \in Handlers, FillRow(h) PROVE All'
  <1> DEFINE g == about[h]
             new == fetched[h][g]
  <1>1. /\ pc[h] = "fillRow" /\ pc' = [pc EXCEPT ![h] = "fill"]
        /\ PutRow(g, new) \/ (DbFails /\ UNCHANGED <<row, top>>)
        /\ UNCHANGED <<history, timer, member, setting, lock, kind, event, about, copy,
                       fetched, todo>>
    BY DEF FillRow, At, serverVars
  <1>2. /\ g \in Groups /\ NewEnough(new, g) /\ g \notin todo[h]
    BY <1>1 DEF All, FetchInv
  <1>3. \A o \in Handlers : pc[o] \in Inside => o = h
    BY <1>1, Alone DEF Inside
  <1>4. CASE PutRow(g, new)
    <2>1. /\ top' \in [Groups -> Nat] /\ top'[g] = new.version
          /\ row' = [row EXCEPT ![g] = new] /\ row' = [o \in Groups |-> row'[o]]
          /\ \A o \in Groups : o # g => top'[o] = top[o] /\ row'[o] = row[o]
          /\ VersionInv'
      BY <1>1, <1>2, <1>4, PutKeepsVersions
    <2>2. TypeInv'
      BY <1>1, <2>1 DEF All, TypeInv, States
    <2>3. LockInv' /\ EventInv'
      BY <1>1 DEF All, TypeInv, LockInv, EventInv, Inside, Current
    <2>4. CopyInv'
      BY <1>1, <1>3 DEF All, TypeInv, CopyInv, Inside
    <2>5. \A o \in DOMAIN fetched[h] : NewEnough(fetched[h][o], o)'
      <3>1. \A o \in DOMAIN fetched[h] : o \in Groups /\ NewEnough(fetched[h][o], o)
        BY <1>1 DEF All, FetchInv
      <3>2. \A o \in Groups : top[o] \in Nat
        BY DEF All, TypeInv
      <3>3. ASSUME NEW o \in DOMAIN fetched[h]
            PROVE  top'[o] <= fetched[h][o].version
        <4>1. CASE o = g
          BY <1>2, <2>1, <4>1 DEF NewEnough, IsGroup
        <4>2. CASE o # g
          BY <2>1, <3>1, <4>2 DEF NewEnough
        <4> QED BY <4>1, <4>2
      <3> QED BY <1>1, <3>1, <3>3 DEF NewEnough, IsGroup, Current
    <2>6. FetchInv'
      BY <1>1, <1>3, <2>5 DEF All, TypeInv, FetchInv, Inside
    <2>7. MirrorInv'
      <3> SUFFICES ASSUME ~DbFails PROVE MirrorInv'
        BY DEF MirrorInv
      <3>1. /\ setting[g] = new.timer /\ row'[g] = new
            /\ \A o \in todo[h] : row'[o] = Null
        BY <1>1, <1>2, <2>1 DEF All, TypeInv, MirrorInv
      <3>2. /\ pc'[h] = "fill" /\ \A o \in Handlers : pc[o] # "row" /\ (pc'[o] \in Inside => o = h)
        BY <1>1, <1>3 DEF All, TypeInv, Inside
      <3>3. \A o \in Groups : row'[o] # Null => setting[o] = row'[o].timer
        BY <2>1, <3>1, <3>2 DEF All, MirrorInv
      <3> QED BY <1>1, <3>1, <3>2, <3>3 DEF MirrorInv, Inside
    <2> QED BY <2>1, <2>2, <2>3, <2>4, <2>6, <2>7 DEF All
  <1>5. CASE DbFails /\ UNCHANGED <<row, top>>
    <2>1. Moves(h, "fill") /\ "fill" \in States /\ UNCHANGED <<lock, copy, fetched, todo>>
      BY <1>1, <1>5 DEF Moves, States
    <2> USE <2>1, MovesFrame
    <2>2. TypeInv' /\ VersionInv'
      BY DEF All, TypeInv, Moves
    <2>3. LockInv' /\ EventInv'
      BY <1>1 DEF All, LockInv, EventInv, Inside, Moves, Current
    <2>4. CopyInv'
      BY <1>1 DEF All, CopyInv, Moves
    <2>5. FetchInv'
      BY <1>1 DEF All, FetchInv, Moves
    <2>6. MirrorInv'
      BY <1>5 DEF MirrorInv
    <2> QED BY <2>2, <2>3, <2>4, <2>5, <2>6 DEF All
  <1> QED BY <1>1, <1>4, <1>5

(* The refresh ends and the lock is free. *)
LEMMA EndKeeps == ASSUME All, NEW h \in Handlers, EndRefresh(h) PROVE All'
  <1>1. PICK next \in {"select", "done"} :
           /\ Moves(h, next) /\ pc[h] = "fill"
           /\ lock' = IF lock = h THEN Null ELSE lock
           /\ fetched' = [fetched EXCEPT ![h] = <<>>]
           /\ UNCHANGED <<copy, todo>>
    BY DEF EndRefresh, At, Unlock, Moves, serverVars, tableVars
  <1>2. next \in States
    BY DEF States
  <1>3. \A o \in Handlers : pc[o] \in Inside => o = h
    BY <1>1, Alone DEF Inside
  <1> USE <1>1, <1>2, MovesFrame
  <1>4. TypeInv' /\ VersionInv'
    BY DEF All, TypeInv, Moves
  <1>5. LockInv' /\ EventInv'
    BY <1>3 DEF All, LockInv, EventInv, Moves, Inside, Current
  <1>6. CopyInv' /\ FetchInv'
    BY <1>3 DEF All, CopyInv, FetchInv, Inside
  <1>7. MirrorInv'
    BY <1>3 DEF All, MirrorInv, Moves, Inside
  <1> QED BY <1>4, <1>5, <1>6, <1>7 DEF All

(* A handler that fails, or never had to write, leaves. *)
LEMMA RefreshFailsKeeps ==
    ASSUME All, NEW h \in Handlers, NEW statement \in {"fetch", "clear"},
           statement = "clear" => DbFails, RefreshFails(h, statement)
    PROVE  All'
  <1>1. CASE kind[h] = "update" /\ Retry(h, statement)
    BY <1>1, LeaveKeeps DEF Retry, At, AfterError, Unlock, Moves, serverVars, tableVars
  <1>2. CASE kind[h] # "update" /\ At(h, statement, AfterFailure(h)) /\ Unlock(h)
             /\ UNCHANGED <<tableVars, fresh, kind, event, about, copy, fetched, todo, tries>>
    BY <1>2, LeaveKeeps DEF At, AfterFailure, Unlock, Moves, serverVars, tableVars
  <1> QED BY <1>1, <1>2 DEF RefreshFails

(* A handler whose statement failed, or that has selected the rows, leaves. *)
LEMMA LeavingKeeps ==
    ASSUME All, NEW h \in Handlers, ReadFails(h) \/ UpsertFails(h) \/ SelectGroups(h)
    PROVE  All'
  <1>1. CASE ReadFails(h)
    BY <1>1, LeaveKeeps
       DEF ReadFails, Retry, At, AfterError, Unlock, Moves, serverVars, tableVars, All, LockInv
  <1>2. CASE UpsertFails(h)
    <2>1. pc[h] = "row"
      BY <1>2 DEF UpsertFails, Retry, At
    <2>2. kind[h] = "update" /\ DbFails /\ kind[h] # "joined"
      BY <1>2, <2>1 DEF UpsertFails, All, LockInv
    <2> QED BY <1>2, <2>1, <2>2, LeaveKeeps
            DEF UpsertFails, Retry, At, AfterError, Unlock, Moves, serverVars, tableVars
  <1>3. CASE SelectGroups(h)
    BY <1>3, LeaveKeeps DEF SelectGroups, At, Moves, serverVars, tableVars, All, LockInv
  <1> QED BY <1>1, <1>2, <1>3

(* The lock is waited for, or a list need not refresh. *)
LEMMA LockingKeeps == ASSUME All, NEW h \in Handlers, Locking(h) PROVE All'
  <1>1. CASE UpdateGroup(h)
    BY <1>1, AcquireKeeps DEF UpdateGroup
  <1>2. CASE FetchGroups(h)
    BY <1>2, AcquireKeeps DEF FetchGroups
  <1>3. CASE ~fresh /\ Acquire(h, "list", "fetch")
    BY <1>3, AcquireKeeps
  <1>4. CASE /\ lock = Null /\ At(h, "list", "select")
             /\ UNCHANGED <<tableVars, fresh, lock, kind, event, about, copy, fetched, todo, tries>>
    BY <1>4, LeaveKeeps DEF At, Moves, serverVars, tableVars
  <1> QED BY <1>1, <1>2, <1>3, <1>4 DEF Locking, fetchGroupsIfNeeded

(* Every statement of a handler keeps the invariant. *)
LEMMA StatementKeeps == ASSUME All, NEW h \in Handlers, Statement(h) PROVE All'
  <1>1. CASE GetJoinedGroups(h)
    BY <1>1, FetchKeeps, RefreshFailsKeeps DEF GetJoinedGroups
  <1>2. CASE DeleteGroups(h)
    BY <1>2, ClearKeeps, RefreshFailsKeeps DEF DeleteGroups
  <1>3. CASE DeleteSetting(h) \/ DeleteRow(h)
    BY <1>3 DEF DeleteSetting, DeleteRow, At, All, TypeInv, States
  <1> QED BY <1>1, <1>2, <1>3, ReadKeeps, SettingKeeps, UpsertKeeps, LeavingKeeps,
             FillSettingKeeps, FillRowKeeps, EndKeeps DEF Statement

(* Every step keeps the invariant. *)
LEMMA InvNext == Inv /\ [Next]_vars => Inv'
  <1> SUFFICES ASSUME All, MembershipStable, [Next]_vars PROVE All'
    BY DEF Inv
  <1>1. ASSUME NEW g \in Groups, ILeave(g) \/ IJoin(g) PROVE All'
    BY <1>1 DEF ILeave, IJoin
  <1>2. ASSUME NEW h \in Handlers, Request(h, "list") \/ Request(h, "force") PROVE All'
    <2>1. /\ history' \in [Groups -> Seq(RankFunctions)] /\ timer' \in [Groups -> Timers]
          /\ \A o \in Groups : Current(o) <= Current(o)'
          /\ member' = member
      BY <1>2 DEF Request, serverVars, All, TypeInv, Current
    <2> QED BY <1>2, <2>1, DispatchKeeps DEF Request
  <1>3. CASE Expire \/ UNCHANGED vars
    <2>1. UNCHANGED <<serverVars, tableVars, lock, handlerVars>>
      BY <1>3 DEF Expire, vars
    <2>2. /\ history' \in [Groups -> Seq(RankFunctions)] /\ timer' \in [Groups -> Timers]
          /\ \A o \in Groups : Current(o) <= Current(o)'
          /\ member' = member
      BY <2>1 DEF serverVars, All, TypeInv, Current
    <2> QED BY <2>1, <2>2, ServerKeeps
  <1> QED BY <1>1, <1>2, <1>3, ParticipantsKeep, TimerKeeps, LockingKeeps, StatementKeeps
          DEF Next

(* The inductive invariant of the cache. *)
THEOREM Invariance == Spec => []Inv
  <1> QED BY InvInit, InvNext, PTL DEF Spec

(* While I stay in my groups no row ever goes back to an earlier version. *)
THEOREM RowsOnlyAdvance == Spec => []NeverRollsBack
  <1>1. Inv => NeverRollsBack
    BY DEF Inv, All, VersionInv, NeverRollsBack
  <1> QED BY <1>1, Invariance, PTL

(* The settings table tells the timers of the rows whenever the lock is free,
   although each is written by a statement of its own.                     *)
THEOREM SettingsFollow == Spec => []SettingMirrorsRow
  <1>1. Inv => SettingMirrorsRow
    <2> SUFFICES ASSUME All, ~DbFails, lock = Null, NEW g \in Groups, row[g] # Null
                 PROVE  setting[g] = row[g].timer
      BY DEF Inv, SettingMirrorsRow
    <2>1. \A h \in Handlers : pc[h] # "row"
      BY ScopeAssumption DEF All, LockInv, Inside
    <2> QED BY <2>1 DEF All, MirrorInv
  <1> QED BY <1>1, Invariance, PTL

-----------------------------------------------------------------------------
(* A table that is fresh has a row for every group, or somebody fills it.  *)
Filling == {"fill", "fillRow"}

Whole == \A g \in Groups : row[g] # Null

Filled == Whole \/ \E o \in Handlers : pc[o] \in Filling

Complete(h) ==
    /\ pc[h] \in {"clear", "fill", "fillRow"} => DOMAIN fetched[h] = Groups
    /\ pc[h] = "fill" => \A g \in Groups \ todo[h] : row[g] # Null
    /\ pc[h] = "fillRow" => \A g \in Groups \ (todo[h] \cup {about[h]}) : row[g] # Null
    /\ pc[h] = "select" => Filled

Completed == member = Groups /\ (fresh => Filled) /\ \A h \in Handlers : Complete(h)

CompleteInv == MembershipStable /\ ~DbFails => Completed

(* A step that deletes no row and neither starts nor ends filling the table. *)
LEMMA OthersComplete ==
    ASSUME Stored, Completed, NEW h, StepOf(h), member' = member,
           \A g \in Groups : row[g] # Null => row'[g] # Null,
           fresh' => fresh,
           h \in Handlers => /\ pc[h] \notin Filling
                             /\ pc'[h] \notin {"clear", "fill", "fillRow"}
                             /\ pc'[h] = "select" => fresh
    PROVE  Completed'
  <1>1. Filled => Filled'
    <2>1. CASE Whole
      BY <2>1 DEF Filled, Whole
    <2>2. ASSUME NEW o \in Handlers, pc[o] \in Filling PROVE Filled'
      <3>1. o # h
        BY <2>2
      <3>2. pc'[o] \in Filling
        BY <2>2, <3>1 DEF StepOf
      <3> QED BY <3>2 DEF Filled
    <2> QED BY <2>1, <2>2 DEF Filled
  <1>2. ASSUME NEW o \in Handlers PROVE Complete(o)'
    <2>1. Complete(o)
      BY DEF Completed
    <2>2. CASE o = h
      BY <1>1, <2>2 DEF Complete, Completed, Filling
    <2>3. CASE o # h
      BY <1>1, <2>1, <2>3 DEF Complete, StepOf
    <2> QED BY <2>2, <2>3
  <1> QED BY <1>1, <1>2 DEF Completed

(* WhatsApp's changes and the starting of a goroutine. *)
LEMMA StartsComplete ==
    ASSUME Stored, Stored', Completed, UNCHANGED <<tableVars, fresh, member>>,
           \/ Missed \/ UNCHANGED handlerVars
           \/ \E h \in Handlers, s \in {"update", "list", "force"} :
                 \E k, g, e, c : Dispatch(h, k, g, e, s, c)
    PROVE  Completed'
  <1>1. row' = row
    BY DEF tableVars
  <1>2. CASE Missed \/ UNCHANGED handlerVars
    <2>1. StepOf(Null)
      BY <1>2 DEF Missed, handlerVars, StepOf, Stored, FunctionInv
    <2> QED BY <1>1, <2>1, ScopeAssumption, OthersComplete
  <1>3. ASSUME NEW h \in Handlers, NEW k, NEW g, NEW e, NEW s \in {"update", "list", "force"},
               NEW c, Dispatch(h, k, g, e, s, c)
        PROVE  Completed'
    <2>1. /\ pc[h] = "new" /\ pc' = [pc EXCEPT ![h] = s] /\ kind' = [kind EXCEPT ![h] = k]
          /\ event' = [event EXCEPT ![h] = e] /\ about' = [about EXCEPT ![h] = g]
          /\ copy' = [copy EXCEPT ![h] = c] /\ UNCHANGED <<fetched, todo, tries>>
      BY <1>3 DEF Dispatch
    <2>2. StepOf(h) /\ pc'[h] = s
      BY <2>1 DEF Stored, FunctionInv, StepOf
    <2> QED BY <1>1, <2>1, <2>2, OthersComplete DEF Filling
  <1> QED BY <1>2, <1>3

(* The statements that do not refresh. *)
LEMMA UpdatesComplete ==
    ASSUME Stored, All, Completed, ~DbFails, NEW h \in Handlers,
           \/ Locking(h) \/ ReadGroup(h) \/ ReadFails(h) \/ UpsertSetting(h)
           \/ UpsertGroup(h) \/ UpsertFails(h) \/ RefreshFails(h, "fetch") \/ SelectGroups(h)
    PROVE  Completed'
  <1>1. ASSUME NEW next \in Statements \ {"clear", "fill", "fillRow"}, pc[h] \notin Filling,
               pc' = [pc EXCEPT ![h] = next], next = "select" => fresh,
               UNCHANGED <<serverVars, fresh, kind, event, about, fetched, todo>>,
               copy' = [o \in Handlers |-> copy'[o]], \A o \in Handlers : o # h => copy'[o] = copy[o],
               tries' = [o \in Handlers |-> tries'[o]],
               \A o \in Handlers : o # h => tries'[o] = tries[o],
               \A g \in Groups : row[g] # Null => row'[g] # Null
        PROVE  Completed'
    <2>1. StepOf(h) /\ pc'[h] = next
      BY <1>1 DEF Stored, FunctionInv, StepOf
    <2> QED BY <1>1, <2>1, OthersComplete DEF serverVars
  <1>2. /\ copy = [o \in Handlers |-> copy[o]] /\ tries = [o \in Handlers |-> tries[o]]
    BY DEF Stored, FunctionInv
  <1>3. ASSUME NEW statement, Retry(h, statement), statement \notin Filling PROVE Completed'
    <2>1. /\ pc[h] = statement /\ pc' = [pc EXCEPT ![h] = AfterError(h)]
          /\ tries' = [tries EXCEPT ![h] = tries[h] + 1] /\ copy' = [copy EXCEPT ![h] = Null]
          /\ UNCHANGED <<serverVars, row, fresh, kind, event, about, fetched, todo>>
      BY <1>3 DEF Retry, At, tableVars
    <2>2. AfterError(h) \in {"update", "gaveUp"}
      BY DEF AfterError
    <2> QED BY <1>1, <1>2, <1>3, <2>1, <2>2 DEF Statements
  <1>4. ASSUME NEW statement \in {"update", "list", "force"}, NEW next \in {"read", "fetch"},
               Acquire(h, statement, next)
        PROVE  Completed'
    BY <1>1, <1>2, <1>4 DEF Acquire, At, tableVars, Statements, Filling
  <1>5. CASE Locking(h)
    <2>1. CASE /\ fresh /\ lock = Null /\ At(h, "list", "select")
               /\ UNCHANGED <<tableVars, fresh, lock, kind, event, about, copy, fetched, todo, tries>>
      BY <1>1, <1>2, <2>1 DEF At, tableVars, Statements, Filling
    <2> QED BY <1>4, <1>5, <2>1 DEF Locking, UpdateGroup, FetchGroups, fetchGroupsIfNeeded
  <1>6. CASE ReadGroup(h)
    <2>1. FirstWrite(event[h]) \in {"row", "setting"}
      BY DEF FirstWrite
    <2> QED BY <1>1, <1>2, <1>6, <2>1 DEF ReadGroup, At, tableVars, Statements, Filling
  <1>7. CASE ReadFails(h)
    BY <1>3, <1>7 DEF ReadFails, Filling
  <1>8. CASE UpsertSetting(h)
    <2>1. PICK next \in Statements \ {"clear", "fill", "fillRow"} : next = "row"
      BY DEF Statements
    <2>2. /\ pc[h] = "setting" /\ pc' = [pc EXCEPT ![h] = next] /\ row' = row
          /\ UNCHANGED <<serverVars, fresh, kind, event, about, copy, fetched, todo, tries>>
      BY <1>8, <2>1 DEF UpsertSetting, At
    <2> QED BY <1>1, <1>2, <2>1, <2>2 DEF Filling
  <1>9. CASE UpsertGroup(h)
    <2>1. /\ pc[h] = "row" /\ pc' = [pc EXCEPT ![h] = "done"]
          /\ row' = [row EXCEPT ![about[h]] = copy[h]]
          /\ UNCHANGED <<serverVars, fresh, kind, event, about, copy, fetched, todo, tries>>
      BY <1>9 DEF UpsertGroup, At, PutRow
    <2>4. PICK next \in Statements \ {"clear", "fill", "fillRow"} : next = "done"
      BY DEF Statements
    <2>2. copy[h] # Null
      BY <2>1, ScopeAssumption DEF Stored, HandlerInv, Faithful
    <2>3. \A g \in Groups : row[g] # Null => row'[g] # Null
      BY <2>1, <2>2 DEF Stored, TableInv
    <2> QED BY <1>1, <1>2, <2>1, <2>3, <2>4 DEF Filling
  <1>10. CASE RefreshFails(h, "fetch")
    <2>1. CASE Retry(h, "fetch")
      BY <1>3, <2>1 DEF Filling
    <2>2. CASE /\ At(h, "fetch", "done")
               /\ UNCHANGED <<tableVars, fresh, kind, event, about, copy, fetched, todo, tries>>
      <3>1. PICK next \in Statements \ {"clear", "fill", "fillRow"} : next = "done"
        BY DEF Statements
      <3>2. /\ pc[h] = "fetch" /\ pc' = [pc EXCEPT ![h] = next] /\ row' = row
            /\ UNCHANGED <<serverVars, fresh, kind, event, about, copy, fetched, todo, tries>>
        BY <2>2, <3>1 DEF At, tableVars
      <3> QED BY <1>1, <1>2, <3>1, <3>2 DEF Filling
    <2> QED BY <1>10, <2>1, <2>2 DEF RefreshFails, AfterFailure
  <1>11. CASE SelectGroups(h)
    <2>1. PICK next \in Statements \ {"clear", "fill", "fillRow"} : next = "done"
      BY DEF Statements
    <2>2. /\ pc[h] = "select" /\ pc' = [pc EXCEPT ![h] = next] /\ row' = row
          /\ UNCHANGED <<serverVars, fresh, kind, event, about, copy, fetched, todo, tries>>
      BY <1>11, <2>1 DEF SelectGroups, At, tableVars
    <2> QED BY <1>1, <1>2, <2>1, <2>2 DEF Filling
  <1> QED BY <1>5, <1>6, <1>7, <1>8, <1>9, <1>10, <1>11 DEF UpsertFails

(* A refresh: while it fills the table it is the only one to. *)
LEMMA RefreshComplete ==
    ASSUME Stored, All, Completed, ~DbFails, NEW h \in Handlers,
           GetJoinedGroups(h) \/ DeleteGroups(h) \/ FillSetting(h) \/ FillRow(h) \/ EndRefresh(h)
    PROVE  Completed'
  <1> USE DEF Filling
  <1>1. HandlerInv(h) /\ Complete(h) /\ member = Groups
    BY DEF Stored, Completed
  <1>2. ASSUME pc[h] \in Inside, StepOf(h), member' = member, Complete(h)', fresh' => Filled',
               Filled \/ pc'[h] \in Filling => Filled'
        PROVE  Completed'
    <2>1. ASSUME NEW o \in Handlers, o # h PROVE Complete(o)'
      <3>1. Complete(o) /\ pc'[o] = pc[o]
        BY <1>2, <2>1 DEF Completed, StepOf
      <3>2. pc[o] \notin {"clear", "fill", "fillRow"}
        BY <1>2, <2>1, Alone DEF Inside
      <3> QED BY <1>2, <3>1, <3>2 DEF Complete
    <2> QED BY <1>1, <1>2, <2>1 DEF Completed
  <1>3. CASE GetJoinedGroups(h)
    <2> SUFFICES ASSUME At(h, "fetch", "clear"),
                        fetched' = [fetched EXCEPT ![h] = [g \in member |-> Snapshot(g)]],
                        UNCHANGED <<tableVars, fresh, lock, kind, event, about, copy, todo, tries>>
                 PROVE  Completed'
      BY <1>3, UpdatesComplete DEF GetJoinedGroups
    <2>1. /\ pc[h] = "fetch" /\ pc' = [pc EXCEPT ![h] = "clear"] /\ row' = row /\ member' = member
      BY DEF At, serverVars, tableVars
    <2>2. StepOf(h) /\ pc'[h] = "clear" /\ DOMAIN fetched'[h] = Groups
      BY <1>1, <2>1 DEF Stored, FunctionInv, StepOf
    <2>3. Filled => Filled'
      <3>1. \A o \in Handlers : pc[o] \in Filling => o # h /\ pc'[o] \in Filling
        BY <2>1, <2>2 DEF StepOf
      <3> QED BY <2>1, <3>1 DEF Filled, Whole
    <2> QED BY <1>2, <2>1, <2>2, <2>3 DEF Complete, Completed, Inside
  <1>4. CASE DeleteGroups(h)
    <2>1. /\ pc[h] = "clear" /\ pc' = [pc EXCEPT ![h] = "fill"] /\ member' = member
          /\ todo' = [todo EXCEPT ![h] = DOMAIN fetched[h]]
          /\ UNCHANGED <<fresh, kind, event, about, copy, fetched, tries>>
      BY <1>4 DEF DeleteGroups, At, serverVars
    <2>2. StepOf(h) /\ pc'[h] = "fill" /\ todo'[h] = Groups /\ fetched'[h] = fetched[h]
      BY <1>1, <2>1 DEF Stored, FunctionInv, StepOf, Complete
    <2>3. Filled'
      BY <2>2 DEF Filled
    <2> QED BY <1>1, <1>2, <2>1, <2>2, <2>3 DEF Complete, Inside
  <1>5. CASE FillSetting(h)
    <2>1. PICK g \in todo[h] :
             /\ pc[h] = "fill" /\ pc' = [pc EXCEPT ![h] = "fillRow"] /\ member' = member
             /\ about' = [about EXCEPT ![h] = g] /\ todo' = [todo EXCEPT ![h] = todo[h] \ {g}]
             /\ UNCHANGED <<row, fresh, kind, event, copy, fetched, tries>>
      BY <1>5 DEF FillSetting, At, serverVars
    <2>2. /\ StepOf(h) /\ pc'[h] = "fillRow" /\ todo'[h] = todo[h] \ {g} /\ about'[h] = g
          /\ fetched'[h] = fetched[h]
      BY <2>1 DEF Stored, FunctionInv, StepOf
    <2>3. Filled'
      BY <2>2 DEF Filled
    <2> QED BY <1>1, <1>2, <2>1, <2>2, <2>3 DEF Complete, Inside
  <1>6. CASE FillRow(h)
    <2>1. /\ pc[h] = "fillRow" /\ pc' = [pc EXCEPT ![h] = "fill"] /\ member' = member
          /\ row' = [row EXCEPT ![about[h]] = fetched[h][about[h]]]
          /\ UNCHANGED <<fresh, kind, event, about, copy, fetched, todo, tries>>
      BY <1>6 DEF FillRow, At, PutRow, serverVars
    <2>2. /\ StepOf(h) /\ pc'[h] = "fill" /\ todo'[h] = todo[h] /\ fetched'[h] = fetched[h]
      BY <2>1 DEF Stored, FunctionInv, StepOf
    <2>3. Filled'
      BY <2>2 DEF Filled
    <2>4. about[h] \in Groups /\ fetched[h][about[h]] # Null
      BY <1>1, <2>1, ScopeAssumption DEF HandlerInv, Faithful
    <2>5. \A g \in Groups \ todo[h] : row'[g] # Null
      BY <1>1, <2>1, <2>4 DEF Complete, Stored, TableInv
    <2> QED BY <1>1, <1>2, <2>1, <2>2, <2>3, <2>5 DEF Complete, Inside
  <1>7. CASE EndRefresh(h)
    <2>1. PICK next \in {"select", "done"} :
             /\ pc[h] = "fill" /\ pc' = [pc EXCEPT ![h] = next] /\ member' = member
             /\ todo[h] = {} /\ row' = row /\ fetched' = [fetched EXCEPT ![h] = <<>>]
             /\ UNCHANGED <<kind, event, about, copy, todo, tries>>
      BY <1>7 DEF EndRefresh, At, serverVars, tableVars
    <2>2. StepOf(h) /\ pc'[h] = next
      BY <2>1 DEF Stored, FunctionInv, StepOf
    <2>3. Filled'
      BY <1>1, <2>1 DEF Complete, Filled, Whole
    <2> QED BY <1>2, <2>1, <2>2, <2>3 DEF Complete, Inside
  <1> QED BY <1>3, <1>4, <1>5, <1>6, <1>7

(* Every step. *)
LEMMA CompleteNext == Inv /\ Stored /\ Stored' /\ CompleteInv /\ [Next]_vars => CompleteInv'
  <1> SUFFICES ASSUME All, Stored, Stored', Completed, MembershipStable, ~DbFails, [Next]_vars
               PROVE  Completed'
    BY DEF Inv, CompleteInv
  <1>1. ASSUME NEW g \in Groups, ILeave(g) \/ IJoin(g) PROVE Completed'
    BY <1>1 DEF ILeave, IJoin
  <1>2. ASSUME NEW g \in Groups, NEW u, Announce(g, u), member' = member PROVE Completed'
    <2>1. UNCHANGED <<tableVars, fresh, member>>
      BY <1>2 DEF Announce, Dispatch, Missed
    <2>2. Missed \/ \E h \in Handlers : Dispatch(h, "update", g, u, "update", Null)
      BY <1>2 DEF Announce
    <2>3. ASSUME NEW h \in Handlers, Dispatch(h, "update", g, u, "update", Null) PROVE Completed'
      <3>1. \E o \in Handlers, s \in {"update", "list", "force"} :
                \E k, i, e, c : Dispatch(o, k, i, e, s, c)
        BY <2>3
      <3> QED BY <2>1, <3>1, StartsComplete
    <2> QED BY <2>1, <2>2, <2>3, StartsComplete
  <1>3. ASSUME NEW g \in Groups, NEW j \in Jids, ParticipantChanges(g, j) PROVE Completed'
    BY <1>2, <1>3 DEF ParticipantChanges
  <1>4. ASSUME NEW g \in Groups, NEW t \in Timers, TimerChanges(g, t) PROVE Completed'
    BY <1>2, <1>4 DEF TimerChanges
  <1>5. ASSUME NEW h \in Handlers, Request(h, "list") \/ Request(h, "force") PROVE Completed'
    <2>1. UNCHANGED <<tableVars, fresh, member>>
      BY <1>5 DEF Request, Dispatch, serverVars
    <2>2. \E o \in Handlers, s \in {"update", "list", "force"} :
              \E k, i, e, c : Dispatch(o, k, i, e, s, c)
      <3>1. CASE Request(h, "list")
        BY <3>1 DEF Request
      <3>2. CASE Request(h, "force")
        BY <3>2 DEF Request
      <3> QED BY <1>5, <3>1, <3>2
    <2> QED BY <2>1, <2>2, StartsComplete
  <1>6. CASE Expire
    <2>1. /\ StepOf(Null) /\ UNCHANGED <<row, member>> /\ ~fresh'
      BY <1>6 DEF Expire, handlerVars, serverVars, tableVars, StepOf, Stored, FunctionInv
    <2> QED BY <2>1, ScopeAssumption, OthersComplete
  <1>7. CASE UNCHANGED vars
    BY <1>7, StartsComplete DEF vars, serverVars
  <1>8. ASSUME NEW h \in Handlers, DeleteSetting(h) \/ DeleteRow(h) PROVE Completed'
    BY <1>8 DEF DeleteSetting, DeleteRow, At, All, TypeInv, States
  <1>9. ASSUME NEW h \in Handlers, Statement(h) PROVE Completed'
    BY <1>8, <1>9, UpdatesComplete, RefreshComplete DEF Statement
  <1>10. ASSUME NEW h \in Handlers, Locking(h) PROVE Completed'
    BY <1>10, UpdatesComplete
  <1> QED BY <1>1, <1>3, <1>4, <1>5, <1>6, <1>7, <1>9, <1>10 DEF Next

(* While I stay in my groups and the table can be written, a client that lists
   its groups gets all of them, unless somebody refreshes the table meanwhile. *)
THEOREM ListsAreWhole == Spec => []ListIsWhole
  <1>1. Init => CompleteInv
    BY DEF Init, CompleteInv, Completed, Complete
  <1>2. Spec => []CompleteInv
    BY <1>1, CompleteNext, Invariance, StoredInvariance, PTL DEF Spec
  <1>3. CompleteInv => ListIsWhole
    BY DEF CompleteInv, Completed, Complete, Filled, Whole, Filling, ListIsWhole
  <1> QED BY <1>2, <1>3, PTL

-----------------------------------------------------------------------------
(* Every version of a group has reached its row, or a handler that was told of
   it is at work or gave up, or a refresh that has it will write it.       *)
WaitsFor(h, g, v) ==
    /\ kind[h] = "update" /\ about[h] = g /\ event[h].version = v
    /\ pc[h] \in {"update", "read", "setting", "row", "fetch", "gaveUp"}

Brings(h, g, v) ==
    /\ \/ pc[h] = "clear"
       \/ pc[h] \in Filling /\ g \in todo[h]
       \/ pc[h] = "fillRow" /\ about[h] = g
    /\ fetched[h][g].version >= v

Covered(g, v) == v <= top[g] \/ \E h \in Handlers : WaitsFor(h, g, v) \/ Brings(h, g, v)

\* A copy has the version of the update it was made by; one without has none.
Dated(h) ==
    kind[h] = "update" /\ pc[h] \in {"update", "read", "setting", "row", "fetch"} =>
        /\ TouchesParticipants(event[h]) \/ event[h].version = 0
        /\ pc[h] \in {"setting", "row"} /\ TouchesParticipants(event[h]) =>
               copy[h].version = event[h].version

Reached ==
    /\ \A g \in Groups : \A v \in 2..Current(g) : Covered(g, v)
    /\ \A h \in Handlers : Dated(h)

ReachInv == MembershipStable /\ NothingMissed /\ ~DbFails => Reached

(* Nothing is lost but by the handler that makes the step. *)
LEMMA OthersReach ==
    ASSUME Stored, Reached, NEW h, StepOf(h), UNCHANGED serverVars,
           \A g \in Groups : top'[g] >= top[g] /\ top[g] \in Nat /\ top'[g] \in Nat,
           h \in Handlers =>
               /\ Dated(h)'
               /\ \A g \in Groups : \A v \in 2..Current(g) :
                     WaitsFor(h, g, v) \/ Brings(h, g, v) => Covered(g, v)'
    PROVE  Reached'
  <1>1. ASSUME NEW g \in Groups, NEW v \in 2..Current(g) PROVE Covered(g, v)'
    <2>1. Covered(g, v)
      BY DEF Reached
    <2>2. CASE v <= top[g]
      BY <2>2 DEF Covered
    <2>3. ASSUME NEW o \in Handlers, WaitsFor(o, g, v) \/ Brings(o, g, v) PROVE Covered(g, v)'
      <3>1. CASE o = h
        BY <2>3, <3>1
      <3>2. CASE o # h
        <4>1. WaitsFor(o, g, v)' \/ Brings(o, g, v)'
          BY <2>3, <3>2 DEF StepOf, WaitsFor, Brings
        <4> QED BY <4>1 DEF Covered
      <3> QED BY <3>1, <3>2
    <2> QED BY <2>1, <2>2, <2>3 DEF Covered
  <1>2. ASSUME NEW o \in Handlers PROVE Dated(o)'
    BY DEF Reached, StepOf, Dated
  <1>3. \A g : Current(g)' = Current(g)
    BY SameServer
  <1> QED BY <1>1, <1>2, <1>3 DEF Reached

(* A goroutine starts, and nothing is lost. *)
LEMMA StartsReach ==
    ASSUME Stored, Stored', Reached, NEW h \in Handlers, NEW k, NEW g, NEW e,
           NEW s \in {"update", "list", "force"}, NEW c,
           Dispatch(h, k, g, e, s, c),
           k = "update" => TouchesParticipants(e) \/ e.version = 0,
           \A o \in Groups : \A v \in 2..Current(o)' :
               v \in 2..Current(o) \/ (k = "update" /\ s = "update" /\ o = g /\ v = e.version)
    PROVE  Reached'
  <1>1. /\ pc[h] = "new" /\ pc' = [pc EXCEPT ![h] = s] /\ kind' = [kind EXCEPT ![h] = k]
        /\ event' = [event EXCEPT ![h] = e] /\ about' = [about EXCEPT ![h] = g]
        /\ copy' = [copy EXCEPT ![h] = c]
        /\ UNCHANGED <<row, setting, top, fetched, todo, tries>>
    BY DEF Dispatch, tableVars
  <1>2. /\ StepOf(h) /\ pc'[h] = s /\ kind'[h] = k /\ event'[h] = e /\ about'[h] = g
    BY <1>1 DEF Stored, FunctionInv, StepOf
  <1>3. ASSUME NEW o \in Groups, NEW v \in 2..Current(o), Covered(o, v) PROVE Covered(o, v)'
    <2>1. ASSUME NEW i \in Handlers, WaitsFor(i, o, v) \/ Brings(i, o, v) PROVE Covered(o, v)'
      <3>1. i # h
        BY <1>1, <2>1 DEF WaitsFor, Brings, Filling
      <3>2. WaitsFor(i, o, v)' \/ Brings(i, o, v)'
        BY <1>2, <2>1, <3>1 DEF StepOf, WaitsFor, Brings
      <3> QED BY <3>2 DEF Covered
    <2>2. CASE v <= top[o]
      BY <1>1, <2>2 DEF Covered
    <2> QED BY <1>3, <2>1, <2>2 DEF Covered
  <1>4. ASSUME k = "update", s = "update", NEW v, v = e.version PROVE Covered(g, v)'
    <2>1. WaitsFor(h, g, v)'
      BY <1>2, <1>4 DEF WaitsFor
    <2> QED BY <2>1 DEF Covered
  <1>5. ASSUME NEW i \in Handlers PROVE Dated(i)'
    <2>1. CASE i = h
      BY <1>2, <2>1 DEF Dated
    <2>2. CASE i # h
      BY <1>2, <2>2 DEF Reached, Dated, StepOf
    <2> QED BY <2>1, <2>2
  <1>6. \A o \in Groups : \A v \in 2..Current(o) : Covered(o, v)
    BY DEF Reached
  <1>7. ASSUME NEW o \in Groups, NEW v \in 2..Current(o)' PROVE Covered(o, v)'
    BY <1>3, <1>4, <1>6
  <1> QED BY <1>5, <1>7 DEF Reached

(* The statements of an update: what it waits for is in its copy, then in its
   row.                                                                    *)
LEMMA UpdatesReach ==
    ASSUME Stored, All, Reached, ~DbFails, NEW h \in Handlers,
           \/ Locking(h) \/ ReadGroup(h) \/ ReadFails(h) \/ UpsertSetting(h)
           \/ UpsertGroup(h) \/ UpsertFails(h) \/ RefreshFails(h, "fetch") \/ SelectGroups(h)
    PROVE  Reached'
  <1> USE DEF Filling
  <1>1. Dated(h) /\ HandlerInv(h)
    BY DEF Reached, Stored
  <1>2. /\ copy = [o \in Handlers |-> copy[o]] /\ tries = [o \in Handlers |-> tries[o]]
        /\ pc = [o \in Handlers |-> pc[o]]
    BY DEF Stored, FunctionInv
  <1>3. ASSUME UNCHANGED <<serverVars, top, kind, event, about, fetched, todo>>,
               NEW next, pc' = [pc EXCEPT ![h] = next],
               copy' = [o \in Handlers |-> copy'[o]], \A o \in Handlers : o # h => copy'[o] = copy[o],
               tries' = [o \in Handlers |-> tries'[o]],
               \A o \in Handlers : o # h => tries'[o] = tries[o],
               pc[h] \notin {"clear", "fill", "fillRow"},
               \/ next \in {"update", "read", "setting", "row", "fetch", "gaveUp"}
               \/ kind[h] # "update" \/ pc[h] = "select",
               Dated(h)'
        PROVE  Reached'
    <2>1. StepOf(h) /\ pc'[h] = next
      BY <1>2, <1>3 DEF Stored, FunctionInv, StepOf
    <2>2. ASSUME NEW g \in Groups, NEW v \in 2..Current(g), WaitsFor(h, g, v) \/ Brings(h, g, v)
          PROVE  Covered(g, v)'
      <3>1. WaitsFor(h, g, v)'
        BY <1>3, <2>1, <2>2 DEF WaitsFor, Brings
      <3> QED BY <3>1 DEF Covered
    <2>3. \A g \in Groups : top'[g] >= top[g] /\ top[g] \in Nat /\ top'[g] \in Nat
      BY <1>3 DEF All, TypeInv
    <2> QED BY <1>3, <2>1, <2>2, <2>3, OthersReach
  <1>4. ASSUME NEW statement \in {"read", "fetch"}, Retry(h, statement), kind[h] = "update"
        PROVE  Reached'
    <2>1. PICK next \in {"update", "gaveUp"} :
             /\ pc[h] = statement /\ pc' = [pc EXCEPT ![h] = next]
             /\ tries' = [tries EXCEPT ![h] = tries[h] + 1] /\ copy' = [copy EXCEPT ![h] = Null]
             /\ UNCHANGED <<serverVars, top, kind, event, about, fetched, todo>>
      BY <1>4 DEF Retry, At, tableVars, AfterError
    <2>2. Dated(h)'
      BY <1>1, <1>2, <1>4, <2>1 DEF Dated
    <2> QED BY <1>2, <1>3, <2>1, <2>2
  <1>5. ASSUME NEW statement \in {"update", "list", "force"}, NEW next \in {"read", "fetch"},
               Acquire(h, statement, next)
        PROVE  Reached'
    <2>1. /\ pc[h] = statement /\ pc' = [pc EXCEPT ![h] = next]
          /\ UNCHANGED <<serverVars, top, kind, event, about, copy, fetched, todo, tries>>
      BY <1>5 DEF Acquire, At, tableVars
    <2>2. Dated(h)'
      BY <1>1, <1>2, <2>1 DEF Dated, HandlerInv
    <2> QED BY <1>2, <1>3, <2>1, <2>2
  <1>6. CASE Locking(h)
    <2>1. CASE /\ fresh /\ lock = Null /\ At(h, "list", "select")
               /\ UNCHANGED <<tableVars, fresh, lock, kind, event, about, copy, fetched, todo, tries>>
      <3>1. PICK next : next = "select"
        OBVIOUS
      <3>2. /\ pc[h] = "list" /\ pc' = [pc EXCEPT ![h] = next]
            /\ UNCHANGED <<serverVars, top, kind, event, about, copy, fetched, todo, tries>>
        BY <2>1, <3>1 DEF At, tableVars
      <3>3. kind[h] # "update"
        BY <1>1, <3>2 DEF HandlerInv
      <3>4. Dated(h)'
        BY <3>2, <3>3 DEF Dated
      <3> QED BY <1>2, <1>3, <3>2, <3>3, <3>4
    <2> QED BY <1>5, <1>6, <2>1 DEF Locking, UpdateGroup, FetchGroups, fetchGroupsIfNeeded
  <1>7. CASE ReadGroup(h)
    <2> DEFINE new == UpdateGroupInfo(row[about[h]], event[h])
    <2>1. PICK next \in {"setting", "row"} :
             /\ pc[h] = "read" /\ pc' = [pc EXCEPT ![h] = next] /\ row[about[h]] # Null
             /\ copy' = [copy EXCEPT ![h] = new]
             /\ UNCHANGED <<serverVars, top, kind, event, about, fetched, todo, tries>>
      BY <1>7 DEF ReadGroup, At, tableVars, FirstWrite
    <2>2. row[about[h]] \in GroupRecords /\ event[h] \in Updates
      BY <1>1, <2>1 DEF HandlerInv, Genuine, Stored, TableInv, Faithful
    <2>3. TouchesParticipants(event[h]) => new.version = event[h].version
      BY <2>2, UpdateMeansSets
    <2> HIDE DEF new
    <2>4. pc'[h] = next /\ copy'[h] = new
      BY <1>2, <2>1
    <2>5. Dated(h)'
      BY <1>1, <2>1, <2>3, <2>4 DEF Dated
    <2> QED BY <1>2, <1>3, <2>1, <2>5
  <1>8. CASE ReadFails(h)
    <2>1. Retry(h, "read") /\ kind[h] = "update"
      BY <1>1, <1>8 DEF ReadFails, Retry, At, HandlerInv
    <2> QED BY <1>4, <2>1
  <1>9. CASE UpsertSetting(h)
    <2>1. PICK next : next = "row"
      OBVIOUS
    <2>2. /\ pc[h] = "setting" /\ pc' = [pc EXCEPT ![h] = next]
          /\ UNCHANGED <<serverVars, top, kind, event, about, copy, fetched, todo, tries>>
      BY <1>9, <2>1 DEF UpsertSetting, At
    <2>3. Dated(h)'
      BY <1>1, <1>2, <2>1, <2>2 DEF Dated
    <2> QED BY <1>2, <1>3, <2>1, <2>2, <2>3
  <1>10. CASE UpsertGroup(h)
    <2> DEFINE g == about[h]
    <2>1. /\ pc[h] = "row" /\ pc' = [pc EXCEPT ![h] = "done"]
          /\ top' = [top EXCEPT ![g] = IF copy[h].version > top[g] THEN copy[h].version ELSE top[g]]
          /\ UNCHANGED <<serverVars, kind, event, about, copy, fetched, todo, tries>>
      BY <1>10 DEF UpsertGroup, At, PutRow
    <2>2. StepOf(h) /\ pc'[h] = "done"
      BY <2>1 DEF Stored, FunctionInv, StepOf
    <2>3. /\ kind[h] = "update" /\ g \in Groups /\ copy[h].version \in Nat
          /\ top \in [Groups -> Nat]
      BY <1>1, <2>1 DEF HandlerInv, Faithful, GroupRecords, All, LockInv, TypeInv
    <2>4. /\ top'[g] >= copy[h].version
          /\ \A o \in Groups : top'[o] >= top[o] /\ top[o] \in Nat /\ top'[o] \in Nat
      BY <2>1, <2>3
    <2>5. ASSUME NEW o \in Groups, NEW v \in 2..Current(o), WaitsFor(h, o, v) \/ Brings(h, o, v)
          PROVE  Covered(o, v)'
      <3>1. o = g /\ v = event[h].version /\ v \in Nat /\ v >= 2
        BY <2>1, <2>5, SameServer DEF WaitsFor, Brings
      <3>2. v = copy[h].version
        BY <1>1, <2>1, <2>3, <3>1 DEF Dated
      <3> QED BY <2>4, <3>1, <3>2 DEF Covered
    <2>6. Dated(h)'
      BY <2>2 DEF Dated
    <2> QED BY <2>1, <2>2, <2>4, <2>5, <2>6, OthersReach
  <1>11. CASE RefreshFails(h, "fetch")
    <2>1. CASE kind[h] = "update" /\ Retry(h, "fetch")
      BY <1>4, <2>1
    <2>2. CASE /\ kind[h] # "update" /\ At(h, "fetch", "done")
               /\ UNCHANGED <<tableVars, fresh, kind, event, about, copy, fetched, todo, tries>>
      <3>1. PICK next : next = "done"
        OBVIOUS
      <3>2. /\ pc[h] = "fetch" /\ pc' = [pc EXCEPT ![h] = next]
            /\ UNCHANGED <<serverVars, top, kind, event, about, copy, fetched, todo, tries>>
        BY <2>2, <3>1 DEF At, tableVars
      <3>3. Dated(h)'
        BY <2>2, <3>2 DEF Dated
      <3> QED BY <1>2, <1>3, <2>2, <3>2, <3>3
    <2> QED BY <1>11, <2>1, <2>2 DEF RefreshFails, AfterFailure
  <1>12. CASE SelectGroups(h)
    <2>1. PICK next : next = "done"
      OBVIOUS
    <2>2. /\ pc[h] = "select" /\ pc' = [pc EXCEPT ![h] = next]
          /\ UNCHANGED <<serverVars, top, kind, event, about, copy, fetched, todo, tries>>
      BY <1>12, <2>1 DEF SelectGroups, At, tableVars
    <2>3. Dated(h)'
      BY <1>2, <2>1, <2>2 DEF Dated
    <2> QED BY <1>2, <1>3, <2>2, <2>3
  <1> QED BY <1>6, <1>7, <1>8, <1>9, <1>10, <1>11, <1>12 DEF UpsertFails

(* A refresh brings every version that is announced. *)
LEMMA RefreshReach ==
    ASSUME Stored, All, Completed, Reached, ~DbFails, NEW h \in Handlers,
           GetJoinedGroups(h) \/ DeleteGroups(h) \/ FillSetting(h) \/ FillRow(h) \/ EndRefresh(h)
    PROVE  Reached'
  <1> USE DEF Filling
  <1>1. HandlerInv(h) /\ Complete(h) /\ member = Groups /\ top \in [Groups -> Nat]
    BY DEF Stored, Completed, All, TypeInv
  <1>2. ASSUME StepOf(h), UNCHANGED <<serverVars, top>>, pc'[h] \notin {"update", "read", "setting", "row", "fetch"},
               \A g \in Groups : \A v \in 2..Current(g) :
                   WaitsFor(h, g, v) \/ Brings(h, g, v) => Covered(g, v)'
        PROVE  Reached'
    <2>1. Dated(h)'
      BY <1>2 DEF Dated
    <2> QED BY <1>1, <1>2, <2>1, OthersReach
  <1>3. CASE GetJoinedGroups(h)
    <2> SUFFICES ASSUME At(h, "fetch", "clear"),
                        fetched' = [fetched EXCEPT ![h] = [g \in member |-> Snapshot(g)]],
                        UNCHANGED <<tableVars, fresh, lock, kind, event, about, copy, todo, tries>>
                 PROVE  Reached'
      BY <1>3, UpdatesReach DEF GetJoinedGroups
    <2>1. /\ pc[h] = "fetch" /\ pc' = [pc EXCEPT ![h] = "clear"] /\ UNCHANGED <<serverVars, top>>
      BY DEF At, tableVars
    <2>2. StepOf(h) /\ pc'[h] = "clear" /\ fetched'[h] = [g \in Groups |-> Snapshot(g)]
      BY <1>1, <2>1 DEF Stored, FunctionInv, StepOf
    <2>3. ASSUME NEW g \in Groups, NEW v \in 2..Current(g) PROVE Covered(g, v)'
      <3>1. fetched'[h][g].version = Current(g)
        BY <2>2 DEF Snapshot
      <3>2. Current(g) \in Nat
        BY <2>1, SameServer
      <3> QED BY <2>2, <3>1, <3>2 DEF Covered, Brings
    <2> QED BY <1>2, <2>1, <2>2, <2>3
  <1>4. CASE DeleteGroups(h)
    <2>1. /\ pc[h] = "clear" /\ pc' = [pc EXCEPT ![h] = "fill"] /\ UNCHANGED serverVars
          /\ todo' = [todo EXCEPT ![h] = DOMAIN fetched[h]]
          /\ UNCHANGED <<top, kind, event, about, copy, fetched, tries>>
      BY <1>4 DEF DeleteGroups, At
    <2>2. StepOf(h) /\ pc'[h] = "fill" /\ todo'[h] = Groups /\ fetched'[h] = fetched[h]
      BY <1>1, <2>1 DEF Stored, FunctionInv, StepOf, Complete
    <2>3. ASSUME NEW g \in Groups, NEW v \in 2..Current(g), WaitsFor(h, g, v) \/ Brings(h, g, v)
          PROVE  Covered(g, v)'
      BY <2>1, <2>2, <2>3 DEF Covered, Brings, WaitsFor
    <2> QED BY <1>2, <2>1, <2>2, <2>3
  <1>5. CASE FillSetting(h)
    <2>1. PICK g \in todo[h] :
             /\ pc[h] = "fill" /\ pc' = [pc EXCEPT ![h] = "fillRow"] /\ UNCHANGED serverVars
             /\ about' = [about EXCEPT ![h] = g] /\ todo' = [todo EXCEPT ![h] = todo[h] \ {g}]
             /\ UNCHANGED <<top, kind, event, copy, fetched, tries>>
      BY <1>5 DEF FillSetting, At
    <2>2. /\ StepOf(h) /\ pc'[h] = "fillRow" /\ todo'[h] = todo[h] \ {g} /\ about'[h] = g
          /\ fetched'[h] = fetched[h]
      BY <2>1 DEF Stored, FunctionInv, StepOf
    <2>3. ASSUME NEW o \in Groups, NEW v \in 2..Current(o), WaitsFor(h, o, v) \/ Brings(h, o, v)
          PROVE  Covered(o, v)'
      BY <2>1, <2>2, <2>3 DEF Covered, Brings, WaitsFor
    <2> QED BY <1>2, <2>1, <2>2, <2>3
  <1>6. CASE FillRow(h)
    <2> DEFINE g == about[h]
               new == fetched[h][g]
    <2>1. /\ pc[h] = "fillRow" /\ pc' = [pc EXCEPT ![h] = "fill"] /\ UNCHANGED serverVars
          /\ top' = [top EXCEPT ![g] = IF new.version > top[g] THEN new.version ELSE top[g]]
          /\ UNCHANGED <<kind, event, about, copy, fetched, todo, tries>>
      BY <1>6 DEF FillRow, At, PutRow
    <2>2. /\ StepOf(h) /\ pc'[h] = "fill" /\ todo'[h] = todo[h] /\ fetched'[h] = fetched[h]
      BY <2>1 DEF Stored, FunctionInv, StepOf
    <2>3. g \in Groups /\ new.version \in Nat
      BY <1>1, <2>1 DEF HandlerInv, Faithful, GroupRecords
    <2>4. /\ top'[g] >= new.version
          /\ \A o \in Groups : top'[o] >= top[o] /\ top[o] \in Nat /\ top'[o] \in Nat
      BY <1>1, <2>1, <2>3
    <2>5. ASSUME NEW o \in Groups, NEW v \in 2..Current(o), WaitsFor(h, o, v) \/ Brings(h, o, v)
          PROVE  Covered(o, v)'
      <3>1. CASE o \in todo[h]
        <4>1. Brings(h, o, v)'
          BY <2>1, <2>2, <2>5, <3>1 DEF Brings, WaitsFor
        <4> QED BY <4>1 DEF Covered
      <3>2. CASE o \notin todo[h]
        <4>1. o = g /\ new.version >= v /\ v \in Nat
          BY <2>1, <2>5, <3>2, SameServer DEF Brings, WaitsFor
        <4>2. v <= top'[o]
          BY <2>3, <2>4, <4>1
        <4> QED BY <4>2 DEF Covered
      <3> QED BY <3>1, <3>2
    <2>6. Dated(h)'
      BY <2>2 DEF Dated
    <2> QED BY <2>1, <2>2, <2>4, <2>5, <2>6, OthersReach
  <1>7. CASE EndRefresh(h)
    <2>1. PICK next \in {"select", "done"} :
             /\ pc[h] = "fill" /\ pc' = [pc EXCEPT ![h] = next] /\ UNCHANGED <<serverVars, top>>
             /\ todo[h] = {} /\ fetched' = [fetched EXCEPT ![h] = <<>>]
             /\ UNCHANGED <<kind, event, about, copy, todo, tries>>
      BY <1>7 DEF EndRefresh, At, tableVars
    <2>2. StepOf(h) /\ pc'[h] = next
      BY <2>1 DEF Stored, FunctionInv, StepOf
    <2>3. \A g, v : ~WaitsFor(h, g, v) /\ ~Brings(h, g, v)
      BY <2>1 DEF WaitsFor, Brings
    <2> QED BY <1>2, <2>1, <2>2, <2>3
  <1> QED BY <1>3, <1>4, <1>5, <1>6, <1>7

(* A new version is announced to a handler. *)
LEMMA VersionsReach ==
    ASSUME Stored, Stored', Reached, NothingMissed, NEW g \in Groups, NEW j \in Jids,
           ParticipantChanges(g, j)
    PROVE  Reached'
  <1>1. PICK n : n = NewVersion(g)
    OBVIOUS
  <1>2. PICK u : /\ \/ u = [n EXCEPT !.join = <<j>>] \/ u = [n EXCEPT !.leave = <<j>>]
                    \/ u = [n EXCEPT !.promote = <<j>>] \/ u = [n EXCEPT !.demote = <<j>>]
                 /\ Announce(g, u) /\ \E ranks : NewRanks(g, ranks)
    BY <1>1 DEF ParticipantChanges
  <1>3. n = [timer |-> Same, prev |-> Current(g), version |-> Current(g) + 1,
             join |-> <<>>, leave |-> <<>>, promote |-> <<>>, demote |-> <<>>]
    <2>1. PICK r : r = Update(g, Same)
      OBVIOUS
    <2>2. n = [r EXCEPT !.prev = Current(g), !.version = Current(g) + 1]
      BY <1>1, <2>1 DEF NewVersion
    <2>3. r = [timer |-> Same, prev |-> 0, version |-> 0,
               join |-> <<>>, leave |-> <<>>, promote |-> <<>>, demote |-> <<>>]
      BY <2>1 DEF Update
    <2> QED BY <2>2, <2>3
  <1>4. u.version = Current(g) + 1 /\ TouchesParticipants(u)
    <2>1. <<j>> # <<>>
      OBVIOUS
    <2>2. u.version = Current(g) + 1
      BY <1>2, <1>3
    <2>3. u.join = <<j>> \/ u.leave = <<j>> \/ u.promote = <<j>> \/ u.demote = <<j>>
      BY <1>2, <1>3
    <2>4. \E s \in {u.join, u.leave, u.promote, u.demote} : s = <<j>>
      BY <2>3
    <2> QED BY <2>1, <2>2, <2>4 DEF TouchesParticipants
  <1>5. \A o \in Groups : o # g => Current(o)' = Current(o)
    BY <1>2 DEF NewRanks, Current, Stored, ServerInv
  <1>6. Current(g)' = Current(g) + 1 /\ Current(g) \in Nat
    <2>1. PICK s \in Seq(RankFunctions) : s = history[g]
      BY DEF Stored, ServerInv
    <2>2. PICK ranks : history' = [history EXCEPT ![g] = Append(s, ranks)]
      BY <1>2, <2>1 DEF NewRanks
    <2>3. history'[g] = Append(s, ranks)
      BY <2>2 DEF Stored, ServerInv
    <2>4. Len(Append(s, ranks)) = Len(s) + 1 /\ Len(s) \in Nat
      OBVIOUS
    <2> QED BY <2>1, <2>3, <2>4 DEF Current
  <1>7. \A o \in Groups : \A v \in 2..Current(o)' :
            v \in 2..Current(o) \/ (o = g /\ v = u.version)
    BY <1>4, <1>5, <1>6
  <1>8. PICK h \in Handlers : Dispatch(h, "update", g, u, "update", Null)
    BY <1>2 DEF Announce, Missed
  <1> QED BY <1>4, <1>7, <1>8, StartsReach

(* Every step. *)
LEMMA ReachNext ==
    Inv /\ Stored /\ Stored' /\ CompleteInv /\ ReachInv /\ [Next]_vars => ReachInv'
  <1> SUFFICES ASSUME All, Stored, Stored', Completed, Reached,
                      MembershipStable, NothingMissed, ~DbFails, [Next]_vars
               PROVE  Reached'
    BY DEF Inv, CompleteInv, ReachInv
  <1>1. ASSUME NEW g \in Groups, ILeave(g) \/ IJoin(g) PROVE Reached'
    BY <1>1 DEF ILeave, IJoin
  <1>2. ASSUME NEW g \in Groups, NEW t \in Timers, TimerChanges(g, t) PROVE Reached'
    <2>1. PICK u : u = Update(g, t)
      OBVIOUS
    <2>2. PICK h \in Handlers : Dispatch(h, "update", g, u, "update", Null)
      BY <1>2, <2>1 DEF TimerChanges, Announce, Missed
    <2>3. u.version = 0
      BY <2>1 DEF Update
    <2>4. \A o \in Groups : \A v \in 2..Current(o)' : v \in 2..Current(o)
      BY <1>2 DEF TimerChanges, Current
    <2> QED BY <2>2, <2>3, <2>4, StartsReach
  <1>3. ASSUME NEW h \in Handlers, NEW k \in {"list", "force"}, Request(h, k) PROVE Reached'
    <2>1. Dispatch(h, k, Null, Null, k, Null)
      BY <1>3 DEF Request
    <2>2. \A o \in Groups : \A v \in 2..Current(o)' : v \in 2..Current(o)
      BY <1>3 DEF Request, serverVars, Current
    <2> QED BY <2>1, <2>2, StartsReach
  <1>4. CASE Expire \/ UNCHANGED vars
    <2>1. StepOf(Null) /\ UNCHANGED <<serverVars, top>>
      BY <1>4 DEF Expire, vars, handlerVars, tableVars, StepOf, Stored, FunctionInv
    <2>2. \A g \in Groups : top'[g] >= top[g] /\ top[g] \in Nat /\ top'[g] \in Nat
      BY <2>1 DEF All, TypeInv
    <2> QED BY <2>1, <2>2, ScopeAssumption, OthersReach
  <1>5. ASSUME NEW h \in Handlers, Statement(h) PROVE Reached'
    <2>1. CASE DeleteSetting(h) \/ DeleteRow(h)
      BY <2>1 DEF DeleteSetting, DeleteRow, At, All, TypeInv, States
    <2> QED BY <1>5, <2>1, UpdatesReach, RefreshReach DEF Statement
  <1>6. ASSUME NEW h \in Handlers, Locking(h) PROVE Reached'
    BY <1>6, UpdatesReach
  <1> QED BY <1>1, <1>2, <1>3, <1>4, <1>5, <1>6, VersionsReach DEF Next

(* When every event has been handled the rows are those of WhatsApp, unless a
   handler gave up: whatever the order of the events and the refreshes.    *)
THEOREM QuietRowsAreCurrent == Spec => []QuietMeansCurrent
  <1>1. Init => CompleteInv
    BY DEF Init, CompleteInv, Completed, Complete
  <1>2. Init => ReachInv
    <2>1. Init => \A g \in Groups : Current(g) = 1
      BY DEF Init, Current
    <2> QED BY <2>1 DEF Init, ReachInv, Reached, Dated
  <1>3. Spec => [](Inv /\ Stored /\ ReachInv)
    BY <1>1, <1>2, CompleteNext, ReachNext, Invariance, StoredInvariance, PTL DEF Spec
  <1>4. Inv /\ Stored /\ ReachInv => QuietMeansCurrent
    <2> SUFFICES ASSUME All, Stored, Reached,
                        \A h \in Handlers : pc[h] \in {"new", "done", "gaveUp"},
                        NEW g \in Groups, row[g] # Null
                 PROVE  \/ row[g].version = Current(g)
                        \/ \E h \in Handlers : /\ pc[h] = "gaveUp" /\ about[h] = g
                                               /\ event[h].version > row[g].version
      BY DEF Inv, ReachInv, QuietMeansCurrent
    <2>1. PICK n \in Nat : n = Current(g) /\ row[g].version \in 1..n /\ row[g].version = top[g]
      <3>1. Current(g) \in Nat
        BY ScopeAssumption DEF Stored, ServerInv
      <3>2. row[g].version \in 1..Current(g) /\ row[g].version = top[g]
        BY DEF All, VersionInv, Stored, TableInv, Faithful
      <3> QED BY <3>1, <3>2
    <2>2. CASE n < 2
      BY <2>1, <2>2
    <2>3. CASE n >= 2
      <3>1. Covered(g, n)
        BY <2>1, <2>3 DEF Reached
      <3>2. n <= top[g] \/ \E h \in Handlers : WaitsFor(h, g, n)
        BY <3>1 DEF Covered, Brings, Filling
      <3>3. ASSUME NEW h \in Handlers, WaitsFor(h, g, n)
            PROVE  pc[h] = "gaveUp" /\ about[h] = g /\ event[h].version = n
        BY <3>3 DEF WaitsFor
      <3> QED BY <2>1, <3>2, <3>3
    <2> QED BY <2>1, <2>2, <2>3
  <1> QED BY <1>3, <1>4, PTL

-----------------------------------------------------------------------------
(***************************************************************************)
(* Updates applied to a stored group one after the other, whether they fit *)
(* its version or not (MCGroupInfo).                                       *)
(***************************************************************************)
\* A stored group lists nobody twice.
AppliedInv ==
    /\ group \in GroupRecords /\ Once(JidsOf(group.participants))
    /\ update \in Updates \cup {Same}

(* In a list that has nobody twice, everybody has one place, and the rank that
   is written there.                                                       *)
LEMMA ListedOnce ==
    ASSUME NEW r \in GroupRecords, Once(JidsOf(r.participants))
    PROVE  /\ Members(r) = ToSet(JidsOf(r.participants))
           /\ Members(r) = DOMAIN RanksOf(r)
           /\ Cardinality(Members(r)) = Len(r.participants)
           /\ \A k \in DOMAIN r.participants :
                 /\ r.participants[k].jid \in Members(r)
                 /\ Place(r, r.participants[k].jid) = k
           /\ \A j \in Members(r) :
                 /\ Place(r, j) \in DOMAIN r.participants
                 /\ r.participants[Place(r, j)].jid = j
                 /\ RankIn(r, j) = RanksOf(r)[j]
  <1> DEFINE p == r.participants
             jids == JidsOf(p)
             members == Members(r)
  <1>1. /\ p \in Seq(RankRecords) /\ jids \in Seq(Jids)
        /\ DOMAIN jids = DOMAIN p /\ DOMAIN p = 1..Len(p) /\ Len(p) \in Nat
        /\ \A k \in DOMAIN p : jids[k] = p[k].jid
    <2>1. p \in Seq(RankRecords)
      BY DEF GroupRecords
    <2>2. ASSUME NEW k \in DOMAIN p PROVE p[k].jid \in Jids
      <3>1. p[k] \in RankRecords
        BY <2>1
      <3> QED BY <3>1 DEF RankRecords
    <2> QED BY <2>1, <2>2 DEF JidsOf
  <1>2. \A i, k \in DOMAIN p : p[i].jid = p[k].jid => i = k
    <2>1. \A i, k \in DOMAIN p : i < k => p[i].jid # p[k].jid
      BY <1>1 DEF Once
    <2> QED BY <1>1, <2>1
  <1>3. members = {p[k].jid : k \in DOMAIN p} /\ members = ToSet(jids)
    <2>1. Elements(p) = {p[k] : k \in DOMAIN p}
      BY DEF Elements
    <2>2. members = {p[k].jid : k \in DOMAIN p}
      BY <2>1 DEF Members
    <2> QED BY <1>1, <2>2 DEF ToSet
  <1>4. /\ DOMAIN RanksOf(r) = members
        /\ \A j \in members : \E k \in DOMAIN p : p[k].jid = j /\ RanksOf(r)[j] = p[k].rank
    BY <1>1, <1>3, MapOf DEF RanksOf
  <1>5. ASSUME NEW k \in DOMAIN p PROVE p[k].jid \in members /\ Place(r, p[k].jid) = k
    BY <1>2, <1>3 DEF Place
  <1>6. ASSUME NEW j \in members
        PROVE  /\ Place(r, j) \in DOMAIN p /\ p[Place(r, j)].jid = j
               /\ RankIn(r, j) = RanksOf(r)[j]
    <2>1. PICK k \in DOMAIN p : p[k].jid = j /\ RanksOf(r)[j] = p[k].rank
      BY <1>4
    <2>2. p[k] \in Elements(p) /\ \A x \in Elements(p) : x.jid = j => x = p[k]
      BY <1>2, <2>1 DEF Elements
    <2>3. RankIn(r, j) = p[k].rank
      BY <2>1, <2>2 DEF RankIn
    <2> QED BY <1>5, <2>1, <2>3
  <1>7. Cardinality(members) = Len(p)
    <2>1. jids \in Bijection(1..Len(p), members)
      <3>1. jids \in [1..Len(p) -> members]
        BY <1>1, <1>3 DEF JidsOf
      <3> HIDE DEF jids
      <3> QED BY <1>1, <1>2, <1>3, <3>1 DEF Bijection, Injection, Surjection, IsInjective
    <2>2. PICK n \in Nat : n = Len(p)
      BY <1>1
    <2>3. IsFiniteSet(1..n) /\ Cardinality(1..n) = n
      BY FS_Interval
    <2> HIDE DEF p, jids, members
    <2>4. ExistsBijection(1..n, members)
      BY <2>1, <2>2 DEF ExistsBijection
    <2> QED BY <2>2, <2>3, <2>4, FS_Bijection
  <1> QED BY <1>3, <1>4, <1>5, <1>6, <1>7

(* An owner alone, or nobody. *)
LEMMA AppliedInit == GroupInit => AppliedInv
  <1> SUFFICES ASSUME GroupInit PROVE AppliedInv
    OBVIOUS
  <1>1. PICK t \in Timers, owner \in {<<>>} \cup {<<[jid |-> j, rank |-> "superAdmin"]>> : j \in Jids} :
           group = [timer |-> t, version |-> 0, participants |-> owner]
    BY DEF GroupInit
  <1>2. owner \in Seq(RankRecords) /\ Once(JidsOf(owner))
    <2>1. CASE owner = <<>>
      BY <2>1 DEF Once, JidsOf
    <2>2. ASSUME NEW j \in Jids, owner = <<[jid |-> j, rank |-> "superAdmin"]>>
          PROVE  owner \in Seq(RankRecords) /\ Once(JidsOf(owner))
      <3>1. [jid |-> j, rank |-> "superAdmin"] \in RankRecords
        BY DEF RankRecords, Ranks
      <3>2. DOMAIN owner = {1}
        BY <2>2
      <3> QED BY <2>2, <3>1, <3>2 DEF Once, JidsOf
    <2> QED BY <1>1, <2>1, <2>2
  <1>3. update = Same
    BY DEF GroupInit
  <1> QED BY <1>1, <1>2, <1>3 DEF AppliedInv, GroupRecords

(* The updates MCGroupInfo sends are updates. *)
LEMMA AppliedUpdates == SmallUpdates \subseteq Updates
  <1>1. UpTo1 \subseteq Seq(Jids) /\ UpTo2 \subseteq Seq(Jids)
    <2>1. ASSUME NEW q \in UpTo1 PROVE q \in Seq(Jids)
      <3>1. q = <<>> \/ \E j \in Jids : q = <<j>>
        BY Zenon DEF UpTo1
      <3>2. ASSUME NEW j \in Jids, q = <<j>> PROVE q \in Seq(Jids)
        BY <3>2
      <3>3. CASE q = <<>>
        BY <3>3
      <3> QED BY <3>1, <3>2, <3>3
    <2>2. ASSUME NEW q \in UpTo2 PROVE q \in Seq(Jids)
      <3>1. q \in UpTo1 \/ \E i, j \in Jids : q = <<i, j>>
        BY DEF UpTo2
      <3>2. ASSUME NEW i \in Jids, NEW j \in Jids, q = <<i, j>> PROVE q \in Seq(Jids)
        BY <3>2
      <3> QED BY <2>1, <3>1, <3>2
    <2> QED BY <2>1, <2>2
  <1>2. <<>> \in Seq(Jids)
    OBVIOUS
  <1>3. ASSUME NEW u \in SmallUpdates PROVE u \in Updates
    <2>1. PICK one, two : one = UpTo1 /\ two = UpTo2
      OBVIOUS
    <2>2. \/ u \in [timer : Timers, prev : {0}, version : {0}, join : {<<>>},
                    leave : {<<>>}, promote : {<<>>}, demote : {<<>>}]
          \/ u \in [timer : {Same}, prev : {0, 1}, version : {0, 1}, join : two,
                    leave : one, promote : one, demote : one]
      BY <2>1 DEF SmallUpdates
    <2>3. one \subseteq Seq(Jids) /\ two \subseteq Seq(Jids)
      BY <1>1, <2>1
    <2>4. CASE u \in [timer : Timers, prev : {0}, version : {0}, join : {<<>>},
                      leave : {<<>>}, promote : {<<>>}, demote : {<<>>}]
      <3>1. /\ u = [timer |-> u.timer, prev |-> u.prev, version |-> u.version,
                    join |-> u.join, leave |-> u.leave, promote |-> u.promote,
                    demote |-> u.demote]
            /\ u.timer \in Timers /\ u.prev \in Nat /\ u.version \in Nat
            /\ {u.join, u.leave, u.promote, u.demote} = {<<>>}
        BY <2>4
      <3> QED BY <1>2, <3>1 DEF Updates
    <2>5. CASE u \in [timer : {Same}, prev : {0, 1}, version : {0, 1}, join : two,
                      leave : one, promote : one, demote : one]
      <3>1. /\ u = [timer |-> u.timer, prev |-> u.prev, version |-> u.version,
                    join |-> u.join, leave |-> u.leave, promote |-> u.promote,
                    demote |-> u.demote]
            /\ u.timer = Same /\ u.prev \in Nat /\ u.version \in Nat
            /\ u.join \in two /\ u.leave \in one /\ u.promote \in one /\ u.demote \in one
        BY <2>5
      <3>2. /\ u.join \in Seq(Jids) /\ u.leave \in Seq(Jids)
            /\ u.promote \in Seq(Jids) /\ u.demote \in Seq(Jids)
        BY <2>3, <3>1
      <3> QED BY <3>1, <3>2 DEF Updates
    <2> QED BY <2>2, <2>4, <2>5
  <1> QED BY <1>3

(* The rows stay lists without repetition. *)
LEMMA AppliedNext == AppliedInv /\ [GroupNext]_groupVars => AppliedInv'
  <1> SUFFICES ASSUME AppliedInv, [GroupNext]_groupVars PROVE AppliedInv'
    OBVIOUS
  <1>1. CASE Apply
    <2>1. update \in Updates
      BY <1>1 DEF Apply, AppliedInv
    <2>2. UpdateGroupInfo(group, update) \in GroupRecords
      BY <2>1, UpdateMeansSets DEF AppliedInv
    <2>3. Once(JidsOf(UpdateGroupInfo(group, update).participants))
      BY <2>1, UpdateKeepsOrder DEF AppliedInv
    <2>4. group' = group \/ group' = UpdateGroupInfo(group, update)
      BY <1>1 DEF Apply
    <2> QED BY <1>1, <2>2, <2>3, <2>4 DEF AppliedInv, Apply
  <1>2. ASSUME NEW u \in SmallUpdates, Receive(u) PROVE AppliedInv'
    BY <1>2, AppliedUpdates DEF Receive, AppliedInv
  <1>3. CASE UNCHANGED groupVars
    BY <1>3 DEF groupVars, AppliedInv
  <1> QED BY <1>1, <1>2, <1>3 DEF GroupNext

(* A group is a proper list after every sequence of updates. *)
THEOREM AppliedInvariance == GroupSpec => []AppliedInv
  BY AppliedInit, AppliedNext, PTL DEF GroupSpec

(* The fitting update of a step does to the ranks what its lists say. *)
LEMMA AppliedRanks ==
    ASSUME AppliedInv, Apply,
           TouchesParticipants(update) => update.prev = group.version
    PROVE  /\ group' \in GroupRecords /\ Once(JidsOf(group'.participants))
           /\ RanksOf(group') = Changed(RanksOf(group), update)
  <1>1. update \in Updates /\ group \in GroupRecords /\ Once(JidsOf(group.participants))
    BY DEF Apply, AppliedInv
  <1>2. group' = UpdateGroupInfo(group, update)
    BY DEF Apply, Mismatch
  <1>3. ASSUME ~TouchesParticipants(update)
        PROVE  Changed(RanksOf(group), update) = RanksOf(group)
    <2>1. /\ update.join = <<>> /\ update.leave = <<>>
          /\ update.promote = <<>> /\ update.demote = <<>>
      BY <1>3 DEF TouchesParticipants
    <2>2. ToSet(<<>>) = {}
      BY DEF ToSet
    <2>3. RanksOf(group) = [j \in DOMAIN RanksOf(group) |-> RanksOf(group)[j]]
      BY <1>1, MapOf DEF RanksOf, GroupRecords, IsMap
    <2>4. PICK f : f = RanksOf(group)
      OBVIOUS
    <2>5. Changed(f, update) = [j \in DOMAIN f |-> f[j]]
      BY <2>1, <2>2 DEF Changed
    <2> QED BY <2>3, <2>4, <2>5
  <1>4. RanksOf(group') = Changed(RanksOf(group), update)
    BY <1>1, <1>2, <1>3, UpdateMeansSets
  <1> QED BY <1>1, <1>2, <1>4, UpdateMeansSets, UpdateKeepsOrder

(* An update that fits the version adds who joins, then removes who leaves -
   also somebody who is in both lists; nobody is added by being promoted.  The
   last of promote and demote decides a rank.                              *)
THEOREM UpdatesMeanSets == GroupSpec => MeansSets
  <1> DEFINE J == Elements(update.join)
             L == Elements(update.leave)
             P == Elements(update.promote)
             D == Elements(update.demote)
             Step == update # Same /\ (TouchesParticipants(update) =>
                                         update.prev = group.version) =>
                       /\ Members(group') = (Members(group) \cup J) \ L
                       /\ \A j \in Members(group') :
                             RankIn(group', j) =
                                IF j \in D THEN "member"
                                ELSE IF j \in P THEN "admin"
                                ELSE IF j \in Members(group) THEN RankIn(group, j)
                                ELSE "member"
  <1>1. AppliedInv /\ [GroupNext]_groupVars => [Step]_groupVars
    <2> SUFFICES ASSUME AppliedInv, GroupNext, update # Same,
                        TouchesParticipants(update) => update.prev = group.version
                 PROVE  Step
      OBVIOUS
    <2>1. Apply
      BY DEF GroupNext, Receive
    <2>2. /\ group' \in GroupRecords /\ Once(JidsOf(group'.participants))
          /\ RanksOf(group') = Changed(RanksOf(group), update)
      BY <2>1, AppliedRanks
    <2>3. \A s : Elements(s) = ToSet(s)
      BY DEF Elements, ToSet
    <2>4. /\ Members(group) = DOMAIN RanksOf(group)
          /\ \A j \in Members(group) : RankIn(group, j) = RanksOf(group)[j]
      BY ListedOnce DEF AppliedInv
    <2>5. PICK new : new = group'
      OBVIOUS
    <2>6. /\ Members(new) = DOMAIN RanksOf(new)
          /\ \A j \in Members(new) : RankIn(new, j) = RanksOf(new)[j]
      BY <2>2, <2>5, ListedOnce
    <2>7. PICK ranks : ranks = RanksOf(group)
      OBVIOUS
    <2>8. /\ DOMAIN Changed(ranks, update) = (DOMAIN ranks \cup J) \ L
          /\ \A j \in DOMAIN Changed(ranks, update) :
                Changed(ranks, update)[j] = IF j \in D THEN "member"
                                            ELSE IF j \in P THEN "admin"
                                            ELSE IF j \in DOMAIN ranks THEN ranks[j] ELSE "member"
      BY <2>3 DEF Changed
    <2> HIDE DEF J, L, P, D
    <2> QED BY <2>2, <2>4, <2>5, <2>6, <2>7, <2>8
  <1> QED BY <1>1, AppliedInvariance, PTL DEF GroupSpec, MeansSets

(* Nobody is ever listed twice, whoever stays keeps their place relative to
   the others, and newcomers come last.                                    *)
THEOREM UpdatesKeepOrder == GroupSpec => KeepsOrder
  <1> DEFINE Step ==
               /\ Cardinality(Members(group')) = Len(group'.participants)
               /\ \A i, j \in Members(group') :
                     Place(group', i) < Place(group', j) =>
                        \/ i \in Members(group) /\ j \notin Members(group)
                        \/ {i, j} \subseteq Members(group)
                           /\ Place(group, i) < Place(group, j)
                        \/ {i, j} \cap Members(group) = {}
  <1>1. AppliedInv /\ AppliedInv' /\ [GroupNext]_groupVars => [Step]_groupVars
    <2> SUFFICES ASSUME AppliedInv, AppliedInv', GroupNext PROVE Step
      OBVIOUS
    <2>1. PICK new : new = group'
      OBVIOUS
    <2> DEFINE was == JidsOf(group.participants)
               now == new.participants
    <2>2. /\ group \in GroupRecords /\ Once(JidsOf(group.participants))
          /\ new \in GroupRecords /\ Once(JidsOf(new.participants))
      BY <2>1 DEF AppliedInv
    <2>3. \A m, n \in DOMAIN now : m < n => InOrder(now[m].jid, now[n].jid, was)
      <3>1. CASE new = group
        <4>1. was \in Seq(Jids) /\ DOMAIN was = DOMAIN now /\ \A k \in DOMAIN now : was[k] = now[k].jid
          <5>1. group.participants \in Seq(RankRecords)
            BY <2>2 DEF GroupRecords
          <5>2. ASSUME NEW k \in DOMAIN group.participants
                PROVE  group.participants[k].jid \in Jids
            <6>1. group.participants[k] \in RankRecords
              BY <5>1
            <6> QED BY <6>1 DEF RankRecords
          <5> QED BY <3>1, <5>1, <5>2 DEF JidsOf
        <4> HIDE DEF was, now
        <4> QED BY <4>1 DEF InOrder
      <3>2. CASE new = UpdateGroupInfo(group, update) /\ update # Same
        <4>1. update \in Updates
          BY <3>2 DEF AppliedInv
        <4> QED BY <2>2, <3>2, <4>1, UpdateKeepsOrder
      <3>3. new = group \/ (new = UpdateGroupInfo(group, update) /\ update # Same)
        BY <2>1 DEF GroupNext, Apply, Receive
      <3> QED BY <3>1, <3>2, <3>3
    <2>4. /\ Members(group) = ToSet(was)
          /\ \A k \in DOMAIN was : Place(group, was[k]) = k
      BY <2>2, ListedOnce DEF JidsOf
    <2>5. /\ Cardinality(Members(new)) = Len(now)
          /\ \A j \in Members(new) : /\ Place(new, j) \in DOMAIN now
                                              /\ now[Place(new, j)].jid = j
      BY <2>2, ListedOnce
    <2>6. ASSUME NEW i \in Members(new), NEW j \in Members(new),
                 Place(new, i) < Place(new, j)
          PROVE  \/ i \in Members(group) /\ j \notin Members(group)
                 \/ /\ {i, j} \subseteq Members(group)
                    /\ Place(group, i) < Place(group, j)
                 \/ {i, j} \cap Members(group) = {}
      <3>1. InOrder(i, j, was)
        BY <2>3, <2>5, <2>6
      <3>2. CASE \E m, n \in DOMAIN was : m < n /\ was[m] = i /\ was[n] = j
        <4>1. PICK m, n \in DOMAIN was : m < n /\ was[m] = i /\ was[n] = j
          BY <3>2
        <4>2. i \in ToSet(was) /\ j \in ToSet(was)
          BY <4>1 DEF ToSet
        <4> QED BY <2>4, <4>1, <4>2
      <3> QED BY <2>4, <3>1, <3>2 DEF InOrder
    <2> QED BY <2>1, <2>5, <2>6
  <1> QED BY <1>1, AppliedInvariance, PTL DEF GroupSpec, KeepsOrder
=============================================================================

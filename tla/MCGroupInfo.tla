---------------------------- MODULE MCGroupInfo ----------------------------
(***************************************************************************)
(* GroupInfo over all small groups and updates: any sequence of updates,   *)
(* each compared with what it means as sets, and with the order a reader   *)
(* of the group list expects.                                              *)
(***************************************************************************)
EXTENDS GroupInfo, FiniteSets

VARIABLES group,   \* the stored group
          update   \* the update at hand, or Same

groupVars == <<group, update>>

Elements(q) == {q[k] : k \in DOMAIN q}
UpTo1 == {<<>>} \cup {<<j>> : j \in Jids}
UpTo2 == UpTo1 \cup {<<i, j>> : i, j \in Jids}

SmallUpdates ==
    [timer : Timers, prev : {0}, version : {0},
     join : {<<>>}, leave : {<<>>}, promote : {<<>>}, demote : {<<>>}]
    \cup
    [timer : {Same}, prev : {0, 1}, version : {0, 1},
     join : UpTo2, leave : UpTo1, promote : UpTo1, demote : UpTo1]

GroupInit ==
    /\ \E timer \in Timers,
          owner \in {<<>>} \cup {<<[jid |-> j, rank |-> "superAdmin"]>> : j \in Jids} :
          group = [timer |-> timer, version |-> 0, participants |-> owner]
    /\ update = Same

Receive(u) == /\ update = Same
              /\ TouchesParticipants(u) => u.version # u.prev
              /\ update' = u
              /\ UNCHANGED group

\* UpdateGroup stores the result only when UpdateGroupInfo had no error.
Apply == /\ update # Same
         /\ group' = IF Mismatch(group, update) THEN group
                     ELSE UpdateGroupInfo(group, update)
         /\ update' = Same

GroupNext == Apply \/ \E u \in SmallUpdates : Receive(u)

GroupSpec == GroupInit /\ [][GroupNext]_groupVars

Members(g) == {p.jid : p \in Elements(g.participants)}
RankIn(g, j) == (CHOOSE p \in Elements(g.participants) : p.jid = j).rank
Place(g, j) == CHOOSE k \in DOMAIN g.participants : g.participants[k].jid = j

(* An update that fits the version adds who joins, then removes who leaves -
   also somebody who is in both lists; nobody is added by being promoted.  The
   last of promote and demote decides a rank.                              *)
MeansSets ==
    [][update # Same /\ (TouchesParticipants(update) => update.prev = group.version) =>
        LET J == Elements(update.join) L == Elements(update.leave)
            P == Elements(update.promote) D == Elements(update.demote)
        IN  /\ Members(group') = (Members(group) \cup J) \ L
            /\ \A j \in Members(group') :
                  RankIn(group', j) = IF j \in D THEN "member"
                                      ELSE IF j \in P THEN "admin"
                                      ELSE IF j \in Members(group) THEN RankIn(group, j)
                                      ELSE "member"]_groupVars

(* Nobody is ever listed twice, whoever stays keeps their place relative to
   the others, and newcomers come last.                                    *)
KeepsOrder ==
    [][/\ Cardinality(Members(group')) = Len(group'.participants)
       /\ \A i, j \in Members(group') : Place(group', i) < Place(group', j) =>
            \/ i \in Members(group) /\ j \notin Members(group)
            \/ {i, j} \subseteq Members(group) /\ Place(group, i) < Place(group, j)
            \/ {i, j} \cap Members(group) = {}]_groupVars

=============================================================================

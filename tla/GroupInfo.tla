------------------------------ MODULE GroupInfo ------------------------------
(***************************************************************************)
(* Applying a GroupInfo event to a stored group: storage/helpers/groups.go *)
(* and the ordered map of storage/helpers/participants.go.                 *)
(*                                                                         *)
(* A participant is [jid, rank], the rank standing for the two admin flags.*)
(***************************************************************************)
EXTENDS Integers, Sequences, SequencesExt, Subsequences

CONSTANTS Jids,    \* the other participants
          Timers,  \* a group parameter, such as its disappearing timer
          Same     \* nil: the update leaves the parameter alone

Ranks == {"member", "admin", "superAdmin"}

(* ParticipantsMap: the ranks of those present and the two order slices. *)
NewParticipantsMap(original) ==
    LET jids == [k \in DOMAIN original |-> original[k].jid]
        LastOf(j) == CHOOSE k \in DOMAIN jids :
                        jids[k] = j /\ \A i \in DOMAIN jids : jids[i] = j => i <= k
    IN  [ranks |-> [j \in ToSet(jids) |-> original[LastOf(j)].rank],
         originalOrder |-> jids,
         newlyJoined |-> <<>>]

Join(pm, jids) ==
    LET missing == {k \in DOMAIN jids : /\ jids[k] \notin DOMAIN pm.ranks
                                        /\ \A i \in 1..(k - 1) : jids[i] # jids[k]}
    IN  [pm EXCEPT !.ranks = [j \in DOMAIN @ \cup ToSet(jids) |->
                                 IF j \in DOMAIN @ THEN @[j] ELSE "member"],
                   !.newlyJoined = @ \o Picked(jids, missing)]

Leave(pm, jids) ==
    [pm EXCEPT !.ranks = [j \in DOMAIN @ \ ToSet(jids) |-> @[j]]]

SetRank(pm, jids, rank) ==
    [pm EXCEPT !.ranks = [j \in DOMAIN @ |-> IF j \in ToSet(jids) THEN rank ELSE @[j]]]

Promote(pm, jids) == SetRank(pm, jids, "admin")
Demote(pm, jids) == SetRank(pm, jids, "member")

\* mutation: newcomers first
NewcomersFirst(pm) == pm.newlyJoined \o pm.originalOrder

Order(pm) == pm.originalOrder \o pm.newlyJoined

Participants(pm) ==
    LET order == Order(pm)
        present == Picked(order, {k \in DOMAIN order : order[k] \in DOMAIN pm.ranks})
    IN  [k \in DOMAIN present |-> [jid |-> present[k], rank |-> pm.ranks[present[k]]]]

(***************************************************************************)
(* A group is [timer, version, participants], an update [timer, prev,      *)
(* version, join, leave, promote, demote].  The timer stands for the five  *)
(* parameters, all treated alike; an update whose timer is Same (nil) has  *)
(* none.                                                                   *)
(***************************************************************************)
TouchesParticipants(update) ==
    \E s \in {update.join, update.leave, update.promote, update.demote} : s # <<>>

\* mutation: updates are applied to whatever is stored
NeverMismatch(group, update) == FALSE

Mismatch(group, update) ==
    TouchesParticipants(update) /\ update.prev # group.version

updateGroupParams(group, update) ==
    IF update.timer = Same THEN group ELSE [group EXCEPT !.timer = update.timer]

\* mutation: who leaves is removed before who joins is added
LeaveFirst(group, update) ==
    IF ~TouchesParticipants(update) THEN group
    ELSE LET left == Leave(NewParticipantsMap(group.participants), update.leave)
             joined == Join(left, update.join)
             ranked == Demote(Promote(joined, update.promote), update.demote)
         IN  [group EXCEPT !.participants = Participants(ranked),
                           !.version = update.version]

updateGroupParticipants(group, update) ==
    IF ~TouchesParticipants(update) THEN group
    ELSE LET joined == Join(NewParticipantsMap(group.participants), update.join)
             left == Leave(joined, update.leave)
             ranked == Demote(Promote(left, update.promote), update.demote)
         IN  [group EXCEPT !.participants = Participants(ranked),
                           !.version = update.version]

\* What UpdateGroupInfo makes of the group when there is no Mismatch.
UpdateGroupInfo(group, update) ==
    updateGroupParticipants(updateGroupParams(group, update), update)
=============================================================================

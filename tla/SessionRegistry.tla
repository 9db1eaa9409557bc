--------------------------- MODULE SessionRegistry ---------------------------
(***************************************************************************)
(* What the session manager promises its callers: under a name there is at *)
(* most one client, only that client is ever online, and it is taken off   *)
(* line before it leaves the registry, for good.                           *)
(***************************************************************************)
CONSTANTS Names, Clients, Null

VARIABLES current,   \* name -> the registered client or Null
          online,    \* the clients with an open connection
          retired    \* the clients that were stopped

vars == <<current, online, retired>>

Registered == {g \in Clients : \E n \in Names : current[n] = g}

Init == /\ current = [n \in Names |-> Null]
        /\ online = {}
        /\ retired = {}

Create(n, g) == /\ current[n] = Null
                /\ g \notin Registered \cup retired
                /\ current' = [current EXCEPT ![n] = g]
                /\ UNCHANGED <<online, retired>>

GoOnline(g) == /\ g \in Registered
               /\ online' = online \cup {g}
               /\ UNCHANGED <<current, retired>>

GoOffline(g) == /\ online' = online \ {g}
                /\ UNCHANGED <<current, retired>>

Remove(n) == /\ current[n] \in Clients \ online
             /\ current' = [current EXCEPT ![n] = Null]
             /\ retired' = retired \cup {current[n]}
             /\ UNCHANGED online

Next == \/ \E n \in Names, g \in Clients : Create(n, g)
        \/ \E g \in Clients : GoOnline(g) \/ GoOffline(g)
        \/ \E n \in Names : Remove(n)

Spec == Init /\ [][Next]_vars
=============================================================================

--------------------------- MODULE MCMessageStore ---------------------------
(* A small instance of MessageStore for TLC: a message m1 and the notice r1
   that revokes it in chat c1, a message m2 in chat c2; chat c3 is ignored. *)
EXTENDS MessageStore, TLC

CONSTANTS m1, r1, m2, c1, c2, c3

MCchatOf == m1 :> c1 @@ r1 :> c1 @@ m2 :> c2
MCtimeOf == m1 :> 1 @@ r1 :> 2 @@ m2 :> 1
MCfromMe == m1 :> TRUE @@ r1 :> TRUE @@ m2 :> FALSE
MCrevokes == m1 :> Null @@ r1 :> m1 @@ m2 :> Null

Symmetry == Permutations(Handlers \ FailingDb)

(* Chat c2 as status@broadcast: its receipts are not applied, as the "Ignore"
   of handleReceipt (storage_event_handler.go:247) says.  False: the branch only
   logs "Ignoring receipt" and goes on to update the messages.              *)
BroadcastReceiptsIgnored ==
    [][\A h \in Handlers : pc[h] = "write" /\ pc'[h] = "done" =>
          chatOf[event[h].id] # c2]_vars
=============================================================================

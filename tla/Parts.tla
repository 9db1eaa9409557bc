--------------------------------- MODULE Parts ---------------------------------
(***************************************************************************)
(* Three parts that share nothing: Labels, Listings and MCGroupInfo.  A    *)
(* behaviour is about one of them (about the messages or the contacts of   *)
(* Listings), the others stay as they are.                                 *)
(***************************************************************************)
EXTENDS Labels, MCGroupInfo

CONSTANTS Ids, ListChats, Saves, Users, userPart, ContactNames,   \* of Listings
          Filter, Limits, Bits, Dialect, Failed, Panicked

VARIABLES part, rows, contacts, walk

Lists == INSTANCE Listings WITH Chats <- ListChats, Names <- ContactNames

ASSUME ListsAssumption == Lists!ParametersFit

PartsInit == /\ part \in {"labels", "messages", "contacts", "group"}
             /\ Init /\ GroupInit /\ Lists!Init
             /\ part # "group" => group.participants = <<>>

PartsNext ==
    \/ /\ part = "labels"
       /\ Next
       /\ UNCHANGED <<part, group, update, rows, contacts, walk>>
    \/ /\ part = "messages"
       /\ Lists!MessagesChange \/ Lists!Walk(Lists!Kinds \ Lists!ContactKinds)
       /\ UNCHANGED <<part, vars, group, update>>
    \/ /\ part = "contacts"
       /\ Lists!ContactsChange \/ Lists!Walk(Lists!ContactKinds)
       /\ UNCHANGED <<part, vars, group, update>>
    \/ /\ part = "group"
       /\ GroupNext
       /\ UNCHANGED <<part, vars, rows, contacts, walk>>

PartsSpec == PartsInit /\ [][PartsNext]_<<part, vars, group, update, rows, contacts, walk>>

(* A client that reads page by page misses nothing that stays (Listings). *)
WalkMissesNothing == part \in {"messages", "contacts"} => Lists!WalkMissesNothing

(* The chat list agrees with the messages (Listings). *)
ChatListIsRight == part = "messages" => Lists!ChatListIsRight

(* Contacts and database cut pages alike (Listings). *)
PaginationsAgree == part = "contacts" => Lists!PaginationsAgree
=============================================================================

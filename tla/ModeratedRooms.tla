--------------------------- MODULE ModeratedRooms ---------------------------
(***************************************************************************)
(* What the signaling engine promises its host about rooms, without        *)
(* sockets, authentication or messages: rooms with at most Capacity        *)
(* members, some of them directors.  A director is a member, and only a    *)
(* room without directors can be entered as one.                           *)
(***************************************************************************)
EXTENDS Integers, FiniteSets

CONSTANTS Peers, Rooms, Capacity

VARIABLES members, directors

roomsVars == <<members, directors>>

Init ==
    /\ members = [r \in Rooms |-> {}]
    /\ directors = [r \in Rooms |-> {}]

Enter(r, p) ==
    /\ p \notin members[r]
    /\ Cardinality(members[r]) < Capacity
    /\ members' = [members EXCEPT ![r] = @ \cup {p}]
    /\ \/ UNCHANGED directors
       \/ /\ directors[r] = {}
          /\ directors' = [directors EXCEPT ![r] = {p}]

Exit(r, p) ==
    /\ p \in members[r]
    /\ members' = [members EXCEPT ![r] = @ \ {p}]
    /\ directors' = [directors EXCEPT ![r] = @ \ {p}]

Appoint(r, p) ==
    /\ p \in members[r]
    /\ directors' = [directors EXCEPT ![r] = @ \cup {p}]
    /\ UNCHANGED members

Dismiss(r, p) ==
    /\ directors' = [directors EXCEPT ![r] = @ \ {p}]
    /\ UNCHANGED members

Next ==
    \E r \in Rooms, p \in Peers :
        Enter(r, p) \/ Exit(r, p) \/ Appoint(r, p) \/ Dismiss(r, p)

Spec == Init /\ [][Next]_roomsVars
=============================================================================

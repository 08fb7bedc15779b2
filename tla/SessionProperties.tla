------------------------- MODULE SessionProperties -------------------------
(***************************************************************************)
(* What the signaling engine promises, stated over Session.                *)
(***************************************************************************)
EXTENDS Session

\* Types of the session's maps, of the suspended joins and of what peers know.
RoomsTypeOK ==
    /\ rooms \in SUBSET Rooms
    /\ peerMap \in [Rooms -> [Peers -> Sockets \cup {NoSocket}]]
    /\ directors \in [Rooms -> SUBSET Peers]
    /\ presence \in [Rooms -> [Peers -> SUBSET Attrs]]
    /\ chat \in [Rooms -> Seq(ChatMsg)]
    /\ said \in [Rooms -> 0..MaxChats]
    /\ view \in [Peers -> View]

TypeOK ==
    /\ conn \in [Sockets -> {"new", "open", "closed"}]
    /\ bound \in [Sockets -> Binding \cup {NoBinding}]
    /\ pending \in SUBSET Join
    /\ peerIndex \in SUBSET Peers
    /\ buckets \in [Peers -> Tokens]
    /\ RoomsTypeOK

\* No interleaving of joins that wait for authentication overfills a room:
\* Room.add counts after the await, in the step that inserts.
CapacityRespected == \A r \in Rooms : Cardinality(Members(r)) <= Capacity

\* roomMap holds exactly the rooms somebody is in: every way out of a room
\* (leave, disconnect, kick) drops a room it empties, and no refused join leaves
\* one behind.
NoEmptyRooms == rooms = {r \in Rooms : Members(r) # {}}

\* The director set never outlives a membership: a departed, evicted or kicked
\* peer holds no authority, so a room without directors can be claimed again.
DirectorsAreMembers == \A r \in Rooms : directors[r] \subseteq Members(r)

\* First claim wins.  While a room has a director, a peer becomes one only by
\* being promoted: it is already a member, nobody joins in that step, and, when
\* enforcement is on, some open socket speaks for a director of that room.
DirectorsAppointed ==
    [][\A r \in Rooms :
         directors[r] # {} /\ ~(directors'[r] \subseteq directors[r]) =>
           /\ directors'[r] \subseteq Members(r)
           /\ UNCHANGED peerMap
           /\ Enforce => \E s \in Sockets, p \in directors[r] :
                            BoundTo(s, [peer |-> p, room |-> r])]_vars

\* The engine implements ModeratedRooms: the membership and the directors of
\* every room change only by one member entering or leaving, or one director
\* being appointed or dismissed, whatever sockets and authentications do.
MR == INSTANCE ModeratedRooms WITH members <- [r \in Rooms |-> Members(r)]
ImplementsModeratedRooms == MR!Spec

\* Holds of the sockets' messages: no peer id is used in two rooms.  (peerIndex,
\* buckets and onSend are keyed by peer id alone.)
OneRoomPerPeer ==
    \A s, t \in Sockets : \A b \in Claims[s], c \in Claims[t] :
        b.peer = c.peer => b.room = c.room

\* The messages a member received since it joined rebuild the room: by peer-joined and
\* peer-left nobody is missed and no departed peer lingers, by presence-snapshot and
\* presence-state it has the presence map entry for entry, across rejoins, evictions by a
\* stale socket, and kicks.
ViewsAgree ==
    OneRoomPerPeer =>
      \A r \in Rooms : \A q \in Members(r) :
        /\ view[q].joined \ {q} = Members(r) \ {q}
        /\ view[q].presence = presence[r]

\* sdp and ice can be routed to exactly the peers that are in a room.
MembersRoutable ==
    OneRoomPerPeer => Routable = UNION {Members(r) : r \in Rooms}

\* The ring buffer replayed to a late joiner is the room's most recent chats,
\* all of them up to the limit, in the order they were accepted.
HistoryIsRecent ==
    \A r \in Rooms :
        LET len == IF said[r] < ChatLimit THEN said[r] ELSE ChatLimit
        IN  /\ Len(chat[r]) = len
            /\ \A i \in 1..len : chat[r][i].n = said[r] - len + i

\* Every peer in a room is reachable: its entry names a socket that is open.
MembersAreConnected ==
    \A r \in Rooms : \A p \in Members(r) : conn[peerMap[r][p]] = "open"

\* A peer that reconnects on a new socket keeps its place when the old socket's
\* close is noticed: a disconnect removes only the entry its own socket holds.
ReconnectKeepsPlace ==
    [][\A s \in Sockets, r \in Rooms, p \in Peers :
         conn[s] = "open" /\ conn'[s] = "closed" =>
           (peerMap'[r][p] = peerMap[r][p] \/ peerMap[r][p] = s)]_vars
=============================================================================

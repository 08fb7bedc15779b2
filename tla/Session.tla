------------------------------ MODULE Session ------------------------------
(***************************************************************************)
(* The signaling engine: `Session` of packages/signaling-protocol, with    *)
(* the `Room` registry and the token buckets it owns.                      *)
(*                                                                         *)
(* Every handler runs to completion without yielding, except `applyJoin`,  *)
(* which suspends at `await this.authenticate(...)` when the host          *)
(* configured an authenticator.  So a step is one whole handler, and a     *)
(* join is two: RequestJoin up to the await, ResolveJoin after it, with    *)
(* anything in between.                                                    *)
(*                                                                         *)
(* Sending is modelled by what the addressee learns: `view[q]` is what     *)
(* peer q was told of its room since its join was accepted.  A thrown      *)
(* error that changes nothing is not a step.                               *)
(***************************************************************************)
EXTENDS Integers, Sequences, FiniteSets

CONSTANTS
    Sockets, Peers, Rooms,  \* socket ids (uuids, never reused), peer ids, room ids
    NoSocket, NoBinding,    \* "absent" values
    Attrs,                  \* keys of a peer's presence attributes
    MuteKeys,               \* the keys "director-muted-audio" / "-video"
    Capacity,               \* maxPeersPerRoom
    Authenticate,           \* is an `authenticate` callback configured?
    Enforce,                \* enforceModerationCommands
    ChatLimit,              \* chatHistoryPerRoom, 0 disables history
    Rate,                   \* Rate.chat, Rate.presence: messages per second, 0: no limit
    Everyone,               \* `to` absent: a chat for the whole room
    Claims,                 \* Claims[s]: the (peer, room) pairs socket s names
    MaxPending,             \* bound: joins awaiting authentication at once
    MaxChats                \* bound: chats accepted by one room object

Binding == [peer: Peers, room: Rooms]
Roles   == {"director", "participant"}
Join    == [socket: Sockets, peer: Peers, room: Rooms, role: Roles, replay: BOOLEAN]
ChatMsg == [n: 1..MaxChats, from: Peers, to: Peers \cup {Everyone}]
View    == [joined: SUBSET Peers, presence: [Peers -> SUBSET Attrs], history: Seq(ChatMsg)]
Tokens  == [chat: -1..Rate.chat, presence: -1..Rate.presence]

ASSUME SessionConstants ==
    /\ IsFiniteSet(Peers)
    /\ Capacity \in Nat \ {0}
    /\ MuteKeys \subseteq Attrs
    /\ Authenticate \in BOOLEAN /\ Enforce \in BOOLEAN
    /\ ChatLimit \in Nat /\ Rate \in [chat: Nat, presence: Nat]
    /\ MaxPending \in Nat /\ MaxChats \in Nat
    /\ NoSocket \notin Sockets
    /\ NoBinding \notin Binding
    /\ Everyone \notin Peers
    /\ Claims \in [Sockets -> SUBSET Binding]

VARIABLES
    conn,       \* conn[s]: "new", "open" (registered in `sockets`) or "closed"
    bound,      \* bound[s]: peerId/roomId of s's SocketRecord
    pending,    \* joins suspended at `await this.authenticate`
    rooms,      \* keys of roomMap
    peerMap,    \* peerMap[r][p]: socketId of p's entry in room r
    directors,  \* directorSet of each room
    presence,   \* presence[r][p]: keys set in p's presence map
    chat,       \* chatBuffer of each room, oldest first
    said,       \* number of chats each room object has accepted
    peerIndex,  \* keys of the cross-room peerIndex
    buckets,    \* buckets[p]: tokens left, or NoBucket
    view        \* what each peer was told of its room since its join was accepted

roomVars == <<rooms, peerMap, directors, presence, chat, said, view>>
vars == <<conn, bound, pending, rooms, peerMap, directors, presence, chat, said,
          peerIndex, buckets, view>>

-----------------------------------------------------------------------------
\* Rooms and their peers.

Members(r) == {p \in Peers : peerMap[r][p] # NoSocket}

NoPresence == [p \in Peers |-> {}]
NoView == [joined |-> {}, presence |-> NoPresence, history |-> <<>>]
NoBucket == [chat |-> -1, presence |-> -1]
NewBucket == Rate

\* Room.setPresence: merge `change`, a null ("clear") deleting its key.
Merge(attrs, change) ==
    {a \in Attrs : change[a] = "set" \/ (a \in attrs /\ change[a] = "keep")}

\* Room.pushChat: append, then shift down to the limit.
PushChatDropNewest(buffer, m) ==    \* bug: a full buffer drops the new entry
    IF Len(buffer) < ChatLimit THEN Append(buffer, m) ELSE buffer
PushChat(buffer, m) ==
    IF ChatLimit = 0 THEN <<>>
    ELSE IF Len(buffer) < ChatLimit THEN Append(buffer, m)
    ELSE Append(Tail(buffer), m)

Registered(s) == conn[s] = "open"
BoundTo(s, b) == Registered(s) /\ bound[s] = b

\* requireDirectorOrRelay, and the room lookup every moderation handler makes.
MayModerate(s, b) ==
    /\ BoundTo(s, b)
    /\ b.room \in rooms
    /\ Enforce => b.peer \in directors[b.room]

\* The peers an sdp or ice message can be routed to (applySdp, applyIce).
Routable == peerIndex

\* bucketsFor(p), then consume() one token of the given kind.  Without limits the
\* entry holds no limiter and is not tracked.
AlwaysToken(b, kind) == TRUE          \* bug: the empty bucket is not refused
HasToken(b, kind) == Rate[kind] = 0 \/ b[kind] > 0
Consume(p, kind) ==
    LET b == IF buckets[p] = NoBucket THEN NewBucket ELSE buckets[p]
    IN  /\ HasToken(b, kind)
        /\ buckets' = IF Rate = [chat |-> 0, presence |-> 0] THEN buckets
                      ELSE IF Rate[kind] = 0 THEN [buckets EXCEPT ![p] = b]
                      ELSE [buckets EXCEPT ![p] = [b EXCEPT ![kind] = @ - 1]]

-----------------------------------------------------------------------------
Init ==
    /\ conn = [s \in Sockets |-> "new"]
    /\ bound = [s \in Sockets |-> NoBinding]
    /\ pending = {}
    /\ rooms = {}
    /\ peerMap = [r \in Rooms |-> [p \in Peers |-> NoSocket]]
    /\ directors = [r \in Rooms |-> {}]
    /\ presence = [r \in Rooms |-> NoPresence]
    /\ chat = [r \in Rooms |-> <<>>]
    /\ said = [r \in Rooms |-> 0]
    /\ peerIndex = {}
    /\ buckets = [p \in Peers |-> NoBucket]
    /\ view = [p \in Peers |-> NoView]

-----------------------------------------------------------------------------
\* Socket lifecycle.

HandleConnection(s) ==
    /\ conn[s] = "new"
    /\ conn' = [conn EXCEPT ![s] = "open"]
    /\ UNCHANGED <<bound, pending, roomVars, peerIndex, buckets>>

\* `room.size === 0` once p has left.
EmptyRoomKept(r, p) == FALSE        \* bug: never collect a room
LastToLeave(r, p) == Members(r) \subseteq {p}

DirectorKept(r, p) == directors[r]  \* bug: forget removeDirector
DirectorsWithout(r, p) == directors[r] \ {p}

\* What q knows after peer-left about p and, if p had presence, an empty
\* presence-state.
ToldNothing(q, r, p) == view[q]                                 \* bug: no broadcast
ToldLeftOnly(q, r, p) == [view[q] EXCEPT !.joined = @ \ {p}]    \* bug: no presence-state
ToldLeft(q, r, p) ==
    [view[q] EXCEPT !.joined = @ \ {p},
                    !.presence = IF presence[r][p] # {} THEN [@ EXCEPT ![p] = {}] ELSE @]

\* Take p out of room r: entry, director flag and presence; tell whoever
\* remains; drop an empty room.  Shared by applyLeave, handleDisconnect and
\* applyKick.
RemovePeer(r, p) ==
    /\ peerMap' = [peerMap EXCEPT ![r][p] = NoSocket]
    /\ view' = [q \in Peers |-> IF q = p THEN NoView
                                ELSE IF q \in Members(r) THEN ToldLeft(q, r, p)
                                ELSE view[q]]
    /\ IF LastToLeave(r, p)
       THEN /\ rooms' = rooms \ {r}
            /\ directors' = [directors EXCEPT ![r] = {}]
            /\ presence' = [presence EXCEPT ![r] = NoPresence]
            /\ chat' = [chat EXCEPT ![r] = <<>>]
            /\ said' = [said EXCEPT ![r] = 0]
       ELSE /\ directors' = [directors EXCEPT ![r] = DirectorsWithout(r, p)]
            /\ presence' = [presence EXCEPT ![r][p] = {}]
            /\ UNCHANGED <<rooms, chat, said>>

StillIndexed(p) == peerIndex        \* bug: forget peerIndex.delete
Unindexed(p) == peerIndex \ {p}

\* The socket's binding decides who leaves, whichever socket holds the entry.
HandleDisconnect(s) ==
    /\ Registered(s)
    /\ conn' = [conn EXCEPT ![s] = "closed"]
    /\ bound' = [bound EXCEPT ![s] = NoBinding]
    /\ UNCHANGED <<pending>>
    /\ \/ /\ bound[s] = NoBinding
          /\ UNCHANGED <<roomVars, peerIndex, buckets>>
       \/ \E b \in Binding :
          /\ bound[s] = b
          /\ peerIndex' = Unindexed(b.peer)
          /\ buckets' = [buckets EXCEPT ![b.peer] = NoBucket]
          /\ IF b.room \in rooms THEN RemovePeer(b.room, b.peer) ELSE UNCHANGED roomVars

-----------------------------------------------------------------------------
\* Join.

\* First-claim rule for the director role.
AlwaysClaimable(r) == TRUE          \* bug: no conflict check
Claimable(r) == directors[r] = {}

\* Room.add refuses only a new peer id in a full room.
HasSpaceOffByOne(r, p) == p \in Members(r) \/ Cardinality(Members(r)) <= Capacity
HasSpace(r, p) == p \in Members(r) \/ Cardinality(Members(r)) < Capacity

\* The rest of applyJoin once authenticated: refuse a second director; bind the
\* socket; Room.add (which throws when full, the binding already made); index
\* the peer; then peer-joined both ways and the presence snapshot.  A full room has
\* members, so getOrCreateRoom creates nothing before Room.add throws.
Admit(j) ==
    LET existing == Members(j.room)
        Told(q) == [view[q] EXCEPT !.joined = @ \cup {j.peer}]
    IN  /\ j.role = "director" => Claimable(j.room)
        /\ bound' = [bound EXCEPT ![j.socket] = [peer |-> j.peer, room |-> j.room]]
        /\ \/ /\ ~HasSpace(j.room, j.peer)
              /\ UNCHANGED <<roomVars, peerIndex>>
           \/ /\ HasSpace(j.room, j.peer)
              /\ rooms' = rooms \cup {j.room}
              /\ peerMap' = [peerMap EXCEPT ![j.room][j.peer] = j.socket]
              /\ peerIndex' = peerIndex \cup {j.peer}
              /\ directors' = [directors EXCEPT ![j.room] =
                                IF j.role = "director" THEN @ \cup {j.peer} ELSE @]
              /\ view' = [q \in Peers |->
                           IF q = j.peer
                           THEN [joined |-> existing, presence |-> presence[j.room],
                                 history |-> IF j.replay THEN chat[j.room] ELSE <<>>]
                           ELSE IF q \in existing THEN Told(q) ELSE view[q]]
              /\ UNCHANGED <<presence, chat, said>>

JoinsOf(s) ==
    {j \in Join : /\ j.socket = s
                  /\ [peer |-> j.peer, room |-> j.room] \in Claims[s]
                  /\ j.replay => ChatLimit > 0}

\* No authenticator: the join is applied within the message's own turn.
ApplyJoin(j) ==
    /\ Registered(j.socket) /\ ~Authenticate
    /\ Admit(j)
    /\ UNCHANGED <<conn, pending, buckets>>

\* With an authenticator the handler suspends, holding the socket record.
RequestJoin(j) ==
    /\ Registered(j.socket) /\ Authenticate
    /\ Cardinality(pending) < MaxPending
    /\ pending' = pending \cup {j}
    /\ UNCHANGED <<conn, bound, roomVars, peerIndex, buckets>>

\* The authenticator answers; the socket may have closed meanwhile.
ResolveJoin(j) ==
    /\ j \in pending
    /\ pending' = pending \ {j}
    /\ Admit(j)
    /\ UNCHANGED <<conn, buckets>>

\* Authentication refused, or the join refused as a second director.
RejectJoin(j) ==
    /\ j \in pending
    /\ pending' = pending \ {j}
    /\ UNCHANGED <<conn, bound, roomVars, peerIndex, buckets>>

\* `message.peer` is not compared with the socket's binding.
ApplyLeave(s, b) ==
    /\ Registered(s) /\ b \in Claims[s]
    /\ b.room \in rooms /\ b.peer \in Members(b.room)
    /\ peerIndex' = Unindexed(b.peer)
    /\ bound' = IF bound[s] = b THEN [bound EXCEPT ![s] = NoBinding] ELSE bound
    /\ RemovePeer(b.room, b.peer)
    /\ UNCHANGED <<conn, pending, buckets>>

-----------------------------------------------------------------------------
\* Presence and chat.

\* Store p's attributes in room r and send presence-state to every member.
SetPresence(r, p, change) ==
    LET next == Merge(presence[r][p], change)
    IN  /\ presence' = [presence EXCEPT ![r][p] = next]
        /\ view' = [q \in Peers |-> IF q \in Members(r)
                                    THEN [view[q] EXCEPT !.presence[p] = next]
                                    ELSE view[q]]

ApplyPresenceUpdate(s, b, change) ==
    /\ BoundTo(s, b)
    /\ Consume(b.peer, "presence")
    /\ IF b.room \in rooms THEN SetPresence(b.room, b.peer, change)
       ELSE UNCHANGED <<presence, view>>
    /\ UNCHANGED <<conn, bound, pending, rooms, peerMap, directors, chat, said, peerIndex>>

\* Relay the chat (to everyone, or to one peer: no state) and push it, whoever it
\* is for.
ApplyChat(s, b, to) ==
    /\ BoundTo(s, b)
    /\ Consume(b.peer, "chat")
    /\ IF b.room \in rooms
       THEN /\ said[b.room] < MaxChats
            /\ said' = [said EXCEPT ![b.room] = @ + 1]
            /\ chat' = [chat EXCEPT ![b.room] =
                          PushChat(@, [n |-> said[b.room] + 1, from |-> b.peer, to |-> to])]
       ELSE UNCHANGED <<said, chat>>
    /\ UNCHANGED <<conn, bound, pending, rooms, peerMap, directors, presence, peerIndex, view>>

\* Time passes: a token comes back to a bucket that is not full.
Refill(p, kind) ==
    /\ buckets[p] # NoBucket /\ buckets[p][kind] < Rate[kind]
    /\ buckets' = [buckets EXCEPT ![p][kind] = @ + 1]
    /\ UNCHANGED <<conn, bound, pending, roomVars, peerIndex>>

-----------------------------------------------------------------------------
\* Moderation.

\* s is bound to b throughout.
AnyTarget(b, t) == TRUE             \* bug: target not looked up in the room
TargetInRoom(b, t) == t \in Members(b.room)

ApplyPromote(s, b, t) ==
    /\ MayModerate(s, b)
    /\ TargetInRoom(b, t)
    /\ directors' = [directors EXCEPT ![b.room] = @ \cup {t}]
    /\ UNCHANGED <<conn, bound, pending, rooms, peerMap, presence, chat, said,
                   peerIndex, buckets, view>>

ApplyDemote(s, b, t) ==
    /\ MayModerate(s, b)
    /\ directors' = [directors EXCEPT ![b.room] = @ \ {t}]
    /\ UNCHANGED <<conn, bound, pending, rooms, peerMap, presence, chat, said,
                   peerIndex, buckets, view>>

\* applyMute sets the key of the muted kind, applyUnmute clears it.
Mute(s, b, t, key, how) ==
    /\ MayModerate(s, b)
    /\ TargetInRoom(b, t)
    /\ SetPresence(b.room, t, [a \in Attrs |-> IF a = key THEN how ELSE "keep"])
    /\ UNCHANGED <<conn, bound, pending, rooms, peerMap, directors, chat, said,
                   peerIndex, buckets>>

ApplyMute(s, b, t, key) == Mute(s, b, t, key, "set")
ApplyUnmute(s, b, t, key) == Mute(s, b, t, key, "clear")

\* Without enforcement a kick only relays the `kicked` notification.
ApplyKick(s, b, t) ==
    /\ MayModerate(s, b) /\ Enforce
    /\ TargetInRoom(b, t)
    /\ RemovePeer(b.room, t)
    /\ peerIndex' = Unindexed(t)
    /\ buckets' = [buckets EXCEPT ![t] = NoBucket]
    /\ bound' = [u \in Sockets |-> IF BoundTo(u, [peer |-> t, room |-> b.room])
                                   THEN NoBinding ELSE bound[u]]
    /\ UNCHANGED <<conn, pending>>

-----------------------------------------------------------------------------
\* The messages other than join.
HandleMessage(s) ==
    \/ \E b \in Claims[s] : ApplyLeave(s, b)
    \/ \E b \in Binding :
        \/ \E change \in [Attrs -> {"keep", "set", "clear"}] :
                ApplyPresenceUpdate(s, b, change)
        \/ \E to \in Peers \cup {Everyone} : ApplyChat(s, b, to)
        \/ \E t \in Peers :
            \/ ApplyPromote(s, b, t) \/ ApplyDemote(s, b, t) \/ ApplyKick(s, b, t)
            \/ \E key \in MuteKeys : ApplyMute(s, b, t, key) \/ ApplyUnmute(s, b, t, key)

\* The steps no socket event triggers: authentication answers and time.
Background ==
    \/ \E j \in pending : ResolveJoin(j) \/ RejectJoin(j)
    \/ \E p \in Peers, kind \in {"chat", "presence"} : Refill(p, kind)

Next ==
    \/ \E s \in Sockets :
        \/ HandleConnection(s)
        \/ HandleDisconnect(s)
        \/ \E j \in JoinsOf(s) : ApplyJoin(j) \/ RequestJoin(j)
        \/ HandleMessage(s)
    \/ Background

Spec == Init /\ [][Next]_vars
=============================================================================

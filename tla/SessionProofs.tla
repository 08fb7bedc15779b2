--------------------------- MODULE SessionProofs ---------------------------
(***************************************************************************)
(* Proofs about Session, and about its WebSocket host SignalingServer, for *)
(* every number of sockets, peers and rooms: the rooms and who is in them; *)
(* what the clients are told and sent; and the sockets it is sent to.      *)
(***************************************************************************)
EXTENDS SignalingServer, FiniteSetTheorems, TLAPS

-----------------------------------------------------------------------------
\* Type correctness.

\* A token is only taken from a bucket that has one, so buckets keep their range.
LEMMA ConsumeType ==
    ASSUME TypeOK, NEW p \in Peers, NEW kind \in {"chat", "presence"}, Consume(p, kind)
    PROVE  buckets' \in [Peers -> Tokens]
<1> DEFINE b == IF buckets[p] = NoBucket THEN NewBucket ELSE buckets[p]
<1>1. b \in Tokens
    BY SessionConstants DEF TypeOK, NewBucket, Tokens
<1>2. CASE Rate = [chat |-> 0, presence |-> 0]
    BY <1>2 DEF Consume, TypeOK
<1>3. CASE Rate # [chat |-> 0, presence |-> 0] /\ Rate[kind] = 0
    BY <1>1, <1>3 DEF Consume, TypeOK
<1>4. CASE Rate # [chat |-> 0, presence |-> 0] /\ Rate[kind] # 0
    <2>1. b[kind] > 0 /\ buckets' = [buckets EXCEPT ![p] = [b EXCEPT ![kind] = @ - 1]]
        BY <1>4 DEF Consume, HasToken
    <2>2. [b EXCEPT ![kind] = @ - 1] \in Tokens
        <3>1. CASE kind = "chat"
            BY <1>1, <2>1, <3>1, SessionConstants DEF Tokens
        <3>2. CASE kind = "presence"
            BY <1>1, <2>1, <3>2, SessionConstants DEF Tokens
        <3> QED BY <3>1, <3>2
    <2> QED BY <2>1, <2>2 DEF TypeOK
<1> QED BY <1>2, <1>3, <1>4

\* A peer that leaves a room takes its attributes and its director flag with it; what the
\* others are told keeps the types.
LEMMA RemovePeerType ==
    ASSUME RoomsTypeOK, NEW r \in Rooms, NEW p \in Peers, RemovePeer(r, p)
    PROVE  RoomsTypeOK'
<1>1. peerMap' \in [Rooms -> [Peers -> Sockets \cup {NoSocket}]]
    BY DEF RoomsTypeOK, RemovePeer
<1>2. view' \in [Peers -> View]
    <2>1. NoView \in View
        BY DEF NoView, NoPresence, View
    <2>2. ASSUME NEW q \in Peers
          PROVE  ToldLeft(q, r, p) \in View
        <3> DEFINE pres == IF presence[r][p] # {} THEN [view[q].presence EXCEPT ![p] = {}]
                           ELSE view[q].presence
        <3>1. view[q] \in View
            BY DEF RoomsTypeOK
        <3>2. pres \in [Peers -> SUBSET Attrs]
            BY <3>1 DEF View
        <3> HIDE DEF pres
        <3>3. [view[q] EXCEPT !.joined = @ \ {p}, !.presence = pres] \in View
            BY <3>1, <3>2 DEF View
        <3> QED BY <3>3 DEF ToldLeft, pres
    <2> QED BY <2>1, <2>2 DEF RoomsTypeOK, RemovePeer
<1>3. CASE LastToLeave(r, p)
    <2>1. /\ rooms' = rooms \ {r}
          /\ directors' = [directors EXCEPT ![r] = {}]
          /\ presence' = [presence EXCEPT ![r] = NoPresence]
          /\ chat' = [chat EXCEPT ![r] = <<>>]
          /\ said' = [said EXCEPT ![r] = 0]
        BY <1>3 DEF RemovePeer
    <2>2. chat' \in [Rooms -> Seq(ChatMsg)]
        BY <2>1 DEF RoomsTypeOK
    <2>3. said' \in [Rooms -> 0..MaxChats]
        BY <2>1, SessionConstants DEF RoomsTypeOK
    <2>4. presence' \in [Rooms -> [Peers -> SUBSET Attrs]]
        BY <2>1 DEF RoomsTypeOK, NoPresence
    <2> QED BY <1>1, <1>2, <2>1, <2>2, <2>3, <2>4 DEF RoomsTypeOK
<1>4. CASE ~LastToLeave(r, p)
    <2>1. /\ directors' = [directors EXCEPT ![r] = directors[r] \ {p}]
          /\ presence' = [presence EXCEPT ![r][p] = {}]
          /\ UNCHANGED <<rooms, chat, said>>
        BY <1>4 DEF RemovePeer, DirectorsWithout
    <2>2. presence' \in [Rooms -> [Peers -> SUBSET Attrs]]
        BY <2>1 DEF RoomsTypeOK
    <2>3. directors' \in [Rooms -> SUBSET Peers]
        BY <2>1 DEF RoomsTypeOK
    <2> QED BY <1>1, <1>2, <2>1, <2>2, <2>3 DEF RoomsTypeOK
<1> QED BY <1>3, <1>4

\* Attributes are merged into those a peer has, and every view stays one of attributes.
LEMMA SetPresenceType ==
    ASSUME RoomsTypeOK, NEW r \in Rooms, NEW p \in Peers, NEW change, SetPresence(r, p, change)
    PROVE  presence' \in [Rooms -> [Peers -> SUBSET Attrs]] /\ view' \in [Peers -> View]
<1> DEFINE next == Merge(presence[r][p], change)
<1>1. next \in SUBSET Attrs
    BY DEF Merge
<1> HIDE DEF next
<1>2. presence' = [presence EXCEPT ![r][p] = next]
    BY DEF SetPresence, next
<1>3. view' = [q \in Peers |-> IF q \in Members(r)
                               THEN [view[q] EXCEPT !.presence[p] = next] ELSE view[q]]
    BY DEF SetPresence, next
<1>4. ASSUME NEW v \in View
      PROVE  [v EXCEPT !.presence[p] = next] \in View
    <2>1. [v.presence EXCEPT ![p] = next] \in [Peers -> SUBSET Attrs]
        BY <1>1 DEF View
    <2>2. [v EXCEPT !.presence[p] = next] = [v EXCEPT !.presence = [v.presence EXCEPT ![p] = next]]
        BY DEF View
    <2> QED BY <2>1, <2>2 DEF View
<1>5. presence' \in [Rooms -> [Peers -> SUBSET Attrs]]
    BY <1>1, <1>2 DEF RoomsTypeOK
<1>6. \A q \in Peers : view[q] \in View
    BY DEF RoomsTypeOK
<1>7. view' \in [Peers -> View]
    BY <1>3, <1>4, <1>6
<1> QED BY <1>5, <1>7

\* A join that is admitted leaves rooms, bindings and the index well typed.
LEMMA AdmitType ==
    ASSUME TypeOK, NEW j \in Join, Admit(j)
    PROVE  /\ RoomsTypeOK'
           /\ bound' \in [Sockets -> Binding \cup {NoBinding}]
           /\ peerIndex' \in SUBSET Peers
<1>1. /\ j.socket \in Sockets /\ j.peer \in Peers /\ j.room \in Rooms
      /\ [peer |-> j.peer, room |-> j.room] \in Binding
    BY DEF Join, Binding
<1>2. bound' \in [Sockets -> Binding \cup {NoBinding}]
    BY <1>1 DEF Admit, TypeOK
<1>3. CASE UNCHANGED <<roomVars, peerIndex>>
    BY <1>2, <1>3 DEF TypeOK, RoomsTypeOK, roomVars
<1>4. CASE ~UNCHANGED <<roomVars, peerIndex>>
    <2> DEFINE existing == Members(j.room)
               mine == [joined |-> existing, presence |-> presence[j.room],
                        history |-> IF j.replay THEN chat[j.room] ELSE <<>>]
    <2>1. /\ rooms' = rooms \cup {j.room}
          /\ peerMap' = [peerMap EXCEPT ![j.room][j.peer] = j.socket]
          /\ peerIndex' = peerIndex \cup {j.peer}
          /\ directors' = [directors EXCEPT ![j.room] =
                             IF j.role = "director" THEN @ \cup {j.peer} ELSE @]
          /\ view' = [q \in Peers |->
                        IF q = j.peer THEN mine
                        ELSE IF q \in existing THEN [view[q] EXCEPT !.joined = @ \cup {j.peer}]
                        ELSE view[q]]
          /\ UNCHANGED <<presence, chat, said>>
        BY <1>4 DEF Admit
    <2>2. mine \in View
        <3>1. presence[j.room] \in [Peers -> SUBSET Attrs] /\ chat[j.room] \in Seq(ChatMsg)
            BY <1>1 DEF TypeOK, RoomsTypeOK
        <3>2. existing \in SUBSET Peers
            BY DEF Members
        <3>3. <<>> \in Seq(ChatMsg)
            OBVIOUS
        <3> QED BY <3>1, <3>2, <3>3 DEF View
    <2>3. ASSUME NEW q \in Peers
          PROVE  view[q] \in View /\ [view[q] EXCEPT !.joined = @ \cup {j.peer}] \in View
        <3>1. view[q] \in View
            BY DEF TypeOK, RoomsTypeOK
        <3> QED BY <1>1, <3>1 DEF View
    <2> HIDE DEF mine, existing
    <2>4. view' \in [Peers -> View]
        BY <2>1, <2>2, <2>3
    <2>5. peerMap' \in [Rooms -> [Peers -> Sockets \cup {NoSocket}]]
        BY <1>1, <2>1 DEF TypeOK, RoomsTypeOK
    <2>6. directors' \in [Rooms -> SUBSET Peers]
        BY <1>1, <2>1 DEF TypeOK, RoomsTypeOK
    <2>7. rooms' \in SUBSET Rooms /\ peerIndex' \in SUBSET Peers
        BY <1>1, <2>1 DEF TypeOK, RoomsTypeOK
    <2> QED BY <1>2, <2>1, <2>4, <2>5, <2>6, <2>7 DEF TypeOK, RoomsTypeOK
<1> QED BY <1>3, <1>4

\* PushChat keeps a buffer of chats a buffer of chats.
LEMMA PushChatType ==
    ASSUME NEW buffer \in Seq(ChatMsg), NEW m \in ChatMsg, ChatLimit \in Nat
    PROVE  PushChat(buffer, m) \in Seq(ChatMsg)
<1>1. CASE ChatLimit = 0
    BY <1>1 DEF PushChat
<1>2. CASE ChatLimit # 0 /\ Len(buffer) < ChatLimit
    BY <1>2 DEF PushChat
<1>3. CASE ChatLimit # 0 /\ ~(Len(buffer) < ChatLimit)
    <2>1. Tail(buffer) \in Seq(ChatMsg)
        BY <1>3
    <2> QED BY <1>3, <2>1 DEF PushChat
<1> QED BY <1>1, <1>2, <1>3

\* The engine starts with no room, no binding and full buckets.
LEMMA TypeInit == Init => TypeOK
BY SessionConstants
   DEF Init, TypeOK, RoomsTypeOK, NoPresence, NoBucket, NoView, View, Tokens

\* One step per action; those that touch a room go through the lemmas above.
LEMMA TypeStep == TypeOK /\ [Next]_vars => TypeOK'
<1> SUFFICES ASSUME TypeOK, [Next]_vars PROVE TypeOK'
    OBVIOUS
<1> USE DEF roomVars
<1>1. ASSUME NEW s \in Sockets, HandleConnection(s) PROVE TypeOK'
    BY <1>1 DEF HandleConnection, TypeOK, RoomsTypeOK
<1>2. ASSUME NEW s \in Sockets, HandleDisconnect(s) PROVE TypeOK'
    <2>1. /\ conn' \in [Sockets -> {"new", "open", "closed"}]
          /\ bound' \in [Sockets -> Binding \cup {NoBinding}]
          /\ pending' = pending
        BY <1>2 DEF HandleDisconnect, TypeOK
    <2>2. CASE UNCHANGED <<roomVars, peerIndex, buckets>>
        BY <2>1, <2>2 DEF TypeOK, RoomsTypeOK
    <2>3. CASE ~UNCHANGED <<roomVars, peerIndex, buckets>>
        <3>1. PICK b \in Binding :
                 /\ peerIndex' = Unindexed(b.peer)
                 /\ buckets' = [buckets EXCEPT ![b.peer] = NoBucket]
                 /\ \/ b.room \in rooms /\ RemovePeer(b.room, b.peer)
                    \/ UNCHANGED roomVars
            BY <1>2, <2>3 DEF HandleDisconnect
        <3>2. b.peer \in Peers /\ b.room \in Rooms
            BY DEF Binding
        <3>3. RoomsTypeOK'
            BY <3>1, <3>2, RemovePeerType DEF TypeOK, RoomsTypeOK
        <3>4. NoBucket \in Tokens
            BY SessionConstants DEF NoBucket, Tokens
        <3>5. buckets' \in [Peers -> Tokens] /\ peerIndex' \in SUBSET Peers
            BY <3>1, <3>4 DEF TypeOK, Unindexed
        <3> QED BY <2>1, <3>3, <3>5 DEF TypeOK
    <2> QED BY <2>2, <2>3
<1>3. ASSUME NEW j \in Join, ApplyJoin(j) PROVE TypeOK'
    BY <1>3, AdmitType DEF ApplyJoin, TypeOK
<1>4. ASSUME NEW j \in Join, RequestJoin(j) PROVE TypeOK'
    BY <1>4 DEF RequestJoin, TypeOK, RoomsTypeOK
<1>5. ASSUME NEW j \in pending, ResolveJoin(j) PROVE TypeOK'
    <2>1. j \in Join
        BY DEF TypeOK
    <2> QED BY <1>5, <2>1, AdmitType DEF ResolveJoin, TypeOK
<1>6. ASSUME NEW j \in pending, RejectJoin(j) PROVE TypeOK'
    BY <1>6 DEF RejectJoin, TypeOK, RoomsTypeOK
<1>7. ASSUME NEW s \in Sockets, NEW b \in Claims[s], ApplyLeave(s, b) PROVE TypeOK'
    <2>1. b \in Binding /\ b.peer \in Peers /\ b.room \in Rooms
        BY SessionConstants DEF Binding
    <2>2. RoomsTypeOK'
        BY <1>7, <2>1, RemovePeerType DEF ApplyLeave, TypeOK
    <2> QED BY <1>7, <2>2 DEF ApplyLeave, TypeOK, Unindexed
<1>8. ASSUME NEW s \in Sockets, NEW b \in Binding,
             NEW change \in [Attrs -> {"keep", "set", "clear"}],
             ApplyPresenceUpdate(s, b, change)
      PROVE  TypeOK'
    <2>1. b.peer \in Peers /\ b.room \in Rooms
        BY DEF Binding
    <2>2. buckets' \in [Peers -> Tokens]
        BY <1>8, <2>1, ConsumeType DEF ApplyPresenceUpdate
    <2>3. presence' \in [Rooms -> [Peers -> SUBSET Attrs]] /\ view' \in [Peers -> View]
        BY <1>8, <2>1, SetPresenceType DEF ApplyPresenceUpdate, TypeOK, RoomsTypeOK
    <2> QED BY <1>8, <2>2, <2>3 DEF ApplyPresenceUpdate, TypeOK, RoomsTypeOK
<1>9. ASSUME NEW s \in Sockets, NEW b \in Binding, NEW to \in Peers \cup {Everyone},
             ApplyChat(s, b, to)
      PROVE  TypeOK'
    <2>1. b.peer \in Peers /\ b.room \in Rooms
        BY DEF Binding
    <2>2. buckets' \in [Peers -> Tokens]
        BY <1>9, <2>1, ConsumeType DEF ApplyChat
    <2>3. chat' \in [Rooms -> Seq(ChatMsg)] /\ said' \in [Rooms -> 0..MaxChats]
        <3>1. CASE b.room \in rooms
            <4> DEFINE m == [n |-> said[b.room] + 1, from |-> b.peer, to |-> to]
            <4>1. /\ said[b.room] < MaxChats
                  /\ said' = [said EXCEPT ![b.room] = @ + 1]
                  /\ chat' = [chat EXCEPT ![b.room] = PushChat(chat[b.room], m)]
                BY <1>9, <3>1 DEF ApplyChat
            <4>2. said[b.room] \in 0..MaxChats /\ said[b.room] + 1 \in 1..MaxChats
                BY <2>1, <4>1, SessionConstants DEF TypeOK, RoomsTypeOK
            <4>3. m \in ChatMsg
                BY <2>1, <4>2 DEF ChatMsg
            <4> HIDE DEF m
            <4>4. PushChat(chat[b.room], m) \in Seq(ChatMsg)
                BY <2>1, <4>3, PushChatType, SessionConstants DEF TypeOK, RoomsTypeOK
            <4>5. said[b.room] + 1 \in 0..MaxChats
                BY <4>2, SessionConstants
            <4> QED BY <2>1, <4>1, <4>4, <4>5 DEF TypeOK, RoomsTypeOK
        <3>2. CASE b.room \notin rooms
            BY <1>9, <3>2 DEF ApplyChat, TypeOK, RoomsTypeOK
        <3> QED BY <3>1, <3>2
    <2> QED BY <1>9, <2>2, <2>3 DEF ApplyChat, TypeOK, RoomsTypeOK
<1>10. ASSUME NEW s \in Sockets, NEW b \in Binding, NEW t \in Peers, ApplyPromote(s, b, t)
       PROVE  TypeOK'
    BY <1>10 DEF ApplyPromote, TypeOK, RoomsTypeOK, Binding
<1>11. ASSUME NEW s \in Sockets, NEW b \in Binding, NEW t \in Peers, ApplyDemote(s, b, t)
       PROVE  TypeOK'
    BY <1>11 DEF ApplyDemote, TypeOK, RoomsTypeOK, Binding
<1>12. ASSUME NEW s \in Sockets, NEW b \in Binding, NEW t \in Peers, NEW key, NEW how,
              Mute(s, b, t, key, how)
       PROVE  TypeOK'
    <2>1. b.room \in Rooms
        BY DEF Binding
    <2>2. presence' \in [Rooms -> [Peers -> SUBSET Attrs]] /\ view' \in [Peers -> View]
        BY <1>12, <2>1, SetPresenceType DEF Mute, TypeOK
    <2> QED BY <1>12, <2>2 DEF Mute, TypeOK, RoomsTypeOK
<1>13. ASSUME NEW s \in Sockets, NEW b \in Binding, NEW t \in Peers, ApplyKick(s, b, t)
       PROVE  TypeOK'
    <2>1. b.room \in Rooms
        BY DEF Binding
    <2>2. RoomsTypeOK'
        BY <1>13, <2>1, RemovePeerType DEF ApplyKick, TypeOK
    <2>3. NoBucket \in Tokens
        BY SessionConstants DEF NoBucket, Tokens
    <2>4. buckets' \in [Peers -> Tokens]
        BY <1>13, <2>3 DEF ApplyKick, TypeOK
    <2>5. bound' \in [Sockets -> Binding \cup {NoBinding}]
        BY <1>13 DEF ApplyKick, TypeOK
    <2> QED BY <1>13, <2>2, <2>4, <2>5 DEF ApplyKick, TypeOK, Unindexed
<1>14. ASSUME NEW p \in Peers, NEW kind \in {"chat", "presence"}, Refill(p, kind)
       PROVE  TypeOK'
    <2>1. buckets[p] \in Tokens
        BY DEF TypeOK
    <2>2. [buckets[p] EXCEPT ![kind] = @ + 1] \in Tokens
        <3>1. CASE kind = "chat"
            BY <1>14, <2>1, <3>1, SessionConstants DEF Refill, Tokens
        <3>2. CASE kind = "presence"
            BY <1>14, <2>1, <3>2, SessionConstants DEF Refill, Tokens
        <3> QED BY <3>1, <3>2
    <2>3. buckets' = [buckets EXCEPT ![p] = [buckets[p] EXCEPT ![kind] = @ + 1]]
        BY <1>14, <2>1 DEF Refill, TypeOK, Tokens
    <2>4. buckets' \in [Peers -> Tokens]
        BY <2>2, <2>3 DEF TypeOK
    <2> QED BY <1>14, <2>4 DEF Refill, TypeOK, RoomsTypeOK
<1>15. CASE UNCHANGED vars
    BY <1>15 DEF vars, TypeOK, RoomsTypeOK
<1> QED
    BY <1>1, <1>2, <1>3, <1>4, <1>5, <1>6, <1>7, <1>8, <1>9, <1>10, <1>11, <1>12, <1>13,
       <1>14, <1>15
    DEF Next, HandleMessage, Background, ApplyMute, ApplyUnmute, JoinsOf

\* In every reachable state the session's maps have their types; in particular
\* no token bucket is overdrawn and no chat or join is malformed.
THEOREM TypeCorrect == Spec => []TypeOK
<1>1. Init => TypeOK
    BY TypeInit
<1>2. TypeOK /\ [Next]_vars => TypeOK'
    BY TypeStep
<1> QED BY <1>1, <1>2, PTL DEF Spec

-----------------------------------------------------------------------------
\* What a step does to rooms, members and directors.

\* Every step either leaves the rooms alone, takes one member out of a room,
\* admits one join, or changes one director flag.
Leaves == \E r \in rooms, p \in Peers : RemovePeer(r, p)
Joins == \E j \in Join : Admit(j)
Flags == \E s \in Sockets, b \in Binding, t \in Peers :
            ApplyPromote(s, b, t) \/ ApplyDemote(s, b, t)

\* Every step of the engine takes a member out of a room, takes one in, changes directors,
\* or leaves the rooms alone.
LEMMA StepCases ==
    TypeOK /\ [Next]_vars =>
        UNCHANGED <<rooms, peerMap, directors>> \/ Leaves \/ Joins \/ Flags
<1> SUFFICES ASSUME TypeOK, [Next]_vars
             PROVE  UNCHANGED <<rooms, peerMap, directors>> \/ Leaves \/ Joins \/ Flags
    OBVIOUS
<1> USE DEF roomVars
<1>1. ASSUME NEW s \in Sockets, HandleConnection(s) \/ HandleDisconnect(s)
      PROVE  UNCHANGED <<rooms, peerMap, directors>> \/ Leaves
    BY <1>1 DEF HandleConnection, HandleDisconnect, Leaves, Binding
<1>2. ASSUME NEW j \in Join, ApplyJoin(j) \/ RequestJoin(j)
      PROVE  UNCHANGED <<rooms, peerMap, directors>> \/ Joins
    BY <1>2 DEF ApplyJoin, RequestJoin, Joins
<1>3. ASSUME NEW j \in pending, ResolveJoin(j) \/ RejectJoin(j)
      PROVE  UNCHANGED <<rooms, peerMap, directors>> \/ Joins
    BY <1>3 DEF ResolveJoin, RejectJoin, Joins, TypeOK
<1>4. ASSUME NEW s \in Sockets, NEW b \in Claims[s], ApplyLeave(s, b) PROVE Leaves
    BY <1>4, SessionConstants DEF ApplyLeave, Leaves, Binding
<1>5. ASSUME NEW s \in Sockets, NEW b \in Binding, NEW t \in Peers, ApplyKick(s, b, t)
      PROVE  Leaves
    BY <1>5 DEF ApplyKick, MayModerate, Leaves
<1>6. ASSUME NEW s \in Sockets, NEW b \in Binding, NEW t \in Peers, NEW key, NEW how,
             Mute(s, b, t, key, how)
      PROVE  UNCHANGED <<rooms, peerMap, directors>>
    BY <1>6 DEF Mute
<1>7. ASSUME NEW s \in Sockets, NEW b \in Binding,
             \/ \E change \in [Attrs -> {"keep", "set", "clear"}] :
                    ApplyPresenceUpdate(s, b, change)
             \/ \E to \in Peers \cup {Everyone} : ApplyChat(s, b, to)
      PROVE  UNCHANGED <<rooms, peerMap, directors>>
    BY <1>7 DEF ApplyPresenceUpdate, ApplyChat
<1>8. ASSUME NEW p \in Peers, NEW kind \in {"chat", "presence"}, Refill(p, kind)
      PROVE  UNCHANGED <<rooms, peerMap, directors>>
    BY <1>8 DEF Refill
<1>9. CASE UNCHANGED vars
    BY <1>9 DEF vars
<1> QED
    BY <1>1, <1>2, <1>3, <1>4, <1>5, <1>6, <1>7, <1>8, <1>9
    DEF Next, HandleMessage, Background, ApplyMute, ApplyUnmute, JoinsOf, Flags

\* RemovePeer takes exactly p out of exactly room r.
LEMMA RemovePeerMembers ==
    ASSUME TypeOK, NEW r \in Rooms, NEW p \in Peers, RemovePeer(r, p)
    PROVE  /\ Members(r)' = Members(r) \ {p}
           /\ \A x \in Rooms \ {r} : Members(x)' = Members(x)
           /\ directors' = [directors EXCEPT ![r] =
                              IF Members(r)' = {} THEN {} ELSE @ \ {p}]
           /\ rooms' = IF Members(r)' = {} THEN rooms \ {r} ELSE rooms
<1>1. peerMap' = [peerMap EXCEPT ![r][p] = NoSocket]
    BY DEF RemovePeer
<1>2. Members(r)' = Members(r) \ {p}
    BY <1>1 DEF Members, TypeOK, RoomsTypeOK
<1>3. \A x \in Rooms \ {r} : Members(x)' = Members(x)
    BY <1>1 DEF Members, TypeOK, RoomsTypeOK
<1>4. LastToLeave(r, p) <=> Members(r)' = {}
    BY <1>2 DEF LastToLeave
<1> QED BY <1>2, <1>3, <1>4 DEF RemovePeer, DirectorsWithout

\* A join that is not turned away adds its peer to its room, which had space for
\* it, and makes it a director only of a room without one.
LEMMA AdmitMembers ==
    ASSUME TypeOK, NEW j \in Join, Admit(j)
    PROVE  \/ UNCHANGED <<rooms, peerMap, directors>>
           \/ /\ HasSpace(j.room, j.peer)
              /\ Members(j.room)' = Members(j.room) \cup {j.peer}
              /\ \A x \in Rooms \ {j.room} : Members(x)' = Members(x)
              /\ \/ UNCHANGED directors
                 \/ /\ directors[j.room] = {}
                    /\ directors' = [directors EXCEPT ![j.room] = {j.peer}]
              /\ rooms' = rooms \cup {j.room}
<1>1. CASE ~HasSpace(j.room, j.peer)
    BY <1>1 DEF Admit, roomVars
<1>2. CASE HasSpace(j.room, j.peer)
    <2>1. /\ rooms' = rooms \cup {j.room}
          /\ peerMap' = [peerMap EXCEPT ![j.room][j.peer] = j.socket]
          /\ directors' = [directors EXCEPT ![j.room] =
                             IF j.role = "director" THEN @ \cup {j.peer} ELSE @]
          /\ j.role = "director" => directors[j.room] = {}
        BY <1>2 DEF Admit, Claimable
    <2>2. j.socket \in Sockets /\ j.peer \in Peers /\ j.room \in Rooms /\ j.socket # NoSocket
        BY SessionConstants DEF Join
    <2>3. Members(j.room)' = Members(j.room) \cup {j.peer}
        BY <2>1, <2>2 DEF Members, TypeOK, RoomsTypeOK
    <2>4. \A x \in Rooms \ {j.room} : Members(x)' = Members(x)
        BY <2>1, <2>2 DEF Members, TypeOK, RoomsTypeOK
    <2>5. \/ UNCHANGED directors
          \/ /\ directors[j.room] = {}
             /\ directors' = [directors EXCEPT ![j.room] = {j.peer}]
        <3>1. CASE j.role = "director"
            BY <2>1, <2>2, <3>1 DEF TypeOK, RoomsTypeOK
        <3>2. CASE j.role # "director"
            BY <2>1, <2>2, <3>2 DEF TypeOK, RoomsTypeOK
        <3> QED BY <3>1, <3>2
    <2> QED BY <1>2, <2>1, <2>3, <2>4, <2>5
<1> QED BY <1>1, <1>2

\* A room's members are some of the peers, which are finitely many.
LEMMA MembersFinite ==
    ASSUME NEW r \in Rooms
    PROVE  IsFiniteSet(Members(r)) /\ Cardinality(Members(r)) \in Nat
BY SessionConstants, FS_Subset, FS_CardinalityType DEF Members

-----------------------------------------------------------------------------
\* The invariants of the rooms.

RoomInv == TypeOK /\ CapacityRespected /\ NoEmptyRooms /\ DirectorsAreMembers

\* Updating the directors of one room, the members of the others staying put.
LEMMA DirectorsUpdate ==
    ASSUME DirectorsAreMembers, NEW r \in Rooms,
           directors'[r] \subseteq Members(r)',
           \A x \in Rooms \ {r} : directors'[x] = directors[x] /\ Members(x)' = Members(x)
    PROVE  DirectorsAreMembers'
<1> SUFFICES ASSUME NEW x \in Rooms PROVE directors'[x] \subseteq Members(x)'
    BY DEF DirectorsAreMembers
<1>1. CASE x = r
    BY <1>1
<1>2. CASE x # r
    BY <1>2 DEF DirectorsAreMembers
<1> QED BY <1>1, <1>2

\* No room exists at first.
LEMMA RoomInit == Init => RoomInv
<1> SUFFICES ASSUME Init PROVE RoomInv
    OBVIOUS
<1>1. \A r \in Rooms : Members(r) = {}
    BY DEF Init, Members
<1>2. Cardinality({}) = 0
    BY FS_EmptySet
<1>3. CapacityRespected
    BY <1>1, <1>2, SessionConstants DEF CapacityRespected
<1> QED
    BY <1>1, <1>3, TypeInit DEF RoomInv, NoEmptyRooms, DirectorsAreMembers, Init

\* The three room invariants and the types are inductive together, effect by effect.
LEMMA RoomStep == RoomInv /\ [Next]_vars => RoomInv'
<1> SUFFICES ASSUME RoomInv, [Next]_vars PROVE RoomInv'
    OBVIOUS
<1>1. TypeOK /\ TypeOK'
    BY TypeStep DEF RoomInv
<1>2. CASE UNCHANGED <<rooms, peerMap, directors>>
    BY <1>1, <1>2 DEF RoomInv, CapacityRespected, NoEmptyRooms, DirectorsAreMembers, Members
<1>3. CASE Leaves
    <2>1. PICK r \in Rooms, p \in Peers : r \in rooms /\ RemovePeer(r, p)
        BY <1>1, <1>3 DEF Leaves, TypeOK, RoomsTypeOK
    <2>2. CapacityRespected'
        <3>1. Cardinality(Members(r) \ {p}) <= Cardinality(Members(r))
            BY MembersFinite, FS_Subset
        <3>2. Cardinality(Members(r) \ {p}) \in Nat
            BY MembersFinite, FS_Subset, FS_CardinalityType
        <3>3. \A x \in Rooms : Cardinality(Members(x)) <= Capacity
            BY DEF RoomInv, CapacityRespected
        <3>4. Cardinality(Members(r)') <= Capacity
            <4>1. Members(r)' = Members(r) \ {p}
                BY <1>1, <2>1, RemovePeerMembers
            <4>2. Cardinality(Members(r)) \in Nat /\ Capacity \in Nat
                BY MembersFinite, SessionConstants
            <4> QED BY <3>1, <3>2, <3>3, <4>1, <4>2
        <3>5. \A x \in Rooms \ {r} : Cardinality(Members(x)') <= Capacity
            BY <1>1, <2>1, <3>3, RemovePeerMembers
        <3> QED BY <3>4, <3>5 DEF CapacityRespected
    <2>3. NoEmptyRooms'
        BY <1>1, <2>1, RemovePeerMembers DEF RoomInv, NoEmptyRooms
    <2>4. DirectorsAreMembers'
        <3>1. /\ Members(r)' = Members(r) \ {p}
              /\ \A x \in Rooms \ {r} : Members(x)' = Members(x)
              /\ directors' = [directors EXCEPT ![r] =
                                 IF Members(r)' = {} THEN {} ELSE directors[r] \ {p}]
            BY <1>1, <2>1, RemovePeerMembers
        <3>2. \A x \in Rooms \ {r} : directors'[x] = directors[x]
            BY <3>1 DEF RoomInv, TypeOK, RoomsTypeOK
        <3>3. directors[r] \subseteq Members(r) /\ directors \in [Rooms -> SUBSET Peers]
            BY DEF RoomInv, DirectorsAreMembers, TypeOK, RoomsTypeOK
        <3>4. directors'[r] \subseteq Members(r)'
            BY <3>1, <3>3
        <3> QED BY <3>1, <3>2, <3>4, DirectorsUpdate DEF RoomInv
    <2> QED BY <1>1, <2>2, <2>3, <2>4 DEF RoomInv
<1>4. CASE Joins
    <2>1. PICK j \in Join : Admit(j)
        BY <1>4 DEF Joins
    <2>2. j.room \in Rooms /\ j.peer \in Peers
        BY DEF Join
    <2>3. CASE UNCHANGED <<rooms, peerMap, directors>>
        BY <1>2, <2>3
    <2>4. CASE ~UNCHANGED <<rooms, peerMap, directors>>
        <3>1. /\ HasSpace(j.room, j.peer)
              /\ Members(j.room)' = Members(j.room) \cup {j.peer}
              /\ \A x \in Rooms \ {j.room} : Members(x)' = Members(x)
              /\ \/ UNCHANGED directors
                 \/ directors' = [directors EXCEPT ![j.room] = {j.peer}]
              /\ rooms' = rooms \cup {j.room}
            BY <1>1, <2>1, <2>4, AdmitMembers
        <3>2. Cardinality(Members(j.room) \cup {j.peer}) <= Capacity
            <4>1. CASE j.peer \in Members(j.room)
                <5>1. Members(j.room) \cup {j.peer} = Members(j.room)
                    BY <4>1
                <5> QED BY <2>2, <5>1 DEF RoomInv, CapacityRespected
            <4>2. CASE j.peer \notin Members(j.room)
                <5>1. Cardinality(Members(j.room) \cup {j.peer}) = Cardinality(Members(j.room)) + 1
                    BY <2>2, <4>2, MembersFinite, FS_AddElement
                <5>2. Cardinality(Members(j.room)) < Capacity
                    BY <3>1, <4>2 DEF HasSpace
                <5> QED BY <2>2, <5>1, <5>2, MembersFinite, SessionConstants
            <4> QED BY <4>1, <4>2
        <3>3. CapacityRespected'
            BY <2>2, <3>1, <3>2 DEF RoomInv, CapacityRespected
        <3>4. NoEmptyRooms'
            BY <2>2, <3>1 DEF RoomInv, NoEmptyRooms
        <3>5. DirectorsAreMembers'
            <4>1. CASE UNCHANGED directors
                BY <2>2, <3>1, <4>1 DEF RoomInv, DirectorsAreMembers
            <4>2. CASE directors' = [directors EXCEPT ![j.room] = {j.peer}]
                BY <2>2, <3>1, <4>2, DirectorsUpdate DEF RoomInv, TypeOK, RoomsTypeOK
            <4> QED BY <3>1, <4>1, <4>2
        <3> QED BY <1>1, <3>3, <3>4, <3>5 DEF RoomInv
    <2> QED BY <2>3, <2>4
<1>5. CASE Flags
    <2>1. PICK r \in Rooms, t \in Peers :
             /\ UNCHANGED <<rooms, peerMap>>
             /\ \/ t \in Members(r) /\ directors' = [directors EXCEPT ![r] = @ \cup {t}]
                \/ directors' = [directors EXCEPT ![r] = @ \ {t}]
        BY <1>5 DEF Flags, ApplyPromote, ApplyDemote, TargetInRoom, Binding
    <2>2. \A x \in Rooms : Members(x)' = Members(x)
        BY <2>1 DEF Members
    <2>3. CapacityRespected' /\ NoEmptyRooms'
        BY <2>1, <2>2 DEF RoomInv, CapacityRespected, NoEmptyRooms
    <2>4. DirectorsAreMembers'
        <3>1. directors[r] \subseteq Members(r) /\ directors \in [Rooms -> SUBSET Peers]
            BY DEF RoomInv, DirectorsAreMembers, TypeOK, RoomsTypeOK
        <3>2. CASE t \in Members(r) /\ directors' = [directors EXCEPT ![r] = @ \cup {t}]
            <4>1. directors'[r] \subseteq Members(r)'
                BY <2>2, <3>1, <3>2
            <4>2. \A x \in Rooms \ {r} : directors'[x] = directors[x]
                BY <3>1, <3>2
            <4> QED BY <2>2, <4>1, <4>2, DirectorsUpdate DEF RoomInv
        <3>3. CASE directors' = [directors EXCEPT ![r] = @ \ {t}]
            <4>1. directors'[r] \subseteq Members(r)'
                BY <2>2, <3>1, <3>3
            <4>2. \A x \in Rooms \ {r} : directors'[x] = directors[x]
                BY <3>1, <3>3
            <4> QED BY <2>2, <4>1, <4>2, DirectorsUpdate DEF RoomInv
        <3> QED BY <2>1, <3>2, <3>3
    <2> QED BY <1>1, <2>3, <2>4 DEF RoomInv
<1> QED BY <1>1, <1>2, <1>3, <1>4, <1>5, StepCases

\* Hence they hold in every state.
LEMMA RoomInvariant == Spec => []RoomInv
<1>1. Init => RoomInv
    BY RoomInit
<1>2. RoomInv /\ [Next]_vars => RoomInv'
    BY RoomStep
<1> QED BY <1>1, <1>2, PTL DEF Spec

\* No schedule of joins, authentications and departures overfills a room.
THEOREM Capacity_Safe == Spec => []CapacityRespected
<1>1. RoomInv => CapacityRespected
    BY DEF RoomInv
<1> QED BY <1>1, RoomInvariant, PTL

\* roomMap never holds a room without members nor misses one with members.
THEOREM Rooms_Collected == Spec => []NoEmptyRooms
<1>1. RoomInv => NoEmptyRooms
    BY DEF RoomInv
<1> QED BY <1>1, RoomInvariant, PTL

\* Authority ends with membership.
THEOREM Directors_Present == Spec => []DirectorsAreMembers
<1>1. RoomInv => DirectorsAreMembers
    BY DEF RoomInv
<1> QED BY <1>1, RoomInvariant, PTL

-----------------------------------------------------------------------------
\* First claim wins: in a room with directors, authority is only handed out by
\* promotion, and under enforcement only by a socket that speaks for a director.
THEOREM Directors_Appointed == Spec => DirectorsAppointed
<1> DEFINE Fresh(r) == directors[r] # {} /\ ~(directors'[r] \subseteq directors[r])
           Held(r) == /\ directors'[r] \subseteq Members(r)
                      /\ UNCHANGED peerMap
                      /\ Enforce => \E s \in Sockets, p \in directors[r] :
                                      BoundTo(s, [peer |-> p, room |-> r])
<1>1. ASSUME RoomInv, [Next]_vars, NEW r \in Rooms, Fresh(r) PROVE Held(r)
    <2>1. TypeOK
        BY <1>1 DEF RoomInv
    <2>2. CASE UNCHANGED <<rooms, peerMap, directors>>
        BY <1>1, <2>2
    <2>3. CASE Leaves
        <3>1. PICK x \in Rooms, p \in Peers : RemovePeer(x, p)
            BY <2>1, <2>3 DEF Leaves, TypeOK, RoomsTypeOK
        <3>2. directors' = [directors EXCEPT ![x] =
                             IF Members(x)' = {} THEN {} ELSE directors[x] \ {p}]
            BY <2>1, <3>1, RemovePeerMembers
        <3>3. directors'[r] \subseteq directors[r]
            BY <2>1, <3>2 DEF TypeOK, RoomsTypeOK
        <3> QED BY <1>1, <3>3
    <2>4. CASE Joins
        <3>1. PICK j \in Join : Admit(j)
            BY <2>4 DEF Joins
        <3>2. \/ UNCHANGED directors
              \/ directors[j.room] = {} /\ directors' = [directors EXCEPT ![j.room] = {j.peer}]
            BY <2>1, <3>1, AdmitMembers
        <3>3. directors[r] # {} => directors'[r] = directors[r]
            BY <2>1, <3>2 DEF TypeOK, RoomsTypeOK
        <3> QED BY <1>1, <3>3
    <2>5. CASE Flags
        <3>1. PICK s \in Sockets, b \in Binding, t \in Peers :
                 ApplyPromote(s, b, t) \/ ApplyDemote(s, b, t)
            BY <2>5 DEF Flags
        <3>2. ~ApplyDemote(s, b, t)
            <4>1. ASSUME directors' = [directors EXCEPT ![b.room] = directors[b.room] \ {t}]
                  PROVE  directors'[r] \subseteq directors[r]
                <5>1. directors \in [Rooms -> SUBSET Peers]
                    BY <2>1 DEF TypeOK, RoomsTypeOK
                <5>2. CASE b.room = r
                    BY <4>1, <5>1, <5>2
                <5>3. CASE b.room # r
                    BY <4>1, <5>1, <5>3
                <5> QED BY <5>2, <5>3
            <4> QED BY <1>1, <4>1 DEF ApplyDemote
        <3>3. /\ MayModerate(s, b) /\ t \in Members(b.room) /\ UNCHANGED peerMap
              /\ directors' = [directors EXCEPT ![b.room] = @ \cup {t}]
            BY <3>1, <3>2 DEF ApplyPromote, TargetInRoom
        <3>4. b.room = r
            BY <1>1, <2>1, <3>3 DEF TypeOK, RoomsTypeOK
        <3>5. directors[r] \subseteq Members(r) /\ directors \in [Rooms -> SUBSET Peers]
            BY <1>1, <2>1 DEF RoomInv, DirectorsAreMembers, TypeOK, RoomsTypeOK
        <3>6. directors'[r] \subseteq Members(r)
            BY <3>3, <3>4, <3>5
        <3>7. b = [peer |-> b.peer, room |-> r]
            BY <3>4 DEF Binding
        <3>8. Enforce => BoundTo(s, [peer |-> b.peer, room |-> r]) /\ b.peer \in directors[r]
            BY <3>3, <3>4, <3>7 DEF MayModerate
        <3> QED BY <3>3, <3>6, <3>8
    <2> QED BY <1>1, <2>1, <2>2, <2>3, <2>4, <2>5, StepCases
<1>2. RoomInv /\ [Next]_vars => [\A r \in Rooms : Fresh(r) => Held(r)]_vars
    BY <1>1
<1>3. Spec => [][Next]_vars
    BY PTL DEF Spec
<1> QED BY <1>2, <1>3, RoomInvariant, PTL DEF DirectorsAppointed

-----------------------------------------------------------------------------
\* Session implements ModeratedRooms.

\* The instance has a Cardinality of its own, defined alike.
LEMMA SameCardinality == \A S : MR!Cardinality(S) = Cardinality(S)
BY DEF Cardinality, MR!Cardinality

\* The engine starts as the abstract rooms do.
LEMMA RefinementInit == Init => MR!Init
<1> SUFFICES ASSUME Init PROVE MR!Init
    OBVIOUS
<1>1. \A r \in Rooms : Members(r) = {}
    BY DEF Init, Members
<1> QED BY <1>1 DEF Init, MR!Init

\* A step of the engine is a step of the abstract rooms, or changes none of them.
LEMMA RefinementStep == RoomInv /\ [Next]_vars => [MR!Next]_MR!roomsVars
<1> SUFFICES ASSUME RoomInv, [Next]_vars PROVE [MR!Next]_MR!roomsVars
    OBVIOUS
<1> DEFINE members == [r \in Rooms |-> Members(r)]
<1>1. TypeOK /\ directors \in [Rooms -> SUBSET Peers]
    BY DEF RoomInv, TypeOK, RoomsTypeOK
<1>2. \A r \in Rooms : directors[r] \subseteq Members(r)
    BY DEF RoomInv, DirectorsAreMembers
<1>3. CASE UNCHANGED <<rooms, peerMap, directors>>
    BY <1>3 DEF MR!roomsVars, Members
<1>4. CASE Leaves
    <2>1. PICK r \in Rooms, p \in Peers : RemovePeer(r, p)
        BY <1>1, <1>4 DEF Leaves, TypeOK, RoomsTypeOK
    <2>2. /\ Members(r)' = Members(r) \ {p}
          /\ \A x \in Rooms \ {r} : Members(x)' = Members(x)
          /\ directors' = [directors EXCEPT ![r] =
                             IF Members(r)' = {} THEN {} ELSE directors[r] \ {p}]
        BY <1>1, <2>1, RemovePeerMembers
    <2>3. directors' = [directors EXCEPT ![r] = @ \ {p}]
        BY <1>1, <1>2, <2>2
    <2>4. members' = [members EXCEPT ![r] = @ \ {p}]
        BY <2>2
    <2>5. CASE p \in Members(r)
        <3>1. MR!Exit(r, p)
            BY <2>3, <2>4, <2>5 DEF MR!Exit
        <3> QED BY <3>1 DEF MR!Next
    <2>6. CASE p \notin Members(r)
        <3>1. directors[r] \ {p} = directors[r] /\ members[r] \ {p} = members[r]
            BY <1>2, <2>6
        <3>2. directors' = directors
            BY <1>1, <2>3, <3>1
        <3>3. members' = members
            BY <2>4, <3>1
        <3> QED BY <3>2, <3>3 DEF MR!roomsVars
    <2> QED BY <2>5, <2>6
<1>5. CASE Joins
    <2>1. PICK j \in Join : Admit(j)
        BY <1>5 DEF Joins
    <2>2. CASE UNCHANGED <<rooms, peerMap, directors>>
        BY <1>3, <2>2
    <2>3. CASE ~UNCHANGED <<rooms, peerMap, directors>>
        <3>1. PICK r \in Rooms, p \in Peers : r = j.room /\ p = j.peer
            BY DEF Join
        <3>2. /\ HasSpace(r, p)
              /\ Members(r)' = Members(r) \cup {p}
              /\ \A x \in Rooms \ {r} : Members(x)' = Members(x)
              /\ \/ UNCHANGED directors
                 \/ directors[r] = {} /\ directors' = [directors EXCEPT ![r] = {p}]
            BY <1>1, <2>1, <2>3, <3>1, AdmitMembers
        <3>3. members' = [members EXCEPT ![r] = @ \cup {p}]
            BY <3>2
        <3>4. CASE p \notin Members(r)
            <4>1. members[r] = Members(r)
                OBVIOUS
            <4>2. p \notin members[r] /\ MR!Cardinality(members[r]) < Capacity
                BY <3>2, <3>4, <4>1, SameCardinality DEF HasSpace
            <4>3. MR!Enter(r, p)
                BY <3>2, <3>3, <4>2 DEF MR!Enter
            <4> QED BY <4>3 DEF MR!Next
        <3>5. CASE p \in Members(r)
            <4>1. members' = members
                BY <3>3, <3>5
            <4>2. CASE UNCHANGED directors
                BY <4>1, <4>2 DEF MR!roomsVars
            <4>3. CASE directors[r] = {} /\ directors' = [directors EXCEPT ![r] = {p}]
                <5>1. MR!Appoint(r, p)
                    BY <3>5, <4>1, <4>3 DEF MR!Appoint
                <5> QED BY <5>1 DEF MR!Next
            <4> QED BY <3>2, <4>2, <4>3
        <3> QED BY <3>4, <3>5
    <2> QED BY <2>2, <2>3
<1>6. CASE Flags
    <2>1. PICK r \in Rooms, t \in Peers :
             /\ UNCHANGED peerMap
             /\ \/ t \in Members(r) /\ directors' = [directors EXCEPT ![r] = @ \cup {t}]
                \/ directors' = [directors EXCEPT ![r] = @ \ {t}]
        BY <1>6 DEF Flags, ApplyPromote, ApplyDemote, TargetInRoom, Binding
    <2>2. members' = members
        BY <2>1 DEF Members
    <2>3. MR!Appoint(r, t) \/ MR!Dismiss(r, t)
        BY <2>1, <2>2 DEF MR!Appoint, MR!Dismiss
    <2> QED BY <2>3 DEF MR!Next
<1> QED BY <1>1, <1>3, <1>4, <1>5, <1>6, StepCases

\* Seen through membership and directors alone, the engine is ModeratedRooms.
THEOREM Implements_ModeratedRooms == Spec => ImplementsModeratedRooms
<1>1. Init => MR!Init
    BY RefinementInit
<1>2. RoomInv /\ [Next]_vars => [MR!Next]_MR!roomsVars
    BY RefinementStep
<1> QED BY <1>1, <1>2, RoomInvariant, PTL DEF Spec, MR!Spec, ImplementsModeratedRooms

-----------------------------------------------------------------------------
(***************************************************************************)
(* What the engine's clients are told and sent: the history of a room is   *)
(* its most recent chats; where no peer id is used in two rooms, sdp and   *)
(* ice reach exactly the members, and members' views equal their rooms.    *)
(***************************************************************************)

-----------------------------------------------------------------------------
\* The history.

\* The entries of a buffer are the last of the chats said, in their order.
Recent(buffer, n) ==
    LET len == IF n < ChatLimit THEN n ELSE ChatLimit
    IN  /\ Len(buffer) = len
        /\ \A i \in 1..len : buffer[i].n = n - len + i

\* One more chat, one more entry, and the oldest goes when the buffer is full.
LEMMA PushChatRecent ==
    ASSUME NEW buffer \in Seq(ChatMsg), NEW n \in Nat, NEW m \in ChatMsg,
           ChatLimit \in Nat, m.n = n + 1, Recent(buffer, n)
    PROVE  Recent(PushChat(buffer, m), n + 1)
<1>1. CASE ChatLimit = 0
    BY <1>1 DEF PushChat, Recent
<1>2. CASE ChatLimit # 0 /\ n < ChatLimit
    <2>1. PushChat(buffer, m) = Append(buffer, m) /\ Len(buffer) = n
        BY <1>2 DEF PushChat, Recent
    <2>2. \A i \in 1..n : buffer[i].n = i
        BY <1>2 DEF Recent
    <2>3. \A i \in 1..(n + 1) : Append(buffer, m)[i] = IF i <= n THEN buffer[i] ELSE m
        BY <2>1
    <2>4. \A i \in 1..(n + 1) : Append(buffer, m)[i].n = i
        BY <2>2, <2>3
    <2>5. Len(Append(buffer, m)) = n + 1
        BY <2>1
    <2> QED BY <1>2, <2>1, <2>4, <2>5 DEF Recent
<1>3. CASE ChatLimit # 0 /\ ~(n < ChatLimit)
    <2>1. /\ PushChat(buffer, m) = Append(Tail(buffer), m)
          /\ Len(buffer) = ChatLimit
          /\ \A i \in 1..ChatLimit : buffer[i].n = n - ChatLimit + i
        BY <1>3 DEF PushChat, Recent
    <2>2. Len(Tail(buffer)) = ChatLimit - 1 /\ Tail(buffer) \in Seq(ChatMsg)
        BY <1>3, <2>1
    <2>3. \A i \in 1..(ChatLimit - 1) : Tail(buffer)[i] = buffer[i + 1]
        BY <1>3, <2>1
    <2> DEFINE next == Append(Tail(buffer), m)
    <2>4. Len(next) = ChatLimit
        BY <2>2
    <2>5. \A i \in 1..ChatLimit : next[i] = IF i < ChatLimit THEN Tail(buffer)[i] ELSE m
        BY <2>2
    <2> HIDE DEF next
    <2>6. \A i \in 1..ChatLimit : next[i].n = (n + 1) - ChatLimit + i
        <3> SUFFICES ASSUME NEW i \in 1..ChatLimit
                     PROVE  next[i].n = (n + 1) - ChatLimit + i
            OBVIOUS
        <3>1. CASE i < ChatLimit
            <4>1. i \in 1..(ChatLimit - 1) /\ i + 1 \in 1..ChatLimit
                BY <3>1
            <4>2. next[i] = buffer[i + 1]
                BY <2>3, <2>5, <3>1, <4>1
            <4>3. buffer[i + 1].n = n - ChatLimit + (i + 1)
                BY <2>1, <4>1
            <4> QED BY <4>2, <4>3
        <3>2. CASE ~(i < ChatLimit)
            <4>1. i = ChatLimit /\ next[i] = m
                BY <2>5, <3>2
            <4>2. next[i].n = n + 1
                BY <4>1
            <4>3. n + 1 = (n + 1) - ChatLimit + i
                BY <4>1
            <4> QED BY <4>2, <4>3
        <3> QED BY <3>1, <3>2
    <2>7. PushChat(buffer, m) = next
        BY <2>1 DEF next
    <2>8. ~(n + 1 < ChatLimit)
        BY <1>3
    <2> QED BY <2>4, <2>6, <2>7, <2>8 DEF Recent
<1> QED BY <1>1, <1>2, <1>3

HistoryInv == TypeOK /\ \A r \in Rooms : Recent(chat[r], said[r])

\* Every step leaves a room's history alone, empties it with its count, or adds a chat.
ChatGoesOn(r) ==
    \/ chat'[r] = chat[r] /\ said'[r] = said[r]
    \/ chat'[r] = <<>> /\ said'[r] = 0
    \/ \E m \in ChatMsg : /\ m.n = said[r] + 1
                          /\ said'[r] = said[r] + 1
                          /\ chat'[r] = PushChat(chat[r], m)

\* No step does anything else to the history of a room.
LEMMA ChatCases ==
    ASSUME TypeOK, [Next]_vars, NEW r \in Rooms
    PROVE  ChatGoesOn(r)
<1>1. ASSUME NEW x \in Rooms, NEW p \in Peers, RemovePeer(x, p) PROVE ChatGoesOn(r)
    BY <1>1 DEF RemovePeer, TypeOK, RoomsTypeOK, ChatGoesOn
<1>2. ASSUME NEW j \in Join, Admit(j) PROVE ChatGoesOn(r)
    BY <1>2 DEF Admit, roomVars, ChatGoesOn
<1>3. ASSUME UNCHANGED <<chat, said>> PROVE ChatGoesOn(r)
    BY <1>3 DEF ChatGoesOn
<1>4. ASSUME NEW s \in Sockets, NEW b \in Binding, NEW to \in Peers \cup {Everyone},
             ApplyChat(s, b, to)
      PROVE  ChatGoesOn(r)
    <2>1. CASE b.room \in rooms
        <3> DEFINE m == [n |-> said[b.room] + 1, from |-> b.peer, to |-> to]
        <3>1. /\ said[b.room] < MaxChats
              /\ said' = [said EXCEPT ![b.room] = @ + 1]
              /\ chat' = [chat EXCEPT ![b.room] = PushChat(@, m)]
            BY <1>4, <2>1 DEF ApplyChat
        <3>2. b.peer \in Peers /\ b.room \in Rooms
            BY DEF Binding
        <3>3. said[b.room] + 1 \in 1..MaxChats
            BY <3>1, <3>2, SessionConstants DEF TypeOK, RoomsTypeOK
        <3>4. m \in ChatMsg /\ m.n = said[b.room] + 1
            BY <3>2, <3>3 DEF ChatMsg
        <3> HIDE DEF m
        <3>5. CASE r = b.room
            <4>1. said'[r] = said[r] + 1 /\ chat'[r] = PushChat(chat[r], m)
                BY <3>1, <3>5 DEF TypeOK, RoomsTypeOK
            <4> QED BY <3>4, <3>5, <4>1 DEF ChatGoesOn
        <3>6. CASE r # b.room
            BY <3>1, <3>6 DEF TypeOK, RoomsTypeOK, ChatGoesOn
        <3> QED BY <3>5, <3>6
    <2>2. CASE b.room \notin rooms
        BY <1>3, <1>4, <2>2 DEF ApplyChat
    <2> QED BY <2>1, <2>2
<1>5. ASSUME NEW s \in Sockets, HandleConnection(s) \/ HandleDisconnect(s) PROVE ChatGoesOn(r)
    <2>1. CASE HandleConnection(s)
        BY <1>3, <2>1 DEF HandleConnection, roomVars
    <2>2. CASE HandleDisconnect(s)
        <3>1. UNCHANGED roomVars \/ \E b \in Binding : RemovePeer(b.room, b.peer)
            BY <2>2 DEF HandleDisconnect
        <3> QED BY <1>1, <1>3, <3>1 DEF roomVars, Binding
    <2> QED BY <1>5, <2>1, <2>2
<1>6. ASSUME NEW j \in Join, ApplyJoin(j) \/ RequestJoin(j) PROVE ChatGoesOn(r)
    BY <1>2, <1>3, <1>6 DEF ApplyJoin, RequestJoin, roomVars
<1>7. ASSUME NEW j \in pending, ResolveJoin(j) \/ RejectJoin(j) PROVE ChatGoesOn(r)
    BY <1>2, <1>3, <1>7 DEF ResolveJoin, RejectJoin, roomVars, TypeOK
<1>8. ASSUME NEW s \in Sockets, NEW b \in Claims[s], ApplyLeave(s, b) PROVE ChatGoesOn(r)
    BY <1>1, <1>8, SessionConstants DEF ApplyLeave, Binding
<1>9. ASSUME NEW s \in Sockets, NEW b \in Binding, NEW t \in Peers,
             \/ ApplyPromote(s, b, t) \/ ApplyDemote(s, b, t) \/ ApplyKick(s, b, t)
             \/ \E key, how : Mute(s, b, t, key, how)
      PROVE  ChatGoesOn(r)
    BY <1>1, <1>3, <1>9 DEF ApplyPromote, ApplyDemote, ApplyKick, Mute, Binding
<1>10. ASSUME NEW s \in Sockets, NEW b \in Binding,
              NEW change \in [Attrs -> {"keep", "set", "clear"}],
              ApplyPresenceUpdate(s, b, change)
       PROVE  ChatGoesOn(r)
    BY <1>3, <1>10 DEF ApplyPresenceUpdate
<1>11. ASSUME NEW p \in Peers, NEW kind \in {"chat", "presence"}, Refill(p, kind) PROVE ChatGoesOn(r)
    BY <1>3, <1>11 DEF Refill, roomVars
<1>12. CASE UNCHANGED vars
    BY <1>3, <1>12 DEF vars
<1> QED
    BY <1>4, <1>5, <1>6, <1>7, <1>8, <1>9, <1>10, <1>11, <1>12
    DEF Next, HandleMessage, Background, ApplyMute, ApplyUnmute, JoinsOf

\* A new server has said nothing.
LEMMA HistoryInit == Init => HistoryInv
<1> SUFFICES ASSUME Init PROVE HistoryInv
    OBVIOUS
<1>1. \A r \in Rooms : chat[r] = <<>> /\ said[r] = 0
    BY DEF Init
<1>2. Recent(<<>>, 0)
    BY SessionConstants DEF Recent
<1> QED BY <1>1, <1>2, TypeInit DEF HistoryInv

\* Every step keeps every buffer recent.
LEMMA HistoryStep == HistoryInv /\ [Next]_vars => HistoryInv'
<1> SUFFICES ASSUME HistoryInv, [Next]_vars PROVE HistoryInv'
    OBVIOUS
<1>1. TypeOK /\ TypeOK'
    BY TypeStep DEF HistoryInv
<1>2. ASSUME NEW r \in Rooms PROVE Recent(chat'[r], said'[r])
    <2>1. /\ chat[r] \in Seq(ChatMsg) /\ said[r] \in Nat /\ ChatLimit \in Nat
          /\ Recent(chat[r], said[r])
        BY <1>1, SessionConstants DEF HistoryInv, TypeOK, RoomsTypeOK
    <2>2. CASE chat'[r] = chat[r] /\ said'[r] = said[r]
        BY <2>1, <2>2
    <2>3. CASE chat'[r] = <<>> /\ said'[r] = 0
        <3>1. Recent(<<>>, 0)
            BY <2>1 DEF Recent
        <3> QED BY <2>3, <3>1
    <2>4. ASSUME NEW m \in ChatMsg, m.n = said[r] + 1, said'[r] = said[r] + 1,
                 chat'[r] = PushChat(chat[r], m)
          PROVE  Recent(chat'[r], said'[r])
        BY <2>1, <2>4, PushChatRecent
    <2> QED BY <1>1, <2>2, <2>3, <2>4, ChatCases DEF ChatGoesOn
<1>3. (\A r \in Rooms : Recent(chat[r], said[r]))'
    BY <1>2 DEF Recent
<1> QED BY <1>1, <1>3 DEF HistoryInv

\* The buffer replayed to a late joiner is the room's most recent chats, up to the limit
\* and in order, for any limit, through rooms that empty and are made again.
THEOREM History_Recent == Spec => []HistoryIsRecent
<1>1. Init => HistoryInv
    BY HistoryInit
<1>2. HistoryInv /\ [Next]_vars => HistoryInv'
    BY HistoryStep
<1>3. HistoryInv => HistoryIsRecent
    BY DEF HistoryInv, HistoryIsRecent, Recent
<1> QED BY <1>1, <1>2, <1>3, PTL DEF Spec

-----------------------------------------------------------------------------
\* What peers are told and where they can be reached.

\* Some socket names peer p with room r.
Claimed(p, r) == \E s \in Sockets : [peer |-> p, room |-> r] \in Claims[s]

\* A peer used in one room only is claimed for one room only.
LEMMA OneClaim ==
    ASSUME OneRoomPerPeer, NEW p, NEW r, NEW x, Claimed(p, r), Claimed(p, x)
    PROVE  r = x
<1>1. PICK s \in Sockets : [peer |-> p, room |-> r] \in Claims[s]
    BY DEF Claimed
<1>2. PICK t \in Sockets : [peer |-> p, room |-> x] \in Claims[t]
    BY DEF Claimed
<1> QED BY <1>1, <1>2 DEF OneRoomPerPeer

\* Bindings, suspended joins and entries come from the sockets' messages.
ClaimsInv ==
    /\ \A s \in Sockets : bound[s] # NoBinding => Claimed(bound[s].peer, bound[s].room)
    /\ \A j \in pending : Claimed(j.peer, j.room)
    /\ \A r \in Rooms : \A p \in Members(r) : Claimed(p, r)

\* What a step does to members, presence, views and routes.
Untold == UNCHANGED <<peerMap, presence, view, peerIndex>>
Gone == \E r \in rooms, p \in Peers :
          Claimed(p, r) /\ RemovePeer(r, p) /\ peerIndex' = peerIndex \ {p}
GoneBefore == \E r \in Rooms \ rooms, p \in Peers :
          Claimed(p, r) /\ UNCHANGED roomVars /\ peerIndex' = peerIndex \ {p}
Came == \E j \in Join : Claimed(j.peer, j.room) /\ Admit(j)
Shows == \E r \in Rooms, p \in Peers : \E change :
          SetPresence(r, p, change) /\ UNCHANGED <<peerMap, peerIndex>>
Effect == Untold \/ Gone \/ GoneBefore \/ Came \/ Shows

\* Every step has one of these effects.
LEMMA EffectCases ==
    ASSUME TypeOK, ClaimsInv, [Next]_vars
    PROVE  Effect
<1> USE DEF Effect
<1>1. ASSUME NEW s \in Sockets, HandleConnection(s) PROVE Effect
    BY <1>1 DEF HandleConnection, Untold, roomVars
<1>2. ASSUME NEW s \in Sockets, HandleDisconnect(s) PROVE Effect
    <2>1. CASE UNCHANGED <<roomVars, peerIndex, buckets>>
        BY <2>1 DEF Untold, roomVars
    <2>2. CASE ~UNCHANGED <<roomVars, peerIndex, buckets>>
        <3>1. PICK b \in Binding :
                 /\ bound[s] = b
                 /\ peerIndex' = peerIndex \ {b.peer}
                 /\ IF b.room \in rooms THEN RemovePeer(b.room, b.peer) ELSE UNCHANGED roomVars
            BY <1>2, <2>2 DEF HandleDisconnect, Unindexed
        <3>2. b.peer \in Peers /\ b.room \in Rooms
            BY DEF Binding
        <3>3. Claimed(b.peer, b.room)
            BY <3>1, SessionConstants DEF ClaimsInv
        <3>4. CASE b.room \in rooms
            BY <3>1, <3>2, <3>3, <3>4 DEF Gone
        <3>5. CASE b.room \notin rooms
            BY <3>1, <3>2, <3>3, <3>5 DEF GoneBefore
        <3> QED BY <3>4, <3>5
    <2> QED BY <2>1, <2>2
<1>3. ASSUME NEW s \in Sockets, NEW j \in JoinsOf(s), ApplyJoin(j) \/ RequestJoin(j)
      PROVE  Effect
    <2>1. j \in Join /\ Claimed(j.peer, j.room)
        BY DEF JoinsOf, Claimed
    <2>2. CASE ApplyJoin(j)
        BY <2>1, <2>2 DEF ApplyJoin, Came
    <2>3. CASE RequestJoin(j)
        BY <2>3 DEF RequestJoin, Untold, roomVars
    <2> QED BY <1>3, <2>2, <2>3
<1>4. ASSUME NEW j \in pending, ResolveJoin(j) \/ RejectJoin(j) PROVE Effect
    <2>1. j \in Join /\ Claimed(j.peer, j.room)
        BY DEF TypeOK, ClaimsInv
    <2>2. CASE ResolveJoin(j)
        BY <2>1, <2>2 DEF ResolveJoin, Came
    <2>3. CASE RejectJoin(j)
        BY <2>3 DEF RejectJoin, Untold, roomVars
    <2> QED BY <1>4, <2>2, <2>3
<1>5. ASSUME NEW s \in Sockets, NEW b \in Claims[s], ApplyLeave(s, b) PROVE Effect
    <2>1. b \in Binding /\ b.peer \in Peers /\ b.room \in Rooms
        BY SessionConstants DEF Binding
    <2>2. Claimed(b.peer, b.room)
        BY <2>1 DEF Claimed, Binding
    <2> QED BY <1>5, <2>1, <2>2 DEF ApplyLeave, Unindexed, Gone
<1>6. ASSUME NEW s \in Sockets, NEW b \in Binding, NEW t \in Peers, ApplyKick(s, b, t)
      PROVE  Effect
    <2>1. b.room \in rooms /\ b.room \in Rooms /\ t \in Members(b.room)
        BY <1>6 DEF ApplyKick, MayModerate, TargetInRoom, Binding
    <2>2. Claimed(t, b.room)
        BY <2>1 DEF ClaimsInv
    <2> QED BY <1>6, <2>1, <2>2 DEF ApplyKick, Unindexed, Gone
<1>7. ASSUME NEW s \in Sockets, NEW b \in Binding, NEW t \in Peers,
             ApplyPromote(s, b, t) \/ ApplyDemote(s, b, t)
      PROVE  Effect
    BY <1>7 DEF ApplyPromote, ApplyDemote, Untold
<1>8. ASSUME NEW s \in Sockets, NEW b \in Binding, NEW t \in Peers, NEW key, NEW how,
             Mute(s, b, t, key, how)
      PROVE  Effect
    BY <1>8 DEF Mute, Shows, Binding
<1>9. ASSUME NEW s \in Sockets, NEW b \in Binding,
             NEW change \in [Attrs -> {"keep", "set", "clear"}],
             ApplyPresenceUpdate(s, b, change)
      PROVE  Effect
    <2>1. b.room \in Rooms /\ b.peer \in Peers
        BY DEF Binding
    <2>2. CASE b.room \in rooms
        BY <1>9, <2>1, <2>2 DEF ApplyPresenceUpdate, Shows
    <2>3. CASE b.room \notin rooms
        BY <1>9, <2>3 DEF ApplyPresenceUpdate, Untold
    <2> QED BY <2>2, <2>3
<1>10. ASSUME NEW s \in Sockets, NEW b \in Binding, NEW to \in Peers \cup {Everyone},
              ApplyChat(s, b, to)
       PROVE  Effect
    BY <1>10 DEF ApplyChat, Untold
<1>11. ASSUME NEW p \in Peers, NEW kind \in {"chat", "presence"}, Refill(p, kind) PROVE Effect
    BY <1>11 DEF Refill, Untold, roomVars
<1>12. CASE UNCHANGED vars
    BY <1>12 DEF vars, Untold
<1> QED
    BY <1>1, <1>2, <1>3, <1>4, <1>5, <1>6, <1>7, <1>8, <1>9, <1>10, <1>11, <1>12
    DEF Next, HandleMessage, Background, ApplyMute, ApplyUnmute

\* What each effect does to the members, in full.
LEMMA EffectMembers ==
    ASSUME TypeOK, Effect, NEW x \in Rooms, NEW q \in Members(x)'
    PROVE  q \in Members(x) \/ Claimed(q, x)
<1>1. CASE Untold \/ GoneBefore \/ Shows
    BY <1>1 DEF Untold, GoneBefore, Shows, Members, roomVars
<1>2. CASE Gone
    BY <1>2, RemovePeerMembers DEF Gone, TypeOK, RoomsTypeOK
<1>3. CASE Came
    <2>1. PICK j \in Join : Claimed(j.peer, j.room) /\ Admit(j)
        BY <1>3 DEF Came
    <2>2. CASE UNCHANGED peerMap
        BY <2>2 DEF Members
    <2>3. CASE ~UNCHANGED peerMap
        BY <2>1, <2>3, AdmitMembers DEF Join
    <2> QED BY <2>2, <2>3
<1> QED BY <1>1, <1>2, <1>3 DEF Effect

\* A step forgets bindings and suspended joins, or has one of them from a join.
Forgets == /\ pending' \subseteq pending
           /\ \A s \in Sockets : bound'[s] \in {bound[s], NoBinding}
Requested == \E s \in Sockets : \E j \in JoinsOf(s) : RequestJoin(j)
Bound == \E j \in Join : Claimed(j.peer, j.room) /\ Admit(j) /\ pending' \subseteq pending

\* No step does anything else to bindings and suspended joins.
LEMMA BindingCases ==
    ASSUME TypeOK, ClaimsInv, [Next]_vars
    PROVE  Forgets \/ Requested \/ Bound
<1>1. ASSUME NEW s \in Sockets, NEW j \in JoinsOf(s), ApplyJoin(j) PROVE Bound
    BY <1>1 DEF JoinsOf, Claimed, ApplyJoin, Bound
<1>2. ASSUME NEW s \in Sockets, NEW j \in JoinsOf(s), RequestJoin(j) PROVE Requested
    BY <1>2 DEF Requested
<1>3. ASSUME NEW j \in pending, ResolveJoin(j) PROVE Bound
    BY <1>3 DEF ClaimsInv, ResolveJoin, TypeOK, Bound
<1>4. ASSUME NEW j \in pending, RejectJoin(j) PROVE Forgets
    BY <1>4 DEF RejectJoin, Forgets
<1>5. ASSUME NEW s \in Sockets, HandleConnection(s) \/ HandleDisconnect(s) PROVE Forgets
    BY <1>5 DEF HandleConnection, HandleDisconnect, Forgets, TypeOK
<1>6. ASSUME NEW s \in Sockets, NEW b \in Claims[s], ApplyLeave(s, b) PROVE Forgets
    BY <1>6 DEF ApplyLeave, Forgets, TypeOK
<1>7. ASSUME NEW s \in Sockets, NEW b \in Binding, NEW t \in Peers, ApplyKick(s, b, t)
      PROVE  Forgets
    BY <1>7 DEF ApplyKick, Forgets
<1>8. ASSUME UNCHANGED <<bound, pending>> PROVE Forgets
    BY <1>8 DEF Forgets
<1>9. ASSUME NEW s \in Sockets, NEW b \in Binding,
             \/ \E change \in [Attrs -> {"keep", "set", "clear"}] :
                    ApplyPresenceUpdate(s, b, change)
             \/ \E to \in Peers \cup {Everyone} : ApplyChat(s, b, to)
             \/ \E t \in Peers : \/ ApplyPromote(s, b, t) \/ ApplyDemote(s, b, t)
                                 \/ \E key, how : Mute(s, b, t, key, how)
      PROVE  Forgets
    BY <1>8, <1>9 DEF ApplyPresenceUpdate, ApplyChat, ApplyPromote, ApplyDemote, Mute
<1>10. ASSUME NEW p \in Peers, NEW kind \in {"chat", "presence"}, Refill(p, kind) PROVE Forgets
    BY <1>8, <1>10 DEF Refill
<1>11. CASE UNCHANGED vars
    BY <1>8, <1>11 DEF vars
<1> QED
    BY <1>1, <1>2, <1>3, <1>4, <1>5, <1>6, <1>7, <1>9, <1>10, <1>11
    DEF Next, HandleMessage, Background, ApplyMute, ApplyUnmute

\* Nobody is bound, waiting or in a room at first.
LEMMA ClaimsInit == Init => ClaimsInv
BY DEF Init, ClaimsInv, Members

\* Nothing but a message of a socket brings a peer to a room.
LEMMA ClaimsStep == TypeOK /\ ClaimsInv /\ [Next]_vars => ClaimsInv'
<1> SUFFICES ASSUME TypeOK, ClaimsInv, [Next]_vars PROVE ClaimsInv'
    OBVIOUS
<1>1. \A r \in Rooms : \A p \in Members(r)' : Claimed(p, r)
    BY EffectCases, EffectMembers DEF ClaimsInv
<1>2. \A j \in pending' : Claimed(j.peer, j.room)
    <2>1. CASE Requested
        BY <2>1 DEF Requested, RequestJoin, JoinsOf, Claimed, ClaimsInv
    <2>2. CASE Forgets \/ Bound
        BY <2>2 DEF Forgets, Bound, ClaimsInv
    <2> QED BY <2>1, <2>2, BindingCases
<1>3. \A s \in Sockets : bound'[s] # NoBinding => Claimed(bound'[s].peer, bound'[s].room)
    <2>1. CASE Forgets \/ Requested
        BY <2>1 DEF Forgets, Requested, RequestJoin, ClaimsInv
    <2>2. CASE Bound
        <3>1. PICK j \in Join : Claimed(j.peer, j.room) /\ Admit(j)
            BY <2>2 DEF Bound
        <3>2. bound' = [bound EXCEPT ![j.socket] = [peer |-> j.peer, room |-> j.room]]
            BY <3>1 DEF Admit
        <3>3. \A s \in Sockets : \/ bound'[s] = bound[s]
                                 \/ bound'[s] = [peer |-> j.peer, room |-> j.room]
            BY <3>2 DEF TypeOK
        <3> QED BY <3>1, <3>3 DEF ClaimsInv
    <2> QED BY <2>1, <2>2, BindingCases
<1>4. (\A r \in Rooms : \A p \in Members(r) : Claimed(p, r))'
    BY <1>1 DEF Claimed
<1>5. (\A j \in pending : Claimed(j.peer, j.room))'
    BY <1>2 DEF Claimed
<1>6. (\A s \in Sockets : bound[s] # NoBinding => Claimed(bound[s].peer, bound[s].room))'
    BY <1>3 DEF Claimed
<1> QED BY <1>4, <1>5, <1>6 DEF ClaimsInv

-----------------------------------------------------------------------------
\* Routes and views.

\* RoomInv is here for NoEmptyRooms: a room that is gone has no members, so a disconnect
\* from it leaves nobody without a route.
RoutesInv == RoomInv /\ ClaimsInv /\ MembersRoutable

\* Each effect keeps routes and members together.
LEMMA RoutesStep == RoutesInv /\ [Next]_vars => RoutesInv'
<1> SUFFICES ASSUME RoutesInv, [Next]_vars PROVE RoutesInv'
    OBVIOUS
<1>1. /\ TypeOK /\ ClaimsInv /\ NoEmptyRooms
      /\ RoomInv' /\ ClaimsInv'
    BY RoomStep, ClaimsStep DEF RoutesInv, RoomInv
<1>2. ASSUME OneRoomPerPeer PROVE (Routable = UNION {Members(r) : r \in Rooms})'
    <2>1. peerIndex = UNION {Members(r) : r \in Rooms}
        BY <1>2 DEF RoutesInv, MembersRoutable, Routable
    <2>2. ASSUME NEW r \in Rooms, NEW p \in Peers, Claimed(p, r),
                 NEW x \in Rooms, x # r
          PROVE  p \notin Members(x)
        BY <1>1, <1>2, <2>2, OneClaim DEF ClaimsInv
    <2>3. CASE Untold \/ Shows
        BY <2>1, <2>3 DEF Untold, Shows, Members, Routable
    <2>4. CASE Gone
        <3>1. PICK r \in Rooms, p \in Peers :
                 Claimed(p, r) /\ RemovePeer(r, p) /\ peerIndex' = peerIndex \ {p}
            BY <1>1, <2>4 DEF Gone, TypeOK, RoomsTypeOK
        <3>2. /\ Members(r)' = Members(r) \ {p}
              /\ \A x \in Rooms \ {r} : Members(x)' = Members(x) /\ p \notin Members(x)
            BY <1>1, <2>2, <3>1, RemovePeerMembers
        <3>3. \A x \in Rooms : Members(x)' = Members(x) \ {p}
            BY <3>2
        <3>4. \A q : (\E x \in Rooms : q \in Members(x)')
                       <=> q # p /\ \E x \in Rooms : q \in Members(x)
            BY <3>3
        <3>5. \A q : q \in peerIndex' <=> \E x \in Rooms : q \in Members(x)'
            BY <2>1, <3>1, <3>4
        <3>6. peerIndex' = UNION {Members(x)' : x \in Rooms}
            BY <3>5
        <3> QED BY <3>6 DEF Routable
    <2>5. CASE GoneBefore
        <3>1. PICK r \in Rooms \ rooms, p \in Peers :
                 Claimed(p, r) /\ UNCHANGED roomVars /\ peerIndex' = peerIndex \ {p}
            BY <2>5 DEF GoneBefore
        <3>2. \A x \in Rooms : p \notin Members(x)
            BY <1>1, <2>2, <3>1 DEF NoEmptyRooms
        <3>3. \A x \in Rooms : Members(x)' = Members(x)
            BY <3>1 DEF Members, roomVars
        <3> QED BY <2>1, <3>1, <3>2, <3>3 DEF Routable
    <2>6. CASE Came
        <3>1. PICK j \in Join : Claimed(j.peer, j.room) /\ Admit(j)
            BY <2>6 DEF Came
        <3>2. j.room \in Rooms /\ j.peer \in Peers /\ j.socket \in Sockets
            BY DEF Join
        <3>3. CASE ~HasSpace(j.room, j.peer)
            BY <2>1, <3>1, <3>3 DEF Admit, roomVars, Members, Routable
        <3>4. CASE HasSpace(j.room, j.peer)
            <4>1. /\ peerMap' = [peerMap EXCEPT ![j.room][j.peer] = j.socket]
                  /\ peerIndex' = peerIndex \cup {j.peer}
                BY <3>1, <3>4 DEF Admit
            <4>2. Members(j.room)' = Members(j.room) \cup {j.peer}
                BY <1>1, <3>2, <4>1, SessionConstants DEF Members, TypeOK, RoomsTypeOK
            <4>3. \A x \in Rooms \ {j.room} : Members(x)' = Members(x)
                BY <1>1, <3>2, <4>1 DEF Members, TypeOK, RoomsTypeOK
            <4> QED BY <2>1, <3>2, <4>1, <4>2, <4>3 DEF Routable
        <3> QED BY <3>3, <3>4
    <2> QED BY <1>1, <2>3, <2>4, <2>5, <2>6, EffectCases DEF Effect
<1>3. MembersRoutable'
    BY <1>2 DEF MembersRoutable, OneRoomPerPeer
<1> QED BY <1>1, <1>3 DEF RoutesInv

\* Where no peer id is used in two rooms, sdp and ice can be routed to exactly the peers
\* that are in a room, through every way in and out.
THEOREM Members_Routable == Spec => []MembersRoutable
<1>1. Init => RoutesInv
    <2> SUFFICES ASSUME Init PROVE RoutesInv
        OBVIOUS
    <2>1. \A r \in Rooms : Members(r) = {}
        BY DEF Init, Members
    <2>2. MembersRoutable
        BY <2>1 DEF MembersRoutable, Routable, Init
    <2> QED BY <2>2, RoomInit, ClaimsInit DEF RoutesInv
<1>2. RoutesInv /\ [Next]_vars => RoutesInv'
    BY RoutesStep
<1>3. RoutesInv => MembersRoutable
    BY DEF RoutesInv
<1> QED BY <1>1, <1>2, <1>3, PTL DEF Spec

\* What q was told is what is so in room r.
Agrees(q, r) ==
    /\ view[q].joined \ {q} = Members(r) \ {q}
    /\ view[q].presence = presence[r]

ViewsInv == RoomInv /\ ClaimsInv /\ ViewsAgree

\* A peer that leaves leaves the views of those who stay.
LEMMA GoneAgrees ==
    ASSUME TypeOK, NEW x \in Rooms, NEW p \in Peers, RemovePeer(x, p),
           NEW q \in Members(x), q # p, Agrees(q, x), Members(x)' # {}
    PROVE  Agrees(q, x)'
<1>1. q \in Peers /\ view[q] \in View
    BY DEF Members, TypeOK, RoomsTypeOK
<1>2. Members(x)' = Members(x) \ {p}
    BY RemovePeerMembers
<1>3. view'[q] = ToldLeft(q, x, p)
    BY <1>1 DEF RemovePeer
<1>4. presence' = [presence EXCEPT ![x][p] = {}]
    <2>1. ~LastToLeave(x, p)
        BY <1>2 DEF LastToLeave
    <2> QED BY <2>1 DEF RemovePeer
<1>5. presence'[x] = [presence[x] EXCEPT ![p] = {}]
    BY <1>4 DEF TypeOK, RoomsTypeOK
<1>6. /\ ToldLeft(q, x, p).joined = view[q].joined \ {p}
      /\ ToldLeft(q, x, p).presence = IF presence[x][p] # {}
                                      THEN [view[q].presence EXCEPT ![p] = {}]
                                      ELSE view[q].presence
    BY <1>1 DEF ToldLeft, View
<1>7. presence[x][p] = {} => presence[x] = [presence[x] EXCEPT ![p] = {}]
    BY DEF TypeOK, RoomsTypeOK
<1>8. view'[q].joined \ {q} = Members(x)' \ {q}
    BY <1>2, <1>3, <1>6 DEF Agrees
<1>9. view'[q].presence = presence'[x]
    BY <1>3, <1>5, <1>6, <1>7 DEF Agrees
<1> QED BY <1>8, <1>9 DEF Agrees

\* A peer that comes is told of the room, and those who are there of it.
LEMMA CameAgrees ==
    ASSUME TypeOK, NEW j \in Join, Admit(j), HasSpace(j.room, j.peer),
           NEW q \in Members(j.room)', q # j.peer => Agrees(q, j.room)
    PROVE  Agrees(q, j.room)'
<1>1. j.room \in Rooms /\ j.peer \in Peers /\ j.socket \in Sockets
    BY DEF Join
<1>2. /\ peerMap' = [peerMap EXCEPT ![j.room][j.peer] = j.socket]
      /\ presence' = presence
      /\ view' = [p \in Peers |->
                    IF p = j.peer
                    THEN [joined |-> Members(j.room), presence |-> presence[j.room],
                          history |-> IF j.replay THEN chat[j.room] ELSE <<>>]
                    ELSE IF p \in Members(j.room) THEN [view[p] EXCEPT !.joined = @ \cup {j.peer}]
                    ELSE view[p]]
    BY DEF Admit
<1>3. Members(j.room)' = Members(j.room) \cup {j.peer}
    BY <1>1, <1>2, SessionConstants DEF Members, TypeOK, RoomsTypeOK
<1>4. q \in Peers
    BY <1>1, <1>3 DEF Members
<1>5. CASE q = j.peer
    <2>1. view'[q].joined = Members(j.room) /\ view'[q].presence = presence[j.room]
        BY <1>2, <1>4, <1>5
    <2> QED BY <1>2, <1>3, <1>5, <2>1 DEF Agrees
<1>6. CASE q # j.peer
    <2>1. view'[q] = [view[q] EXCEPT !.joined = @ \cup {j.peer}]
        BY <1>2, <1>3, <1>4, <1>6
    <2>2. view[q] \in View
        BY <1>4 DEF TypeOK, RoomsTypeOK
    <2>3. view'[q].joined = view[q].joined \cup {j.peer} /\ view'[q].presence = view[q].presence
        BY <2>1, <2>2 DEF View
    <2> QED BY <1>2, <1>3, <1>6, <2>3 DEF Agrees
<1> QED BY <1>5, <1>6

\* A change of presence is told to every member.
LEMMA ShowsAgrees ==
    ASSUME TypeOK, NEW x \in Rooms, NEW p \in Peers, NEW change, SetPresence(x, p, change),
           UNCHANGED peerMap, NEW q \in Members(x), Agrees(q, x)
    PROVE  Agrees(q, x)'
<1> DEFINE next == Merge(presence[x][p], change)
<1>1. /\ presence' = [presence EXCEPT ![x][p] = next]
      /\ view' = [o \in Peers |-> IF o \in Members(x)
                                  THEN [view[o] EXCEPT !.presence[p] = next] ELSE view[o]]
    BY DEF SetPresence
<1> HIDE DEF next
<1>2. q \in Peers /\ view[q] \in View
    BY DEF Members, TypeOK, RoomsTypeOK
<1>3. view'[q] = [view[q] EXCEPT !.presence[p] = next]
    BY <1>1, <1>2
<1>4. /\ view'[q].joined = view[q].joined
      /\ view'[q].presence = [view[q].presence EXCEPT ![p] = next]
    BY <1>2, <1>3 DEF View
<1>5. presence'[x] = [presence[x] EXCEPT ![p] = next]
    BY <1>1 DEF TypeOK, RoomsTypeOK
<1>6. Members(x)' = Members(x)
    BY DEF Members
<1> QED BY <1>4, <1>5, <1>6 DEF Agrees

\* Each effect keeps views and rooms together.
LEMMA ViewsStep == ViewsInv /\ [Next]_vars => ViewsInv'
<1> SUFFICES ASSUME ViewsInv, [Next]_vars PROVE ViewsInv'
    OBVIOUS
<1>1. /\ TypeOK /\ ClaimsInv
      /\ RoomInv' /\ ClaimsInv'
    BY RoomStep, ClaimsStep DEF ViewsInv, RoomInv
<1>2. ASSUME OneRoomPerPeer, NEW r \in Rooms, NEW q \in Members(r)' PROVE Agrees(q, r)'
    <2>1. \A x \in Rooms : \A p \in Members(x) : Agrees(p, x)
        BY <1>2 DEF ViewsInv, ViewsAgree, Agrees
    <2>2. ASSUME NEW p \in Peers, NEW x \in Rooms, Claimed(p, x), NEW y \in Rooms, y # x
          PROVE  p \notin Members(y)
        BY <1>1, <1>2, <2>2, OneClaim DEF ClaimsInv
    <2>3. ASSUME NEW x \in Rooms, NEW p \in Members(x), NEW y \in Rooms, y # x
          PROVE  p \notin Members(y)
        BY <1>1, <2>2, <2>3 DEF ClaimsInv, Members
    <2>4. CASE UNCHANGED <<peerMap, presence, view>>
        BY <2>1, <2>4 DEF Members, Agrees
    <2>5. CASE Gone
        <3>1. PICK x \in Rooms, p \in Peers : Claimed(p, x) /\ RemovePeer(x, p)
            BY <1>1, <2>5 DEF Gone, TypeOK, RoomsTypeOK
        <3>2. /\ Members(x)' = Members(x) \ {p}
              /\ \A y \in Rooms \ {x} : Members(y)' = Members(y)
            BY <1>1, <3>1, RemovePeerMembers
        <3>3. CASE r = x
            BY <1>1, <2>1, <3>1, <3>2, <3>3, GoneAgrees
        <3>4. CASE r # x
            <4>1. q \in Members(r) /\ q \notin Members(x) /\ q # p /\ q \in Peers
                BY <2>2, <2>3, <3>1, <3>2, <3>4 DEF Members
            <4>2. view'[q] = view[q]
                BY <3>1, <4>1 DEF RemovePeer
            <4>3. presence'[r] = presence[r]
                BY <1>1, <3>1, <3>4 DEF RemovePeer, TypeOK, RoomsTypeOK
            <4>4. Members(r)' = Members(r)
                BY <3>2, <3>4
            <4> QED BY <2>1, <4>1, <4>2, <4>3, <4>4 DEF Agrees
        <3> QED BY <3>3, <3>4
    <2>6. CASE Came
        <3>1. PICK j \in Join : Claimed(j.peer, j.room) /\ Admit(j)
            BY <2>6 DEF Came
        <3>2. j.room \in Rooms /\ j.peer \in Peers /\ j.socket \in Sockets
            BY DEF Join
        <3>3. CASE ~HasSpace(j.room, j.peer)
            BY <2>4, <3>1, <3>3 DEF Admit, roomVars
        <3>4. CASE HasSpace(j.room, j.peer)
            <4>1. /\ peerMap' = [peerMap EXCEPT ![j.room][j.peer] = j.socket]
                  /\ UNCHANGED presence
                BY <3>1, <3>4 DEF Admit
            <4>2. Members(j.room)' = Members(j.room) \cup {j.peer}
                BY <1>1, <3>2, <4>1, SessionConstants DEF Members, TypeOK, RoomsTypeOK
            <4>3. \A y \in Rooms \ {j.room} : Members(y)' = Members(y)
                BY <1>1, <3>2, <4>1 DEF Members, TypeOK, RoomsTypeOK
            <4>4. CASE r = j.room
                BY <1>1, <2>1, <3>1, <3>4, <4>2, <4>4, CameAgrees
            <4>5. CASE r # j.room
                <5>1. q \in Members(r) /\ q \notin Members(j.room) /\ q # j.peer /\ q \in Peers
                    BY <2>2, <2>3, <3>1, <3>2, <4>3, <4>5 DEF Members
                <5>2. view'[q] = view[q]
                    BY <3>1, <3>4, <5>1 DEF Admit
                <5>3. Members(r)' = Members(r)
                    BY <4>3, <4>5
                <5> QED BY <2>1, <4>1, <5>1, <5>2, <5>3 DEF Agrees
            <4> QED BY <4>4, <4>5
        <3> QED BY <3>3, <3>4
    <2>7. CASE Shows
        <3>1. PICK x \in Rooms, p \in Peers : \E change :
                 SetPresence(x, p, change) /\ UNCHANGED peerMap
            BY <2>7 DEF Shows
        <3>2. PICK change : SetPresence(x, p, change) /\ UNCHANGED peerMap
            BY <3>1
        <3>3. \A y \in Rooms : Members(y)' = Members(y)
            BY <3>2 DEF Members
        <3>4. CASE r = x
            BY <1>1, <2>1, <3>2, <3>3, <3>4, ShowsAgrees
        <3>5. CASE r # x
            <4>1. q \in Members(r) /\ q \notin Members(x) /\ q \in Peers
                BY <2>3, <3>3, <3>5 DEF Members
            <4>2. view'[q] = view[q]
                BY <3>2, <4>1 DEF SetPresence
            <4>3. presence'[r] = presence[r]
                BY <1>1, <3>2, <3>5 DEF SetPresence, TypeOK, RoomsTypeOK
            <4>4. Members(r)' = Members(r)
                BY <3>3
            <4> QED BY <2>1, <4>1, <4>2, <4>3, <4>4 DEF Agrees
        <3> QED BY <3>4, <3>5
    <2>8. CASE Untold \/ GoneBefore
        BY <2>4, <2>8 DEF Untold, GoneBefore, roomVars
    <2> QED BY <1>1, <2>5, <2>6, <2>7, <2>8, EffectCases DEF Effect
<1>3. ViewsAgree'
    BY <1>2 DEF ViewsAgree, OneRoomPerPeer, Agrees
<1> QED BY <1>1, <1>3 DEF ViewsInv

\* Where no peer id is used in two rooms, what a member was told since it joined, by
\* peer-joined, peer-left, presence-snapshot and presence-state, is its room: who is in it
\* and everybody's presence, through rejoins, evictions by a stale socket, and kicks.
THEOREM Views_Agree == Spec => []ViewsAgree
<1>1. Init => ViewsInv
    <2> SUFFICES ASSUME Init PROVE ViewsInv
        OBVIOUS
    <2>1. \A r \in Rooms : Members(r) = {}
        BY DEF Init, Members
    <2>2. ViewsAgree
        BY <2>1 DEF ViewsAgree
    <2> QED BY <2>2, RoomInit, ClaimsInit DEF ViewsInv
<1>2. ViewsInv /\ [Next]_vars => ViewsInv'
    BY ViewsStep
<1>3. ViewsInv => ViewsAgree
    BY DEF ViewsInv
<1> QED BY <1>1, <1>2, <1>3, PTL DEF Spec

-----------------------------------------------------------------------------
(***************************************************************************)
(* Proofs about SignalingServer: the routes that a host learns by peeking  *)
(* at joins lead to the sockets that hold the entries of the members,      *)
(* for every number of sockets, peers and rooms.                           *)
(***************************************************************************)

\* Some message of socket s names peer p.
Speaks(s, p) == \E b \in Claims[s] : b.peer = p

\* What a step of the server does to sockets, bindings, entries and routes.
Kept == UNCHANGED <<conn, bound, pending, peerMap, peerToSocket>>
Opened == \E s \in Sockets :
    /\ conn[s] = "new" /\ conn' = [conn EXCEPT ![s] = "open"]
    /\ UNCHANGED <<bound, pending, peerMap, peerToSocket>>
Removed(b) == peerMap' = [peerMap EXCEPT ![b.room][b.peer] = NoSocket]
Closed == \E s \in Sockets :
    /\ Registered(s)
    /\ conn' = [conn EXCEPT ![s] = "closed"]
    /\ bound' = [bound EXCEPT ![s] = NoBinding]
    /\ peerToSocket' = RoutesWithout(s)
    /\ \/ UNCHANGED peerMap /\ (bound[s] \in Binding => bound[s].room \notin rooms)
       \/ bound[s] \in Binding /\ Removed(bound[s])
    /\ UNCHANGED pending
Waits == \E j \in Join :
    /\ Registered(j.socket) /\ [peer |-> j.peer, room |-> j.room] \in Claims[j.socket]
    /\ peerToSocket' = RouteTo(j)
    /\ pending' = pending \/ (Authenticate /\ pending' = pending \cup {j})
    /\ UNCHANGED <<conn, bound, peerMap>>
Entered(j) ==
    /\ bound' = [bound EXCEPT ![j.socket] = [peer |-> j.peer, room |-> j.room]]
    /\ UNCHANGED peerMap \/ peerMap' = [peerMap EXCEPT ![j.room][j.peer] = j.socket]
    /\ UNCHANGED conn
Joined == \E j \in Join :
    /\ Registered(j.socket) /\ [peer |-> j.peer, room |-> j.room] \in Claims[j.socket]
    /\ peerToSocket' = RouteTo(j)
    /\ Entered(j) /\ UNCHANGED pending
Answered == \E j \in pending :
    /\ pending' = pending \ {j} /\ UNCHANGED peerToSocket
    /\ Entered(j) \/ UNCHANGED <<conn, bound, peerMap>>
Left == \E b \in Binding :
    /\ Removed(b)
    /\ \A s \in Sockets : bound'[s] = bound[s] \/ (bound[s] = b /\ bound'[s] = NoBinding)
    /\ UNCHANGED <<conn, pending, peerToSocket>>
ServerEffect == Kept \/ Opened \/ Closed \/ Waits \/ Joined \/ Answered \/ Left

\* The host adds no step to the session's.
LEMMA ServerIsSession == [ServerNext]_serverVars => [Next]_vars
BY DEF ServerNext, OnConnection, OnClose, OnMessage, OnJoin, Next, serverVars

\* An accepted join binds its socket, and enters its peer unless the room is full.
LEMMA AdmitEnters ==
    ASSUME NEW j \in Join, Admit(j), UNCHANGED conn
    PROVE  Entered(j)
BY DEF Admit, Entered, roomVars

\* Every step of the server has one of these effects.
LEMMA ServerCases ==
    ASSUME TypeOK, [ServerNext]_serverVars
    PROVE  ServerEffect
<1> USE DEF ServerEffect
<1>1. ASSUME NEW s \in Sockets, OnConnection(s) PROVE Opened
    BY <1>1 DEF OnConnection, HandleConnection, Opened, roomVars
<1>2. ASSUME NEW s \in Sockets, OnClose(s) PROVE Closed
    <2>1. /\ Registered(s)
          /\ conn' = [conn EXCEPT ![s] = "closed"]
          /\ bound' = [bound EXCEPT ![s] = NoBinding]
          /\ UNCHANGED pending /\ peerToSocket' = RoutesWithout(s)
        BY <1>2 DEF OnClose, HandleDisconnect
    <2>2. CASE bound[s] = NoBinding /\ UNCHANGED roomVars
        BY <2>1, <2>2, SessionConstants DEF Closed, roomVars
    <2>3. CASE ~(bound[s] = NoBinding /\ UNCHANGED roomVars)
        <3>1. /\ bound[s] \in Binding
              /\ IF bound[s].room \in rooms THEN RemovePeer(bound[s].room, bound[s].peer)
                 ELSE UNCHANGED roomVars
            BY <1>2, <2>3 DEF OnClose, HandleDisconnect
        <3>2. CASE bound[s].room \in rooms
            BY <2>1, <3>1, <3>2 DEF RemovePeer, Removed, Closed
        <3>3. CASE bound[s].room \notin rooms
            BY <2>1, <3>1, <3>3 DEF Closed, roomVars
        <3> QED BY <3>2, <3>3
    <2> QED BY <2>2, <2>3
<1>3. ASSUME NEW s \in Sockets, NEW j \in JoinsOf(s), OnJoin(j) PROVE Waits \/ Joined
    <2>1. /\ j \in Join /\ Registered(j.socket) /\ peerToSocket' = RouteTo(j)
          /\ [peer |-> j.peer, room |-> j.room] \in Claims[j.socket]
        BY <1>3 DEF JoinsOf, OnJoin
    <2>2. CASE ApplyJoin(j)
        BY <2>1, <2>2, AdmitEnters DEF ApplyJoin, Joined
    <2>3. CASE RequestJoin(j) \/ UNCHANGED vars
        BY <2>1, <2>3 DEF RequestJoin, vars, roomVars, Waits
    <2> QED BY <1>3, <2>2, <2>3 DEF OnJoin
<1>4. ASSUME NEW s \in Sockets, NEW b \in Claims[s], ApplyLeave(s, b), UNCHANGED peerToSocket
      PROVE  Left
    <2>1. b \in Binding /\ [peer |-> b.peer, room |-> b.room] = b
        BY SessionConstants DEF Binding
    <2>2. /\ Removed(b) /\ UNCHANGED <<conn, pending>>
          /\ bound' = IF bound[s] = b THEN [bound EXCEPT ![s] = NoBinding] ELSE bound
        BY <1>4 DEF ApplyLeave, RemovePeer, Removed
    <2>3. \A u \in Sockets : bound'[u] = bound[u] \/ (bound[u] = b /\ bound'[u] = NoBinding)
        BY <2>2 DEF TypeOK
    <2> QED BY <1>4, <2>1, <2>2, <2>3 DEF Left
<1>5. ASSUME NEW s \in Sockets, NEW b \in Binding, NEW t \in Peers, ApplyKick(s, b, t),
             UNCHANGED peerToSocket
      PROVE  Left
    <2> DEFINE gone == [peer |-> t, room |-> b.room]
    <2>1. gone \in Binding /\ gone.peer = t /\ gone.room = b.room
        BY DEF Binding
    <2>2. /\ Removed(gone) /\ UNCHANGED <<conn, pending>>
          /\ bound' = [u \in Sockets |-> IF BoundTo(u, gone) THEN NoBinding ELSE bound[u]]
        BY <1>5, <2>1 DEF ApplyKick, RemovePeer, Removed
    <2> HIDE DEF gone
    <2>3. \A u \in Sockets : \/ bound'[u] = bound[u]
                             \/ bound[u] = gone /\ bound'[u] = NoBinding
        BY <2>2 DEF BoundTo
    <2> QED BY <1>5, <2>1, <2>2, <2>3 DEF Left
<1>6. ASSUME NEW s \in Sockets, NEW b \in Binding, UNCHANGED peerToSocket,
             \/ \E change \in [Attrs -> {"keep", "set", "clear"}] :
                    ApplyPresenceUpdate(s, b, change)
             \/ \E to \in Peers \cup {Everyone} : ApplyChat(s, b, to)
             \/ \E t \in Peers : \/ ApplyPromote(s, b, t) \/ ApplyDemote(s, b, t)
                                 \/ \E key, how : Mute(s, b, t, key, how)
      PROVE  Kept
    BY <1>6 DEF ApplyPresenceUpdate, ApplyChat, ApplyPromote, ApplyDemote, Mute, Kept
<1>7. ASSUME NEW s \in Sockets, OnMessage(s) PROVE Left \/ Kept
    BY <1>4, <1>5, <1>6, <1>7 DEF OnMessage, HandleMessage, ApplyMute, ApplyUnmute
<1>8. ASSUME Background, UNCHANGED peerToSocket PROVE Answered \/ Kept
    <2>1. ASSUME NEW j \in pending, ResolveJoin(j) PROVE Answered
        BY <1>8, <2>1, AdmitEnters DEF ResolveJoin, Answered, TypeOK
    <2>2. ASSUME NEW j \in pending, RejectJoin(j) PROVE Answered
        BY <1>8, <2>2 DEF RejectJoin, Answered, roomVars
    <2>3. ASSUME NEW p \in Peers, NEW kind \in {"chat", "presence"}, Refill(p, kind) PROVE Kept
        BY <1>8, <2>3 DEF Refill, Kept, roomVars
    <2> QED BY <1>8, <2>1, <2>2, <2>3 DEF Background
<1>9. CASE UNCHANGED serverVars
    BY <1>9 DEF serverVars, vars, Kept
<1> QED BY <1>1, <1>2, <1>3, <1>7, <1>8, <1>9 DEF ServerNext

-----------------------------------------------------------------------------
\* The routes.

RoutesTypeOK == peerToSocket \in [Peers -> Sockets \cup {NoSocket}]

\* Every route leads to an open socket that named its peer.
RouteInv == \A p \in Peers : peerToSocket[p] # NoSocket =>
    Registered(peerToSocket[p]) /\ Speaks(peerToSocket[p], p)

\* Socket s once named peer p, and while it is open p is reached through it.
Follows(s, p) ==
    /\ s \in Sockets /\ conn[s] # "new" /\ Speaks(s, p)
    /\ Registered(s) => peerToSocket[p] = s

\* So do the sockets of members, and of joins that wait: when the authenticator answers
\* nothing is routed anew.
FollowInv == OneSocketPerPeer =>
    /\ \A j \in pending : Follows(j.socket, j.peer)
    /\ \A r \in Rooms, p \in Peers : peerMap[r][p] # NoSocket => Follows(peerMap[r][p], p)

\* Where sockets speak for one peer each and nobody waits, a member's socket is open and
\* bound to it, so that the close that ends the socket ends the membership.
Held(s, b) == Registered(s) /\ bound[s] = b /\ b \in Claims[s]
PlainInv == Plain =>
    /\ pending = {}
    /\ \A r \in Rooms, p \in Peers : peerMap[r][p] # NoSocket =>
         Held(peerMap[r][p], [peer |-> p, room |-> r])

\* RoomInv is here for NoEmptyRooms: the close of a socket bound to a room that is gone
\* leaves no member behind.
ServerInv == RoomInv /\ RoutesTypeOK /\ RouteInv /\ FollowInv /\ PlainInv

\* One socket speaks for a peer.
LEMMA OneSpeaker ==
    ASSUME OneSocketPerPeer, NEW p, NEW s \in Sockets, NEW t \in Sockets,
           Speaks(s, p), Speaks(t, p)
    PROVE  s = t
BY DEF OneSocketPerPeer, Speaks

\* A plain socket has one claim.
LEMMA OneBinding ==
    ASSUME Plain, NEW s \in Sockets, NEW b \in Claims[s], NEW c \in Claims[s]
    PROVE  b = c
BY DEF Plain

\* A socket that p follows is followed still, whatever sockets open or close and whichever
\* joins are routed, unless it closes itself: no other socket names p.
LEMMA FollowStep ==
    ASSUME TypeOK, RoutesTypeOK, OneSocketPerPeer, ServerEffect,
           NEW s, NEW p \in Peers, Follows(s, p)
    PROVE  Follows(s, p)'
<1>1. s \in Sockets /\ conn[s] # "new" /\ Speaks(s, p) /\ Speaks(s, p)'
    BY DEF Follows, Speaks
<1>2. CASE UNCHANGED <<conn, peerToSocket>>
    BY <1>1, <1>2 DEF Follows, Registered
<1>3. CASE Opened
    <2>1. conn'[s] = conn[s] /\ UNCHANGED peerToSocket
        BY <1>1, <1>3 DEF Opened, TypeOK
    <2> QED BY <1>1, <2>1 DEF Follows, Registered
<1>4. CASE Closed
    <2>1. PICK t \in Sockets : /\ conn' = [conn EXCEPT ![t] = "closed"]
                               /\ peerToSocket' = RoutesWithout(t)
        BY <1>4 DEF Closed
    <2>2. CASE s = t
        BY <1>1, <2>1, <2>2 DEF Follows, Registered, TypeOK
    <2>3. CASE s # t
        BY <1>1, <2>1, <2>3 DEF Follows, Registered, TypeOK, RoutesWithout
    <2> QED BY <2>2, <2>3
<1>5. CASE Waits \/ Joined
    <2>1. PICK j \in Join : /\ [peer |-> j.peer, room |-> j.room] \in Claims[j.socket]
                            /\ peerToSocket' = RouteTo(j) /\ UNCHANGED conn
        BY <1>5 DEF Waits, Joined, Entered
    <2>2. j.socket \in Sockets /\ j.peer \in Peers /\ Speaks(j.socket, j.peer)
        BY <2>1 DEF Join, Speaks
    <2>3. j.peer = p => j.socket = s
        BY <1>1, <2>2, OneSpeaker
    <2>4. peerToSocket'[p] = IF j.peer = p THEN j.socket ELSE peerToSocket[p]
        BY <2>1, <2>2 DEF RouteTo, RoutesTypeOK
    <2> QED BY <1>1, <2>1, <2>3, <2>4 DEF Follows, Registered
<1> QED BY <1>2, <1>3, <1>4, <1>5 DEF ServerEffect, Kept, Answered, Entered, Left

\* The socket of a join that is routed is one its peer follows.
LEMMA RoutedFollows ==
    ASSUME RoutesTypeOK, NEW j \in Join, Registered(j.socket), UNCHANGED conn,
           [peer |-> j.peer, room |-> j.room] \in Claims[j.socket], peerToSocket' = RouteTo(j)
    PROVE  Follows(j.socket, j.peer)'
<1>1. j.socket \in Sockets /\ j.peer \in Peers
    BY DEF Join
<1>2. peerToSocket'[j.peer] = j.socket
    BY <1>1 DEF RouteTo, RoutesTypeOK
<1>3. Speaks(j.socket, j.peer)'
    BY <1>1 DEF Speaks
<1> QED BY <1>1, <1>2, <1>3 DEF Follows, Registered

\* What becomes of the entry of p in r when j enters.
LEMMA EntryAfter ==
    ASSUME TypeOK, NEW j \in Join, Entered(j), NEW r \in Rooms, NEW p \in Peers
    PROVE  \/ peerMap'[r][p] = peerMap[r][p]
           \/ peerMap'[r][p] = j.socket /\ p = j.peer /\ r = j.room
<1>1. j.room \in Rooms /\ j.peer \in Peers
    BY DEF Join
<1> QED BY <1>1 DEF Entered, TypeOK, RoomsTypeOK

\* No effect but an entry sets an entry.
LEMMA EntryKept ==
    ASSUME TypeOK, Kept \/ Opened \/ Closed \/ Waits \/ Left,
           NEW r \in Rooms, NEW p \in Peers
    PROVE  peerMap'[r][p] \in {peerMap[r][p], NoSocket}
<1>1. ASSUME NEW b \in Binding, Removed(b) PROVE peerMap'[r][p] \in {peerMap[r][p], NoSocket}
    <2>1. b.room \in Rooms /\ b.peer \in Peers
        BY DEF Binding
    <2> QED BY <1>1, <2>1 DEF Removed, TypeOK, RoomsTypeOK
<1> QED BY <1>1 DEF Kept, Opened, Closed, Waits, Left

\* Routes lead to open sockets: they are made for a registered socket and go with it.
LEMMA RouteStep ==
    ASSUME TypeOK, RoutesTypeOK, RouteInv, ServerEffect
    PROVE  RoutesTypeOK' /\ RouteInv'
<1>1. CASE UNCHANGED <<conn, peerToSocket>>
    BY <1>1 DEF RoutesTypeOK, RouteInv, Registered, Speaks
<1>2. CASE Opened
    <2>1. \A s \in Sockets : Registered(s) => Registered(s)'
        BY <1>2 DEF Opened, TypeOK, Registered
    <2>2. UNCHANGED peerToSocket
        BY <1>2 DEF Opened
    <2> QED BY <2>1, <2>2 DEF RoutesTypeOK, RouteInv, Speaks
<1>3. CASE Closed
    <2>1. PICK t \in Sockets : /\ conn' = [conn EXCEPT ![t] = "closed"]
                               /\ peerToSocket' = RoutesWithout(t)
        BY <1>3 DEF Closed
    <2>2. \A p \in Peers : peerToSocket'[p] # NoSocket =>
             peerToSocket'[p] = peerToSocket[p] /\ peerToSocket[p] # t
        BY <2>1 DEF RoutesWithout
    <2>3. \A s \in Sockets \ {t} : conn'[s] = conn[s]
        BY <2>1 DEF TypeOK
    <2>4. RoutesTypeOK'
        BY <2>1 DEF RoutesWithout, RoutesTypeOK
    <2> QED BY <2>2, <2>3, <2>4 DEF RoutesTypeOK, RouteInv, Registered, Speaks
<1>4. CASE Waits \/ Joined
    <2>1. PICK j \in Join : /\ [peer |-> j.peer, room |-> j.room] \in Claims[j.socket]
                            /\ Registered(j.socket)
                            /\ peerToSocket' = RouteTo(j) /\ UNCHANGED conn
        BY <1>4 DEF Waits, Joined, Entered
    <2>2. j.socket \in Sockets /\ j.peer \in Peers /\ Speaks(j.socket, j.peer)
        BY <2>1 DEF Join, Speaks
    <2>3. RoutesTypeOK'
        BY <2>1, <2>2 DEF RouteTo, RoutesTypeOK
    <2>4. \A p \in Peers :
             peerToSocket'[p] = IF p = j.peer THEN j.socket ELSE peerToSocket[p]
        BY <2>1, <2>2 DEF RouteTo, RoutesTypeOK
    <2> QED BY <2>1, <2>2, <2>3, <2>4 DEF RouteInv, Registered, Speaks
<1> QED BY <1>1, <1>2, <1>3, <1>4 DEF ServerEffect, Kept, Answered, Entered, Left

\* Follows after a step, of a socket that is a value before it.
FollowsNext(s, p) ==
    /\ s \in Sockets /\ conn'[s] # "new" /\ Speaks(s, p)
    /\ conn'[s] = "open" => peerToSocket'[p] = s

\* The invariant after a step, taken apart.
LEMMA FollowPrimed ==
    (OneSocketPerPeer =>
        /\ \A j \in pending' : FollowsNext(j.socket, j.peer)
        /\ \A r \in Rooms, p \in Peers : peerMap'[r][p] # NoSocket =>
             FollowsNext(peerMap'[r][p], p))
      => FollowInv'
BY DEF FollowInv, Follows, FollowsNext, Registered, Speaks, OneSocketPerPeer

\* Waiting joins and members keep the sockets they follow; a join is followed when it is
\* routed, an entry is that of a join.
LEMMA FollowInvStep ==
    ASSUME TypeOK, RoutesTypeOK, FollowInv, ServerEffect
    PROVE  FollowInv'
<1> SUFFICES ASSUME OneSocketPerPeer
             PROVE  /\ \A j \in pending' : FollowsNext(j.socket, j.peer)
                    /\ \A r \in Rooms, p \in Peers : peerMap'[r][p] # NoSocket =>
                         FollowsNext(peerMap'[r][p], p)
    BY FollowPrimed
<1>1. ASSUME NEW s, NEW p \in Peers, Follows(s, p) PROVE FollowsNext(s, p)
    <2>1. Follows(s, p)'
        BY <1>1, FollowStep
    <2> QED BY <2>1 DEF Follows, FollowsNext, Registered, Speaks
<1>2. ASSUME NEW j \in Join, Registered(j.socket), UNCHANGED conn,
             [peer |-> j.peer, room |-> j.room] \in Claims[j.socket], peerToSocket' = RouteTo(j)
      PROVE  FollowsNext(j.socket, j.peer)
    <2>1. Follows(j.socket, j.peer)'
        BY <1>2, RoutedFollows
    <2> QED BY <2>1 DEF Follows, FollowsNext, Registered, Speaks
<1>3. ASSUME NEW j \in pending PROVE j \in Join /\ FollowsNext(j.socket, j.peer)
    BY <1>1 DEF FollowInv, TypeOK, Join
<1>4. ASSUME NEW r \in Rooms, NEW p \in Peers, peerMap[r][p] # NoSocket
      PROVE  FollowsNext(peerMap[r][p], p)
    BY <1>1, <1>4 DEF FollowInv
<1> DEFINE Entry(j) == FollowsNext(j.socket, j.peer)
           Entries == \A r \in Rooms, p \in Peers : peerMap'[r][p] # NoSocket =>
                         FollowsNext(peerMap'[r][p], p)
<1>5. ASSUME NEW j \in Join, Entered(j), Entry(j) PROVE Entries
    <2> SUFFICES ASSUME NEW r \in Rooms, NEW p \in Peers, peerMap'[r][p] # NoSocket
                 PROVE  FollowsNext(peerMap'[r][p], p)
        OBVIOUS
    <2>1. CASE peerMap'[r][p] = peerMap[r][p]
        BY <1>4, <2>1
    <2>2. CASE peerMap'[r][p] = j.socket /\ p = j.peer
        BY <1>5, <2>2
    <2> QED BY <1>5, <2>1, <2>2, EntryAfter
<1>6. CASE Kept \/ Opened \/ Closed \/ Waits \/ Left
    <2>1. Entries
        <3> SUFFICES ASSUME NEW r \in Rooms, NEW p \in Peers, peerMap'[r][p] # NoSocket
                     PROVE  FollowsNext(peerMap'[r][p], p)
            OBVIOUS
        <3>1. peerMap'[r][p] = peerMap[r][p]
            BY <1>6, EntryKept
        <3> QED BY <1>4, <3>1
    <2>2. \A j \in pending' : FollowsNext(j.socket, j.peer)
        <3>1. CASE Waits
            <4>1. PICK j \in Join :
                     /\ Registered(j.socket) /\ UNCHANGED conn
                     /\ [peer |-> j.peer, room |-> j.room] \in Claims[j.socket]
                     /\ peerToSocket' = RouteTo(j)
                     /\ pending' \subseteq pending \cup {j}
                BY <3>1 DEF Waits
            <4> QED BY <1>2, <1>3, <4>1
        <3>2. CASE Kept \/ Opened \/ Closed \/ Left
            BY <1>3, <3>2 DEF Kept, Opened, Closed, Left
        <3> QED BY <1>6, <3>1, <3>2
    <2> QED BY <2>1, <2>2
<1>7. CASE Joined
    <2>1. PICK j \in Join :
             /\ Registered(j.socket) /\ Entered(j) /\ UNCHANGED <<conn, pending>>
             /\ [peer |-> j.peer, room |-> j.room] \in Claims[j.socket]
             /\ peerToSocket' = RouteTo(j)
        BY <1>7 DEF Joined, Entered
    <2> QED BY <1>2, <1>3, <1>5, <2>1
<1>8. CASE Answered
    <2>1. PICK j \in pending : /\ pending' = pending \ {j}
                               /\ Entered(j) \/ UNCHANGED <<conn, bound, peerMap>>
        BY <1>8 DEF Answered
    <2> QED BY <1>3, <1>4, <1>5, <2>1
<1> QED BY <1>6, <1>7, <1>8 DEF ServerEffect

\* A member's socket is bound to it: a close, a leave or a kick that takes the binding
\* takes the entry too.
LEMMA PlainStep ==
    ASSUME RoomInv, PlainInv, ServerEffect
    PROVE  PlainInv'
<1> DEFINE Name(r, p) == [peer |-> p, room |-> r]
           HeldNext(s, b) == conn'[s] = "open" /\ bound'[s] = b /\ b \in Claims[s]
<1> SUFFICES ASSUME Plain
             PROVE  /\ pending' = {}
                    /\ \A r \in Rooms, p \in Peers : peerMap'[r][p] # NoSocket =>
                         HeldNext(peerMap'[r][p], Name(r, p))
    BY DEF PlainInv, Held, Registered, Plain, OneSocketPerPeer
<1>1. TypeOK /\ NoEmptyRooms /\ ~Authenticate /\ pending = {}
    BY DEF RoomInv, PlainInv, Plain
<1>2. pending' = {}
    BY <1>1 DEF ServerEffect, Kept, Opened, Closed, Waits, Joined, Answered, Left
<1>3. ASSUME NEW r \in Rooms, NEW p \in Peers, peerMap[r][p] # NoSocket
      PROVE  /\ peerMap[r][p] \in Sockets /\ conn[peerMap[r][p]] = "open"
             /\ bound[peerMap[r][p]] = Name(r, p) /\ Name(r, p) \in Claims[peerMap[r][p]]
             /\ Name(r, p) \in Binding
    BY <1>1, <1>3 DEF PlainInv, Held, Registered, TypeOK, RoomsTypeOK, Binding
<1>4. SUFFICES ASSUME NEW r \in Rooms, NEW p \in Peers, peerMap'[r][p] # NoSocket
               PROVE  HeldNext(peerMap'[r][p], Name(r, p))
    BY <1>2
<1>5. CASE Kept \/ Waits
    <2>1. conn' = conn /\ bound' = bound /\ peerMap' = peerMap
        BY <1>5 DEF Kept, Waits
    <2> QED BY <1>3, <1>4, <2>1
<1>6. CASE Opened
    BY <1>1, <1>3, <1>4, <1>6 DEF Opened, TypeOK
<1>7. CASE Closed
    <2>1. PICK s \in Sockets :
             /\ conn' = [conn EXCEPT ![s] = "closed"]
             /\ bound' = [bound EXCEPT ![s] = NoBinding]
             /\ \/ UNCHANGED peerMap /\ (bound[s] \in Binding => bound[s].room \notin rooms)
                \/ bound[s] \in Binding /\ Removed(bound[s])
        BY <1>7 DEF Closed
    <2>2. peerMap'[r][p] = peerMap[r][p]
        BY <1>1, <1>4, <1>7, EntryKept
    <2>3. peerMap[r][p] # s
        <3> SUFFICES ASSUME peerMap[r][p] = s PROVE FALSE
            OBVIOUS
        <3>1. bound[s] = Name(r, p) /\ bound[s] \in Binding
            BY <1>3, <1>4, <2>2
        <3>2. r \in rooms
            BY <1>1, <1>4, <2>2 DEF NoEmptyRooms, Members
        <3>3. Removed(Name(r, p))
            BY <2>1, <3>1, <3>2
        <3>4. peerMap'[r][p] = NoSocket
            BY <1>1, <3>3 DEF Removed, TypeOK, RoomsTypeOK
        <3> QED BY <1>4, <3>4
    <2>4. peerMap[r][p] \in Sockets
        BY <1>3, <1>4, <2>2
    <2>5. /\ conn'[peerMap[r][p]] = conn[peerMap[r][p]]
          /\ bound'[peerMap[r][p]] = bound[peerMap[r][p]]
        BY <1>1, <2>1, <2>3, <2>4 DEF TypeOK
    <2> QED BY <1>3, <1>4, <2>2, <2>5
<1>8. CASE Joined
    <2>1. PICK j \in Join :
             /\ Registered(j.socket) /\ Entered(j) /\ UNCHANGED conn
             /\ Name(j.room, j.peer) \in Claims[j.socket]
             /\ bound' = [bound EXCEPT ![j.socket] = Name(j.room, j.peer)]
        BY <1>8 DEF Joined, Entered
    <2>2. j.socket \in Sockets
        BY DEF Join
    <2>3. bound'[j.socket] = Name(j.room, j.peer)
        BY <1>1, <2>1, <2>2 DEF TypeOK
    <2>4. CASE peerMap'[r][p] = j.socket /\ p = j.peer /\ r = j.room
        BY <2>1, <2>3, <2>4 DEF Registered
    <2>5. CASE peerMap'[r][p] = peerMap[r][p]
        <3>1. CASE peerMap[r][p] = j.socket
            <4>1. Name(r, p) = Name(j.room, j.peer)
                BY <1>3, <1>4, <2>1, <2>2, <2>5, <3>1, OneBinding
            <4> QED BY <1>3, <1>4, <2>1, <2>3, <2>5, <3>1, <4>1
        <3>2. CASE peerMap[r][p] # j.socket
            <4>1. bound'[peerMap[r][p]] = bound[peerMap[r][p]]
                BY <1>1, <1>3, <1>4, <2>1, <2>5, <3>2 DEF TypeOK
            <4> QED BY <1>3, <1>4, <2>1, <2>5, <4>1
        <3> QED BY <3>1, <3>2
    <2> QED BY <1>1, <2>1, <2>4, <2>5, EntryAfter
<1>9. CASE Answered
    BY <1>1, <1>9 DEF Answered
<1>10. CASE Left
    <2>1. PICK b \in Binding :
             /\ Removed(b)
             /\ \A s \in Sockets : bound'[s] = bound[s] \/ (bound[s] = b /\ bound'[s] = NoBinding)
             /\ UNCHANGED conn
        BY <1>10 DEF Left
    <2>2. peerMap'[r][p] = peerMap[r][p]
        BY <1>1, <1>4, <1>10, EntryKept
    <2>3. Name(r, p) # b
        <3>1. Name(r, p) = b => peerMap'[r][p] = NoSocket
            BY <1>1, <2>1 DEF Removed, TypeOK, RoomsTypeOK
        <3> QED BY <1>4, <3>1
    <2> QED BY <1>3, <1>4, <2>1, <2>2, <2>3
<1> QED BY <1>5, <1>6, <1>7, <1>8, <1>9, <1>10 DEF ServerEffect

\* Nobody is in a room, waiting or routed at first.
LEMMA ServerInvInit == ServerInit => ServerInv
<1> SUFFICES ASSUME ServerInit PROVE ServerInv
    OBVIOUS
<1>1. RoomInv
    BY RoomInit DEF ServerInit
<1>2. RoutesTypeOK /\ RouteInv /\ FollowInv /\ PlainInv
    BY DEF ServerInit, Init, RoutesTypeOK, RouteInv, FollowInv, PlainInv
<1> QED BY <1>1, <1>2 DEF ServerInv

\* Each part is kept, given those before it.
LEMMA ServerInvStep == ServerInv /\ [ServerNext]_serverVars => ServerInv'
<1> SUFFICES ASSUME ServerInv, [ServerNext]_serverVars PROVE ServerInv'
    OBVIOUS
<1>1. RoomInv /\ TypeOK /\ RoutesTypeOK /\ RouteInv /\ FollowInv /\ PlainInv
    BY DEF ServerInv, RoomInv
<1>2. ServerEffect
    BY <1>1, ServerCases
<1>3. RoomInv'
    BY <1>1, ServerIsSession, RoomStep
<1>4. RoutesTypeOK' /\ RouteInv'
    BY <1>1, <1>2, RouteStep
<1>5. FollowInv'
    BY <1>1, <1>2, FollowInvStep
<1>6. PlainInv'
    BY <1>1, <1>2, PlainStep
<1> QED BY <1>3, <1>4, <1>5, <1>6 DEF ServerInv

\* A host that routes joins before the session accepts them routes no message to a socket
\* that is gone; where a peer id is one socket's it reaches every member whose entry names
\* an open socket, and where sockets are plain that is every member.
THEOREM Members_Reached == ServerSpec => []MembersAreReached
<1>1. ServerInv => MembersAreReached
    <2> SUFFICES ASSUME ServerInv PROVE MembersAreReached
        OBVIOUS
    <2>1. \A p \in Peers : peerToSocket[p] # NoSocket => Registered(peerToSocket[p])
        BY DEF ServerInv, RouteInv
    <2>2. ASSUME OneSocketPerPeer, NEW r \in Rooms, NEW p \in Members(r),
                 Registered(peerMap[r][p])
          PROVE  Deliver(p) = peerMap[r][p]
        <3>1. Follows(peerMap[r][p], p) /\ peerMap[r][p] # NoSocket
            BY <2>2 DEF ServerInv, FollowInv, Members
        <3> QED BY <2>2, <3>1 DEF Follows, Deliver
    <2>3. Plain => MembersAreConnected
        BY DEF ServerInv, PlainInv, Held, Registered, MembersAreConnected, Members
    <2> QED BY <2>1, <2>2, <2>3 DEF MembersAreReached
<1> QED BY <1>1, ServerInvInit, ServerInvStep, PTL DEF ServerSpec
=============================================================================

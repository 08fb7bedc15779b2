----------------------------- MODULE PageProofs -----------------------------
(***************************************************************************)
(* Proofs about the other parts of a page: SfuSession, Outbound,           *)
(* RecorderHost, Broadcast and Emitter, and the theorems about all of      *)
(* them, whatever the bounds of MCPage, the devices and the finite set of  *)
(* clients. The lemmas of each part are named as those of BindingProofs.   *)
(***************************************************************************)
EXTENDS BindingProofs

-----------------------------------------------------------------------------
(***************************************************************************)
(* The SFU session.                                                        *)
(***************************************************************************)

\* The streams a publisher is given are sequences of kinds.
LEMMA StreamsAre == \A s \in Sfu!Streams : s \in Seq(Sfu!Kinds)
<1> SUFFICES ASSUME NEW n \in 0..MaxStream, NEW s \in [1..n -> Sfu!Kinds]
             PROVE  s \in Seq(Sfu!Kinds)
    BY DEF Sfu!Streams
<1>1. n \in Nat
    BY PageBounds
<1> QED BY <1>1, SeqDef

SfuTypes ==
    /\ opts \in [kind : {"publisher", "viewer"}, host : {"react", "vue"}]
    /\ state \in {"idle", "connecting", "connected", "closed"}
    /\ at \in {"none", "opening", "connecting", "publishing"}
    /\ room \in {"none", "connecting", "connected", "disconnected"}
    /\ leaving \in BOOLEAN /\ early \in BOOLEAN /\ failed \in BOOLEAN /\ overlapped \in BOOLEAN
    /\ left \in Seq(Sfu!Kinds) /\ (at = "publishing" => left # <<>>)
    /\ published \subseteq Sfu!Kinds \X (Nat \ {0})
    /\ current \in [Sfu!Kinds -> Nat]
    /\ call \in [Sfu!Calls ->
         [kind : Sfu!Kinds, at : {"idle", "publishing", "unpublishing"}, old : Nat]]

\* What start(), stop() and the room's end know of each other: where start() is suspended
\* says what the room may be, and a state that no early stop() and no failed publication
\* has blurred says it too.
SfuRooms ==
    /\ state = "idle" => at = "none" /\ room = "none"
    /\ leaving => room # "none"
    /\ at = "opening" => room = "none" /\ (~early => state = "connecting")
    /\ at = "connecting" => room \in {"connecting", "disconnected"}
    /\ at = "publishing" => room \in {"connected", "disconnected"}
    /\ room = "connecting" => at = "connecting"
    /\ Sfu!StateIsRooms

Active(c) == call[c].at # "idle"
OfKind(tracksOf, k) == {t \in tracksOf \ forgotten : t[1] = k}

\* Unless replacements overlapped, and but for what start() forgot: one replacement of a kind
\* is at work, after start(); it unpublishes what is current, and publishes when nothing is
\* published; and of a kind that is not being replaced, only what is current is published.
SfuAlone ==
    /\ \A c \in Sfu!Calls : Active(c) => at = "none"
    /\ \A c, d \in Sfu!Calls : Active(c) /\ Active(d) /\ call[c].kind = call[d].kind => c = d
    /\ \A k \in Sfu!Kinds : OfKind(published, k) \subseteq {<<k, current[k]>>}
    /\ \A c \in Sfu!Calls :
         /\ call[c].at = "unpublishing" => call[c].old = current[call[c].kind]
         /\ call[c].at = "publishing" => OfKind(published, call[c].kind) = {}

SfuTracks ==
    /\ room # "connected" => published = {}
    /\ ~Sfu!Publisher => /\ published = {} /\ at # "publishing"
                         /\ \A c \in Sfu!Calls : ~Active(c)
    /\ \A c \in Sfu!Calls : Active(c) => room # "none"
    /\ ~overlapped => SfuAlone

SfuInv == SfuTypes /\ SfuRooms /\ SfuTracks /\ Sfu!StreamIsPublishers

\* Sfu!Next with the hooks of React and Vue, which do the same, taken together.
SfuNext ==
    \/ Sfu!Mounts \/ Sfu!Unmounts \/ Sfu!UserStarts \/ Sfu!UserStops
    \/ Sfu!RoomMade \/ Sfu!PublisherConnected \/ Sfu!ViewerConnected \/ Sfu!TrackPublished
    \/ Sfu!StartFails \/ Sfu!PublisherRoomEnds \/ Sfu!ViewerRoomEnds \/ Sfu!Stopped
    \/ Sfu!StreamDropped
    \/ \E c \in Sfu!Calls : \/ Sfu!Unpublished(c) \/ Sfu!Replaced(c) \/ Sfu!ReplaceFails(c)
                            \/ \E k \in Sfu!Kinds : Sfu!Replace(c, k)
    \/ \E p \in Sfu!Peers, k \in Sfu!Kinds :
         Sfu!TrackSubscribed(p, k) \/ Sfu!TrackUnsubscribed(p, k)

\* The hooks' actions are those.
LEMMA SfuNextIs == Sfu!Next => SfuNext
BY DEF SfuNext, Sfu!Next, Sfu!ReactPublisherMounts, Sfu!ReactPublisherUnmounts,
       Sfu!VuePublisherMounts, Sfu!VuePublisherUnmounts, Sfu!ReactViewerMounts,
       Sfu!ReactViewerUnmounts, Sfu!VueViewerMounts, Sfu!VueViewerUnmounts

\* A session that is made is idle and has no room, tracks or calls.
LEMMA SfuInit == Sfu!Init => SfuInv
<1> SUFFICES ASSUME Sfu!Init PROVE SfuInv
    OBVIOUS
<1>1. SfuTypes
    <2>1. <<>> \in Seq(Sfu!Kinds)
        OBVIOUS
    <2> QED BY <2>1 DEF Sfu!Init, SfuTypes, Sfu!NoCall, Sfu!Kinds
<1>2. SfuRooms /\ Sfu!StreamIsPublishers
    BY DEF Sfu!Init, SfuRooms, Sfu!StateIsRooms, Sfu!StreamIsPublishers
<1>3. SfuTracks
    BY DEF Sfu!Init, SfuTracks, SfuAlone, Active, OfKind, Sfu!NoCall
<1> QED BY <1>1, <1>2, <1>3 DEF SfuInv

\* Every step keeps the types.
LEMMA SfuTypesStep ==
    ASSUME SfuTypes, SfuNext
    PROVE  SfuTypes'
<1> USE DEF SfuTypes
<1>1. CASE Sfu!Mounts
    BY <1>1 DEF Sfu!Mounts, Sfu!Start, Sfu!pubVars, Sfu!subVars, Sfu!history
<1>2. CASE Sfu!Unmounts
    BY <1>2 DEF Sfu!Unmounts, Sfu!Stop, Sfu!HasRoom, Sfu!pubVars, Sfu!subVars
<1>3. CASE Sfu!UserStarts
    BY <1>3 DEF Sfu!UserStarts, Sfu!Start, Sfu!pubVars, Sfu!subVars, Sfu!history
<1>4. CASE Sfu!UserStops
    BY <1>4 DEF Sfu!UserStops, Sfu!Stop, Sfu!HasRoom, Sfu!pubVars, Sfu!subVars
<1>5. CASE Sfu!RoomMade
    BY <1>5 DEF Sfu!RoomMade, Sfu!pubVars, Sfu!subVars, Sfu!history
<1>6. CASE Sfu!PublisherConnected
    <2>2. left' \in Seq(Sfu!Kinds)
        BY <1>6, StreamsAre DEF Sfu!PublisherConnected
    <2> QED BY <1>6, <2>2 DEF Sfu!PublisherConnected, Sfu!Goes, Sfu!subVars, Sfu!history
<1>7. CASE Sfu!ViewerConnected
    BY <1>7 DEF Sfu!ViewerConnected, Sfu!pubVars, Sfu!subVars, Sfu!history
<1>8. CASE Sfu!TrackPublished
    <2>1. at = "publishing" /\ left # <<>> /\ Head(left) \in Sfu!Kinds
        BY <1>8 DEF Sfu!TrackPublished
    <2>2. left' \in Seq(Sfu!Kinds) /\ (at' = "publishing" => left' # <<>>)
        <3>1. left' = Tail(left) /\ (at' = "publishing" => Tail(left) # <<>>)
            BY <1>8 DEF Sfu!TrackPublished, Sfu!Goes
        <3>2. Tail(left) \in Seq(Sfu!Kinds)
            BY <2>1, Queued
        <3> QED BY <3>1, <3>2
    <2>5. PICK n : n = MaxCalls + Len(left)
        OBVIOUS
    <2>6. Len(left) \in Nat \ {0}
        BY <2>1, Queued
    <2>7. n \in Nat \ {0}
        BY <2>5, <2>6, PageBounds
    <2>3. published' \subseteq Sfu!Kinds \X (Nat \ {0})
        BY <1>8, <2>1, <2>5, <2>7 DEF Sfu!TrackPublished
    <2>4. current' \in [Sfu!Kinds -> Nat]
        BY <1>8, <2>1, <2>5, <2>7 DEF Sfu!TrackPublished
    <2>8. state' \in {"idle", "connecting", "connected", "closed"} /\ at' \in {"none", "publishing"}
        BY <1>8 DEF Sfu!TrackPublished, Sfu!Goes
    <2> QED BY <1>8, <2>2, <2>3, <2>4, <2>8 DEF Sfu!TrackPublished, Sfu!subVars, Sfu!history
<1>9. CASE Sfu!StartFails
    <2>1. <<>> \in Seq(Sfu!Kinds)
        OBVIOUS
    <2> QED BY <1>9, <2>1 DEF Sfu!StartFails, Sfu!subVars
<1>10. CASE Sfu!PublisherRoomEnds
    BY <1>10 DEF Sfu!PublisherRoomEnds, Sfu!Ends, Sfu!Lost, Sfu!history
<1>11. CASE Sfu!ViewerRoomEnds
    BY <1>11 DEF Sfu!ViewerRoomEnds, Sfu!Ends, Sfu!Lost, Sfu!history
<1>12. CASE Sfu!Stopped
    BY <1>12 DEF Sfu!Stopped, Sfu!Ends, Sfu!history
<1>13. CASE Sfu!StreamDropped
    BY <1>13 DEF Sfu!StreamDropped, Sfu!pubVars, Sfu!history
<1>14. ASSUME NEW c \in Sfu!Calls, Sfu!Unpublished(c) PROVE SfuTypes'
    BY <1>14 DEF Sfu!Unpublished, Sfu!subVars, Sfu!history
<1>15. ASSUME NEW c \in Sfu!Calls, Sfu!Replaced(c) PROVE SfuTypes'
    <2>1. c \in Nat \ {0} /\ call[c].kind \in Sfu!Kinds
        BY PageBounds DEF Sfu!Calls
    <2>2. published' \subseteq Sfu!Kinds \X (Nat \ {0})
        BY <1>15, <2>1 DEF Sfu!Replaced
    <2>3. current' \in [Sfu!Kinds -> Nat]
        BY <1>15, <2>1 DEF Sfu!Replaced, Sfu!Recorded
    <2> QED BY <1>15, <2>2, <2>3 DEF Sfu!Replaced, Sfu!NoCall, Sfu!Kinds, Sfu!subVars, Sfu!history
<1>16. ASSUME NEW c \in Sfu!Calls, Sfu!ReplaceFails(c) PROVE SfuTypes'
    BY <1>16 DEF Sfu!ReplaceFails, Sfu!NoCall, Sfu!Kinds, Sfu!subVars, Sfu!history
<1>17. ASSUME NEW c \in Sfu!Calls, NEW k \in Sfu!Kinds, Sfu!Replace(c, k) PROVE SfuTypes'
    <2>1. overlapped' \in BOOLEAN
        BY <1>17 DEF Sfu!Replace, Sfu!Busy
    <2>2. call' \in [Sfu!Calls ->
            [kind : Sfu!Kinds, at : {"idle", "publishing", "unpublishing"}, old : Nat]]
        BY <1>17 DEF Sfu!Replace
    <2> QED BY <1>17, <2>1, <2>2 DEF Sfu!Replace, Sfu!subVars
<1>18. ASSUME NEW p \in Sfu!Peers, NEW k \in Sfu!Kinds,
              Sfu!TrackSubscribed(p, k) \/ Sfu!TrackUnsubscribed(p, k)
       PROVE  SfuTypes'
    BY <1>18 DEF Sfu!TrackSubscribed, Sfu!TrackUnsubscribed, Sfu!pubVars, Sfu!history
<1> QED BY <1>1, <1>2, <1>3, <1>4, <1>5, <1>6, <1>7, <1>8, <1>9, <1>10, <1>11, <1>12, <1>13,
           <1>14, <1>15, <1>16, <1>17, <1>18 DEF SfuNext

\* Every step keeps what the state and start()'s await say of the room.
LEMMA SfuRoomsStep ==
    ASSUME SfuTypes, SfuRooms, SfuNext
    PROVE  SfuRooms'
<1> USE DEF SfuTypes, SfuRooms, Sfu!StateIsRooms
<1>1. CASE Sfu!Mounts \/ Sfu!UserStarts
    BY <1>1 DEF Sfu!Mounts, Sfu!UserStarts, Sfu!Start, Sfu!history
<1>2. CASE Sfu!Unmounts \/ Sfu!UserStops
    BY <1>2 DEF Sfu!Unmounts, Sfu!UserStops, Sfu!Stop, Sfu!HasRoom
<1>3. CASE Sfu!RoomMade
    BY <1>3 DEF Sfu!RoomMade, Sfu!history
<1>4. CASE Sfu!PublisherConnected
    BY <1>4 DEF Sfu!PublisherConnected, Sfu!Goes, Sfu!history
<1>5. CASE Sfu!ViewerConnected
    BY <1>5 DEF Sfu!ViewerConnected, Sfu!history
<1>6. CASE Sfu!TrackPublished
    BY <1>6 DEF Sfu!TrackPublished, Sfu!Goes, Sfu!history
<1>7. CASE Sfu!StartFails
    BY <1>7 DEF Sfu!StartFails
<1>8. CASE Sfu!PublisherRoomEnds
    BY <1>8 DEF Sfu!PublisherRoomEnds, Sfu!Ends, Sfu!Lost, Sfu!history
<1>9. CASE Sfu!ViewerRoomEnds
    BY <1>9 DEF Sfu!ViewerRoomEnds, Sfu!Ends, Sfu!Lost, Sfu!history
<1>10. CASE Sfu!Stopped
    BY <1>10 DEF Sfu!Stopped, Sfu!Ends, Sfu!history
<1>11. CASE Sfu!StreamDropped
    BY <1>11 DEF Sfu!StreamDropped, Sfu!history
<1>12. CASE UNCHANGED <<state, at, room, leaving, early, failed>>
    BY <1>12
<1>13. ASSUME NEW c \in Sfu!Calls, NEW k \in Sfu!Kinds,
              \/ Sfu!Unpublished(c) \/ Sfu!Replaced(c) \/ Sfu!ReplaceFails(c) \/ Sfu!Replace(c, k)
       PROVE  UNCHANGED <<state, at, room, leaving, early, failed>>
    BY <1>13 DEF Sfu!Unpublished, Sfu!Replaced, Sfu!ReplaceFails, Sfu!Replace, Sfu!history
<1>14. ASSUME NEW p \in Sfu!Peers, NEW k \in Sfu!Kinds,
              Sfu!TrackSubscribed(p, k) \/ Sfu!TrackUnsubscribed(p, k)
       PROVE  UNCHANGED <<state, at, room, leaving, early, failed>>
    BY <1>14 DEF Sfu!TrackSubscribed, Sfu!TrackUnsubscribed, Sfu!history
<1>15. "video" \in Sfu!Kinds
    BY DEF Sfu!Kinds
<1> QED BY <1>1, <1>2, <1>3, <1>4, <1>5, <1>6, <1>7, <1>8, <1>9, <1>10, <1>11, <1>12, <1>13,
           <1>14, <1>15 DEF SfuNext

\* Every step keeps the viewer's stream that of its publisher.
LEMMA SfuStreamStep ==
    ASSUME Sfu!StreamIsPublishers, SfuNext
    PROVE  Sfu!StreamIsPublishers'
<1> USE DEF Sfu!StreamIsPublishers
<1>1. CASE UNCHANGED <<subscribed, stream>>
    BY <1>1
<1>2. CASE Sfu!PublisherRoomEnds \/ Sfu!ViewerRoomEnds \/ Sfu!Stopped \/ Sfu!StreamDropped
    BY <1>2 DEF Sfu!PublisherRoomEnds, Sfu!ViewerRoomEnds, Sfu!Stopped, Sfu!Ends, Sfu!StreamDropped
<1>3. ASSUME NEW p \in Sfu!Peers, NEW k \in Sfu!Kinds, Sfu!TrackSubscribed(p, k)
      PROVE  Sfu!StreamIsPublishers'
    <2>1. <<p, k>>[1] = p
        OBVIOUS
    <2> QED BY <1>3, <2>1 DEF Sfu!TrackSubscribed, Sfu!Wanted
<1>4. ASSUME NEW p \in Sfu!Peers, NEW k \in Sfu!Kinds, Sfu!TrackUnsubscribed(p, k)
      PROVE  Sfu!StreamIsPublishers'
    <2>1. <<p, k>>[1] = p
        OBVIOUS
    <2> QED BY <1>4, <2>1 DEF Sfu!TrackUnsubscribed
<1>5. ASSUME NEW c \in Sfu!Calls, NEW k \in Sfu!Kinds,
             \/ Sfu!Unpublished(c) \/ Sfu!Replaced(c) \/ Sfu!ReplaceFails(c) \/ Sfu!Replace(c, k)
      PROVE  UNCHANGED <<subscribed, stream>>
    BY <1>5 DEF Sfu!Unpublished, Sfu!Replaced, Sfu!ReplaceFails, Sfu!Replace, Sfu!subVars
<1>6. CASE \/ Sfu!Mounts \/ Sfu!Unmounts \/ Sfu!UserStarts \/ Sfu!UserStops \/ Sfu!RoomMade
           \/ Sfu!PublisherConnected \/ Sfu!ViewerConnected \/ Sfu!TrackPublished \/ Sfu!StartFails
    BY <1>1, <1>6 DEF Sfu!Mounts, Sfu!Unmounts, Sfu!UserStarts, Sfu!UserStops, Sfu!RoomMade,
       Sfu!PublisherConnected, Sfu!ViewerConnected, Sfu!TrackPublished, Sfu!StartFails, Sfu!subVars
<1>7. "video" \in Sfu!Kinds
    BY DEF Sfu!Kinds
<1> QED BY <1>1, <1>2, <1>3, <1>4, <1>5, <1>6, <1>7 DEF SfuNext

\* Every step keeps what is published what is current, or what the replacement at work
\* knows of.
LEMMA SfuTracksStep ==
    ASSUME SfuTypes, SfuRooms, SfuTracks, SfuNext
    PROVE  SfuTracks'
<1> USE DEF SfuTracks
<1>1. ASSUME UNCHANGED <<opts, published, forgotten, current, call, overlapped>>,
             room = "connected" => room' = "connected", room # "none" => room' # "none",
             at # "publishing" => at' # "publishing",
             at = "none" /\ room # "none" => at' = "none"
      PROVE  SfuTracks'
    <2>1. \A c : Active(c)' <=> Active(c)
        BY <1>1 DEF Active
    <2>2. Sfu!Publisher' <=> Sfu!Publisher
        BY <1>1 DEF Sfu!Publisher
    <2>3. SfuAlone => SfuAlone'
        BY <1>1, <2>1 DEF SfuAlone, OfKind
    <2> QED BY <1>1, <2>1, <2>2, <2>3
<1>2. CASE Sfu!Mounts \/ Sfu!UserStarts
    BY <1>1, <1>2 DEF Sfu!Mounts, Sfu!UserStarts, Sfu!Start, Sfu!history, Sfu!pubVars, SfuRooms
<1>3. CASE Sfu!Unmounts \/ Sfu!UserStops
    BY <1>1, <1>3 DEF Sfu!Unmounts, Sfu!UserStops, Sfu!pubVars
<1>4. CASE Sfu!RoomMade
    BY <1>1, <1>4 DEF Sfu!RoomMade, Sfu!history, Sfu!pubVars, SfuRooms
<1>5. CASE Sfu!PublisherConnected
    <2>1. /\ UNCHANGED <<opts, published, forgotten, current, call, overlapped>>
          /\ at = "connecting" /\ room = "connecting" /\ room' = "connected" /\ Sfu!Publisher
        BY <1>5 DEF Sfu!PublisherConnected, Sfu!history
    <2>2. \A c : Active(c)' <=> Active(c)
        BY <2>1 DEF Active
    <2>3. Sfu!Publisher'
        BY <2>1 DEF Sfu!Publisher
    <2>4. SfuAlone => SfuAlone'
        BY <2>1, <2>2 DEF SfuAlone, OfKind
    <2> QED BY <2>1, <2>2, <2>3, <2>4
<1>6. CASE Sfu!ViewerConnected
    BY <1>1, <1>6 DEF Sfu!ViewerConnected, Sfu!history, Sfu!pubVars
<1>7. CASE Sfu!TrackPublished
    <2> DEFINE h == Head(left)
               n == MaxCalls + Len(left)
    <2>1. /\ h \in Sfu!Kinds /\ at = "publishing" /\ room = "connected"
          /\ published' = published \cup {<<h, n>>}
          /\ current' = [current EXCEPT ![h] = n]
          /\ forgotten' = forgotten \cup ({<<h, current[h]>>} \cap published)
          /\ UNCHANGED <<opts, room, call, overlapped>>
        BY <1>7 DEF Sfu!TrackPublished, Sfu!history, SfuTypes
    <2>2. \A c : Active(c)' <=> Active(c)
        BY <2>1 DEF Active
    <2>3. Sfu!Publisher /\ Sfu!Publisher'
        BY <2>1 DEF Sfu!Publisher
    <2>4. SfuAlone => \A c \in Sfu!Calls : ~Active(c)
        BY <2>1 DEF SfuAlone
    <2>5. ASSUME SfuAlone PROVE SfuAlone'
        <3>1. \A c \in Sfu!Calls : call'[c].at = "idle"
            BY <2>2, <2>4, <2>5 DEF Active
        <3>2. \A k \in Sfu!Kinds :
                 {t \in published' \ forgotten' : t[1] = k} \subseteq {<<k, current'[k]>>}
            <4> SUFFICES ASSUME NEW k \in Sfu!Kinds, NEW t \in published' \ forgotten', t[1] = k
                         PROVE  t = <<k, current'[k]>>
                OBVIOUS
            <4>1. CASE t = <<h, n>>
                <5>1. h = k
                    BY <4>1
                <5>2. current'[h] = n
                    BY <2>1 DEF SfuTypes
                <5> QED BY <4>1, <5>1, <5>2
            <4>2. CASE t \in published
                <5>1. t = <<k, current[k]>>
                    BY <4>2, <2>1, <2>5 DEF SfuAlone, OfKind
                <5>2. k # h
                    BY <4>2, <5>1, <2>1
                <5> QED BY <5>1, <5>2, <2>1 DEF SfuTypes
            <4> QED BY <4>1, <4>2, <2>1
        <3> QED BY <3>1, <3>2, <2>2, <2>4, <2>5 DEF SfuAlone, OfKind
    <2> QED BY <2>1, <2>2, <2>3, <2>5
<1>8. CASE Sfu!StartFails
    <2>1. /\ UNCHANGED <<opts, published, forgotten, current, call, overlapped>>
          /\ at \in {"opening", "connecting", "publishing"} /\ at' = "none"
          /\ room' = IF at = "connecting" THEN "disconnected" ELSE room
        BY <1>8 DEF Sfu!StartFails
    <2>2. room' = "connected" <=> room = "connected"
        BY <2>1 DEF SfuRooms
    <2>3. room # "none" => room' # "none"
        BY <2>1
    <2> QED BY <1>1, <2>1, <2>2, <2>3
<1>9. CASE Sfu!PublisherRoomEnds \/ Sfu!ViewerRoomEnds \/ Sfu!Stopped
    <2>1. /\ UNCHANGED <<opts, at, current, call, overlapped>>
          /\ published' = {} /\ forgotten' = {} /\ room' = "disconnected"
        BY <1>9 DEF Sfu!PublisherRoomEnds, Sfu!ViewerRoomEnds, Sfu!Stopped, Sfu!Ends, Sfu!history
    <2>2. \A c : Active(c)' <=> Active(c)
        BY <2>1 DEF Active
    <2>3. Sfu!Publisher' <=> Sfu!Publisher
        BY <2>1 DEF Sfu!Publisher
    <2>4. SfuAlone => SfuAlone'
        BY <2>1, <2>2 DEF SfuAlone, OfKind
    <2> QED BY <2>1, <2>2, <2>3, <2>4
<1>10. CASE Sfu!StreamDropped
    <2>1. /\ UNCHANGED <<opts, at, published, forgotten, current, call, overlapped>>
          /\ ~Sfu!Publisher /\ room' = "disconnected"
        BY <1>10 DEF Sfu!StreamDropped, Sfu!pubVars, Sfu!history
    <2>2. \A c : Active(c)' <=> Active(c)
        BY <2>1 DEF Active
    <2>3. ~Sfu!Publisher'
        BY <2>1 DEF Sfu!Publisher
    <2>4. SfuAlone => SfuAlone'
        BY <2>1, <2>2 DEF SfuAlone, OfKind
    <2> QED BY <2>1, <2>2, <2>3, <2>4
<1>11. ASSUME NEW c \in Sfu!Calls, Sfu!Unpublished(c) PROVE SfuTracks'
    <2> DEFINE k == call[c].kind
    <2>1. /\ UNCHANGED <<opts, at, room, forgotten, current, overlapped>> /\ room = "connected"
          /\ call[c].at = "unpublishing"
          /\ published' = published \ {<<k, call[c].old>>}
          /\ call' = [call EXCEPT ![c].at = "publishing", ![c].old = 0]
        BY <1>11 DEF Sfu!Unpublished, Sfu!history
    <2>2. \A d \in Sfu!Calls : d # c => call'[d] = call[d]
        BY <2>1 DEF SfuTypes
    <2>3. call'[c].at = "publishing" /\ call'[c].kind = k /\ k \in Sfu!Kinds
        BY <2>1 DEF SfuTypes
    <2>4. \A d \in Sfu!Calls : Active(d)' <=> Active(d)
        BY <2>1, <2>2, <2>3 DEF Active
    <2>5. Sfu!Publisher /\ Sfu!Publisher'
        BY <2>1 DEF Sfu!Publisher, Active
    <2>6. ASSUME SfuAlone PROVE SfuAlone'
        <3>1. OfKind(published', k) = {}
            BY <2>1, <2>3, <2>6 DEF SfuAlone, OfKind
        <3>2. \A j \in Sfu!Kinds : OfKind(published', j) \subseteq OfKind(published, j)
            BY <2>1 DEF OfKind
        <3>3. \A d, e \in Sfu!Calls :
                 Active(d)' /\ Active(e)' /\ call'[d].kind = call'[e].kind => d = e
            BY <2>2, <2>3, <2>4, <2>6 DEF SfuAlone
        <3>4. \A d \in Sfu!Calls : call'[d].at = "unpublishing" => call'[d].old = current[call'[d].kind]
            BY <2>2, <2>3, <2>6 DEF SfuAlone
        <3>5. \A d \in Sfu!Calls : call'[d].at = "publishing" => OfKind(published', call'[d].kind) = {}
            <4> SUFFICES ASSUME NEW d \in Sfu!Calls, call'[d].at = "publishing", d # c
                         PROVE  OfKind(published', call'[d].kind) = {}
                BY <3>1, <2>3
            <4>1. call'[d] = call[d] /\ call[d].at = "publishing"
                BY <2>2
            <4>2. OfKind(published, call[d].kind) = {} /\ call[d].kind \in Sfu!Kinds
                BY <4>1, <2>6 DEF SfuAlone, SfuTypes
            <4> QED BY <3>2, <4>1, <4>2
        <3>6. \A d \in Sfu!Calls : Active(d)' => at' = "none"
            BY <2>1, <2>4, <2>6 DEF SfuAlone
        <3>7. \A j \in Sfu!Kinds : OfKind(published', j) \subseteq {<<j, current'[j]>>}
            BY <2>1, <3>2, <2>6 DEF SfuAlone
        <3> QED BY <2>1, <3>3, <3>4, <3>5, <3>6, <3>7 DEF SfuAlone, OfKind
    <2> QED BY <2>1, <2>4, <2>5, <2>6
<1>12. ASSUME NEW c \in Sfu!Calls, Sfu!Replaced(c) PROVE SfuTracks'
    <2> DEFINE k == call[c].kind
    <2>1. /\ UNCHANGED <<opts, at, room, forgotten, overlapped>> /\ room = "connected"
          /\ call[c].at = "publishing"
          /\ published' = published \cup {<<k, c>>}
          /\ current' = [current EXCEPT ![k] = c]
          /\ call' = [call EXCEPT ![c] = Sfu!NoCall]
        BY <1>12 DEF Sfu!Replaced, Sfu!Recorded, Sfu!history
    <2>2. \A d \in Sfu!Calls : d # c => call'[d] = call[d]
        BY <2>1 DEF SfuTypes
    <2>3. call'[c].at = "idle" /\ k \in Sfu!Kinds
        BY <2>1 DEF SfuTypes, Sfu!NoCall
    <2>4. \A d \in Sfu!Calls : Active(d)' => Active(d) /\ d # c
        BY <2>1, <2>2, <2>3 DEF Active
    <2>5. Sfu!Publisher /\ Sfu!Publisher' /\ Active(c)
        BY <2>1 DEF Sfu!Publisher, Active
    <2>6. ASSUME SfuAlone PROVE SfuAlone'
        <3>1. \A d \in Sfu!Calls : Active(d)' => call'[d] = call[d] /\ call[d].kind # k
            BY <2>2, <2>4, <2>5, <2>6 DEF SfuAlone
        <3>2. \A j \in Sfu!Kinds : j # k => OfKind(published', j) = OfKind(published, j)
            BY <2>1 DEF OfKind
        <3>3. OfKind(published', k) \subseteq {<<k, c>>}
            <4>1. OfKind(published, k) = {}
                BY <2>1, <2>6 DEF SfuAlone
            <4> QED BY <4>1, <2>1 DEF OfKind
        <3>4. current'[k] = c /\ \A j \in Sfu!Kinds : j # k => current'[j] = current[j]
            BY <2>1, <2>3 DEF SfuTypes
        <3>5. \A j \in Sfu!Kinds : OfKind(published', j) \subseteq {<<j, current'[j]>>}
            BY <3>2, <3>3, <3>4, <2>6 DEF SfuAlone
        <3>6. \A d, e \in Sfu!Calls :
                 Active(d)' /\ Active(e)' /\ call'[d].kind = call'[e].kind => d = e
            BY <3>1, <2>4, <2>6 DEF SfuAlone
        <3>7. \A d \in Sfu!Calls :
                 /\ call'[d].at = "unpublishing" => call'[d].old = current'[call'[d].kind]
                 /\ call'[d].at = "publishing" => OfKind(published', call'[d].kind) = {}
            <4> SUFFICES ASSUME NEW d \in Sfu!Calls, call'[d].at # "idle"
                         PROVE  /\ call'[d].at = "unpublishing" => call'[d].old = current'[call'[d].kind]
                                /\ call'[d].at = "publishing" => OfKind(published', call'[d].kind) = {}
                OBVIOUS
            <4>1. call'[d] = call[d] /\ call[d].kind # k
                BY <3>1 DEF Active
            <4>2. call[d].kind \in Sfu!Kinds
                BY DEF SfuTypes
            <4>3. current'[call[d].kind] = current[call[d].kind]
                BY <3>4, <4>1, <4>2
            <4>4. OfKind(published', call[d].kind) = OfKind(published, call[d].kind)
                BY <3>2, <4>1, <4>2
            <4> QED BY <4>1, <4>3, <4>4, <2>6 DEF SfuAlone
        <3>8. \A d \in Sfu!Calls : Active(d)' => at' = "none"
            BY <2>1, <2>4, <2>6 DEF SfuAlone
        <3> QED BY <2>1, <3>5, <3>6, <3>7, <3>8 DEF SfuAlone, OfKind
    <2> QED BY <2>1, <2>4, <2>5, <2>6
<1>13. ASSUME NEW c \in Sfu!Calls, Sfu!ReplaceFails(c) PROVE SfuTracks'
    <2>1. /\ UNCHANGED <<opts, at, room, published, forgotten, current, overlapped>>
          /\ call[c].at # "idle" /\ call' = [call EXCEPT ![c] = Sfu!NoCall]
        BY <1>13 DEF Sfu!ReplaceFails, Sfu!history
    <2>2. \A d \in Sfu!Calls : d # c => call'[d] = call[d]
        BY <2>1 DEF SfuTypes
    <2>3. call'[c].at = "idle"
        BY <2>1 DEF SfuTypes, Sfu!NoCall
    <2>4. \A d \in Sfu!Calls : Active(d)' => Active(d) /\ d # c
        BY <2>1, <2>2, <2>3 DEF Active
    <2>5. Sfu!Publisher /\ Sfu!Publisher'
        BY <2>1 DEF Sfu!Publisher, Active
    <2>6. ASSUME SfuAlone PROVE SfuAlone'
        <3>1. \A d \in Sfu!Calls : call'[d] = call[d] \/ call'[d].at = "idle"
            BY <2>2, <2>3
        <3>2. \A d, e \in Sfu!Calls :
                 Active(d)' /\ Active(e)' /\ call'[d].kind = call'[e].kind => d = e
            BY <2>2, <2>4, <2>6 DEF SfuAlone
        <3>3. \A d \in Sfu!Calls : Active(d)' => at' = "none"
            BY <2>1, <2>4, <2>6 DEF SfuAlone
        <3>4. \A d \in Sfu!Calls :
                 /\ call'[d].at = "unpublishing" => call'[d].old = current'[call'[d].kind]
                 /\ call'[d].at = "publishing" => OfKind(published', call'[d].kind) = {}
            BY <2>1, <3>1, <2>6 DEF SfuAlone
        <3>5. \A k \in Sfu!Kinds : OfKind(published', k) \subseteq {<<k, current'[k]>>}
            BY <2>1, <2>6 DEF SfuAlone
        <3> QED BY <2>1, <3>2, <3>3, <3>4, <3>5 DEF SfuAlone, OfKind
    <2> QED BY <2>1, <2>4, <2>5, <2>6
<1>14. ASSUME NEW c \in Sfu!Calls, NEW k \in Sfu!Kinds, Sfu!Replace(c, k) PROVE SfuTracks'
    <2>1. /\ UNCHANGED <<opts, at, room, published, forgotten, current>>
          /\ Sfu!Publisher /\ room # "none" /\ call[c].at = "idle"
          /\ call' = [call EXCEPT ![c] = [kind |-> k, old |-> current[k],
                          at |-> IF current[k] = 0 THEN "publishing" ELSE "unpublishing"]]
          /\ overlapped' = (overlapped \/ Sfu!Busy(k) \/ at # "none")
        BY <1>14 DEF Sfu!Replace, Sfu!Free
    <2>2. \A d \in Sfu!Calls : d # c => call'[d] = call[d]
        BY <2>1 DEF SfuTypes
    <2>3. /\ call'[c].kind = k /\ call'[c].old = current[k]
          /\ call'[c].at = IF current[k] = 0 THEN "publishing" ELSE "unpublishing"
        BY <2>1 DEF SfuTypes
    <2>4. \A d \in Sfu!Calls : d # c => (Active(d)' <=> Active(d))
        BY <2>2 DEF Active
    <2>5. Sfu!Publisher'
        BY <2>1 DEF Sfu!Publisher
    <2>6. ASSUME ~overlapped' PROVE SfuAlone'
        <3>1. SfuAlone /\ at = "none" /\ ~Sfu!Busy(k)
            BY <2>1, <2>6
        <3>2. \A d \in Sfu!Calls : Active(d) => call[d].kind # k
            BY <3>1 DEF Sfu!Busy, Active
        <3>3. \A d, e \in Sfu!Calls :
                 Active(d)' /\ Active(e)' /\ call'[d].kind = call'[e].kind => d = e
            BY <2>2, <2>3, <2>4, <3>1, <3>2 DEF SfuAlone
        <3>4. current[k] = 0 => OfKind(published, k) = {}
            BY <3>1 DEF SfuAlone, OfKind, SfuTypes
        <3>5. \A d \in Sfu!Calls :
                 /\ call'[d].at = "unpublishing" => call'[d].old = current'[call'[d].kind]
                 /\ call'[d].at = "publishing" => OfKind(published', call'[d].kind) = {}
            BY <2>1, <2>2, <2>3, <3>1, <3>4 DEF SfuAlone
        <3> QED BY <2>1, <3>1, <3>3, <3>5 DEF SfuAlone, OfKind
    <2> QED BY <2>1, <2>4, <2>5, <2>6
<1>15. ASSUME NEW p \in Sfu!Peers, NEW k \in Sfu!Kinds,
              Sfu!TrackSubscribed(p, k) \/ Sfu!TrackUnsubscribed(p, k)
       PROVE  SfuTracks'
    BY <1>1, <1>15 DEF Sfu!TrackSubscribed, Sfu!TrackUnsubscribed, Sfu!history, Sfu!pubVars
<1> QED BY <1>2, <1>3, <1>4, <1>5, <1>6, <1>7, <1>8, <1>9, <1>10, <1>11, <1>12, <1>13, <1>14,
           <1>15 DEF SfuNext

\* The invariant holds of the variables, which no other part changes.
LEMMA SfuSame ==
    ASSUME SfuInv, UNCHANGED Sfu!vars
    PROVE  SfuInv'
BY DEF Sfu!vars, Sfu!pubVars, Sfu!subVars, Sfu!history, SfuInv, SfuTypes, SfuRooms, Sfu!StateIsRooms,
   SfuTracks, SfuAlone, Active, OfKind, Sfu!StreamIsPublishers, Sfu!Publisher

\* The invariant says what the runs check.
LEMMA SfuSays == SfuInv => Sfu!PublishedIsCurrent
<1> SUFFICES ASSUME SfuInv, ~overlapped, NEW k \in Sfu!Kinds, ~Sfu!Busy(k)
             PROVE  {t \in published \ forgotten : t[1] = k} \subseteq {<<k, current[k]>>}
    BY DEF Sfu!PublishedIsCurrent
<1> QED BY DEF SfuInv, SfuTracks, SfuAlone, OfKind

\* Every step of the page keeps the SFU session's invariant.
LEMMA SfuStep ==
    ASSUME part = "sfu", SfuInv, [Next]_pageVars
    PROVE  SfuInv'
<1>1. CASE UNCHANGED pageVars
    <2>1. UNCHANGED Sfu!vars
        BY <1>1 DEF pageVars
    <2> QED BY <2>1, SfuSame
<1>2. CASE Next
    <2>1. SfuNext
        BY <1>2, SfuNextIs DEF Next
    <2> QED BY <2>1, SfuTypesStep, SfuRoomsStep, SfuStreamStep, SfuTracksStep DEF SfuInv
<1> QED BY <1>1, <1>2

-----------------------------------------------------------------------------
(***************************************************************************)
(* The connections of a publisher.                                         *)
(***************************************************************************)

\* The least entry is one of them.
LEMMA OutMin ==
    ASSUME NEW T, T \subseteq Nat, T # {}
    PROVE  Out!Min(T) \in T /\ \A y \in T : Out!Min(T) <= y
BY Least DEF Out!Min

\* The entry after e, if there is one.
LEMMA OutNext ==
    ASSUME entries \subseteq Nat, NEW e \in Nat
    PROVE  /\ Out!NextEntry(e) \in Nat
           /\ Out!NextEntry(e) # 0 => Out!NextEntry(e) \in entries /\ e < Out!NextEntry(e)
           /\ \A d \in entries : e < d => Out!NextEntry(e) # 0 /\ Out!NextEntry(e) <= d
<1> DEFINE later == {d \in entries : d > e}
<1>1. later \subseteq Nat
    OBVIOUS
<1>2. CASE later = {}
    BY <1>2 DEF Out!NextEntry
<1>3. CASE later # {}
    <2>1. Out!Min(later) \in later /\ \A y \in later : Out!Min(later) <= y
        BY <1>1, <1>3, OutMin
    <2>2. Out!NextEntry(e) = Out!Min(later)
        BY <1>3 DEF Out!NextEntry
    <2>3. Out!NextEntry(e) \in entries /\ e < Out!NextEntry(e)
        BY <2>1, <2>2
    <2> QED BY <1>1, <2>1, <2>2, <2>3
<1> QED BY <1>2, <1>3

OutTypes ==
    /\ made \in Nat /\ made <= MaxConnections /\ entries \subseteq 1..made
    /\ sends \in [Out!Connections -> Nat] /\ swaps \in [Out!Connections -> Seq(Nat)]
    /\ called \in Nat /\ called <= MaxCalls /\ loop \in [Out!Calls -> Nat]
    /\ began \in Nat /\ began <= made /\ broken \in BOOLEAN

\* Unless a replacement was rejected or its viewer left: a call awaits the entry in whose
\* sender's queue it is; the queues are in the order of the calls; a later call is behind
\* an earlier one, at the same entry or before it; and the last one has been to the entries
\* before the one it awaits.
OutOrdered ==
    /\ \A c \in Out!Calls : loop[c] # 0 => loop[c] \in entries /\ c <= called
    /\ \A e \in Out!Connections : Increasing(swaps[e])
    /\ \A e \in Out!Connections : \A c \in Members(swaps[e]) : c \in Out!Calls /\ loop[c] = e
    /\ \A c \in Out!Calls : loop[c] # 0 => c \in Members(swaps[loop[c]])
    /\ \A c, d \in Out!Calls : c < d /\ d <= called /\ loop[c] # 0 => loop[d] # 0 /\ loop[d] <= loop[c]
    /\ \A e \in entries :
         e <= began /\ (loop[called] = 0 \/ e < loop[called]) => sends[e] = called

OutInv ==
    /\ OutTypes
    /\ called = 0 => began = 0
    /\ ~broken => OutOrdered

\* A page that has just loaded has no connections and no calls.
LEMMA OutInit == Out!Init => OutInv
<1> SUFFICES ASSUME Out!Init PROVE OutInv
    OBVIOUS
<1>1. \A e \in Out!Connections : swaps[e] = <<>>
    BY DEF Out!Init
<1>2. swaps \in [Out!Connections -> Seq(Nat)] /\ <<>> \in Seq(Nat)
    BY DEF Out!Init
<1>3. Members(<<>>) = {} /\ Increasing(<<>>)
    BY DEF Members, Increasing
<1>4. OutTypes
    <2>1. made = 0 /\ entries = {} /\ called = 0 /\ began = 0 /\ broken = FALSE
        BY DEF Out!Init
    <2>2. sends \in [Out!Connections -> Nat] /\ loop \in [Out!Calls -> Nat]
        BY DEF Out!Init
    <2>3. made \in Nat /\ made <= MaxConnections /\ called \in Nat /\ called <= MaxCalls
        BY <2>1, PageBounds
    <2>4. began \in Nat /\ began <= made /\ entries \subseteq 1..made
        BY <2>1
    <2>5. broken \in BOOLEAN
        BY <2>1
    <2> QED BY <1>2, <2>2, <2>3, <2>4, <2>5, Zenon DEF OutTypes
<1>5. OutOrdered
    BY <1>1, <1>3 DEF Out!Init, OutOrdered
<1> QED BY <1>1, <1>4, <1>5 DEF OutInv, Out!Init

\* What the calls await depends on nothing else.
LEMMA OutSameCalls ==
    ASSUME OutInv, UNCHANGED <<made, entries, sends, swaps, called, loop, began, broken>>
    PROVE  OutInv'
BY DEF OutInv, OutTypes, OutOrdered

\* A connection made is behind all that the calls have begun with.
LEMMA OutConnects ==
    ASSUME OutInv, Out!ViewerJoins
    PROVE  OutInv'
<1>1. /\ made' = made + 1 /\ made < MaxConnections /\ entries' = entries \cup {made + 1}
      /\ UNCHANGED <<sends, swaps, called, loop, began, broken>>
    BY DEF Out!ViewerJoins
<1>2. OutTypes'
    BY <1>1, PageBounds DEF OutInv, OutTypes
<1>3. made + 1 > began
    BY DEF OutInv, OutTypes
<1>4. OutOrdered => OutOrdered'
    BY <1>1, <1>3 DEF OutOrdered, OutInv, OutTypes
<1> QED BY <1>1, <1>2, <1>4 DEF OutInv

\* A viewer that goes breaks off the calls that await it.
LEMMA OutGoes ==
    ASSUME OutInv, NEW e \in Out!Connections, entries' = entries \ {e},
           broken' = (broken \/ swaps[e] # <<>>),
           UNCHANGED <<made, sends, swaps, called, loop, began>>
    PROVE  OutInv'
<1>1. OutTypes'
    BY DEF OutInv, OutTypes
<1>2. ASSUME ~broken' PROVE OutOrdered'
    <2>1. ~broken /\ swaps[e] = <<>> /\ OutOrdered
        BY <1>2 DEF OutInv
    <2>2. Members(<<>>) = {}
        BY DEF Members
    <2>3. \A c \in Out!Calls : loop[c] # e \/ loop[c] = 0
        BY <2>1, <2>2 DEF OutOrdered
    <2> QED BY <2>1, <2>3 DEF OutOrdered
<1> QED BY <1>1, <1>2 DEF OutInv

\* A new call is behind all others, at the first entry.
LEMMA OutReplace ==
    ASSUME OutInv, Out!Replace
    PROVE  OutInv'
<1> DEFINE e == Out!Min(entries)
           n == called + 1
<1>1. /\ entries # {} /\ called < MaxCalls /\ called' = n /\ began' = made
      /\ loop' = [loop EXCEPT ![n] = e]
      /\ swaps' = [swaps EXCEPT ![e] = Append(@, n)]
      /\ UNCHANGED <<made, entries, sends, broken>>
    BY DEF Out!Replace
<1>2. e \in entries /\ \A d \in entries : e <= d
    <2>1. entries \subseteq Nat
        BY DEF OutInv, OutTypes
    <2> QED BY <1>1, <2>1, OutMin
<1> HIDE DEF e
<1>3. e \in Out!Connections /\ e \in Nat \ {0} /\ n \in Out!Calls /\ n \in Nat
    BY <1>1, <1>2, PageBounds DEF OutInv, OutTypes, Out!Connections, Out!Calls
<1>4. /\ loop'[n] = e /\ \A c \in Out!Calls : c # n => loop'[c] = loop[c]
      /\ swaps'[e] = Append(swaps[e], n)
      /\ \A d \in Out!Connections : d # e => swaps'[d] = swaps[d]
    BY <1>1, <1>3 DEF OutInv, OutTypes
<1>9. entries \subseteq Out!Connections
    BY PageBounds DEF OutInv, OutTypes, Out!Connections
<1>5. swaps[e] \in Seq(Nat)
    BY <1>3 DEF OutInv, OutTypes
<1>6. OutTypes'
    <2>1. Append(swaps[e], n) \in Seq(Nat)
        BY <1>3, <1>5
    <2>2. swaps' \in [Out!Connections -> Seq(Nat)]
        BY <1>1, <2>1 DEF OutInv, OutTypes
    <2>3. loop' \in [Out!Calls -> Nat]
        BY <1>1, <1>3 DEF OutInv, OutTypes
    <2> QED BY <1>1, <1>3, <2>2, <2>3, PageBounds DEF OutInv, OutTypes
<1>7. ASSUME OutOrdered PROVE OutOrdered'
    <2>1. \A c \in Members(swaps[e]) : c \in Out!Calls /\ loop[c] = e
        BY <1>3, <1>7 DEF OutOrdered
    <2>2. \A c \in Out!Calls : loop[c] # 0 => c <= called /\ loop[c] \in entries
        BY <1>7 DEF OutOrdered
    <2>3. \A c \in Members(swaps[e]) : c < n
        BY <1>3, <2>1, <2>2, PageBounds DEF OutInv, OutTypes, Out!Calls
    <2>4. Increasing(swaps[e])
        BY <1>3, <1>7 DEF OutOrdered
    <2>5. Increasing(Append(swaps[e], n)) /\ Members(Append(swaps[e], n)) = Members(swaps[e]) \cup {n}
        BY <1>3, <1>5, <2>3, <2>4, IncreasingAppend
    <2>6. loop[n] = 0
        BY <1>3, <2>2 DEF OutInv, OutTypes
    <2>7. \A c \in Out!Calls : loop'[c] # 0 => loop'[c] \in entries' /\ c <= called'
        BY <1>1, <1>2, <1>3, <1>4, <2>2 DEF OutInv, OutTypes, Out!Calls
    <2>8. \A d \in Out!Connections : Increasing(swaps'[d])
        BY <1>4, <1>7, <2>5 DEF OutOrdered
    <2>9. \A d \in Out!Connections : \A c \in Members(swaps'[d]) : c \in Out!Calls /\ loop'[c] = d
        <3> SUFFICES ASSUME NEW d \in Out!Connections, NEW c \in Members(swaps'[d])
                     PROVE  c \in Out!Calls /\ loop'[c] = d
            OBVIOUS
        <3>1. CASE d = e
            BY <1>3, <1>4, <2>1, <2>5, <3>1
        <3>2. CASE d # e
            <4>1. c \in Out!Calls /\ loop[c] = d
                BY <1>4, <1>7, <3>2 DEF OutOrdered
            <4>2. d # 0
                BY DEF Out!Connections
            <4> QED BY <1>4, <2>6, <4>1, <4>2
        <3> QED BY <3>1, <3>2
    <2>10. \A c \in Out!Calls : loop'[c] # 0 => c \in Members(swaps'[loop'[c]])
        <3> SUFFICES ASSUME NEW c \in Out!Calls, loop'[c] # 0
                     PROVE  c \in Members(swaps'[loop'[c]])
            OBVIOUS
        <3>1. CASE c = n
            BY <1>4, <2>5, <3>1
        <3>2. CASE c # n
            <4>1. loop'[c] = loop[c] /\ loop[c] # 0 /\ c \in Members(swaps[loop[c]])
                BY <1>4, <1>7, <3>2 DEF OutOrdered
            <4>2. loop[c] \in Out!Connections
                BY <1>9, <2>2, <4>1
            <4>3. CASE loop[c] = e
                BY <1>4, <2>5, <4>1, <4>3
            <4>4. CASE loop[c] # e
                BY <1>4, <4>1, <4>2, <4>4
            <4> QED BY <4>3, <4>4
        <3> QED BY <3>1, <3>2
    <2>11. \A c, d \in Out!Calls :
              c < d /\ d <= called' /\ loop'[c] # 0 => loop'[d] # 0 /\ loop'[d] <= loop'[c]
        <3> SUFFICES ASSUME NEW c \in Out!Calls, NEW d \in Out!Calls,
                            c < d, d <= called', loop'[c] # 0
                     PROVE  loop'[d] # 0 /\ loop'[d] <= loop'[c]
            OBVIOUS
        <3>1. c # n /\ loop'[c] = loop[c] /\ loop[c] \in entries
            BY <1>1, <1>3, <1>4, <2>2 DEF Out!Calls
        <3>2. CASE d = n
            BY <1>2, <1>3, <1>4, <3>1, <3>2
        <3>3. CASE d # n
            <4>1. d <= called
                BY <1>1, <3>3 DEF OutInv, OutTypes, Out!Calls
            <4> QED BY <1>4, <1>7, <3>1, <3>3, <4>1 DEF OutOrdered
        <3> QED BY <3>2, <3>3
    <2>12. \A d \in entries' : ~(loop'[called'] = 0 \/ d < loop'[called'])
        BY <1>1, <1>2, <1>3, <1>4 DEF OutInv, OutTypes
    <2> QED BY <2>7, <2>8, <2>9, <2>10, <2>11, <2>12 DEF OutOrdered
<1>8. called' # 0
    BY <1>1 DEF OutInv, OutTypes
<1> QED BY <1>1, <1>6, <1>7, <1>8 DEF OutInv

\* A sender's first call goes on to the next entry, behind those that were there before it.
LEMMA OutReplaced ==
    ASSUME OutInv, NEW e \in Out!Connections, Out!Replaced(e)
    PROVE  OutInv'
<1> DEFINE c == Head(swaps[e])
           next == Out!NextEntry(e)
           rest == [swaps EXCEPT ![e] = Tail(@)]
<1>1. /\ e \in entries /\ swaps[e] # <<>>
      /\ sends' = [sends EXCEPT ![e] = c] /\ loop' = [loop EXCEPT ![c] = next]
      /\ swaps' = IF next = 0 THEN rest ELSE [rest EXCEPT ![next] = Append(@, c)]
      /\ UNCHANGED <<made, entries, called, began, broken>>
    BY DEF Out!Replaced
<1>2. /\ swaps[e] \in Seq(Nat) /\ c \in Nat /\ Tail(swaps[e]) \in Seq(Nat)
    BY <1>1, Queued DEF OutInv, OutTypes
<1>3. entries \subseteq Nat /\ e \in Nat /\ e # 0 /\ entries \subseteq Out!Connections
    BY PageBounds DEF OutInv, OutTypes, Out!Connections
<1>4. /\ next \in Nat /\ (next # 0 => next \in entries /\ e < next)
      /\ \A d \in entries : e < d => next # 0 /\ next <= d
    BY <1>3, OutNext
<1> HIDE DEF c, next
<1>5. /\ rest[e] = Tail(swaps[e]) /\ rest \in [Out!Connections -> Seq(Nat)]
      /\ \A d \in Out!Connections : d # e => rest[d] = swaps[d]
    BY <1>2 DEF OutInv, OutTypes
<1> HIDE DEF rest
<1>6. next # 0 => next # e /\ next \in Out!Connections /\ rest[next] = swaps[next]
    BY <1>3, <1>4, <1>5
<1>7. /\ next # 0 => swaps'[next] = Append(swaps[next], c)
      /\ swaps'[e] = Tail(swaps[e])
      /\ \A d \in Out!Connections : d # e /\ d # next => swaps'[d] = swaps[d]
    BY <1>1, <1>5, <1>6
<1>8. OutTypes'
    <2>1. next # 0 => Append(swaps[next], c) \in Seq(Nat)
        BY <1>2, <1>6 DEF OutInv, OutTypes
    <2>2. swaps' \in [Out!Connections -> Seq(Nat)]
        BY <1>1, <1>5, <1>6, <2>1
    <2> QED BY <1>1, <1>2, <1>4, <2>2 DEF OutInv, OutTypes
<1>9. ASSUME OutOrdered PROVE OutOrdered'
    <2>1. /\ Increasing(Tail(swaps[e])) /\ c \in Members(swaps[e])
          /\ \A m \in Members(swaps[e]) : c <= m
          /\ Members(Tail(swaps[e])) = Members(swaps[e]) \ {c}
        <3>1. Increasing(swaps[e])
            BY <1>9 DEF OutOrdered
        <3> QED BY <1>1, <1>2, <3>1, IncreasingTail DEF c
    <2>2. c \in Out!Calls /\ loop[c] = e /\ c <= called
        BY <1>3, <1>9, <2>1 DEF OutOrdered
    <2>3. loop'[c] = next /\ \A d \in Out!Calls : d # c => loop'[d] = loop[d]
        BY <1>1, <2>2 DEF OutInv, OutTypes
    <2>4. \A d \in Out!Calls : loop[d] # 0 => loop[d] \in entries /\ d <= called
        BY <1>9 DEF OutOrdered
    <2>5. \A d \in Out!Connections : \A b \in Members(swaps[d]) : b \in Out!Calls /\ loop[b] = d
        BY <1>9 DEF OutOrdered
    <2>6. \A b, d \in Out!Calls : b < d /\ d <= called /\ loop[b] # 0 => loop[d] # 0 /\ loop[d] <= loop[b]
        BY <1>9 DEF OutOrdered
    <2>7. next # 0 => \A b \in Members(swaps[next]) : b < c
        <3> SUFFICES ASSUME next # 0, NEW b \in Members(swaps[next]), ~(b < c) PROVE FALSE
            OBVIOUS
        <3>1. b \in Out!Calls /\ loop[b] = next /\ b # c /\ b <= called
            BY <1>4, <1>6, <2>2, <2>4, <2>5
        <3>2. c < b
            BY <2>2, <3>1 DEF Out!Calls
        <3>3. loop[b] <= loop[c]
            BY <1>3, <2>2, <2>6, <3>1, <3>2
        <3> QED BY <1>3, <1>4, <2>2, <3>1, <3>3
    <2>8. next # 0 => /\ Increasing(Append(swaps[next], c))
                      /\ Members(Append(swaps[next], c)) = Members(swaps[next]) \cup {c}
        <3>1. next # 0 => swaps[next] \in Seq(Nat) /\ Increasing(swaps[next])
            BY <1>6, <1>9 DEF OutOrdered, OutInv, OutTypes
        <3> QED BY <1>2, <2>7, <3>1, IncreasingAppend
    <2>9. \A d \in Out!Calls : loop'[d] # 0 => loop'[d] \in entries' /\ d <= called'
        BY <1>1, <1>4, <2>2, <2>3, <2>4
    <2>10. \A d \in Out!Connections : Increasing(swaps'[d])
        <3> SUFFICES ASSUME NEW d \in Out!Connections PROVE Increasing(swaps'[d])
            OBVIOUS
        <3>1. next = 0 \/ next # d \/ Increasing(swaps'[d])
            BY <1>7, <2>8
        <3>2. d # next /\ d # e => Increasing(swaps'[d])
            BY <1>7, <1>9 DEF OutOrdered
        <3> QED BY <1>7, <2>1, <3>1, <3>2 DEF Out!Connections
    <2>11. \A d \in Out!Connections : \A b \in Members(swaps'[d]) : b \in Out!Calls /\ loop'[b] = d
        <3> SUFFICES ASSUME NEW d \in Out!Connections, NEW b \in Members(swaps'[d])
                     PROVE  b \in Out!Calls /\ loop'[b] = d
            OBVIOUS
        <3>1. CASE d = e
            <4>1. b \in Members(swaps[e]) /\ b # c
                BY <1>7, <2>1, <3>1
            <4> QED BY <2>3, <2>5, <3>1, <4>1
        <3>2. CASE d # e /\ d = next
            <4>1. next # 0
                BY <3>2 DEF Out!Connections
            <4>2. b = c \/ b \in Members(swaps[next])
                BY <1>7, <2>8, <3>2, <4>1
            <4>3. CASE b = c
                BY <2>2, <2>3, <3>2, <4>3
            <4>4. CASE b # c
                BY <2>3, <2>5, <3>2, <4>2, <4>4
            <4> QED BY <4>3, <4>4
        <3>3. CASE d # e /\ d # next
            <4>1. b \in Out!Calls /\ loop[b] = d /\ b # c
                BY <1>7, <2>2, <2>5, <3>3
            <4> QED BY <2>3, <4>1
        <3> QED BY <3>1, <3>2, <3>3
    <2>12. \A d \in Out!Calls : loop'[d] # 0 => d \in Members(swaps'[loop'[d]])
        <3> SUFFICES ASSUME NEW d \in Out!Calls, loop'[d] # 0
                     PROVE  d \in Members(swaps'[loop'[d]])
            OBVIOUS
        <3>1. CASE d = c
            BY <1>7, <2>3, <2>8, <3>1
        <3>2. CASE d # c
            <4>1. loop'[d] = loop[d] /\ d \in Members(swaps[loop[d]]) /\ loop[d] \in Out!Connections
                BY <1>3, <1>9, <2>3, <2>4, <3>2 DEF OutOrdered
            <4>2. CASE loop[d] = e
                BY <1>7, <2>1, <3>2, <4>1, <4>2
            <4>3. CASE loop[d] # e /\ loop[d] = next
                BY <1>7, <2>8, <3>2, <4>1, <4>3
            <4>4. CASE loop[d] # e /\ loop[d] # next
                BY <1>7, <4>1, <4>4
            <4> QED BY <4>2, <4>3, <4>4
        <3> QED BY <3>1, <3>2
    <2>13. \A b, d \in Out!Calls :
              b < d /\ d <= called' /\ loop'[b] # 0 => loop'[d] # 0 /\ loop'[d] <= loop'[b]
        <3> SUFFICES ASSUME NEW b \in Out!Calls, NEW d \in Out!Calls,
                            b < d, d <= called', loop'[b] # 0
                     PROVE  loop'[d] # 0 /\ loop'[d] <= loop'[b]
            OBVIOUS
        <3>0. b # d /\ d <= called
            BY <1>1 DEF Out!Calls
        <3>1. CASE b = c
            <4>1. loop[d] # 0 /\ loop[d] <= e /\ loop'[d] = loop[d] /\ loop[d] \in Nat
                BY <1>3, <2>2, <2>3, <2>6, <3>0, <3>1 DEF OutInv, OutTypes
            <4>2. next # 0 /\ e < next /\ loop'[b] = next
                BY <1>4, <2>3, <3>1
            <4> QED BY <1>3, <1>4, <4>1, <4>2
        <3>2. CASE d = c
            <4>1. loop'[b] = loop[b] /\ loop[b] # 0 /\ loop[b] \in entries
                BY <2>3, <2>4, <3>0, <3>2
            <4>2. e <= loop[b]
                BY <2>2, <2>6, <3>0, <3>2, <4>1
            <4>3. loop[b] # e
                <5> SUFFICES ASSUME loop[b] = e PROVE FALSE
                    OBVIOUS
                <5>1. b \in Members(swaps[e])
                    BY <1>3, <1>9 DEF OutOrdered
                <5> QED BY <2>1, <3>2, <5>1 DEF Out!Calls
            <4>4. e < loop[b]
                <5>1. loop[b] \in Nat
                    BY <1>3, <4>1
                <5> QED BY <1>3, <4>2, <4>3, <5>1
            <4> QED BY <1>4, <2>3, <3>2, <4>1, <4>4
        <3>3. CASE b # c /\ d # c
            BY <2>3, <2>6, <3>0, <3>3
        <3> QED BY <3>1, <3>2, <3>3
    <2>14. \A f \in entries' :
              f <= began' /\ (loop'[called'] = 0 \/ f < loop'[called']) => sends'[f] = called'
        <3> SUFFICES ASSUME NEW f \in entries, f <= began, loop'[called] = 0 \/ f < loop'[called]
                     PROVE  sends'[f] = called
            BY <1>1
        <3>0. f \in Nat /\ f \in Out!Connections /\ called \in Out!Calls
            BY <1>3, <2>2 DEF OutInv, OutTypes, Out!Calls
        <3>1. CASE f = e /\ called = c
            BY <1>1, <3>1 DEF OutInv, OutTypes
        <3>2. CASE f # e /\ called = c
            <4>1. next = 0 \/ f < next
                BY <2>3, <3>2
            <4>2. f < e
                BY <1>3, <1>4, <3>0, <3>2, <4>1
            <4>3. sends[f] = called
                BY <1>9, <2>2, <3>2, <4>2 DEF OutOrdered
            <4> QED BY <1>1, <3>0, <3>2, <4>3 DEF OutInv, OutTypes
        <3>3. CASE called # c
            <4>1. c < called /\ loop'[called] = loop[called]
                BY <2>2, <2>3, <3>0, <3>3 DEF Out!Calls
            <4>2. loop[called] # 0 /\ loop[called] <= e /\ loop[called] \in Nat
                BY <1>3, <2>2, <2>6, <3>0, <4>1 DEF OutInv, OutTypes
            <4>3. f < loop[called] /\ f # e
                BY <1>3, <3>0, <4>1, <4>2
            <4>4. sends[f] = called
                BY <1>9, <4>3 DEF OutOrdered
            <4> QED BY <1>1, <3>0, <4>3, <4>4 DEF OutInv, OutTypes
        <3> QED BY <3>1, <3>2, <3>3
    <2> QED BY <2>9, <2>10, <2>11, <2>12, <2>13, <2>14 DEF OutOrdered
<1> QED BY <1>1, <1>8, <1>9 DEF OutInv

\* A call that is rejected is over, and breaks the order.
LEMMA OutRejected ==
    ASSUME OutInv, NEW e \in Out!Connections, Out!ReplaceRejected(e)
    PROVE  OutInv'
<1>1. /\ swaps[e] # <<>> /\ swaps' = [swaps EXCEPT ![e] = Tail(@)]
      /\ loop' = [loop EXCEPT ![Head(swaps[e])] = 0] /\ broken' = TRUE
      /\ UNCHANGED <<made, entries, sends, called, began>>
    BY DEF Out!ReplaceRejected
<1>2. swaps[e] \in Seq(Nat) /\ Tail(swaps[e]) \in Seq(Nat)
    BY <1>1, Queued DEF OutInv, OutTypes
<1>3. OutTypes'
    BY <1>1, <1>2 DEF OutInv, OutTypes
<1> QED BY <1>1, <1>3 DEF OutInv

\* Every step of the page keeps the connections' invariant.
LEMMA OutStep ==
    ASSUME part = "out", OutInv, [Next]_pageVars
    PROVE  OutInv'
<1>1. CASE UNCHANGED pageVars
    <2>1. UNCHANGED Out!vars
        BY <1>1 DEF pageVars
    <2> QED BY <2>1, OutSameCalls DEF Out!vars
<1>2. CASE Out!Next
    <2>1. CASE Out!ViewerJoins
        BY <2>1, OutConnects
    <2>2. CASE Out!Replace
        BY <2>2, OutReplace
    <2>3. ASSUME NEW e \in Out!Connections, Out!ViewerGoes(e) PROVE OutInv'
        BY <2>3, OutGoes DEF Out!ViewerGoes
    <2>4. ASSUME NEW e \in Out!Connections, Out!Replaced(e) PROVE OutInv'
        BY <2>4, OutReplaced
    <2>5. ASSUME NEW e \in Out!Connections, Out!ReplaceRejected(e) PROVE OutInv'
        BY <2>5, OutRejected
    <2> QED BY <1>2, <2>1, <2>2, <2>3, <2>4, <2>5 DEF Out!Next
<1> QED BY <1>1, <1>2 DEF Next

\* The invariant says what the runs check.
LEMMA OutSays == OutInv => Out!SwapsReachAll
<1> SUFFICES ASSUME OutInv, ~broken, \A c \in Out!Calls : loop[c] = 0,
                    NEW e \in entries, e <= began
             PROVE  sends[e] = called
    BY DEF Out!SwapsReachAll
<1>1. called # 0
    BY DEF OutInv, OutTypes
<1>2. called \in Out!Calls
    BY <1>1, PageBounds DEF OutInv, OutTypes, Out!Calls
<1> QED BY <1>2 DEF OutInv, OutOrdered

-----------------------------------------------------------------------------
(***************************************************************************)
(* The owners of a Recorder.                                               *)
(***************************************************************************)

Tasks == {"data", "stop", "recording", "paused"}

RecTypes ==
    /\ opts.host \in {"element", "react", "vue"} /\ mounted \in {"no", "yes", "gone"}
    /\ made \in Nat /\ made <= MaxRecorders /\ held \in 0..made
    /\ rec = [r \in Record!Recorders |-> rec[r]]
    /\ native = [r \in Record!Recorders |-> native[r]]
    /\ tasks \in [Record!Recorders -> Seq(Tasks)]
    /\ got \in [Record!Recorders -> Seq(Nat)] /\ sent \in [Record!Recorders -> Seq(Nat)]
    /\ piped \in [Record!Recorders -> {0, 1}]
    /\ sink \in {"none", "open", "closed"}

On(r) == native[r] \in {"recording", "paused"}
NoStop(s) == \A i \in 1..Len(s) : s[i] # "stop"
Ended(s) == s # <<>> /\ s[Len(s)] = "stop"

\* A MediaRecorder that is on is that of the Recorder held, whose state says so: it has no
\* stop event to come; a Recorder to come has nothing yet; an owner that is gone holds none,
\* unless its start() was called again.
RecOn ==
    /\ \A r \in Record!Recorders : On(r) => r = held /\ Record!Running(r) /\ NoStop(tasks[r])
    /\ \A r \in Record!Recorders : On(r) \/ native[r] \in {"none", "inactive"}
    /\ \A r \in Record!Recorders :
         made < r => /\ native[r] = "none" /\ tasks[r] = <<>> /\ got[r] = <<>> /\ sent[r] = <<>>
                     /\ rec[r] = "idle"
    /\ mounted = "gone" => ~Record!Element /\ (~late => held = 0)
    /\ mounted = "no" /\ ~Record!Element => made = 0 /\ shown = "idle"

\* The last event of a MediaRecorder that is off is its stop event; while what is rendered
\* is a recording's state, some MediaRecorder is on or has an event to come.
RecLast ==
    /\ \A r \in Record!Recorders : tasks[r] = <<>> \/ On(r) \/ Ended(tasks[r])
    /\ shown \in {"recording", "paused"} => \E r \in Record!Recorders : On(r) \/ tasks[r] # <<>>

\* Unless the element was attached with a Recorder at work, the one held is the only one
\* whose events are still to come.
RecShown ==
    /\ mounted = "yes" /\ ~adrift => \A r \in Record!Recorders : r # held => tasks[r] = <<>>
    /\ Record!ShownIsHeld

\* An uploader's pipe is that of the component that feeds it; what it was sent is what was
\* recorded, in order; an element's slotted uploader misses nothing.
RecSent ==
    /\ \A r \in Record!Recorders : Increasing(sent[r]) /\ \A k \in Members(sent[r]) : k <= Len(got[r])
    /\ ~Record!Element => /\ slotted = {} /\ urls \subseteq {url}
                          /\ \A r \in Record!Recorders : piped[r] # 0 => r = feeding
    /\ sink = "none" => slotted = {}
    /\ \A r \in slotted : r \in Record!Recorders /\ (piped[r] > 0 /\ sink = "open" => sent[r] = got[r])
    /\ mounted = "gone" => urls = {}

RecInv == RecTypes /\ RecOn /\ RecLast /\ RecShown /\ RecSent

\* Record!Next with the hooks of React and Vue, which do the same, taken together.
RecNext ==
    \/ Record!ElementStarts \/ Record!StreamSet \/ Record!StreamRead \/ Record!ElementStops
    \/ Record!ElementAttached \/ Record!ElementDetached \/ Record!UploaderSlotted
    \/ Record!UploaderRemoved \/ Record!HookMounts \/ Record!HookStops
    \/ Record!ReactReturns /\ ~Record!Element
    \/ ~Record!Element /\ (Record!Starts \/ Record!Updates \/ Record!Unmounts \/ Record!Pipes
                             \/ Record!LetsGo)
    \/ Record!Pauses \/ Record!Resumes
    \/ \E r \in Record!Recorders :
         \/ Record!CutsChunk(r) \/ Record!EndsByItself(r) \/ Record!DataArrives(r)
         \/ Record!PausedOrResumed(r) \/ Record!StopArrives(r)

\* The hooks' actions are those.
LEMMA RecNextIs == Record!Next => RecNext
BY DEF RecNext, Record!Next, Record!Element, Record!HookStarts, Record!VueHookStarts,
       Record!UrlUpdated, Record!VueUrlUpdated, Record!ReactUnmounts, Record!VueDisposes,
       Record!ReactReturns,
       Record!ReactPipes, Record!ReactUnpipes, Record!VuePipes, Record!VueUnpipes

\* Nothing is recorded at first.
LEMMA RecInit == Record!Init => RecInv
<1> SUFFICES ASSUME Record!Init PROVE RecInv
    OBVIOUS
<1>1. RecTypes
    <2>1. /\ <<>> \in Seq(Tasks) /\ <<>> \in Seq(Nat)
          /\ 0 <= MaxRecorders
        BY PageBounds
    <2>2. tasks \in [Record!Recorders -> Seq(Tasks)]
        BY <2>1 DEF Record!Init
    <2>3. got \in [Record!Recorders -> Seq(Nat)] /\ sent \in [Record!Recorders -> Seq(Nat)]
        BY <2>1 DEF Record!Init
    <2>4. piped \in [Record!Recorders -> {0, 1}]
        BY DEF Record!Init
    <2>5. opts.host \in {"element", "react", "vue"}
        BY DEF Record!Init
    <2> QED BY <2>1, <2>2, <2>3, <2>4, <2>5 DEF Record!Init, RecTypes
<1>2. RecOn
    BY DEF Record!Init, RecOn, On
<1>5. RecLast
    BY DEF Record!Init, RecLast
<1>3. RecShown
    BY DEF Record!Init, RecShown, Record!ShownIsHeld
<1>4. RecSent
    <2>1. \A r \in Record!Recorders : sent[r] = <<>> /\ piped[r] = 0 /\ slotted = {} /\ urls = {}
        BY DEF Record!Init
    <2>2. Increasing(<<>>) /\ Members(<<>>) = {}
        BY DEF Increasing, Members
    <2> QED BY <2>1, <2>2 DEF Record!Init, RecSent
<1> QED BY <1>1, <1>2, <1>3, <1>4, <1>5 DEF RecInv

\* The numbers of the Recorders.
LEMMA RecNumbers ==
    ASSUME RecTypes
    PROVE  /\ made \in Nat /\ held \in Record!Recorders \cup {0}
           /\ \A r \in Record!Recorders : r # 0 /\ r \in Nat
<1>1. made \in Nat /\ made <= MaxRecorders /\ MaxRecorders \in Nat /\ held \in 0..made
    BY PageBounds DEF RecTypes
<1>2. held = 0 \/ held \in 1..MaxRecorders
    BY <1>1
<1>3. \A r \in 1..MaxRecorders : r # 0 /\ r \in Nat
    BY <1>1
<1> QED BY <1>1, <1>2, <1>3 DEF Record!Recorders

\* A queue that a stop event was added to.
LEMMA EndedAfter ==
    ASSUME NEW s \in Seq(Tasks), "data" \in Tasks, "stop" \in Tasks
    PROVE  Ended(Append(s, "stop")) /\ Ended(s \o <<"data", "stop">>)
<1>1. Len(s) \in Nat
    OBVIOUS
<1>2. /\ Len(Append(s, "stop")) = Len(s) + 1 /\ Append(s, "stop")[Len(s) + 1] = "stop"
      /\ Append(s, "stop") \in Seq(Tasks)
    BY <1>1
<1>3. /\ Len(s \o <<"data", "stop">>) = Len(s) + 2 /\ (s \o <<"data", "stop">>)[Len(s) + 2] = "stop"
      /\ s \o <<"data", "stop">> \in Seq(Tasks)
    BY <1>1
<1>4. \A t \in Seq(Tasks) : Len(t) # 0 => t # <<>>
    OBVIOUS
<1> QED BY <1>1, <1>2, <1>3, <1>4 DEF Ended

\* The MediaRecorder of r ends: only its own events are more.
LEMMA RecEnds ==
    ASSUME RecTypes, NEW r \in Record!Recorders, Record!Ends(r)
    PROVE  /\ native' = [q \in Record!Recorders |-> native'[q]]
           /\ tasks' \in [Record!Recorders -> Seq(Tasks)]
           /\ native'[r] = "inactive" /\ Ended(tasks'[r])
           /\ \A q \in Record!Recorders \ {r} : native'[q] = native[q] /\ tasks'[q] = tasks[q]
<1>1. tasks[r] \in Seq(Tasks) /\ <<"data", "stop">> \in Seq(Tasks) /\ "stop" \in Tasks
    BY DEF RecTypes, Tasks
<1>2. tasks[r] \o <<"data", "stop">> \in Seq(Tasks) /\ Append(tasks[r], "stop") \in Seq(Tasks)
    BY <1>1
<1>3. native' = [native EXCEPT ![r] = "inactive"]
    BY DEF Record!Ends
<1>5. /\ Ended(Append(tasks[r], "stop"))
      /\ Ended(tasks[r] \o <<"data", "stop">>)
    BY <1>1, EndedAfter
<1>4. PICK s \in Seq(Tasks) : tasks' = [tasks EXCEPT ![r] = s] /\ Ended(s)
    BY <1>2, <1>5 DEF Record!Ends
<1> QED BY <1>3, <1>4 DEF RecTypes

\* What StopRecorder does to r: its MediaRecorder ends, if it was on.
LEMMA RecStops ==
    ASSUME RecTypes, RecOn, NEW r \in Record!Recorders \cup {0}, Record!StopRecorder(r)
    PROVE  /\ native' = [q \in Record!Recorders |-> native'[q]]
           /\ tasks' \in [Record!Recorders -> Seq(Tasks)]
           /\ \A q \in Record!Recorders \ {r} : native'[q] = native[q] /\ tasks'[q] = tasks[q]
           /\ r # 0 => native'[r] \in {"none", "inactive"}
           /\ r # 0 /\ On(r) => Ended(tasks'[r])
           /\ r # 0 /\ ~On(r) => tasks'[r] = tasks[r]
           /\ r # 0 /\ native[r] = "none" => native'[r] = "none" /\ tasks'[r] = tasks[r]
<1>1. CASE r # 0 /\ Record!Running(r) /\ On(r)
    <2>1. r \in Record!Recorders /\ Record!Ends(r)
        BY <1>1 DEF Record!StopRecorder, On
    <2> QED BY <1>1, <2>1, RecEnds DEF On
<1>2. CASE ~ (r # 0 /\ Record!Running(r) /\ On(r))
    <2>1. UNCHANGED <<native, tasks>>
        BY <1>2 DEF Record!StopRecorder, On
    <2> QED BY <1>2, <2>1 DEF RecTypes, RecOn
<1> QED BY <1>1, <1>2

\* A queue of no length is empty.
LEMMA NoneLeft == \A t \in Seq(Tasks) : Len(t) = 0 => t = <<>>
OBVIOUS

\* The next event is taken: what is left has no stop event unless there was one.
LEMMA RecPops ==
    ASSUME RecTypes, NEW r \in Record!Recorders, tasks[r] # <<>>, Record!Pop(r)
    PROVE  /\ tasks' \in [Record!Recorders -> Seq(Tasks)]
           /\ \A q \in Record!Recorders \ {r} : tasks'[q] = tasks[q]
           /\ NoStop(tasks[r]) => Record!NextTask(r) # "stop" /\ NoStop(tasks'[r])
           /\ Ended(tasks[r]) => \/ tasks'[r] = <<>> /\ Record!NextTask(r) = "stop"
                                 \/ Ended(tasks'[r])
<1> DEFINE s == tasks[r]
<1>1. s \in Seq(Tasks) /\ s # <<>>
    BY DEF RecTypes
<1>2. tasks' = [tasks EXCEPT ![r] = Tail(s)]
    BY DEF Record!Pop
<1> HIDE DEF s
<1>3. /\ Len(s) \in Nat \ {0} /\ Head(s) = s[1] /\ Tail(s) \in Seq(Tasks)
      /\ Len(Tail(s)) = Len(s) - 1
    BY <1>1, Queued
<1>4. \A i \in 1..Len(Tail(s)) : Tail(s)[i] = s[i + 1] /\ i + 1 \in 1..Len(s)
    BY <1>1, <1>3
<1>5. NoStop(s) => Head(s) # "stop" /\ NoStop(Tail(s))
    BY <1>3, <1>4 DEF NoStop
<1>9. Ended(s) => (Tail(s) = <<>> /\ Head(s) = "stop") \/ Ended(Tail(s))
    <2>1. CASE Len(s) = 1
        <3>2. Len(Tail(s)) = 0
            BY <1>3, <2>1
        <3>1. Tail(s) = <<>>
            BY <1>3, <3>2, NoneLeft
        <3> QED BY <1>3, <2>1, <3>1 DEF Ended
    <2>2. CASE Len(s) # 1
        <3>3. Len(Tail(s)) \in 1..Len(Tail(s)) /\ Len(Tail(s)) + 1 = Len(s)
            BY <1>3, <2>2
        <3>4. Tail(s) # <<>>
            BY <1>1, <2>2, Queued
        <3>1. Len(Tail(s)) \in 1..Len(Tail(s)) /\ Len(Tail(s)) + 1 = Len(s) /\ Tail(s) # <<>>
            BY <3>3, <3>4
        <3>2. Tail(s)[Len(Tail(s))] = s[Len(s)]
            BY <1>4, <3>1
        <3> QED BY <3>1, <3>2 DEF Ended
    <2> QED BY <2>1, <2>2
<1>6. s = tasks[r] /\ Record!NextTask(r) = Head(s)
    BY DEF s, Record!NextTask
<1>7. tasks' \in [Record!Recorders -> Seq(Tasks)]
    BY <1>2, <1>3 DEF RecTypes
<1>8. tasks'[r] = Tail(s) /\ \A q \in Record!Recorders \ {r} : tasks'[q] = tasks[q]
    BY <1>2 DEF RecTypes
<1> QED BY <1>5, <1>6, <1>7, <1>8, <1>9

\* An event is added.
LEMMA RecAdds ==
    ASSUME RecTypes, NEW r \in Record!Recorders, NEW t \in Tasks, t # "stop",
           tasks' = [tasks EXCEPT ![r] = Append(@, t)]
    PROVE  /\ tasks' \in [Record!Recorders -> Seq(Tasks)]
           /\ \A q \in Record!Recorders \ {r} : tasks'[q] = tasks[q]
           /\ NoStop(tasks[r]) => NoStop(tasks'[r])
<1> DEFINE s == tasks[r]
<1>1. s \in Seq(Tasks)
    BY DEF RecTypes
<1>2. tasks' = [tasks EXCEPT ![r] = Append(s, t)]
    OBVIOUS
<1> HIDE DEF s
<1>3. Append(s, t) \in Seq(Tasks) /\ (NoStop(s) => NoStop(Append(s, t)))
    BY <1>1 DEF NoStop
<1>4. s = tasks[r]
    BY DEF s
<1> QED BY <1>2, <1>3, <1>4 DEF RecTypes

\* A number repeated as often as there are pipes.
LEMMA RecSends ==
    ASSUME NEW s \in Seq(Nat), NEW k \in Nat, NEW n \in {0, 1}
    PROVE  /\ n = 0 => s \o [i \in 1..n |-> k] = s
           /\ n = 1 => s \o [i \in 1..n |-> k] = Append(s, k)
<1>1. CASE n = 0
    <2>1. [i \in 1..n |-> k] = <<>>
        BY <1>1
    <2> QED BY <1>1, <2>1
<1>2. CASE n = 1
    <2>1. [i \in 1..n |-> k] = <<k>>
        BY <1>2
    <2> QED BY <1>2, <2>1
<1> QED BY <1>1, <1>2

\* Every step keeps the types.
LEMMA RecTypesStep ==
    ASSUME RecTypes, RecOn, RecSent, RecNext
    PROVE  RecTypes'
<1> DEFINE Queues == [Record!Recorders -> Seq(Tasks)]
<1>0. held \in Record!Recorders \cup {0} /\ Record!IfRunning(held) \in Record!Recorders \cup {0}
    BY RecNumbers DEF Record!IfRunning
<1>1. ASSUME Record!Records PROVE made' \in Nat /\ made' <= MaxRecorders /\ held' \in 0..made'
                                  /\ rec' = [r \in Record!Recorders |-> rec'[r]]
                                  /\ native' = [r \in Record!Recorders |-> native'[r]]
                                  /\ piped' \in [Record!Recorders -> {0, 1}]
    <2>1. PICK m : m = made + 1
        OBVIOUS
    <2>0. made \in Nat /\ made < MaxRecorders /\ made' = made + 1 /\ MaxRecorders \in Nat
        BY <1>1, PageBounds DEF RecTypes, Record!Records
    <2>2. m \in Record!Recorders /\ m \in Nat /\ m <= MaxRecorders /\ made' = m
        BY <2>0, <2>1 DEF Record!Recorders
    <2>3. held' \in {0, m}
        BY <1>1, <2>1 DEF Record!Records, Record!StartsRecorder
    <2>4. rec' = [r \in Record!Recorders |-> rec'[r]] /\ native' = [r \in Record!Recorders |-> native'[r]]
        BY <1>1, <2>1 DEF RecTypes, Record!Records, Record!StartsRecorder
    <2>5. piped' \in [Record!Recorders -> {0, 1}]
        BY <1>1, <2>1 DEF RecTypes, Record!Records
    <2> QED BY <2>2, <2>3, <2>4, <2>5
<1>2. CASE Record!ElementStarts \/ Record!StreamRead
    BY <1>1, <1>2 DEF Record!ElementStarts, Record!StreamRead, RecTypes
<1>3. CASE Record!StreamSet
    BY <1>1, <1>3 DEF Record!StreamSet, RecTypes
<1>4. CASE Record!ElementStops \/ Record!ElementDetached
    <2>1. native' = [q \in Record!Recorders |-> native'[q]] /\ tasks' \in Queues
        BY <1>0, <1>4, RecStops DEF Record!ElementStops, Record!ElementDetached
    <2>2. piped' \in [Record!Recorders -> {0, 1}]
        BY <1>4 DEF Record!ElementStops, Record!ElementDetached, Record!Unpiped
    <2> QED BY <1>4, <2>1, <2>2 DEF Record!ElementStops, Record!ElementDetached, RecTypes
<1>5. CASE Record!ElementAttached \/ Record!UploaderSlotted \/ Record!UploaderRemoved \/ Record!HookMounts
           \/ Record!ReactReturns
    BY <1>5 DEF Record!ReactReturns, Record!ElementAttached, Record!UploaderSlotted, Record!UploaderRemoved,
                Record!HookMounts, RecTypes, Record!recVars, Record!pipeVars
<1>6. CASE Record!HookStops
    <2>1. native' = [q \in Record!Recorders |-> native'[q]] /\ tasks' \in Queues
        BY <1>0, <1>6, RecStops DEF Record!HookStops
    <2> QED BY <1>6, <2>1 DEF Record!HookStops, RecTypes, Record!pipeVars
<1>7. CASE Record!Unmounts
    <2>1. native' = [q \in Record!Recorders |-> native'[q]] /\ tasks' \in Queues
        BY <1>0, <1>7, RecStops DEF Record!Unmounts
    <2> QED BY <1>7, <2>1 DEF Record!Unmounts, RecTypes, Record!pipeVars
<1>8. CASE Record!Starts
    <2>1. PICK m : m = made + 1
        OBVIOUS
    <2>0. made \in Nat /\ made < MaxRecorders /\ MaxRecorders \in Nat
        BY <1>8, PageBounds DEF RecTypes, Record!Starts
    <2>2. m \in Record!Recorders /\ m \in Nat /\ m <= MaxRecorders
        BY <2>0, <2>1 DEF Record!Recorders
    <2>3. CASE held = 0
        <3>1. made' = m /\ held' \in {0, m}
            BY <1>8, <2>1, <2>3 DEF Record!Starts, Record!StartsRecorder
        <3>2. rec' = [r \in Record!Recorders |-> rec'[r]] /\ native' = [r \in Record!Recorders |-> native'[r]]
            BY <1>8, <2>1, <2>3 DEF RecTypes, Record!Starts, Record!StartsRecorder
        <3> QED BY <1>8, <2>2, <3>1, <3>2 DEF Record!Starts, RecTypes, Record!pipeVars
    <2>4. CASE held # 0
        BY <1>8, <2>4 DEF Record!Starts, RecTypes, Record!pipeVars
    <2> QED BY <2>3, <2>4
<1>9. CASE Record!Updates
    BY <1>9 DEF Record!Updates, RecTypes, Record!recVars, Record!pipeVars
<1>10. CASE Record!Pauses \/ Record!Resumes
    <2>1. held \in Record!Recorders
        BY <1>0, <1>10 DEF Record!Pauses, Record!Resumes
    <2>2. tasks' \in Queues
        BY <1>10, <2>1, RecAdds DEF Record!Pauses, Record!Resumes, Tasks
    <2> QED BY <1>10, <2>1, <2>2 DEF Record!Pauses, Record!Resumes, RecTypes, Record!pipeVars
<1>11. ASSUME ~Record!Element, Record!Pipes PROVE RecTypes'
    <2>1. held \in Record!Recorders /\ feeding = 0 /\ \A r \in Record!Recorders : r # 0
        BY <1>0, <1>11 DEF Record!Pipes, Record!Recorders
    <2>2. piped[held] = 0
        BY <1>11, <2>1 DEF RecSent
    <2>3. piped' \in [Record!Recorders -> {0, 1}]
        BY <1>11, <2>1, <2>2 DEF Record!Pipes, RecTypes
    <2> QED BY <1>11, <2>3 DEF Record!Pipes, RecTypes, Record!recVars
<1>12. CASE Record!LetsGo
    BY <1>12 DEF Record!LetsGo, Record!Unpiped, RecTypes, Record!recVars
<1>13. ASSUME NEW r \in Record!Recorders, Record!CutsChunk(r) PROVE RecTypes'
    <2>1. tasks' \in Queues
        BY <1>13, RecAdds DEF Record!CutsChunk, Tasks
    <2> QED BY <1>13, <2>1 DEF Record!CutsChunk, RecTypes, Record!pipeVars
<1>14. ASSUME NEW r \in Record!Recorders, Record!EndsByItself(r) PROVE RecTypes'
    <2>1. native' = [q \in Record!Recorders |-> native'[q]] /\ tasks' \in Queues
        BY <1>14, RecEnds DEF Record!EndsByItself
    <2> QED BY <1>14, <2>1 DEF Record!EndsByItself, RecTypes, Record!pipeVars
<1>15. ASSUME NEW r \in Record!Recorders, Record!DataArrives(r) PROVE RecTypes'
    <2>1. tasks' \in Queues
        BY <1>15, RecPops DEF Record!DataArrives
    <2>2. PICK k : k = Len(got[r]) + 1
        OBVIOUS
    <2>3. got[r] \in Seq(Nat) /\ sent[r] \in Seq(Nat) /\ piped[r] \in {0, 1}
        BY DEF RecTypes
    <2>4. k \in Nat
        BY <2>2, <2>3
    <2>5. Append(got[r], k) \in Seq(Nat) /\ Append(sent[r], k) \in Seq(Nat)
        BY <2>3, <2>4
    <2>6. sent[r] \o [i \in 1..piped[r] |-> k] \in Seq(Nat)
        BY <2>3, <2>4, <2>5, RecSends
    <2>7. got' \in [Record!Recorders -> Seq(Nat)]
        BY <1>15, <2>2, <2>5 DEF Record!DataArrives, RecTypes
    <2>8. sent' = sent \/ sent' = [sent EXCEPT ![r] = sent[r] \o [i \in 1..piped[r] |-> k]]
        BY <1>15, <2>2 DEF Record!DataArrives
    <2>9. sent' \in [Record!Recorders -> Seq(Nat)]
        BY <2>6, <2>8 DEF RecTypes
    <2> QED BY <1>15, <2>1, <2>7, <2>9 DEF Record!DataArrives, RecTypes
<1>16. ASSUME NEW r \in Record!Recorders, Record!PausedOrResumed(r) \/ Record!StopArrives(r)
       PROVE  RecTypes'
    <2>1. tasks' \in Queues
        BY <1>16, RecPops DEF Record!PausedOrResumed, Record!StopArrives
    <2>2. rec' = [q \in Record!Recorders |-> rec'[q]]
        BY <1>16 DEF Record!PausedOrResumed, Record!StopArrives, Record!Told, RecTypes
    <2> QED BY <1>16, <2>1, <2>2 DEF Record!PausedOrResumed, Record!StopArrives, RecTypes, Record!pipeVars
<1> QED BY <1>2, <1>3, <1>4, <1>5, <1>6, <1>7, <1>8, <1>9, <1>10, <1>11, <1>12, <1>13, <1>14,
           <1>15, <1>16 DEF RecNext

\* A Recorder that is made, and no other, may be on.
LEMMA RecStarted ==
    ASSUME RecTypes, RecOn, NEW m, m = made + 1, m \in Record!Recorders, held = 0, made' = m,
           Record!StartsRecorder(m), UNCHANGED <<opts, mounted, tasks, got, sent>>,
           mounted = "no" => Record!Element, mounted = "gone" => ~Record!Element /\ late'
    PROVE  RecOn'
<1>0. made \in Nat /\ \A r \in Record!Recorders : r # 0 /\ r \in Nat
    BY RecNumbers
<1>2. /\ \A r \in Record!Recorders : r # m => native'[r] = native[r] /\ rec'[r] = rec[r]
      /\ \/ native'[m] = "recording" /\ rec'[m] = "recording" /\ held' = m
         \/ native'[m] = native[m]
    BY DEF Record!StartsRecorder, RecTypes
<1>3. native[m] = "none" /\ tasks[m] = <<>> /\ \A r \in Record!Recorders : ~ On(r)
    BY <1>0 DEF RecOn
<1>4. NoStop(<<>>)
    BY DEF NoStop
<1>5. \A r \in Record!Recorders : On(r)' => r = held' /\ Record!Running(r)' /\ NoStop(tasks'[r])
    BY <1>2, <1>3, <1>4 DEF On, Record!Running
<1>6. \A r \in Record!Recorders : On(r)' \/ native'[r] \in {"none", "inactive"}
    BY <1>2, <1>3 DEF On, RecOn
<1>7. \A r \in Record!Recorders : made' < r => made < r /\ r # m
    BY <1>0
<1>8. \A r \in Record!Recorders :
         made' < r => /\ native'[r] = "none" /\ tasks'[r] = <<>> /\ got'[r] = <<>> /\ sent'[r] = <<>>
                      /\ rec'[r] = "idle"
    BY <1>2, <1>7 DEF RecOn
<1> QED BY <1>5, <1>6, <1>8 DEF RecOn, Record!Element

\* A Recorder that is stopped, or let go, is off.
LEMMA RecStopped ==
    ASSUME RecTypes, RecOn, NEW r \in {0, held}, Record!StopRecorder(r),
           held # 0 /\ Record!Running(held) => r = held, held' \in {0, held},
           UNCHANGED <<opts, made, rec, got, sent, late>>,
           mounted' = "gone" => ~Record!Element /\ (~late => held' = 0), mounted' = "no" => Record!Element
    PROVE  RecOn'
<1>0. /\ \A q \in Record!Recorders : q # 0 /\ q \in Nat
      /\ r \in Record!Recorders \cup {0} /\ held \in Record!Recorders \cup {0}
    BY RecNumbers
<1>1. \A q \in Record!Recorders \ {r} : native'[q] = native[q] /\ tasks'[q] = tasks[q]
    BY <1>0, RecStops
<1>2. /\ r # 0 => native'[r] \in {"none", "inactive"}
      /\ r # 0 /\ native[r] = "none" => native'[r] = "none" /\ tasks'[r] = tasks[r]
    BY <1>0, RecStops
<1>3. \A q \in Record!Recorders : On(q)' => q # r /\ On(q)
    BY <1>0, <1>1, <1>2 DEF On
<1>4. \A q \in Record!Recorders : ~ On(q)'
    BY <1>0, <1>3 DEF RecOn
<1>5. \A q \in Record!Recorders : native'[q] \in {"none", "inactive"}
    BY <1>0, <1>1, <1>2, <1>4 DEF RecOn, On
<1>6. \A q \in Record!Recorders : made' < q => native'[q] = "none" /\ tasks'[q] = <<>>
    BY <1>0, <1>1, <1>2 DEF RecOn
<1>7. Record!Element' <=> Record!Element
    BY DEF Record!Element
<1> QED BY <1>4, <1>5, <1>6, <1>7 DEF RecOn

\* Every step keeps a MediaRecorder that is on that of the Recorder held.
LEMMA RecOnStep ==
    ASSUME RecTypes, RecOn, RecTypes', RecNext
    PROVE  RecOn'
<1>0. /\ held \in Record!Recorders \cup {0} /\ \A r \in Record!Recorders : r # 0 /\ r \in Nat
      /\ made \in Nat
    BY RecNumbers
<1>1. PICK m : m = made + 1
    OBVIOUS
<1>2. made < MaxRecorders => m \in Record!Recorders
    BY <1>0, <1>1, PageBounds DEF Record!Recorders
<1>3. CASE Record!ElementStarts \/ (Record!StreamRead /\ held = 0) \/ (Record!StreamSet /\ opts.auto /\ hasStream' /\ held = 0)
    <2>1. /\ Record!Records /\ Record!Element /\ held = 0
          /\ UNCHANGED <<opts, mounted, tasks, got, sent>>
        BY <1>3 DEF Record!ElementStarts, Record!StreamRead, Record!StreamSet, RecOn
    <2>2. /\ made < MaxRecorders /\ made' = m /\ Record!StartsRecorder(m)
          /\ mounted # "gone"
        BY <1>1, <2>1 DEF Record!Records, RecOn
    <2> QED BY <1>1, <1>2, <2>1, <2>2, RecStarted
<1>4. CASE \/ Record!StreamSet /\ ~(opts.auto /\ hasStream' /\ held = 0)
           \/ Record!StreamRead /\ held # 0
    BY <1>4 DEF Record!StreamSet, Record!StreamRead, RecOn, On, Record!Running, Record!Element
<1>5. CASE Record!ElementStops
    BY <1>5, <1>0, RecStopped DEF Record!ElementStops, RecOn, Record!Element
<1>6. CASE Record!ElementDetached
    <2>1. PICK r \in {0, held} : Record!StopRecorder(r) /\ (held # 0 /\ Record!Running(held) => r = held)
        BY <1>6 DEF Record!ElementDetached, Record!IfRunning
    <2> QED BY <1>6, <2>1, RecStopped DEF Record!ElementDetached
<1>7. CASE Record!HookStops
    <2>1. made # 0
        BY <1>0, <1>7 DEF Record!HookStops, RecTypes
    <2> QED BY <1>7, <2>1, RecStopped DEF Record!HookStops, RecOn, Record!pipeVars
<1>8. CASE ~Record!Element /\ Record!Unmounts
    <2>1. PICK r \in {0, held} : Record!StopRecorder(r) /\ (held # 0 /\ Record!Running(held) => r = held)
        BY <1>8 DEF Record!Unmounts, Record!IfRunning
    <2> QED BY <1>8, <2>1, RecStopped DEF Record!Unmounts, Record!pipeVars
<1>9. CASE Record!ElementAttached \/ Record!UploaderSlotted \/ Record!UploaderRemoved \/ Record!HookMounts
           \/ Record!Updates \/ Record!LetsGo \/ Record!Pipes
           \/ (Record!ReactReturns /\ ~Record!Element)
    BY <1>9 DEF Record!ReactReturns, Record!ElementAttached, Record!UploaderSlotted, Record!UploaderRemoved,
                Record!HookMounts, Record!Updates, Record!LetsGo, Record!Pipes, RecOn, On,
                Record!Running, Record!Element, Record!recVars, Record!pipeVars, Record!viewVars
<1>10. CASE Record!Starts /\ ~Record!Element
    <2>1. CASE held = 0
        <3>1. /\ made < MaxRecorders /\ made' = m /\ Record!StartsRecorder(m) /\ mounted # "no"
              /\ late' = (late \/ mounted = "gone")
              /\ UNCHANGED <<opts, mounted, tasks, got, sent>>
            BY <1>1, <1>10, <2>1 DEF Record!Starts, Record!pipeVars
        <3> QED BY <1>1, <1>2, <1>10, <2>1, <3>1, RecStarted
    <2>2. CASE held # 0
        BY <1>10, <2>2 DEF Record!Starts, Record!pipeVars, RecOn, On, Record!Running, Record!Element
    <2> QED BY <2>1, <2>2
<1>11. ASSUME NEW r \in Record!Recorders, Record!EndsByItself(r) PROVE RecOn'
    <2>1. /\ native'[r] = "inactive"
          /\ \A q \in Record!Recorders \ {r} : native'[q] = native[q] /\ tasks'[q] = tasks[q]
        BY <1>11, RecEnds DEF Record!EndsByItself
    <2>2. On(r) /\ UNCHANGED <<opts, mounted, late, made, held, rec, got, sent, shown>>
        BY <1>11 DEF Record!EndsByItself, On, Record!pipeVars, Record!viewVars
    <2>3. native[r] # "none"
        BY <2>2 DEF On
    <2> QED BY <2>1, <2>2, <2>3 DEF RecOn, On, Record!Running, Record!Element
<1>12. ASSUME NEW r \in Record!Recorders, NEW t \in Tasks, t # "stop",
              tasks' = [tasks EXCEPT ![r] = Append(@, t)], On(r), On(r)',
              \A q \in Record!Recorders \ {r} : native'[q] = native[q],
              UNCHANGED <<opts, mounted, late, made, held, rec, got, sent, shown>>
       PROVE  RecOn'
    <2>1. /\ \A q \in Record!Recorders \ {r} : tasks'[q] = tasks[q]
          /\ NoStop(tasks[r]) => NoStop(tasks'[r])
        BY <1>12, RecAdds
    <2>2. native[r] # "none"
        BY <1>12 DEF On
    <2> QED BY <1>12, <2>1, <2>2 DEF RecOn, On, Record!Running, Record!Element
<1>13. ASSUME NEW r \in Record!Recorders, Record!CutsChunk(r) PROVE RecOn'
    <2>1. tasks' = [tasks EXCEPT ![r] = Append(@, "data")] /\ "data" \in Tasks
        BY <1>13 DEF Record!CutsChunk, Tasks
    <2> QED BY <1>12, <1>13, <2>1 DEF Record!CutsChunk, On, Record!pipeVars, Record!viewVars
<1>14. CASE Record!Pauses \/ Record!Resumes
    <2>0. held \in Record!Recorders /\ "paused" \in Tasks /\ "recording" \in Tasks
        BY <1>0, <1>14 DEF Record!Pauses, Record!Resumes, Tasks
    <2>1. /\ \/ tasks' = [tasks EXCEPT ![held] = Append(@, "paused")]
             \/ tasks' = [tasks EXCEPT ![held] = Append(@, "recording")]
          /\ UNCHANGED <<opts, mounted, late, made, held, rec, got, sent, shown>>
        BY <1>14 DEF Record!Pauses, Record!Resumes, Record!pipeVars, Record!viewVars
    <2>2. On(held) /\ native'[held] \in {"recording", "paused"}
          /\ \A q \in Record!Recorders \ {held} : native'[q] = native[q]
        BY <1>14, <2>0 DEF Record!Pauses, Record!Resumes, On, RecTypes
    <2>3. On(held)'
        BY <2>1, <2>2 DEF On
    <2> QED BY <1>12, <2>0, <2>1, <2>2, <2>3
<1>15. ASSUME NEW r \in Record!Recorders, 
              Record!DataArrives(r) \/ Record!PausedOrResumed(r) \/ Record!StopArrives(r)
       PROVE  RecOn'
    <2>1. tasks[r] # <<>> /\ Record!Pop(r)
        BY <1>15 DEF Record!DataArrives, Record!PausedOrResumed, Record!StopArrives
    <2>2. /\ \A q \in Record!Recorders \ {r} : tasks'[q] = tasks[q]
          /\ NoStop(tasks[r]) => Record!NextTask(r) # "stop" /\ NoStop(tasks'[r])
        BY <2>1, RecPops
    <2>3. /\ UNCHANGED <<opts, mounted, late, made, held, native>>
          /\ ~ (made < r) /\ ~ (mounted = "no" /\ ~Record!Element)
        BY <1>0, <1>15, <2>1 DEF Record!DataArrives, Record!PausedOrResumed, Record!StopArrives,
                         Record!pipeVars, RecOn
    <2>4. \A q \in Record!Recorders \ {r} : got'[q] = got[q] /\ sent'[q] = sent[q] /\ rec'[q] = rec[q]
        BY <1>15 DEF Record!DataArrives, Record!PausedOrResumed, Record!StopArrives,
                     Record!Told, Record!pipeVars, RecTypes
    <2>5. On(r) => Record!Running(r)'
        BY <1>15, <2>2 DEF Record!DataArrives, Record!PausedOrResumed, Record!StopArrives,
                     Record!Told, RecTypes, RecOn, Record!Running
    <2>6. \A q \in Record!Recorders : On(q)' => q = held' /\ Record!Running(q)' /\ NoStop(tasks'[q])
        BY <2>2, <2>3, <2>4, <2>5 DEF RecOn, On, Record!Running
    <2> QED BY <2>2, <2>3, <2>4, <2>6 DEF RecOn, On, Record!Element
<1> QED BY <1>3, <1>4, <1>5, <1>6, <1>7, <1>8, <1>9, <1>10, <1>11, <1>13, <1>14, <1>15 DEF RecNext

\* Every step keeps the last event of a MediaRecorder that is off its stop event.
LEMMA RecLastStep ==
    ASSUME RecTypes, RecOn, RecLast, RecNext
    PROVE  RecLast'
<1>0. /\ held \in Record!Recorders \cup {0} /\ \A r \in Record!Recorders : r # 0 /\ r \in Nat
      /\ made \in Nat
    BY RecNumbers
<1> DEFINE Rolling == {"recording", "paused"}
<1>1. ASSUME \A q \in Record!Recorders :
                \/ tasks'[q] = tasks[q] /\ (On(q) => On(q)')
                \/ Ended(tasks'[q])
                \/ On(q)'
                \/ tasks'[q] = <<>> /\ shown' \notin Rolling,
             shown' = shown \/ shown' \notin Rolling \/ \E q \in Record!Recorders : On(q)' \/ tasks'[q] # <<>>
      PROVE  RecLast'
    <2>1. \A q \in Record!Recorders : tasks'[q] = <<>> \/ On(q)' \/ Ended(tasks'[q])
        BY <1>1 DEF RecLast
    <2>2. ASSUME shown' \in Rolling PROVE \E q \in Record!Recorders : On(q)' \/ tasks'[q] # <<>>
        <3>1. CASE shown' = shown
            <4>1. PICK q \in Record!Recorders : On(q) \/ tasks[q] # <<>>
                BY <2>2, <3>1 DEF RecLast
            <4> QED BY <1>1, <2>2, <4>1 DEF Ended
        <3> QED BY <1>1, <2>2, <3>1
    <2> QED BY <2>1, <2>2 DEF RecLast
<1>2. ASSUME held = 0, NEW m, m = made + 1, m \in Record!Recorders, Record!StartsRecorder(m),
             UNCHANGED tasks
      PROVE  RecLast'
    <2>1. \A q \in Record!Recorders : ~On(q)
        BY <1>0, <1>2 DEF RecOn
    <2>2. shown' = shown \/ shown' \notin Rolling \/ On(m)'
        BY <1>2 DEF Record!StartsRecorder, On, RecTypes
    <2> QED BY <1>1, <1>2, <2>1, <2>2
<1>3. ASSUME Record!Records, held = 0, UNCHANGED tasks PROVE RecLast'
    <2>1. PICK m : m = made + 1
        OBVIOUS
    <2>2. m \in Record!Recorders
        BY <1>0, <1>3, <2>1, PageBounds DEF Record!Records, Record!Recorders
    <2> QED BY <1>2, <1>3, <2>1, <2>2 DEF Record!Records
<1>4. CASE Record!ElementStarts \/ (Record!StreamRead /\ held = 0)
           \/ (Record!StreamSet /\ opts.auto /\ hasStream' /\ held = 0)
    BY <1>3, <1>4 DEF Record!ElementStarts, Record!StreamRead, Record!StreamSet
<1>5. CASE \/ UNCHANGED <<native, tasks, shown>>
           \/ Record!ElementAttached
    <2>1. UNCHANGED <<native, tasks>> /\ (shown' = shown \/ shown' = "idle")
        BY <1>5 DEF Record!ElementAttached, Record!recVars
    <2> QED BY <1>1, <2>1 DEF On
<1>6. CASE \/ Record!StreamSet /\ ~(opts.auto /\ hasStream' /\ held = 0)
           \/ Record!StreamRead /\ held # 0
           \/ Record!UploaderSlotted \/ Record!UploaderRemoved \/ Record!HookMounts
           \/ Record!Updates \/ Record!LetsGo \/ Record!Pipes \/ Record!ReactReturns
    BY <1>5, <1>6 DEF Record!StreamSet, Record!StreamRead, Record!UploaderSlotted,
       Record!UploaderRemoved, Record!HookMounts, Record!Updates, Record!LetsGo, Record!Pipes,
       Record!ReactReturns, Record!recVars, Record!viewVars
<1>7. ASSUME NEW r \in Record!Recorders \cup {0}, Record!StopRecorder(r), shown' = shown
      PROVE  RecLast'
    <2>1. \A q \in Record!Recorders \ {r} : native'[q] = native[q] /\ tasks'[q] = tasks[q]
        BY <1>7, RecStops
    <2>2. /\ r # 0 /\ On(r) => Ended(tasks'[r])
          /\ r # 0 /\ ~On(r) => tasks'[r] = tasks[r]
        BY <1>7, RecStops
    <2>3. \A q \in Record!Recorders :
             (tasks'[q] = tasks[q] /\ (On(q) => On(q)')) \/ Ended(tasks'[q])
        BY <1>0, <2>1, <2>2 DEF On
    <2> QED BY <1>1, <1>7, <2>3
<1>8. CASE Record!ElementStops \/ Record!ElementDetached \/ Record!HookStops \/ Record!Unmounts
    <2>1. \E r \in Record!Recorders \cup {0} : Record!StopRecorder(r) /\ shown' = shown
        BY <1>0, <1>8 DEF Record!ElementStops, Record!ElementDetached, Record!HookStops,
           Record!Unmounts, Record!IfRunning, Record!viewVars
    <2> QED BY <1>7, <2>1
<1>9. CASE Record!Starts
    <2>1. CASE held = 0
        <3>1. PICK m : m = made + 1
            OBVIOUS
        <3>2. m \in Record!Recorders
            BY <1>0, <1>9, <3>1, PageBounds DEF Record!Starts, Record!Recorders
        <3> QED BY <1>2, <1>9, <2>1, <3>1, <3>2 DEF Record!Starts
    <2>2. CASE held # 0
        BY <1>5, <1>9, <2>2 DEF Record!Starts
    <2> QED BY <2>1, <2>2
<1>10. ASSUME NEW r \in Record!Recorders, Record!EndsByItself(r) PROVE RecLast'
    <2>1. /\ Ended(tasks'[r]) /\ shown' = shown
          /\ \A q \in Record!Recorders \ {r} : native'[q] = native[q] /\ tasks'[q] = tasks[q]
        BY <1>10, RecEnds DEF Record!EndsByItself, Record!viewVars
    <2> QED BY <1>1, <2>1 DEF On
<1>11. ASSUME NEW r \in Record!Recorders, On(r)', shown' = shown,
              \A q \in Record!Recorders \ {r} : native'[q] = native[q] /\ tasks'[q] = tasks[q]
       PROVE  RecLast'
    BY <1>1, <1>11 DEF On
<1>12. ASSUME NEW r \in Record!Recorders, Record!CutsChunk(r) PROVE RecLast'
    <2>1. \A q \in Record!Recorders \ {r} : tasks'[q] = tasks[q]
        BY <1>12, RecAdds DEF Record!CutsChunk, Tasks
    <2> QED BY <1>11, <1>12, <2>1 DEF Record!CutsChunk, On, Record!viewVars
<1>13. CASE Record!Pauses \/ Record!Resumes
    <2>1. held \in Record!Recorders
        BY <1>0, <1>13 DEF Record!Pauses, Record!Resumes
    <2>2. \A q \in Record!Recorders \ {held} : tasks'[q] = tasks[q]
        BY <1>13, <2>1, RecAdds DEF Record!Pauses, Record!Resumes, Tasks
    <2>3. /\ shown' = shown /\ held' = held /\ native'[held] \in {"recording", "paused"}
          /\ \A q \in Record!Recorders \ {held} : native'[q] = native[q]
        BY <1>13, <2>1 DEF Record!Pauses, Record!Resumes, RecTypes, Record!viewVars
    <2>4. On(held)'
        BY <2>3 DEF On
    <2> QED BY <1>11, <2>1, <2>2, <2>3, <2>4
<1>14. ASSUME NEW r \in Record!Recorders,
              Record!DataArrives(r) \/ Record!PausedOrResumed(r) \/ Record!StopArrives(r)
       PROVE  RecLast'
    <2>1. tasks[r] # <<>> /\ Record!Pop(r) /\ native' = native
        BY <1>14 DEF Record!DataArrives, Record!PausedOrResumed, Record!StopArrives
    <2>2. /\ \A q \in Record!Recorders \ {r} : tasks'[q] = tasks[q]
          /\ Ended(tasks[r]) => \/ tasks'[r] = <<>> /\ Record!NextTask(r) = "stop"
                                \/ Ended(tasks'[r])
        BY <2>1, RecPops
    <2>3. Record!NextTask(r) = "stop" => shown' = "stopped"
        BY <1>14 DEF Record!DataArrives, Record!PausedOrResumed, Record!StopArrives, Record!Told
    <2>4. On(r)' \/ Ended(tasks'[r]) \/ (tasks'[r] = <<>> /\ shown' \notin Rolling)
        BY <2>1, <2>2, <2>3 DEF RecLast, On
    <2>5. \/ shown' = shown \/ shown' = "stopped"
          \/ On(r)' \/ tasks'[r] # <<>>
        <3>1. CASE Record!NextTask(r) = "stop"
            BY <2>3, <3>1
        <3>2. CASE Record!NextTask(r) # "stop"
            BY <2>1, <2>2, <3>2 DEF RecLast, On, Ended
        <3> QED BY <3>1, <3>2
    <2> QED BY <1>1, <2>1, <2>2, <2>4, <2>5 DEF On
<1> QED BY <1>4, <1>6, <1>8, <1>9, <1>10, <1>12, <1>13, <1>14, <1>5 DEF RecNext

\* Every step keeps what is rendered the state of the Recorder held.
LEMMA RecShownStep ==
    ASSUME RecTypes, RecOn, RecLast, RecShown, RecTypes', RecNext
    PROVE  RecShown'
<1>0. /\ held \in Record!Recorders \cup {0} /\ \A r \in Record!Recorders : r # 0 /\ r \in Nat
      /\ made \in Nat
    BY RecNumbers
<1>1. CASE ~ (mounted' = "yes" /\ ~adrift')
    BY <1>1 DEF RecShown, Record!ShownIsHeld
<1>2. ASSUME held = 0, NEW m, m = made + 1, m \in Record!Recorders, Record!StartsRecorder(m),
             UNCHANGED <<mounted, tasks, adrift>>
      PROVE  RecShown'
    <2>1. /\ held' \in {0, m} /\ m # 0 /\ rec[m] = "idle"
          /\ \/ rec'[m] = shown' /\ (held' = 0 => shown' = "error")
             \/ rec'[m] = rec[m] /\ shown' = shown
        BY <1>0, <1>2 DEF Record!StartsRecorder, RecTypes, RecOn
    <2>2. CASE mounted' = "yes" /\ ~adrift'
        <3>1. (\A r \in Record!Recorders : tasks[r] = <<>>) /\ shown \notin {"recording", "paused"}
            BY <1>0, <1>2, <2>2 DEF RecShown, Record!ShownIsHeld
        <3> QED BY <1>2, <2>1, <3>1 DEF RecShown, Record!ShownIsHeld
    <2> QED BY <1>1, <2>2
<1>3. ASSUME Record!Records, held = 0, UNCHANGED <<mounted, tasks, adrift>> PROVE RecShown'
    <2>1. PICK m : m = made + 1
        OBVIOUS
    <2>2. m \in Record!Recorders
        BY <1>0, <1>3, <2>1, PageBounds DEF Record!Records, Record!Recorders
    <2> QED BY <1>2, <1>3, <2>1, <2>2 DEF Record!Records
<1>4. CASE Record!ElementStarts \/ (Record!StreamRead /\ held = 0)
           \/ (Record!StreamSet /\ opts.auto /\ hasStream' /\ held = 0)
    BY <1>3, <1>4 DEF Record!ElementStarts, Record!StreamRead, Record!StreamSet, RecOn
<1>5. CASE \/ Record!StreamSet /\ ~(opts.auto /\ hasStream' /\ held = 0)
           \/ Record!StreamRead /\ held # 0
    BY <1>5 DEF Record!StreamSet, Record!StreamRead, RecShown, Record!ShownIsHeld
<1>6. CASE Record!ElementStops \/ Record!HookStops
    <2>1. \A q \in Record!Recorders \ {held} : tasks'[q] = tasks[q]
        BY <1>0, <1>6, RecStops DEF Record!ElementStops, Record!HookStops
    <2>2. UNCHANGED <<mounted, held, rec, shown, adrift>>
        BY <1>6 DEF Record!ElementStops, Record!HookStops, Record!viewVars
    <2> QED BY <2>1, <2>2 DEF RecShown, Record!ShownIsHeld
<1>7. CASE Record!ElementDetached \/ Record!Unmounts
    BY <1>1, <1>7 DEF Record!ElementDetached, Record!Unmounts
<1>8. CASE Record!ElementAttached
    <2>1. mounted = "no" /\ UNCHANGED <<held, rec, native, tasks>> /\ shown' = "idle"
        BY <1>8 DEF Record!ElementAttached, Record!recVars
    <2>2. ~adrift' => held = 0 /\ \A r \in Record!Recorders : tasks[r] = <<>>
        BY <1>8 DEF Record!ElementAttached, Record!Adrifts, Record!AtWork
    <2> QED BY <2>1, <2>2 DEF RecShown, Record!ShownIsHeld
<1>9. CASE Record!HookMounts
    <2>1. /\ mounted = "no" /\ ~Record!Element /\ UNCHANGED <<held, rec, native, tasks, made, shown>>
        BY <1>9 DEF Record!HookMounts, Record!recVars, Record!viewVars
    <2>2. made = 0 /\ shown = "idle" /\ held = 0
        BY <2>1 DEF RecOn, RecTypes
    <2>3. \A r \in Record!Recorders : 0 < r
        BY <1>0
    <2>4. \A r \in Record!Recorders : tasks[r] = <<>>
        BY <2>2, <2>3 DEF RecOn
    <2> QED BY <2>1, <2>2, <2>4 DEF RecShown, Record!ShownIsHeld
<1>17. CASE Record!ReactReturns
    <2>1. UNCHANGED <<held, rec, native, tasks, shown>>
        BY <1>17 DEF Record!ReactReturns, Record!recVars
    <2>2. ~adrift' => held = 0 /\ \A r \in Record!Recorders : tasks[r] = <<>> /\ ~On(r)
        BY <1>17 DEF Record!ReactReturns, Record!Adrifts, Record!AtWork, On
    <2>3. ~adrift' => shown \notin {"recording", "paused"}
        BY <2>2 DEF RecLast
    <2> QED BY <2>1, <2>2, <2>3 DEF RecShown, Record!ShownIsHeld
<1>10. CASE Record!UploaderSlotted \/ Record!UploaderRemoved \/ Record!Updates \/ Record!LetsGo
            \/ Record!Pipes
    BY <1>10 DEF Record!UploaderSlotted, Record!UploaderRemoved, Record!Updates, Record!LetsGo,
       Record!Pipes, RecShown, Record!ShownIsHeld, Record!recVars, Record!viewVars
<1>11. CASE Record!Starts
    <2>1. CASE held = 0
        <3>1. PICK m : m = made + 1
            OBVIOUS
        <3>2. m \in Record!Recorders
            BY <1>0, <1>11, <3>1, PageBounds DEF Record!Starts, Record!Recorders
        <3> QED BY <1>2, <1>11, <2>1, <3>1, <3>2 DEF Record!Starts
    <2>2. CASE held # 0
        BY <1>11, <2>2 DEF Record!Starts, RecShown, Record!ShownIsHeld
    <2> QED BY <2>1, <2>2
<1>12. ASSUME NEW r \in Record!Recorders, On(r),
              \A q \in Record!Recorders \ {r} : tasks'[q] = tasks[q],
              UNCHANGED <<mounted, held, rec, shown, adrift>>
       PROVE  RecShown'
    BY <1>12 DEF RecOn, RecShown, Record!ShownIsHeld
<1>13. ASSUME NEW r \in Record!Recorders, Record!EndsByItself(r) PROVE RecShown'
    <2>1. \A q \in Record!Recorders \ {r} : tasks'[q] = tasks[q]
        BY <1>13, RecEnds DEF Record!EndsByItself
    <2> QED BY <1>12, <1>13, <2>1 DEF Record!EndsByItself, On, Record!viewVars
<1>14. ASSUME NEW r \in Record!Recorders, Record!CutsChunk(r) PROVE RecShown'
    <2>1. \A q \in Record!Recorders \ {r} : tasks'[q] = tasks[q]
        BY <1>14, RecAdds DEF Record!CutsChunk, Tasks
    <2> QED BY <1>12, <1>14, <2>1 DEF Record!CutsChunk, On, Record!viewVars
<1>15. CASE Record!Pauses \/ Record!Resumes
    <2>1. held \in Record!Recorders
        BY <1>0, <1>15 DEF Record!Pauses, Record!Resumes
    <2>2. \A q \in Record!Recorders \ {held} : tasks'[q] = tasks[q]
        BY <1>15, <2>1, RecAdds DEF Record!Pauses, Record!Resumes, Tasks
    <2> QED BY <1>12, <1>15, <2>1, <2>2 DEF Record!Pauses, Record!Resumes, On, Record!viewVars
<1>16. ASSUME NEW r \in Record!Recorders, mounted' = "yes", ~adrift',
              Record!DataArrives(r) \/ Record!PausedOrResumed(r) \/ Record!StopArrives(r)
       PROVE  RecShown'
    <2>1. /\ tasks[r] # <<>> /\ Record!Pop(r) /\ UNCHANGED <<mounted, held, adrift>>
        BY <1>16 DEF Record!DataArrives, Record!PausedOrResumed, Record!StopArrives
    <2>2. \A q \in Record!Recorders \ {r} : tasks'[q] = tasks[q]
        BY <2>1, RecPops
    <2>3. r = held
        BY <1>16, <2>1 DEF RecShown
    <2>4. (rec' = rec /\ shown' = shown) \/ (rec'[r] = shown')
        BY <1>16, <2>1 DEF Record!DataArrives, Record!PausedOrResumed, Record!StopArrives,
                     Record!Told, Record!viewVars, RecTypes
    <2> QED BY <1>0, <2>1, <2>2, <2>3, <2>4 DEF RecShown, Record!ShownIsHeld
<1> QED BY <1>1, <1>4, <1>5, <1>6, <1>7, <1>8, <1>9, <1>10, <1>11, <1>13, <1>14, <1>15, <1>16, <1>17 DEF RecNext

\* A pipe sends the chunk that arrives: what was sent stays in order.
LEMMA RecData ==
    ASSUME RecTypes, RecSent, NEW r \in Record!Recorders, Record!DataArrives(r)
    PROVE  RecSent'
<1>1. PICK k : k = Len(got[r]) + 1
    OBVIOUS
<1>2. got[r] \in Seq(Nat) /\ sent[r] \in Seq(Nat) /\ piped[r] \in {0, 1} /\ Len(got[r]) \in Nat
    BY DEF RecTypes
<1>3. k \in Nat /\ Len(Append(got[r], k)) = k
    BY <1>1, <1>2
<1>4. /\ got' = [got EXCEPT ![r] = Append(got[r], k)]
      /\ UNCHANGED <<opts, mounted, piped, feeding, sink, slotted, url, urls>>
    BY <1>1 DEF Record!DataArrives, Record!viewVars
<1>5. \A i \in Members(sent[r]) : i \in Nat /\ i <= Len(got[r])
    BY <1>2 DEF Members, RecSent
<1>6. Increasing(Append(sent[r], k)) /\ Members(Append(sent[r], k)) = Members(sent[r]) \cup {k}
    <2>1. \A i \in Members(sent[r]) : i < k
        BY <1>1, <1>2, <1>5
    <2>2. Increasing(sent[r])
        BY DEF RecSent
    <2> QED BY <1>2, <1>3, <2>1, <2>2, IncreasingAppend
<1>7. \/ sent' = sent /\ (sink = "closed" \/ piped[r] = 0)
      \/ sent' = [sent EXCEPT ![r] = Append(sent[r], k)] /\ piped[r] = 1
    <2>1. sent' = IF sink = "closed" THEN sent
                  ELSE [sent EXCEPT ![r] = sent[r] \o [i \in 1..piped[r] |-> k]]
        BY <1>1 DEF Record!DataArrives
    <2>2. piped[r] = 0 => [sent EXCEPT ![r] = sent[r]] = sent
        BY DEF RecTypes
    <2> QED BY <1>2, <1>3, <2>1, <2>2, RecSends
<1>8. \A q \in Record!Recorders : q # r => sent'[q] = sent[q] /\ got'[q] = got[q]
    BY <1>4, <1>7 DEF RecTypes
<1>9. got'[r] = Append(got[r], k) /\ Len(got'[r]) = k
    BY <1>3, <1>4 DEF RecTypes
<1>10. \/ sent'[r] = sent[r] /\ (sink = "closed" \/ piped[r] = 0)
       \/ sent'[r] = Append(sent[r], k)
    BY <1>7 DEF RecTypes
<1>11. Increasing(sent'[r]) /\ \A i \in Members(sent'[r]) : i <= k
    <2>1. \A i \in Members(sent[r]) : i <= k
        BY <1>1, <1>2, <1>5
    <2>2. k <= k
        BY <1>3
    <2>3. Increasing(sent[r])
        BY DEF RecSent
    <2> QED BY <1>6, <1>10, <2>1, <2>2, <2>3
<1>12. \A q \in Record!Recorders : Increasing(sent'[q]) /\ \A i \in Members(sent'[q]) : i <= Len(got'[q])
    BY <1>8, <1>9, <1>11 DEF RecSent
<1>13. \A q \in slotted : q \in Record!Recorders /\ (piped[q] > 0 /\ sink = "open" => sent'[q] = got'[q])
    <2>1. CASE r \in slotted /\ piped[r] > 0 /\ sink = "open"
        <3>1. sent[r] = got[r] /\ piped[r] # 0
            BY <1>2, <2>1 DEF RecSent
        <3>2. sent'[r] = got'[r]
            BY <1>9, <1>10, <2>1, <3>1
        <3> QED BY <1>8, <3>2 DEF RecSent
    <2>2. CASE ~ (r \in slotted /\ piped[r] > 0 /\ sink = "open")
        BY <1>8, <2>2 DEF RecSent
    <2> QED BY <2>1, <2>2
<1> QED BY <1>4, <1>12, <1>13 DEF RecSent, Record!Element

\* Every step keeps what an uploader was sent.
LEMMA RecSentStep ==
    ASSUME RecTypes, RecOn, RecSent, RecTypes', RecNext
    PROVE  RecSent'
<1>0. /\ held \in Record!Recorders \cup {0} /\ \A r \in Record!Recorders : r # 0 /\ r \in Nat
      /\ made \in Nat
    BY RecNumbers
<1>1. ASSUME Record!Records, Record!Element, UNCHANGED <<opts, mounted, got, sent, sink, url, urls, feeding>>
      PROVE  RecSent'
    <2>1. PICK m : m = made + 1
        OBVIOUS
    <2>2. m \in Record!Recorders /\ made < m
        BY <1>0, <1>1, <2>1, PageBounds DEF Record!Records, Record!Recorders
    <2>3. sent[m] = got[m]
        BY <2>2 DEF RecOn
    <2>4. IF sink = "open" THEN piped' = [piped EXCEPT ![m] = 1] /\ slotted' = slotted \cup {m}
          ELSE UNCHANGED <<piped, slotted>>
        BY <1>1, <2>1 DEF Record!Records
    <2>5. \A r \in slotted' : r \in Record!Recorders /\ (piped'[r] > 0 /\ sink = "open" => sent[r] = got[r])
        BY <2>2, <2>3, <2>4 DEF RecSent, RecTypes
    <2>6. sink = "none" => slotted' = {}
        BY <2>4 DEF RecSent
    <2> QED BY <1>1, <2>5, <2>6 DEF RecSent, Record!Element
<1>2. CASE Record!ElementStarts \/ (Record!StreamRead /\ held = 0)
           \/ (Record!StreamSet /\ opts.auto /\ hasStream' /\ held = 0)
    BY <1>1, <1>2 DEF Record!ElementStarts, Record!StreamRead, Record!StreamSet
<1>3. CASE \/ UNCHANGED <<opts, mounted, got, piped, sink, sent, slotted, url, urls, feeding>>
           \/ /\ UNCHANGED <<opts, got, piped, sink, sent, slotted, url, urls, feeding>>
              /\ mounted' # "gone"
    BY <1>3 DEF RecSent, Record!Element
<1>4. CASE \/ Record!StreamSet /\ ~(opts.auto /\ hasStream' /\ held = 0)
           \/ Record!StreamRead /\ held # 0
           \/ Record!ElementAttached \/ Record!HookMounts \/ Record!HookStops
           \/ Record!Starts \/ Record!Pauses \/ Record!Resumes
    BY <1>3, <1>4 DEF Record!StreamSet, Record!StreamRead, Record!ElementAttached, Record!HookMounts, Record!HookStops,
       Record!Starts, Record!Pauses, Record!Resumes, Record!pipeVars, Record!viewVars, Record!recVars
<1>5. ASSUME NEW r \in Record!Recorders, Record!CutsChunk(r) \/ Record!EndsByItself(r) \/ Record!PausedOrResumed(r)
      PROVE  RecSent'
    BY <1>3, <1>5 DEF Record!CutsChunk, Record!EndsByItself, Record!PausedOrResumed,
       Record!pipeVars, Record!viewVars
<1>6. ASSUME NEW r \in Record!Recorders, Record!StopArrives(r) PROVE RecSent'
    <2>1. UNCHANGED <<opts, mounted, got, piped, sink, sent, slotted, url, feeding>>
          /\ (~Record!Element => urls' = urls)
        BY <1>6 DEF Record!StopArrives, Record!pipeVars
    <2> QED BY <2>1 DEF RecSent, RecOn, Record!Element
<1>7. CASE Record!ElementStops \/ Record!ElementDetached \/ Record!LetsGo
    <2>1. /\ piped' = Record!Unpiped /\ UNCHANGED <<opts, got, sink, sent, slotted, url, urls>>
          /\ mounted' = mounted \/ mounted' = "no"
        BY <1>7 DEF Record!ElementStops, Record!ElementDetached, Record!LetsGo,
               Record!viewVars, Record!recVars
    <2>2. \A r \in Record!Recorders : piped'[r] = 0
        BY <2>1 DEF Record!Unpiped
    <2> QED BY <2>1, <2>2 DEF RecSent, Record!Element
<1>8. CASE Record!UploaderSlotted \/ Record!UploaderRemoved
    BY <1>8 DEF Record!UploaderSlotted, Record!UploaderRemoved, RecSent, Record!Element,
       Record!recVars, Record!viewVars
<1>9. CASE Record!Updates
    BY <1>9 DEF Record!Updates, RecSent, Record!Element, Record!recVars, Record!pipeVars
<1>13. CASE Record!ReactReturns
    BY <1>13 DEF Record!ReactReturns, RecSent, Record!Element, Record!recVars, Record!pipeVars
<1>10. CASE ~Record!Element /\ Record!Unmounts
    BY <1>10 DEF Record!Unmounts, RecSent, Record!Element, Record!pipeVars
<1>11. CASE ~Record!Element /\ Record!Pipes
    <2>1. /\ feeding = 0 /\ held \in Record!Recorders /\ feeding' = held
          /\ piped' = [piped EXCEPT ![held] = @ + 1] /\ slotted = {}
          /\ UNCHANGED <<opts, mounted, got, sent, slotted, url, urls>> /\ sink' = "open"
        BY <1>0, <1>11 DEF Record!Pipes, Record!recVars, Record!viewVars, RecSent
    <2>2. \A r \in Record!Recorders : piped'[r] # 0 => r = held
        BY <1>0, <1>11, <2>1 DEF RecSent, RecTypes
    <2> QED BY <2>1, <2>2 DEF RecSent, Record!Element
<1>12. ASSUME NEW r \in Record!Recorders, Record!DataArrives(r) PROVE RecSent'
    BY <1>12, RecData
<1> QED BY <1>2, <1>4, <1>5, <1>6, <1>7, <1>8, <1>9, <1>10, <1>11, <1>12, <1>13 DEF RecNext

\* Every step of the page keeps the invariant of the owners of a Recorder.
LEMMA RecStep ==
    ASSUME part = "record", RecInv, [Next]_pageVars
    PROVE  RecInv'
<1>1. CASE UNCHANGED pageVars
    <2>1. UNCHANGED <<opts, mounted, hasStream, made, held, rec, native, tasks, got, piped,
                      feeding, sink, sent, shown, url, urls, adrift, late, slotted>>
        BY <1>1 DEF pageVars, Record!vars, Record!recVars, Record!pipeVars, Record!viewVars
    <2>2. RecTypes'
        BY <2>1 DEF RecInv, RecTypes
    <2>3. RecOn'
        BY <2>1 DEF RecInv, RecOn, On, Record!Running, Record!Element
    <2>4. RecShown' /\ RecSent' /\ RecLast'
        BY <2>1 DEF RecInv, RecLast, On, RecShown, Record!ShownIsHeld, RecSent, Record!Element
    <2> QED BY <2>2, <2>3, <2>4 DEF RecInv
<1>2. CASE Next
    <2>1. RecNext
        BY <1>2, RecNextIs DEF Next
    <2> QED BY <2>1, RecTypesStep, RecOnStep, RecLastStep, RecShownStep, RecSentStep DEF RecInv
<1> QED BY <1>1, <1>2

\* The invariant says what the runs check.
LEMMA RecSays == RecInv => Record!ShownIsHeld /\ Record!GoneIsOff /\ Record!UploadedOnce
<1> SUFFICES ASSUME RecInv PROVE Record!ShownIsHeld /\ Record!GoneIsOff /\ Record!UploadedOnce
    OBVIOUS
<1>1. Record!ShownIsHeld
    BY DEF RecInv, RecShown
<1>2. Record!GoneIsOff
    BY RecNumbers DEF RecInv, RecOn, On, Record!GoneIsOff
<1>3. Record!UploadedOnce
    <2>1. \A r \in Record!Recorders : \A i, j \in DOMAIN sent[r] : i < j => sent[r][i] < sent[r][j]
        <3>1. \A r \in Record!Recorders : DOMAIN sent[r] = 1..Len(sent[r]) /\ Increasing(sent[r])
            BY DEF RecInv, RecTypes, RecSent
        <3> QED BY <3>1 DEF Increasing
    <2> QED BY <2>1 DEF RecInv, RecSent, Record!UploadedOnce
<1> QED BY <1>1, <1>2, <1>3

-----------------------------------------------------------------------------
(***************************************************************************)
(* Broadcast channels.                                                     *)
(***************************************************************************)

Task == [to : Clients, channel : Nat, post : Nat]

BcTypes ==
    /\ state = [c \in Clients |-> state[c]] /\ channel = [c \in Clients |-> channel[c]]
    /\ made \in [Clients -> Nat] /\ posts \in Nat /\ tasks \in Seq(Task)
    /\ received \in [Clients -> Seq(Nat)] /\ reached = [c \in Clients |-> reached[c]]

\* A client that is connected has one open channel, the last it made; others have none.
BcOpen ==
    \A c \in Clients : /\ channel[c] = IF state[c] = "connected" THEN {made[c]} ELSE {}
                       /\ state[c] # "connected" => reached[c] = {}

\* What is on its way to a channel that is open is newer than what its client received, and
\* is in the order of the posts.
BcOrdered ==
    /\ \A i, j \in 1..Len(tasks) :
         i < j /\ tasks[i].to = tasks[j].to /\ tasks[i].channel = tasks[j].channel
           => tasks[i].post < tasks[j].post
    /\ \A i \in 1..Len(tasks) :
         /\ tasks[i].post <= posts /\ tasks[i].channel <= made[tasks[i].to]
         /\ tasks[i].channel \in channel[tasks[i].to]
              => \A m \in Members(received[tasks[i].to]) : m < tasks[i].post
    /\ \A c \in Clients : Increasing(received[c]) /\ \A m \in Members(received[c]) : m <= posts

Coming(c, m, ts) == \E i \in 1..Len(ts) : /\ ts[i].to = c /\ ts[i].channel \in channel[c]
                                          /\ ts[i].post = m

\* What should reach a client has, or is on its way.
BcReached == \A c \in Clients : \A m \in reached[c] : m \in Members(received[c]) \/ Coming(c, m, tasks)

BcInv == BcTypes /\ BcOpen /\ BcOrdered /\ BcReached

\* At first nothing is posted.
LEMMA BcInit == Broadcasts!Init => BcInv
<1> SUFFICES ASSUME Broadcasts!Init PROVE BcInv
    OBVIOUS
<1>1. <<>> \in Seq(Task) /\ <<>> \in Seq(Nat) /\ Len(<<>>) = 0
    OBVIOUS
<1>2. BcTypes
    BY <1>1 DEF Broadcasts!Init, BcTypes
<1>3. BcOpen /\ BcReached
    BY DEF Broadcasts!Init, BcOpen, BcReached
<1>4. BcOrdered
    <2>1. tasks = <<>> /\ \A c \in Clients : received[c] = <<>>
        BY DEF Broadcasts!Init
    <2> QED BY <1>1, <2>1 DEF BcOrdered, Increasing, Members
<1> QED BY <1>2, <1>3, <1>4 DEF BcInv

\* A finite set as a sequence: all of it, each element once.
LEMMA BcSetToSeq ==
    ASSUME NEW S, IsFiniteSet(S), NEW q, q = Broadcasts!SetToSeq(S)
    PROVE  /\ q \in Seq(S)
           /\ \A e \in S : \E i \in 1..Len(q) : q[i] = e
           /\ \A i, k \in 1..Len(q) : q[i] = q[k] => i = k
<1> DEFINE n == Cardinality(S)
<1>1. n \in Nat /\ ExistsBijection(1..n, S)
    BY FS_CardinalityType
<1>2. PICK f : f \in [1..n -> S] /\ \A a, b \in 1..n : f[a] = f[b] => a = b
    BY <1>1 DEF ExistsBijection, Bijection, Injection, IsInjective
<1>3. \E g \in [1..n -> S] : Broadcasts!IsInjective(g)
    BY <1>2 DEF Broadcasts!IsInjective
<1>0. Broadcasts!Cardinality(S) = Cardinality(S)
    BY Zenon DEF Broadcasts!Cardinality, Cardinality
<1>4. q \in [1..n -> S] /\ Broadcasts!IsInjective(q)
    BY <1>0, <1>3 DEF Broadcasts!SetToSeq
<1>5. q \in Injection(1..n, S)
    BY <1>4 DEF Injection, IsInjective, Broadcasts!IsInjective
<1>6. IsFiniteSet(1..n) /\ Cardinality(1..n) = n
    BY <1>1, FS_Interval
<1>7. q \in Surjection(1..n, S)
    BY <1>5, <1>6, FS_Injection
<1>8. q \in Seq(S) /\ Len(q) = n
    BY <1>1, <1>4
<1>9. \A e \in S : \E i \in 1..n : q[i] = e
    BY <1>7 DEF Surjection
<1> QED BY <1>4, <1>8, <1>9 DEF Broadcasts!IsInjective

\* The open channels are finitely many.
LEMMA BcFinite ==
    ASSUME BcTypes, BcOpen, NEW c \in Clients
    PROVE  IsFiniteSet(Broadcasts!Others(c))
<1> DEFINE f == [d \in Clients |-> [to |-> d, channel |-> made[d]]]
           T == {f[d] : d \in Clients}
<1>1. f \in Surjection(Clients, T)
    BY DEF Surjection
<1>2. IsFiniteSet(T)
    BY <1>1, PageBounds, FS_Surjection
<1>3. ASSUME NEW e \in Broadcasts!Others(c) PROVE e \in T
    <2>1. PICK d \in Clients : \E n \in channel[d] : e = [to |-> d, channel |-> n]
        BY DEF Broadcasts!Others
    <2>2. \A n \in channel[d] : n = made[d]
        BY DEF BcOpen
    <2> QED BY <2>1, <2>2
<1> QED BY <1>2, <1>3, FS_Subset

\* What send() posts: to each other open channel once.
LEMMA BcPosts ==
    ASSUME BcTypes, BcOpen, NEW c \in Clients, Broadcasts!Send(c)
    PROVE  \E new \in Seq(Task) :
             /\ tasks' = tasks \o new
             /\ \A k \in 1..Len(new) : /\ new[k].post = posts + 1
                                       /\ new[k].channel \in channel[new[k].to]
             /\ \A j, k \in 1..Len(new) :
                  new[j].to = new[k].to /\ new[j].channel = new[k].channel => j = k
             /\ \A d \in Clients : d # c /\ state[d] = "connected" =>
                  \E k \in 1..Len(new) : new[k].to = d /\ new[k].channel \in channel[d]
<1> DEFINE S == Broadcasts!Others(c)
           q == Broadcasts!SetToSeq(S)
<1>1. PICK p : p = posts + 1
    OBVIOUS
<1> DEFINE new == [i \in DOMAIN q |-> [to |-> q[i].to, channel |-> q[i].channel, post |-> p]]
<1>2. tasks' = tasks \o new
    BY <1>1 DEF Broadcasts!Send
<1>3. /\ q \in Seq(S) /\ \A e \in S : \E i \in 1..Len(q) : q[i] = e
      /\ \A i, k \in 1..Len(q) : q[i] = q[k] => i = k
    BY BcFinite, BcSetToSeq
<1>4. \A e \in S : /\ e = [to |-> e.to, channel |-> e.channel] /\ e.to \in Clients
                   /\ e.channel \in channel[e.to] /\ e.channel \in Nat
    <2> SUFFICES ASSUME NEW e \in S
                 PROVE  /\ e = [to |-> e.to, channel |-> e.channel] /\ e.to \in Clients
                        /\ e.channel \in channel[e.to] /\ e.channel \in Nat
        OBVIOUS
    <2>1. PICK d \in Clients : \E n \in channel[d] : e = [to |-> d, channel |-> n]
        BY DEF Broadcasts!Others
    <2>2. made[d] \in Nat
        BY DEF BcTypes
    <2>3. \A n \in channel[d] : n = made[d]
        BY DEF BcOpen
    <2> QED BY <2>1, <2>2, <2>3
<1>5. \A d \in Clients : d # c /\ state[d] = "connected" =>
        [to |-> d, channel |-> made[d]] \in S /\ made[d] \in channel[d]
    <2> SUFFICES ASSUME NEW d \in Clients, d # c, state[d] = "connected"
                 PROVE  [to |-> d, channel |-> made[d]] \in S /\ made[d] \in channel[d]
        OBVIOUS
    <2> DEFINE e == [to |-> d, channel |-> made[d]]
               of(b) == {[to |-> b, channel |-> n] : n \in channel[b]}
    <2>1. made[d] \in channel[d]
        BY DEF BcOpen
    <2>2. e \in of(d)
        BY <2>1
    <2>3. e # [to |-> c, channel |-> made[c]]
        <3>1. e.to = d /\ [to |-> c, channel |-> made[c]].to = c
            OBVIOUS
        <3> QED BY <3>1
    <2>4. of(d) \in {of(b) : b \in Clients}
        OBVIOUS
    <2> HIDE DEF e
    <2>5. e \in UNION {of(b) : b \in Clients}
        BY <2>2, <2>4
    <2>6. e \in (UNION {of(b) : b \in Clients}) \ {[to |-> c, channel |-> made[c]]}
        BY <2>3, <2>5
    <2>7. e \in S
        BY <2>6, Zenon DEF Broadcasts!Others
    <2> QED BY <2>1, <2>7 DEF e
<1>6. p \in Nat
    BY <1>1 DEF BcTypes
<1> HIDE DEF S, q
<1>7. \A i \in 1..Len(q) : q[i] \in S
    BY <1>3
<1>8. DOMAIN q = 1..Len(q) /\ Len(q) \in Nat
    BY <1>3
<1>9. \A i \in 1..Len(q) : [to |-> q[i].to, channel |-> q[i].channel, post |-> p] \in Task
    BY <1>4, <1>6, <1>7 DEF Task
<1>10. new \in Seq(Task) /\ Len(new) = Len(q)
    BY <1>8, <1>9
<1>11. \A k \in 1..Len(q) : new[k].to = q[k].to /\ new[k].channel = q[k].channel /\ new[k].post = p
    BY <1>8
<1> HIDE DEF new
<1>12. \A k \in 1..Len(new) : new[k].post = posts + 1 /\ new[k].channel \in channel[new[k].to]
    BY <1>1, <1>4, <1>7, <1>10, <1>11
<1>13. ASSUME NEW j \in 1..Len(new), NEW k \in 1..Len(new), new[j].to = new[k].to,
              new[j].channel = new[k].channel
       PROVE  j = k
    <2>1. q[j] = q[k]
        BY <1>4, <1>7, <1>10, <1>11, <1>13
    <2> QED BY <1>3, <1>10, <2>1
<1>14. ASSUME NEW d \in Clients, d # c, state[d] = "connected"
       PROVE  \E k \in 1..Len(new) : new[k].to = d /\ new[k].channel \in channel[d]
    <2>1. PICK k \in 1..Len(q) : q[k] = [to |-> d, channel |-> made[d]]
        BY <1>3, <1>5, <1>14
    <2> QED BY <1>5, <1>10, <1>11, <1>14, <2>1
<1> QED BY <1>2, <1>10, <1>12, <1>13, <1>14

\* A message is posted: it is newer than all that was, and comes to a channel once.
LEMMA BcSend ==
    ASSUME BcInv, NEW c \in Clients, Broadcasts!Send(c)
    PROVE  BcInv'
<1>0. BcTypes /\ BcOpen /\ BcOrdered /\ BcReached
    BY DEF BcInv
<1>1. PICK new \in Seq(Task) :
        /\ tasks' = tasks \o new
        /\ \A k \in 1..Len(new) : new[k].post = posts + 1 /\ new[k].channel \in channel[new[k].to]
        /\ \A j, k \in 1..Len(new) :
             new[j].to = new[k].to /\ new[j].channel = new[k].channel => j = k
        /\ \A d \in Clients : d # c /\ state[d] = "connected" =>
             \E k \in 1..Len(new) : new[k].to = d /\ new[k].channel \in channel[d]
    BY <1>0, BcPosts
<1>2. PICK p : p = posts + 1
    OBVIOUS
<1>3. /\ posts' = p /\ UNCHANGED <<state, channel, made, received>>
      /\ reached' = [d \in Clients |-> IF d # c /\ state[d] = "connected" THEN reached[d] \cup {p}
                                       ELSE reached[d]]
    BY <1>2 DEF Broadcasts!Send
<1>4. posts \in Nat /\ p \in Nat /\ posts < p /\ tasks \in Seq(Task)
    BY <1>0, <1>2 DEF BcTypes
<1> DEFINE all == tasks \o new
           n == Len(tasks)
<1>5. /\ all \in Seq(Task) /\ n \in Nat
      /\ \A i \in 1..n : i \in 1..Len(all) /\ all[i] = tasks[i]
      /\ \A k \in 1..Len(new) : n + k \in 1..Len(all) /\ all[n + k] = new[k]
      /\ \A i \in 1..Len(all) : i \in 1..n \/ \E k \in 1..Len(new) : i = n + k
    <2> HIDE DEF all, n
    <2>1. /\ tasks \o new \in Seq(Task) /\ Len(tasks) \in Nat
          /\ \A i \in 1..Len(tasks) : i \in 1..Len(tasks \o new) /\ (tasks \o new)[i] = tasks[i]
          /\ \A k \in 1..Len(new) : /\ Len(tasks) + k \in 1..Len(tasks \o new)
                                     /\ (tasks \o new)[Len(tasks) + k] = new[k]
          /\ \A i \in 1..Len(tasks \o new) :
               i \in 1..Len(tasks) \/ \E k \in 1..Len(new) : i = Len(tasks) + k
        <3>1. new \in Seq(Task) /\ tasks \in Seq(Task)
            BY <1>4
        <3>2. /\ tasks \o new \in Seq(Task) /\ Len(tasks) \in Nat
              /\ Len(tasks \o new) = Len(tasks) + Len(new)
              /\ \A i \in 1..Len(tasks) : i \in 1..Len(tasks \o new) /\ (tasks \o new)[i] = tasks[i]
              /\ \A k \in 1..Len(new) :
                   Len(tasks) + k \in 1..Len(tasks \o new) /\ (tasks \o new)[Len(tasks) + k] = new[k]
              /\ \A i \in 1..Len(tasks \o new) :
                   i \in 1..Len(tasks) \/ \E k \in 1..Len(new) : i = Len(tasks) + k
            BY <3>1, ConcatAt
        <3> QED BY <3>2, Zenon
    <2> QED BY <2>1 DEF all, n
<1>6. tasks' = all
    BY <1>1
<1>7. \A k \in 1..Len(new) : k \in Nat \ {0} /\ new[k].to \in Clients /\ new[k].post = p
    <2> SUFFICES ASSUME NEW k \in 1..Len(new)
                 PROVE  k \in Nat \ {0} /\ new[k].to \in Clients /\ new[k].post = p
        OBVIOUS
    <2>1. new[k] \in Task /\ k \in Nat \ {0}
        OBVIOUS
    <2>2. new[k].post = p
        BY <1>1, <1>2
    <2> QED BY <2>1, <2>2 DEF Task
<1>8. \A i \in 1..n : i \in Nat /\ i <= n /\ tasks[i].to \in Clients /\ tasks[i].post \in Nat
    <2> SUFFICES ASSUME NEW i \in 1..n
                 PROVE  i \in Nat /\ i <= n /\ tasks[i].to \in Clients /\ tasks[i].post \in Nat
        OBVIOUS
    <2>1. tasks[i] \in Task /\ i \in Nat /\ i <= n
        BY <1>4
    <2> QED BY <2>1 DEF Task
<1> HIDE DEF all, n
<1>9. BcTypes'
    BY <1>0, <1>3, <1>4, <1>5, <1>6 DEF BcTypes
<1>10. BcOpen'
    BY <1>0, <1>3 DEF BcOpen
<1>11. \A i \in 1..n : tasks[i].post < p
    BY <1>0, <1>2, <1>4, <1>8 DEF BcOrdered, n
<1>12. ASSUME NEW i \in 1..Len(all), NEW j \in 1..Len(all), i < j, all[i].to = all[j].to,
              all[i].channel = all[j].channel
       PROVE  all[i].post < all[j].post
    <2>1. CASE i \in 1..n /\ j \in 1..n
        <3>1. all[i] = tasks[i] /\ all[j] = tasks[j]
            BY <1>5, <2>1
        <3> QED BY <1>0, <1>12, <2>1, <3>1 DEF BcOrdered, n
    <2>2. CASE i \in 1..n /\ j \notin 1..n
        <3>1. PICK k \in 1..Len(new) : j = n + k
            BY <1>5, <2>2
        <3>2. all[j] = new[k] /\ all[i] = tasks[i]
            BY <1>5, <2>2, <3>1
        <3> QED BY <1>7, <1>11, <2>2, <3>2
    <2>3. CASE i \notin 1..n
        <3>1. PICK k \in 1..Len(new) : i = n + k
            BY <1>5, <2>3
        <3>2. j \notin 1..n
            BY <1>5, <1>7, <1>8, <1>12, <3>1
        <3>3. PICK m \in 1..Len(new) : j = n + m
            BY <1>5, <3>2
        <3>4. all[i] = new[k] /\ all[j] = new[m]
            BY <1>5, <3>1, <3>3
        <3>5. k = m
            BY <1>1, <1>12, <3>4
        <3> QED BY <1>12, <1>5, <3>1, <3>3, <3>5
    <2> QED BY <2>1, <2>2, <2>3
<1>13. ASSUME NEW i \in 1..Len(all)
       PROVE  /\ all[i].post <= p /\ all[i].channel <= made[all[i].to]
              /\ all[i].channel \in channel[all[i].to]
                   => \A m \in Members(received[all[i].to]) : m < all[i].post
    <2>1. CASE i \in 1..n
        <3>1. all[i] = tasks[i]
            BY <1>5, <2>1
        <3>2. tasks[i].post <= p
            BY <1>4, <1>8, <1>11, <2>1
        <3> QED BY <1>0, <2>1, <3>1, <3>2 DEF BcOrdered, n
    <2>2. CASE i \notin 1..n
        <3>1. PICK k \in 1..Len(new) : i = n + k
            BY <1>5, <2>2
        <3>2. all[i] = new[k] /\ new[k].post = p /\ new[k].channel \in channel[new[k].to]
              /\ new[k].to \in Clients
            BY <1>1, <1>5, <1>7, <3>1
        <3>3. made[new[k].to] \in Nat
            BY <1>0, <3>2 DEF BcTypes
        <3>8. \A d \in Clients : \A x \in channel[d] : x = made[d]
            BY <1>0 DEF BcOpen
        <3>7. new[k].channel = made[new[k].to]
            BY <3>2, <3>8
        <3>4. received[new[k].to] \in Seq(Nat)
            BY <1>0, <3>2 DEF BcTypes
        <3>5. \A m \in Members(received[new[k].to]) : m \in Nat /\ m <= posts
            BY <1>0, <3>2, <3>4 DEF BcOrdered, Members
        <3>6. \A m \in Members(received[new[k].to]) : m < p
            BY <1>4, <3>5
        <3> QED BY <1>4, <3>2, <3>3, <3>6, <3>7
    <2> QED BY <2>1, <2>2
<1>14. \A d \in Clients : Increasing(received[d]) /\ \A m \in Members(received[d]) : m <= p
    <2> SUFFICES ASSUME NEW d \in Clients, NEW m \in Members(received[d]) PROVE m <= p
        BY <1>0 DEF BcOrdered
    <2>1. received[d] \in Seq(Nat)
        BY <1>0 DEF BcTypes
    <2>2. m \in Nat /\ m <= posts
        BY <1>0, <2>1 DEF BcOrdered, Members
    <2> QED BY <1>4, <2>2
<1>15. BcOrdered'
    BY <1>3, <1>6, <1>12, <1>13, <1>14 DEF BcOrdered
<1>16. BcReached'
    <2> SUFFICES ASSUME NEW d \in Clients, NEW m \in reached'[d], m \notin Members(received[d])
                 PROVE  \E i \in 1..Len(all) : /\ all[i].to = d /\ all[i].channel \in channel[d]
                                               /\ all[i].post = m
        BY <1>3, <1>6 DEF BcReached, Coming
    <2>1. CASE m \in reached[d]
        <3>1. PICK i \in 1..n : tasks[i].to = d /\ tasks[i].channel \in channel[d] /\ tasks[i].post = m
            BY <1>0, <2>1 DEF BcReached, Coming, n
        <3> QED BY <1>5, <3>1
    <2>2. CASE m \notin reached[d]
        <3>1. d # c /\ state[d] = "connected" /\ m = p
            BY <1>3, <2>2
        <3>2. PICK k \in 1..Len(new) : new[k].to = d /\ new[k].channel \in channel[d]
            BY <1>1, <3>1
        <3>3. new[k].post = m
            BY <1>7, <3>1
        <3>4. n + k \in 1..Len(all) /\ all[n + k] = new[k]
            BY <1>5
        <3> QED BY <3>2, <3>3, <3>4
    <2> QED BY <2>1, <2>2
<1> QED BY <1>9, <1>10, <1>15, <1>16 DEF BcInv

\* A message arrives: it is the oldest of those on their way to that channel.
LEMMA BcMessage ==
    ASSUME BcInv, Broadcasts!OnChannelMessage
    PROVE  BcInv'
<1>0. BcTypes /\ BcOpen /\ BcOrdered /\ BcReached
    BY DEF BcInv
<1> DEFINE task == Head(tasks)
           rest == Tail(tasks)
           to == task.to
<1>1. /\ tasks # <<>> /\ tasks' = rest /\ UNCHANGED <<state, channel, made, posts, reached>>
      /\ received' = IF task.channel \in channel[to]
                     THEN [received EXCEPT ![to] = Append(received[to], task.post)] ELSE received
    BY DEF Broadcasts!OnChannelMessage
<1>2. tasks \in Seq(Task)
    BY <1>0 DEF BcTypes
<1>3. /\ 1 \in 1..Len(tasks) /\ task = tasks[1] /\ rest \in Seq(Task)
      /\ \A i \in 1..Len(rest) : i + 1 \in 1..Len(tasks) /\ rest[i] = tasks[i + 1]
      /\ \A i \in 1..Len(tasks) : i # 1 => \E k \in 1..Len(rest) : i = k + 1 /\ rest[k] = tasks[i]
    BY <1>1, <1>2, TailAt
<1>4. task \in Task /\ \A i \in 1..Len(rest) : rest[i] \in Task /\ i \in Nat \ {0} /\ 1 < i + 1
    BY <1>2, <1>3
<1>5. to \in Clients /\ task.post \in Nat
    BY <1>4 DEF Task
<1> HIDE DEF task, rest, to
<1>6. received[to] \in Seq(Nat) /\ \A m \in Members(received[to]) : m \in Nat
    BY <1>0, <1>5 DEF BcTypes, Members
<1>7. task.channel \in channel[to] => \A m \in Members(received[to]) : m < task.post
    BY <1>0, <1>3 DEF BcOrdered, to
<1>8. \A i \in 1..Len(rest) : rest[i].to = to /\ rest[i].channel = task.channel => task.post < rest[i].post
    BY <1>0, <1>3, <1>4 DEF BcOrdered, to
<1>9. \A d \in Clients : d # to => received'[d] = received[d]
    BY <1>0, <1>1 DEF BcTypes
<1>10. task.post <= posts
    BY <1>0, <1>3 DEF BcOrdered
<1>11. \/ task.channel \notin channel[to] /\ received' = received
       \/ /\ task.channel \in channel[to]
          /\ received' = [received EXCEPT ![to] = Append(received[to], task.post)]
          /\ received'[to] \in Seq(Nat) /\ Increasing(received'[to])
          /\ Members(received'[to]) = Members(received[to]) \cup {task.post}
    <2>1. CASE task.channel \notin channel[to]
        BY <1>1, <2>1
    <2>2. CASE task.channel \in channel[to]
        <3>1. received'[to] = Append(received[to], task.post)
            BY <1>0, <1>1, <1>5, <2>2 DEF BcTypes
        <3>2. Increasing(received[to])
            BY <1>0, <1>5 DEF BcOrdered
        <3> QED BY <1>1, <1>5, <1>6, <1>7, <2>2, <3>1, <3>2, IncreasingAppend
    <2> QED BY <2>1, <2>2
<1>12. BcTypes'
    BY <1>0, <1>1, <1>3, <1>5, <1>11 DEF BcTypes
<1>13. BcOpen'
    BY <1>0, <1>1 DEF BcOpen
<1>14. ASSUME NEW i \in 1..Len(rest)
       PROVE  /\ rest[i].post <= posts /\ rest[i].channel <= made[rest[i].to]
              /\ rest[i].channel \in channel[rest[i].to]
                   => \A m \in Members(received'[rest[i].to]) : m < rest[i].post
    <2>1. /\ rest[i].post <= posts /\ rest[i].channel <= made[rest[i].to]
          /\ rest[i].channel \in channel[rest[i].to]
               => \A m \in Members(received[rest[i].to]) : m < rest[i].post
        BY <1>0, <1>3 DEF BcOrdered
    <2>2. rest[i].to \in Clients
        BY <1>4 DEF Task
    <2>3. CASE rest[i].to # to
        BY <1>9, <2>1, <2>2, <2>3
    <2>4. CASE rest[i].to = to /\ rest[i].channel \in channel[to] /\ task.channel \in channel[to]
        <3>0. PICK x : \A e \in channel[to] : e = x
            BY <1>0, <1>5 DEF BcOpen
        <3>1. rest[i].channel = task.channel
            BY <2>4, <3>0
        <3>2. task.post < rest[i].post
            BY <1>8, <2>4, <3>1
        <3> QED BY <1>11, <2>1, <2>4, <3>2
    <2> QED BY <1>11, <2>1, <2>3, <2>4
<1>15. ASSUME NEW i \in 1..Len(rest), NEW j \in 1..Len(rest), i < j, rest[i].to = rest[j].to,
              rest[i].channel = rest[j].channel
       PROVE  rest[i].post < rest[j].post
    <2>1. /\ i + 1 \in 1..Len(tasks) /\ rest[i] = tasks[i + 1]
          /\ j + 1 \in 1..Len(tasks) /\ rest[j] = tasks[j + 1]
        BY <1>3
    <2>2. i + 1 < j + 1
        BY <1>4, <1>15
    <2> QED BY <1>0, <1>15, <2>1, <2>2 DEF BcOrdered
<1>16. \A d \in Clients : Increasing(received'[d]) /\ \A m \in Members(received'[d]) : m <= posts
    <2> SUFFICES ASSUME NEW d \in Clients
                 PROVE  Increasing(received'[d]) /\ \A m \in Members(received'[d]) : m <= posts
        OBVIOUS
    <2>1. Increasing(received[d]) /\ \A m \in Members(received[d]) : m <= posts
        BY <1>0 DEF BcOrdered
    <2>2. CASE d # to
        BY <1>9, <2>1, <2>2
    <2>3. CASE d = to
        BY <1>10, <1>11, <2>1, <2>3
    <2> QED BY <2>2, <2>3
<1>17. BcOrdered'
    BY <1>1, <1>14, <1>15, <1>16 DEF BcOrdered
<1>18. BcReached'
    <2> SUFFICES ASSUME NEW d \in Clients, NEW m \in reached[d], m \notin Members(received'[d])
                 PROVE  \E i \in 1..Len(rest) : /\ rest[i].to = d /\ rest[i].channel \in channel[d]
                                                /\ rest[i].post = m
        BY <1>1 DEF BcReached, Coming
    <2>1. m \notin Members(received[d])
        BY <1>9, <1>11
    <2>2. PICK i \in 1..Len(tasks) : /\ tasks[i].to = d /\ tasks[i].channel \in channel[d]
                                     /\ tasks[i].post = m
        BY <1>0, <2>1 DEF BcReached, Coming
    <2>3. i # 1
        <3> SUFFICES ASSUME i = 1 PROVE FALSE
            OBVIOUS
        <3>1. task.channel \in channel[to] /\ d = to /\ task.post = m
            BY <1>3, <2>2 DEF to
        <3> QED BY <1>11, <3>1
    <2> QED BY <1>3, <2>2, <2>3
<1> QED BY <1>12, <1>13, <1>17, <1>18 DEF BcInv

\* A channel is opened or closed: nothing is on its way to one that is made.
LEMMA BcConnects ==
    ASSUME BcInv, NEW c \in Clients, Broadcasts!Connect(c) \/ Broadcasts!Disconnect(c)
    PROVE  BcInv'
<1>0. BcTypes /\ BcOpen /\ BcOrdered /\ BcReached
    BY DEF BcInv
<1>1. made[c] \in Nat /\ UNCHANGED <<tasks, posts, received>>
    BY <1>0 DEF BcTypes, Broadcasts!Connect, Broadcasts!Disconnect
<1>2. PICK m : m = made[c] + 1
    OBVIOUS
<1>3. m \in Nat /\ made[c] < m
    BY <1>1, <1>2
<1>4. /\ \A d \in Clients : d # c => /\ state'[d] = state[d] /\ channel'[d] = channel[d]
                                     /\ made'[d] = made[d] /\ reached'[d] = reached[d]
      /\ \/ /\ state[c] # "connected" /\ state'[c] = "connected" /\ channel'[c] = {m}
            /\ made'[c] = m /\ reached'[c] = {}
         \/ state'[c] = "closed" /\ channel'[c] = {} /\ made'[c] = made[c] /\ reached'[c] = {}
    BY <1>0, <1>2 DEF BcTypes, BcOpen, Broadcasts!Connect, Broadcasts!Disconnect, Broadcasts!Closed
<1>5. BcTypes'
    <2>1. \/ made' = made \/ made' = [made EXCEPT ![c] = m]
        BY <1>2 DEF Broadcasts!Connect, Broadcasts!Disconnect
    <2>2. made' \in [Clients -> Nat]
        BY <1>0, <1>3, <2>1 DEF BcTypes
    <2>3. state' = [d \in Clients |-> state'[d]] /\ channel' = [d \in Clients |-> channel'[d]]
          /\ reached' = [d \in Clients |-> reached'[d]]
        BY <1>0 DEF BcTypes, Broadcasts!Connect, Broadcasts!Disconnect, Broadcasts!Closed
    <2> QED BY <1>0, <1>1, <2>2, <2>3 DEF BcTypes
<1>6. BcOpen'
    BY <1>0, <1>4 DEF BcOpen
<1>7. \A i \in 1..Len(tasks) : tasks[i].to \in Clients /\ tasks[i].channel \in Nat
    <2>1. tasks \in Seq(Task)
        BY <1>0 DEF BcTypes
    <2>2. \A i \in 1..Len(tasks) : tasks[i] \in Task
        BY <2>1
    <2> QED BY <2>2 DEF Task
<1>8. ASSUME NEW i \in 1..Len(tasks)
      PROVE  /\ tasks[i].channel <= made'[tasks[i].to]
             /\ tasks[i].channel \in channel'[tasks[i].to] => tasks[i].channel \in channel[tasks[i].to]
    <2>1. tasks[i].channel <= made[tasks[i].to]
        BY <1>0 DEF BcOrdered
    <2>2. CASE tasks[i].to # c
        BY <1>4, <1>7, <2>1, <2>2
    <2>3. CASE tasks[i].to = c
        <3>1. tasks[i].channel \in Nat /\ tasks[i].channel <= made[c]
            BY <1>7, <2>1, <2>3
        <3>2. CASE channel'[c] = {m} /\ made'[c] = m
            BY <1>1, <1>3, <2>3, <3>1, <3>2
        <3>3. CASE channel'[c] = {} /\ made'[c] = made[c]
            BY <2>3, <3>1, <3>3
        <3> QED BY <1>4, <3>2, <3>3
    <2> QED BY <2>2, <2>3
<1>9. BcOrdered'
    BY <1>0, <1>1, <1>8 DEF BcOrdered
<1>10. BcReached'
    BY <1>0, <1>1, <1>4 DEF BcReached, Coming
<1> QED BY <1>5, <1>6, <1>9, <1>10 DEF BcInv

\* Every step of the page keeps the invariant of the broadcast channels.
LEMMA BcStep ==
    ASSUME part = "broadcasts", BcInv, [Next]_pageVars
    PROVE  BcInv'
<1>1. CASE UNCHANGED pageVars
    <2>1. UNCHANGED <<state, channel, made, tasks, posts, received, reached>>
        BY <1>1 DEF pageVars, Broadcasts!vars
    <2>2. BcTypes /\ BcOpen /\ BcOrdered /\ BcReached
        BY DEF BcInv
    <2>3. BcTypes'
        BY <2>1, <2>2 DEF BcTypes
    <2>4. BcOpen'
        BY <2>1, <2>2 DEF BcOpen
    <2>5. BcOrdered'
        BY <2>1, <2>2 DEF BcOrdered
    <2>6. BcReached'
        BY <2>1, <2>2 DEF BcReached, Coming
    <2> QED BY <2>3, <2>4, <2>5, <2>6 DEF BcInv
<1>2. CASE Next
    <2>1. Broadcasts!Next
        BY <1>2 DEF Next
    <2> QED BY <2>1, BcSend, BcMessage, BcConnects DEF Broadcasts!Next
<1> QED BY <1>1, <1>2

\* The invariant says what the runs check.
LEMMA BcSays == BcInv => Broadcasts!ReceivedOnce
<1> SUFFICES ASSUME BcInv PROVE Broadcasts!ReceivedOnce
    OBVIOUS
<1>1. \A c \in Clients : received[c] \in Seq(Nat) /\ Increasing(received[c])
    BY DEF BcInv, BcTypes, BcOrdered
<1>2. \A c \in Clients : \A i, j \in DOMAIN received[c] : i < j => received[c][i] < received[c][j]
    <2>1. \A c \in Clients : DOMAIN received[c] = 1..Len(received[c])
        BY <1>1
    <2> QED BY <1>1, <2>1 DEF Increasing
<1>3. ASSUME tasks = <<>>, NEW c \in Clients PROVE reached[c] \subseteq Broadcasts!ToSet(received[c])
    <2>1. Len(tasks) = 0
        BY <1>3
    <2>2. \A m \in reached[c] : m \in Members(received[c])
        BY <2>1 DEF BcInv, BcReached, Coming
    <2>3. Members(received[c]) = Broadcasts!ToSet(received[c])
        <3>1. DOMAIN received[c] = 1..Len(received[c])
            BY <1>1
        <3> QED BY <3>1 DEF Members, Broadcasts!ToSet
    <2> QED BY <2>2, <2>3
<1> QED BY <1>2, <1>3 DEF Broadcasts!ReceivedOnce

-----------------------------------------------------------------------------
(***************************************************************************)
(* The event emitter.                                                      *)
(***************************************************************************)

Frame == [n : Nat, rest : SUBSET Events!Listeners]

EvTypes ==
    /\ made \in Nat /\ made <= MaxListeners /\ emitted \in Nat /\ emitted <= MaxEmits
    /\ bucket \subseteq 1..made /\ single \subseteq 1..made
    /\ stack \in Seq(Frame) /\ told \in [Events!Listeners -> Seq(Nat)]
    /\ stayed \in [Events!Emits -> SUBSET Events!Listeners] /\ nested \in BOOLEAN

\* The emissions that run began one after the other, each with listeners there were.
EvFrames ==
    /\ \A i \in 1..Len(stack) :
         stack[i].n \in 1..emitted /\ stack[i].rest \subseteq 1..made
    /\ \A i, j \in 1..Len(stack) : i < j => stack[i].n < stack[j].n

Distinct(s) == \A i, j \in 1..Len(s) : s[i] = s[j] => i = j

\* A listener is told once, and not before its emission comes to it.
EvTold ==
    \A l \in Events!Listeners :
      /\ Distinct(told[l])
      /\ Members(told[l]) \subseteq 1..emitted
      /\ \A i \in 1..Len(stack) : l \in stack[i].rest => stack[i].n \notin Members(told[l])

\* Who stayed has been told, or will be before emit() returns.
EvStayed ==
    \A n \in Events!Emits : \A l \in stayed[n] :
      n \in Members(told[l]) \/ \E i \in 1..Len(stack) : stack[i].n = n /\ l \in stack[i].rest

\* Without an emission within another, one of once() is told when it is no longer there.
EvOnce ==
    /\ ~nested => Len(stack) <= 1
    /\ \A l \in Events!Listeners :
         /\ l \notin 1..made => told[l] = <<>>
         /\ l \in single /\ ~nested =>
              /\ Len(told[l]) <= 1
              /\ l \in bucket \/ (\E i \in 1..Len(stack) : l \in stack[i].rest) => told[l] = <<>>

EvInv == EvTypes /\ EvFrames /\ EvTold /\ EvStayed /\ EvOnce

\* A sequence with one more element.
LEMMA AppendAt ==
    ASSUME NEW S, NEW s \in Seq(S), NEW e \in S
    PROVE  /\ Append(s, e) \in Seq(S) /\ Len(s) \in Nat /\ Len(Append(s, e)) = Len(s) + 1
           /\ \A i \in 1..Len(s) : i \in 1..Len(Append(s, e)) /\ Append(s, e)[i] = s[i]
           /\ Len(s) + 1 \in 1..Len(Append(s, e)) /\ Append(s, e)[Len(s) + 1] = e
           /\ \A i \in 1..Len(Append(s, e)) : i \in 1..Len(s) \/ i = Len(s) + 1
           /\ \A i \in 1..Len(s) : i \in Nat /\ i < Len(s) + 1
OBVIOUS

\* A sequence without its last element.
LEMMA FrontAt ==
    ASSUME NEW S, NEW s \in Seq(S), s # <<>>
    PROVE  /\ Events!Front(s) \in Seq(S) /\ Len(s) \in Nat \ {0}
           /\ Len(s) \in 1..Len(s) /\ Events!Last(s) = s[Len(s)] /\ Events!Last(s) \in S
           /\ Len(Events!Front(s)) = Len(s) - 1
           /\ \A i \in 1..Len(Events!Front(s)) : i \in 1..Len(s) /\ Events!Front(s)[i] = s[i]
           /\ \A i \in 1..Len(s) : i = Len(s) \/ i \in 1..Len(Events!Front(s))
<1>1. Len(s) \in Nat \ {0}
    BY EmptySeq
<1>2. Events!Front(s) = SubSeq(s, 1, Len(s) - 1)
    BY DEF Events!Front
<1>3. /\ SubSeq(s, 1, Len(s) - 1) \in Seq(S) /\ Len(SubSeq(s, 1, Len(s) - 1)) = Len(s) - 1
      /\ \A i \in 1..(Len(s) - 1) : SubSeq(s, 1, Len(s) - 1)[i] = s[i]
    <2>1. PICK n : n = Len(s) - 1
        OBVIOUS
    <2>2. n \in Nat /\ 1 \in Int /\ n \in Int /\ n - 1 + 1 = n
        BY <1>1, <2>1
    <2>3. \A i \in 1..n : s[i] \in S /\ 1 + i - 1 = i
        BY <1>1, <2>1
    <2>4. /\ SubSeq(s, 1, n) \in Seq(S) /\ Len(SubSeq(s, 1, n)) = IF 1 <= n THEN n - 1 + 1 ELSE 0
          /\ \A i \in 1..(n - 1 + 1) : SubSeq(s, 1, n)[i] = s[1 + i - 1]
        BY <2>2, <2>3, SubSeqProperties
    <2>5. Len(SubSeq(s, 1, n)) = n /\ \A i \in 1..n : SubSeq(s, 1, n)[i] = s[i]
        BY <2>2, <2>3, <2>4
    <2> QED BY <2>1, <2>4, <2>5
<1>4. Len(s) \in 1..Len(s) /\ Events!Last(s) = s[Len(s)] /\ s[Len(s)] \in S
    BY <1>1 DEF Events!Last
<1>5. /\ \A i \in 1..(Len(s) - 1) : i \in 1..Len(s)
      /\ \A i \in 1..Len(s) : i = Len(s) \/ i \in 1..(Len(s) - 1)
    BY <1>1
<1> QED BY <1>1, <1>2, <1>3, <1>4, <1>5

\* A sequence with its last element changed.
LEMMA LastExcept ==
    ASSUME NEW S, NEW s \in Seq(S), s # <<>>, NEW e \in S, NEW t, t = [s EXCEPT ![Len(s)] = e]
    PROVE  /\ t \in Seq(S) /\ Len(t) = Len(s) /\ t[Len(s)] = e
           /\ \A i \in 1..Len(s) : i # Len(s) => t[i] = s[i]
<1>1. Len(s) \in Nat \ {0}
    BY EmptySeq
<1> QED BY <1>1

\* An element that is not there yet may be appended to one without doubles.
LEMMA DistinctAppend ==
    ASSUME NEW s \in Seq(Nat), NEW n \in Nat, n \notin Members(s),
           Distinct(s)
    PROVE  /\ Append(s, n) \in Seq(Nat) /\ Len(Append(s, n)) = Len(s) + 1
           /\ Distinct(Append(s, n)) /\ Members(Append(s, n)) = Members(s) \cup {n}
<1> DEFINE t == Append(s, n)
<1>1. /\ t \in Seq(Nat) /\ Len(s) \in Nat /\ Len(t) = Len(s) + 1
      /\ \A i \in 1..Len(s) : i \in 1..Len(t) /\ t[i] = s[i]
      /\ Len(s) + 1 \in 1..Len(t) /\ t[Len(s) + 1] = n
      /\ \A i \in 1..Len(t) : i \in 1..Len(s) \/ i = Len(s) + 1
    BY AppendAt
<1> HIDE DEF t
<1>2. \A i \in 1..Len(s) : s[i] \in Members(s)
    BY DEF Members
<1>3. Distinct(t)
    BY <1>1, <1>2 DEF Distinct
<1>4. Members(t) = Members(s) \cup {n}
    <2>1. \A i \in 1..Len(t) : t[i] \in Members(s) \cup {n}
        BY <1>1, <1>2
    <2>2. \A i \in 1..Len(s) : s[i] \in Members(t)
        BY <1>1 DEF Members
    <2>3. n \in Members(t)
        BY <1>1 DEF Members
    <2> QED BY <2>1, <2>2, <2>3 DEF Members
<1> QED BY <1>1, <1>3, <1>4 DEF t

\* The listeners are numbers.
LEMMA EvSets ==
    ASSUME EvTypes
    PROVE  /\ 1..made \subseteq Events!Listeners /\ Events!Listeners \subseteq Nat
           /\ MaxListeners \in Nat /\ MaxEmits \in Nat
           /\ 1..emitted \subseteq Events!Emits /\ 1..emitted \subseteq Nat
           /\ \A i \in 1..Len(stack) : stack[i] \in Frame
           /\ Len(stack) \in Nat
<1>1. MaxListeners \in Nat /\ MaxEmits \in Nat
    BY PageBounds
<1>2. stack \in Seq(Frame)
    BY DEF EvTypes
<1>3. \A i \in 1..Len(stack) : stack[i] \in Frame
    BY <1>2
<1>4. made \in Nat /\ made <= MaxListeners /\ emitted \in Nat /\ emitted <= MaxEmits
    BY DEF EvTypes
<1>5. 1..made \subseteq Events!Listeners /\ Events!Listeners \subseteq Nat
    BY <1>1, <1>4 DEF Events!Listeners
<1>6. 1..emitted \subseteq Events!Emits /\ 1..emitted \subseteq Nat
    BY <1>1, <1>4 DEF Events!Emits
<1> QED BY <1>1, <1>2, <1>3, <1>5, <1>6

\* At first nobody listens.
LEMMA EvInit == Events!Init => EvInv
<1> SUFFICES ASSUME Events!Init PROVE EvInv
    OBVIOUS
<1>1. /\ bucket = {} /\ made = 0 /\ single = {} /\ stack = <<>> /\ emitted = 0 /\ nested = FALSE
      /\ told = [l \in Events!Listeners |-> <<>>] /\ stayed = [n \in Events!Emits |-> {}]
    BY DEF Events!Init
<1>2. <<>> \in Seq(Frame) /\ <<>> \in Seq(Nat) /\ Len(<<>>) = 0
    OBVIOUS
<1>3. EvTypes
    <2>1. told \in [Events!Listeners -> Seq(Nat)]
        BY <1>1, <1>2
    <2>2. stayed \in [Events!Emits -> SUBSET Events!Listeners]
        BY <1>1
    <2>3. made \in Nat /\ made <= MaxListeners /\ emitted \in Nat /\ emitted <= MaxEmits
        BY <1>1, PageBounds
    <2>4. stack \in Seq(Frame) /\ nested \in BOOLEAN
        BY <1>1, <1>2
    <2>5. bucket \subseteq 1..made /\ single \subseteq 1..made
        BY <1>1
    <2> QED BY <2>1, <2>2, <2>3, <2>4, <2>5 DEF EvTypes
<1>4. EvFrames /\ EvStayed
    BY <1>1, <1>2 DEF EvFrames, EvStayed
<1>5. EvTold
    BY <1>1, <1>2 DEF EvTold, Members, Distinct
<1>6. EvOnce
    BY <1>1, <1>2 DEF EvOnce
<1> QED BY <1>3, <1>4, <1>5, <1>6 DEF EvInv

\* A listener is added: nothing was told to it, and no emission that runs holds it.
LEMMA EvAdded ==
    ASSUME EvInv, Events!On \/ Events!Once
    PROVE  EvInv'
<1>0. EvTypes /\ EvFrames /\ EvTold /\ EvStayed /\ EvOnce
    BY DEF EvInv
<1>1. PICK l : l = made + 1
    OBVIOUS
<1>2. /\ made < MaxListeners /\ made' = l /\ bucket' = bucket \cup {l}
      /\ single' = single \/ single' = single \cup {l}
      /\ UNCHANGED <<stack, emitted, told, stayed, nested>>
    BY <1>1 DEF Events!On, Events!Once, Events!Added
<1>3. made \in Nat /\ l \in Nat /\ l \notin 1..made /\ l <= MaxListeners
    BY <1>0, <1>1, <1>2, PageBounds DEF EvTypes
<1>4. 1..l = 1..made \cup {l}
    BY <1>1, <1>3
<1>5. l \notin bucket /\ l \notin single
    BY <1>0, <1>3 DEF EvTypes
<1>6. EvTypes'
    BY <1>0, <1>2, <1>3, <1>4 DEF EvTypes
<1>7. EvFrames'
    BY <1>0, <1>2, <1>4 DEF EvFrames
<1>8. EvTold' /\ EvStayed'
    BY <1>0, <1>2 DEF EvTold, EvStayed
<1>9. EvOnce'
    <2>1. \A i \in 1..Len(stack) : l \notin stack[i].rest
        BY <1>0, <1>3 DEF EvFrames
    <2>2. ASSUME NEW k \in Events!Listeners
          PROVE  /\ k \notin 1..l => told[k] = <<>>
                 /\ k \in single' /\ ~nested =>
                      /\ Len(told[k]) <= 1
                      /\ k \in bucket' \/ (\E i \in 1..Len(stack) : k \in stack[i].rest)
                           => told[k] = <<>>
        <3>1. CASE k = l
            <4>1. told[l] = <<>>
                BY <1>0, <1>3, <3>1 DEF EvOnce
            <4> QED BY <3>1, <4>1
        <3>2. CASE k # l
            BY <1>0, <1>2, <1>4, <3>2 DEF EvOnce
        <3> QED BY <3>1, <3>2
    <2> QED BY <1>0, <1>2, <2>2 DEF EvOnce
<1> QED BY <1>6, <1>7, <1>8, <1>9 DEF EvInv

\* Listeners are removed.
LEMMA EvRemoved ==
    ASSUME EvInv, bucket' \subseteq bucket, UNCHANGED <<made, single, stack, emitted, told, nested>>,
           stayed' \in [Events!Emits -> SUBSET Events!Listeners],
           \A n \in Events!Emits : stayed'[n] \subseteq stayed[n]
    PROVE  EvInv'
<1>0. EvTypes /\ EvFrames /\ EvTold /\ EvStayed /\ EvOnce
    BY DEF EvInv
<1>1. EvTypes'
    BY <1>0 DEF EvTypes
<1>2. EvFrames' /\ EvTold'
    BY <1>0 DEF EvFrames, EvTold
<1>3. EvStayed'
    BY <1>0 DEF EvStayed
<1>4. EvOnce'
    BY <1>0 DEF EvOnce
<1> QED BY <1>1, <1>2, <1>3, <1>4 DEF EvInv

\* emit() begins: the newest emission, for those that listen now.
LEMMA EvEmit ==
    ASSUME EvInv, Events!Emit
    PROVE  EvInv'
<1>0. EvTypes /\ EvFrames /\ EvTold /\ EvStayed /\ EvOnce
    BY DEF EvInv
<1>1. PICK n : n = emitted + 1
    OBVIOUS
<1> DEFINE frame == [n |-> n, rest |-> bucket]
<1>2. /\ emitted < MaxEmits /\ emitted' = n /\ stack' = Append(stack, frame)
      /\ stayed' = [stayed EXCEPT ![n] = bucket]
      /\ nested' = (nested \/ stack # <<>>) /\ UNCHANGED <<bucket, made, single, told>>
    BY <1>1 DEF Events!Emit
<1>3. /\ emitted \in Nat /\ n \in Nat /\ n <= MaxEmits /\ n \notin 1..emitted
      /\ \A m \in 1..emitted : m < n
    BY <1>0, <1>1, <1>2, PageBounds DEF EvTypes
<1>4. 1..n = 1..emitted \cup {n}
    BY <1>1, <1>3
<1>5. bucket \subseteq Events!Listeners /\ bucket \subseteq 1..made /\ n \in Events!Emits
    <2>1. bucket \subseteq 1..made
        BY <1>0 DEF EvTypes
    <2>2. 1..made \subseteq Events!Listeners
        BY <1>0, EvSets
    <2>3. n \in 1..MaxEmits
        BY <1>3, <1>4, PageBounds
    <2> QED BY <2>1, <2>2, <2>3 DEF Events!Emits
<1>6. frame \in Frame /\ frame.n = n /\ frame.rest = bucket
    BY <1>3, <1>5 DEF Frame
<1> HIDE DEF frame
<1>7. /\ stack' \in Seq(Frame) /\ Len(stack) \in Nat /\ Len(stack') = Len(stack) + 1
      /\ \A i \in 1..Len(stack) : i \in 1..Len(stack') /\ stack'[i] = stack[i]
      /\ Len(stack) + 1 \in 1..Len(stack') /\ stack'[Len(stack) + 1] = frame
      /\ \A i \in 1..Len(stack') : i \in 1..Len(stack) \/ i = Len(stack) + 1
      /\ \A i \in 1..Len(stack) : i \in Nat /\ i < Len(stack) + 1
    <2>1. stack \in Seq(Frame)
        BY <1>0 DEF EvTypes
    <2> QED BY <1>2, <1>6, <2>1, AppendAt
<1>8. EvTypes'
    <2>1. stayed' \in [Events!Emits -> SUBSET Events!Listeners]
        BY <1>0, <1>2, <1>5 DEF EvTypes
    <2>2. nested' \in BOOLEAN
        BY <1>2
    <2> QED BY <1>0, <1>2, <1>3, <1>7, <2>1, <2>2 DEF EvTypes
<1>9. EvFrames'
    <2>1. \A i \in 1..Len(stack) :
            stack[i].n \in 1..emitted /\ stack[i].rest \subseteq 1..made
        BY <1>0 DEF EvFrames
    <2>2. \A i \in 1..Len(stack') :
            stack'[i].n \in 1..n /\ stack'[i].rest \subseteq 1..made
        BY <1>4, <1>5, <1>6, <1>7, <2>1
    <2>3. ASSUME NEW i \in 1..Len(stack'), NEW j \in 1..Len(stack'), i < j
          PROVE  stack'[i].n < stack'[j].n
        <3>1. i \in 1..Len(stack)
            BY <1>7, <2>3
        <3>2. CASE j \in 1..Len(stack)
            BY <1>0, <1>7, <2>3, <3>1, <3>2 DEF EvFrames
        <3>3. CASE j = Len(stack) + 1
            <4>1. stack'[i].n \in 1..emitted /\ stack'[j].n = n
                BY <1>6, <1>7, <2>1, <3>1, <3>3
            <4> QED BY <1>3, <4>1
        <3> QED BY <1>7, <3>2, <3>3
    <2> QED BY <1>2, <2>2, <2>3 DEF EvFrames
<1>10. EvTold'
    <2> SUFFICES ASSUME NEW l \in Events!Listeners
                 PROVE  /\ Distinct(told[l])
                        /\ Members(told[l]) \subseteq 1..n
                        /\ \A i \in 1..Len(stack') :
                             l \in stack'[i].rest => stack'[i].n \notin Members(told[l])
        BY <1>2 DEF EvTold
    <2>1. /\ Distinct(told[l])
          /\ Members(told[l]) \subseteq 1..emitted
          /\ \A i \in 1..Len(stack) : l \in stack[i].rest => stack[i].n \notin Members(told[l])
        BY <1>0 DEF EvTold
    <2>2. Members(told[l]) \subseteq 1..n /\ n \notin Members(told[l])
        BY <1>3, <1>4, <2>1
    <2>3. \A i \in 1..Len(stack') :
            l \in stack'[i].rest => stack'[i].n \notin Members(told[l])
        BY <1>6, <1>7, <2>1, <2>2
    <2> QED BY <2>1, <2>2, <2>3
<1>11. EvStayed'
    <2> SUFFICES ASSUME NEW m \in Events!Emits, NEW l \in stayed'[m]
                 PROVE  m \in Members(told[l]) \/ \E i \in 1..Len(stack') :
                          stack'[i].n = m /\ l \in stack'[i].rest
        BY <1>2 DEF EvStayed
    <2>1. CASE m = n
        <3>1. l \in bucket
            BY <1>0, <1>2, <1>5, <2>1 DEF EvTypes
        <3> QED BY <1>6, <1>7, <2>1, <3>1
    <2>2. CASE m # n
        <3>1. l \in stayed[m]
            BY <1>0, <1>2, <2>2 DEF EvTypes
        <3>2. m \in Members(told[l]) \/ \E i \in 1..Len(stack) : stack[i].n = m /\ l \in stack[i].rest
            BY <1>0, <3>1 DEF EvStayed
        <3> QED BY <1>7, <3>2
    <2> QED BY <2>1, <2>2
<1>12. EvOnce'
    <2>1. CASE nested'
        BY <1>0, <1>2, <2>1 DEF EvOnce
    <2>2. CASE ~nested'
        <3>1. ~nested /\ stack = <<>>
            BY <1>2, <2>2
        <3>2. Len(stack) = 0 /\ Len(stack') = 1
            BY <1>7, <3>1
        <3>3. \A i \in 1..Len(stack') : stack'[i].rest = bucket
            BY <1>6, <1>7, <3>2
        <3> QED BY <1>0, <1>2, <3>1, <3>2, <3>3 DEF EvOnce
    <2> QED BY <2>1, <2>2
<1> QED BY <1>8, <1>9, <1>10, <1>11, <1>12 DEF EvInv

\* The listener that is called is told of an emission it was not told of; it is no longer
\* in the emission's rest.
LEMMA EvCalls ==
    ASSUME EvInv, Events!Calls
    PROVE  EvInv'
<1>0. EvTypes /\ EvFrames /\ EvTold /\ EvStayed /\ EvOnce
    BY DEF EvInv
<1> DEFINE z == Len(stack)
           frame == stack[z]
           n == frame.n
           l == Events!First(frame.rest)
           less == [frame EXCEPT !.rest = @ \ {l}]
<1>1. stack \in Seq(Frame) /\ stack # <<>>
    BY <1>0 DEF EvTypes, Events!Calls
<1>2. z \in 1..z /\ z \in Nat /\ Events!Last(stack) = frame /\ frame \in Frame
    BY <1>1, FrontAt
<1>3. /\ frame.rest # {} /\ stack' = [stack EXCEPT ![z] = less]
      /\ told' = [told EXCEPT ![l] = Append(told[l], n)]
      /\ Events!FirstCall(l) /\ UNCHANGED <<made, single, emitted, nested>>
    <2>1. Events!Last(stack).rest # {} /\ UNCHANGED <<made, single, emitted, nested>>
        BY DEF Events!Calls
    <2>2. stack' = [stack EXCEPT ![Len(stack)].rest = @ \ {Events!First(Events!Last(stack).rest)}]
        BY DEF Events!Calls
    <2>3. /\ told' = [told EXCEPT ![Events!First(Events!Last(stack).rest)] = Append(@, Events!Last(stack).n)]
          /\ Events!FirstCall(Events!First(Events!Last(stack).rest))
        BY DEF Events!Calls
    <2> QED BY <1>2, <2>1, <2>2, <2>3
<1>4. n \in 1..emitted /\ frame.rest \subseteq 1..made
    BY <1>0, <1>2 DEF EvFrames
<1>5. l \in frame.rest /\ l \in Events!Listeners
    <2>1. frame.rest \subseteq Events!Listeners /\ Events!Listeners \subseteq Nat
        BY <1>0, <1>4, EvSets
    <2>2. \E x \in frame.rest : \A y \in frame.rest : x <= y
        BY <1>3, <2>1, Least
    <2> QED BY <2>1, <2>2 DEF Events!First
<1>6. less \in Frame /\ less.n = n /\ less.rest = frame.rest \ {l}
    BY <1>2 DEF Frame
<1> HIDE DEF frame, n, l, less
<1>7. /\ stack' \in Seq(Frame) /\ Len(stack') = z /\ stack'[z] = less
      /\ \A i \in 1..z : i # z => stack'[i] = stack[i]
    BY <1>1, <1>3, <1>6, LastExcept
<1> HIDE DEF z
<1>8. \A i \in 1..z : stack'[i].n = stack[i].n /\ stack'[i].rest \subseteq stack[i].rest
    BY <1>6, <1>7 DEF frame, n
<1>9. n \in Nat /\ told[l] \in Seq(Nat)
    BY <1>0, <1>4, <1>5, EvSets DEF EvTypes
<1>10. \A k \in Events!Listeners :
         /\ Distinct(told[k])
         /\ Members(told[k]) \subseteq 1..emitted
         /\ \A i \in 1..z : k \in stack[i].rest => stack[i].n \notin Members(told[k])
    BY <1>0 DEF EvTold, z
<1>11. n \notin Members(told[l])
    BY <1>2, <1>5, <1>10 DEF frame, n
<1>12. /\ told'[l] \in Seq(Nat) /\ Len(told'[l]) = Len(told[l]) + 1
       /\ Distinct(told'[l])
       /\ Members(told'[l]) = Members(told[l]) \cup {n}
       /\ \A k \in Events!Listeners : k # l => told'[k] = told[k]
    <2>1. told'[l] = Append(told[l], n) /\ \A k \in Events!Listeners : k # l => told'[k] = told[k]
        BY <1>0, <1>3, <1>5 DEF EvTypes
    <2>2. Distinct(told[l])
        BY <1>5, <1>10
    <2>3. /\ Append(told[l], n) \in Seq(Nat) /\ Len(Append(told[l], n)) = Len(told[l]) + 1
          /\ Distinct(Append(told[l], n))
          /\ Members(Append(told[l], n)) = Members(told[l]) \cup {n}
        BY <1>9, <1>11, <2>2, DistinctAppend
    <2> QED BY <2>1, <2>3
<1>13. /\ bucket' \subseteq bucket /\ (l \in single => l \notin bucket')
       /\ stayed' \in [Events!Emits -> SUBSET Events!Listeners]
       /\ \A m \in Events!Emits : stayed'[m] \subseteq stayed[m]
    <2>1. stayed \in [Events!Emits -> SUBSET Events!Listeners]
        BY <1>0 DEF EvTypes
    <2>2. CASE l \in single
        <3>1. bucket' = bucket \ {l} /\ stayed' = [m \in Events!Emits |-> stayed[m] \ {l}]
            BY <1>3, <2>2 DEF Events!FirstCall, Events!Removed
        <3> QED BY <2>1, <3>1
    <2>3. CASE l \notin single
        BY <1>3, <2>1, <2>3 DEF Events!FirstCall
    <2> QED BY <2>2, <2>3
<1>14. EvTypes'
    <2>1. told' \in [Events!Listeners -> Seq(Nat)]
        BY <1>0, <1>3, <1>12 DEF EvTypes
    <2>2. bucket' \subseteq 1..made
        BY <1>0, <1>13 DEF EvTypes
    <2> QED BY <1>0, <1>3, <1>7, <1>13, <2>1, <2>2 DEF EvTypes
<1>15. EvFrames'
    <2>1. \A i \in 1..z : stack[i].n \in 1..emitted /\ stack[i].rest \subseteq 1..made
        BY <1>0 DEF EvFrames, z
    <2>2. \A i, j \in 1..z : i < j => stack[i].n < stack[j].n
        BY <1>0 DEF EvFrames, z
    <2>3. \A i \in 1..z : stack'[i].n \in 1..emitted /\ stack'[i].rest \subseteq 1..made
        BY <1>8, <2>1
    <2>4. \A i, j \in 1..z : i < j => stack'[i].n < stack'[j].n
        BY <1>8, <2>2
    <2> QED BY <1>3, <1>7, <2>3, <2>4 DEF EvFrames
<1>16. EvTold'
    <2> SUFFICES ASSUME NEW k \in Events!Listeners
                 PROVE  /\ Distinct(told'[k])
                        /\ Members(told'[k]) \subseteq 1..emitted
                        /\ \A i \in 1..z : k \in stack'[i].rest => stack'[i].n \notin Members(told'[k])
        BY <1>3, <1>7 DEF EvTold
    <2>1. CASE k # l
        BY <1>8, <1>10, <1>12, <2>1
    <2>2. CASE k = l
        <3>1. ASSUME NEW i \in 1..z, l \in stack'[i].rest PROVE stack'[i].n \notin Members(told'[l])
            <4>1. i # z
                BY <1>6, <1>7, <3>1
            <4>2. stack[i].n \notin Members(told[l])
                BY <1>5, <1>8, <1>10, <3>1
            <4>3. stack[i].n # n
                <5>1. i < z
                    BY <1>2, <4>1
                <5>2. stack[i].n < stack[z].n
                    BY <1>0, <1>2, <5>1 DEF EvFrames, z
                <5>3. stack[i].n \in Nat /\ stack[z].n = n
                    BY <1>0, EvSets DEF EvFrames, frame, n, z
                <5> QED BY <1>9, <5>2, <5>3
            <4> QED BY <1>8, <1>12, <4>2, <4>3
        <3>2. Members(told'[l]) \subseteq 1..emitted
            BY <1>4, <1>5, <1>10, <1>12
        <3> QED BY <1>12, <2>2, <3>1, <3>2
    <2> QED BY <2>1, <2>2
<1>17. EvStayed'
    <2> SUFFICES ASSUME NEW m \in Events!Emits, NEW k \in stayed'[m]
                 PROVE  m \in Members(told'[k]) \/ \E i \in 1..z : stack'[i].n = m /\ k \in stack'[i].rest
        BY <1>7 DEF EvStayed
    <2>1. k \in stayed[m] /\ k \in Events!Listeners
        BY <1>13
    <2>2. m \in Members(told[k]) \/ \E i \in 1..z : stack[i].n = m /\ k \in stack[i].rest
        BY <1>0, <2>1 DEF EvStayed, z
    <2>3. CASE m \in Members(told[k])
        BY <1>12, <2>1, <2>3
    <2>4. CASE m \notin Members(told[k])
        <3>1. PICK i \in 1..z : stack[i].n = m /\ k \in stack[i].rest
            BY <2>2, <2>4
        <3>2. CASE i = z /\ k = l
            BY <1>12, <3>1, <3>2 DEF frame, n
        <3>3. CASE ~(i = z /\ k = l)
            <4>1. stack'[i].n = m /\ k \in stack'[i].rest
                BY <1>6, <1>7, <1>8, <3>1, <3>3 DEF frame
            <4> QED BY <4>1
        <3> QED BY <3>2, <3>3
    <2> QED BY <2>3, <2>4
<1>18. EvOnce'
    <2>0. \A k \in Events!Listeners :
            /\ k \notin 1..made => told[k] = <<>>
            /\ k \in single /\ ~nested =>
                 /\ Len(told[k]) <= 1
                 /\ k \in bucket \/ (\E i \in 1..z : k \in stack[i].rest) => told[k] = <<>>
        BY <1>0 DEF EvOnce, z
    <2>1. ~nested => z <= 1
        BY <1>0 DEF EvOnce, z
    <2> SUFFICES ASSUME NEW k \in Events!Listeners
                 PROVE  /\ k \notin 1..made => told'[k] = <<>>
                        /\ k \in single /\ ~nested =>
                             /\ Len(told'[k]) <= 1
                             /\ k \in bucket' \/ (\E i \in 1..z : k \in stack'[i].rest)
                                  => told'[k] = <<>>
        BY <1>3, <1>7, <2>1 DEF EvOnce
    <2>2. CASE k # l
        BY <1>8, <1>12, <1>13, <2>0, <2>2
    <2>3. CASE k = l
        <3>1. l \in 1..made
            BY <1>4, <1>5
        <3>2. ASSUME l \in single, ~nested
              PROVE  /\ Len(told'[l]) <= 1 /\ l \notin bucket'
                     /\ \A i \in 1..z : l \notin stack'[i].rest
            <4>1. told[l] = <<>>
                BY <1>2, <1>5, <2>0, <3>2 DEF frame
            <4>2. Len(told[l]) = 0
                BY <4>1
            <4>3. z = 1
                BY <1>2, <2>1, <3>2
            <4>4. \A i \in 1..z : i = z
                BY <4>3
            <4>5. Len(told'[l]) = 1
                BY <1>12, <4>2
            <4> QED BY <1>6, <1>7, <1>13, <3>2, <4>4, <4>5
        <3> QED BY <2>3, <3>1, <3>2
    <2> QED BY <2>2, <2>3
<1> QED BY <1>14, <1>15, <1>16, <1>17, <1>18 DEF EvInv

\* emit() returns when it has told everyone it held.
LEMMA EvReturns ==
    ASSUME EvInv, Events!Returns
    PROVE  EvInv'
<1>0. EvTypes /\ EvFrames /\ EvTold /\ EvStayed /\ EvOnce
    BY DEF EvInv
<1>1. stack \in Seq(Frame) /\ stack # <<>>
    BY <1>0 DEF EvTypes, Events!Returns
<1>2. /\ stack' = Events!Front(stack) /\ Events!Last(stack).rest = {}
      /\ UNCHANGED <<bucket, made, single, emitted, told, stayed, nested>>
    BY DEF Events!Returns
<1>3. /\ stack' \in Seq(Frame) /\ Len(stack) \in Nat \ {0} /\ stack[Len(stack)].rest = {}
      /\ Len(stack') = Len(stack) - 1
      /\ \A i \in 1..Len(stack') : i \in 1..Len(stack) /\ stack'[i] = stack[i]
      /\ \A i \in 1..Len(stack) : i = Len(stack) \/ i \in 1..Len(stack')
    BY <1>1, <1>2, FrontAt
<1>4. EvTypes'
    BY <1>0, <1>2, <1>3 DEF EvTypes
<1>5. EvFrames'
    BY <1>0, <1>2, <1>3 DEF EvFrames
<1>6. EvTold'
    BY <1>0, <1>2, <1>3 DEF EvTold
<1>7. EvStayed'
    BY <1>0, <1>2, <1>3 DEF EvStayed
<1>8. EvOnce'
    <2>1. ~nested => Len(stack') <= 1
        BY <1>0, <1>3 DEF EvOnce
    <2> QED BY <1>0, <1>2, <1>3, <2>1 DEF EvOnce
<1> QED BY <1>4, <1>5, <1>6, <1>7, <1>8 DEF EvInv

\* Every step of the page keeps the invariant of the emitter.
LEMMA EvStep ==
    ASSUME part = "events", EvInv, [Next]_pageVars
    PROVE  EvInv'
<1>0. EvTypes /\ EvFrames /\ EvTold /\ EvStayed /\ EvOnce
    BY DEF EvInv
<1>1. CASE UNCHANGED pageVars
    <2>1. UNCHANGED <<bucket, made, single, stack, emitted, told, stayed, nested>>
        BY <1>1 DEF pageVars, Events!vars
    <2>2. EvTypes'
        BY <1>0, <2>1 DEF EvTypes
    <2>3. EvFrames' /\ EvTold'
        BY <1>0, <2>1 DEF EvFrames, EvTold
    <2>4. EvStayed'
        BY <1>0, <2>1 DEF EvStayed
    <2>5. EvOnce'
        BY <1>0, <2>1 DEF EvOnce
    <2> QED BY <2>2, <2>3, <2>4, <2>5 DEF EvInv
<1>2. CASE Next
    <2>1. Events!Next
        BY <1>2 DEF Next
    <2>2. stayed \in [Events!Emits -> SUBSET Events!Listeners]
        BY <1>0 DEF EvTypes
    <2>3. CASE Events!RemoveAllListeners
        <3>1. /\ bucket' = {} /\ stayed' = [n \in Events!Emits |-> {}]
              /\ UNCHANGED <<made, single, stack, emitted, told, nested>>
            BY <2>3 DEF Events!RemoveAllListeners
        <3>2. /\ stayed' \in [Events!Emits -> SUBSET Events!Listeners]
              /\ \A n \in Events!Emits : stayed'[n] \subseteq stayed[n]
            BY <3>1
        <3> QED BY <3>1, <3>2, EvRemoved
    <2>4. ASSUME NEW l \in Events!Listeners, Events!Off(l) PROVE EvInv'
        <3>1. /\ bucket' = bucket \ {l} /\ stayed' = [n \in Events!Emits |-> stayed[n] \ {l}]
              /\ UNCHANGED <<made, single, stack, emitted, told, nested>>
            BY <2>4 DEF Events!Off, Events!Removed
        <3>2. /\ stayed' \in [Events!Emits -> SUBSET Events!Listeners]
              /\ \A n \in Events!Emits : stayed'[n] \subseteq stayed[n]
            BY <2>2, <3>1
        <3> QED BY <3>1, <3>2, EvRemoved
    <2> QED BY <2>1, <2>3, <2>4, EvAdded, EvEmit, EvCalls, EvReturns DEF Events!Next
<1> QED BY <1>1, <1>2

\* The invariant says what the runs check.
LEMMA EvSays == EvInv => Events!ToldOnce
<1> SUFFICES ASSUME EvInv, NEW l \in Events!Listeners
             PROVE  /\ Events!IsInjective(told[l])
                    /\ \A n \in 1..emitted : n \notin Events!Running /\ l \in stayed[n]
                         => n \in Events!ToSet(told[l])
                    /\ l \in single /\ ~nested => Len(told[l]) <= 1
    BY DEF Events!ToldOnce
<1>0. EvTypes /\ EvFrames /\ EvTold /\ EvStayed /\ EvOnce
    BY DEF EvInv
<1>1. told[l] \in Seq(Nat) /\ stack \in Seq(Frame)
    BY <1>0 DEF EvTypes
<1>2. DOMAIN told[l] = 1..Len(told[l]) /\ DOMAIN stack = 1..Len(stack)
    BY <1>1
<1>3. Events!IsInjective(told[l])
    BY <1>0, <1>2 DEF EvTold, Distinct, Events!IsInjective
<1>4. Events!ToSet(told[l]) = Members(told[l])
    BY <1>2 DEF Events!ToSet, Members
<1>5. ASSUME NEW n \in 1..emitted, n \notin Events!Running, l \in stayed[n]
      PROVE  n \in Members(told[l])
    <2>1. n \in Events!Emits
        BY <1>0, EvSets
    <2>2. \A i \in 1..Len(stack) : stack[i].n # n
        BY <1>2, <1>5 DEF Events!Running
    <2> QED BY <1>0, <1>5, <2>1, <2>2 DEF EvStayed
<1>6. l \in single /\ ~nested => Len(told[l]) <= 1
    BY <1>0 DEF EvOnce
<1> QED BY <1>3, <1>4, <1>5, <1>6

-----------------------------------------------------------------------------
(***************************************************************************)
(* The page.                                                               *)
(***************************************************************************)

\* The chosen part keeps its invariant.
PageInv ==
    /\ part = "host"   => HostInv
    /\ part = "media"  => MediaInv
    /\ part = "sfu"    => SfuInv
    /\ part = "record" => RecInv
    /\ part = "views"  => ViewsInv
    /\ part = "lists"  => ListsInv
    /\ part = "out"    => OutInv
    /\ part = "events" => EvInv
    /\ part = "broadcasts" => BcInv

\* The chosen part begins in its initial states.
LEMMA PageInit == Init => PageInv
<1> SUFFICES ASSUME Init PROVE PageInv
    OBVIOUS
<1>1. \/ part = "host"   /\ Host!Init
      \/ part = "media"  /\ Media!Init
      \/ part = "sfu"    /\ Sfu!Init
      \/ part = "record" /\ Record!Init
      \/ part = "views"  /\ Views!Init
      \/ part = "lists"  /\ Lists!Init
      \/ part = "out"    /\ Out!Init
      \/ part = "events" /\ Events!Init
      \/ part = "broadcasts" /\ Broadcasts!Init
    BY DEF Init
<1> QED BY <1>1, HostInit, MediaInit, SfuInit, RecInit, ViewsInit, ListsInit, OutInit, EvInit, BcInit
        DEF PageInv

\* The part stays the same, and no other takes a step.
LEMMA PageStep ==
    ASSUME PageInv, [Next]_pageVars
    PROVE  PageInv'
<1>1. part' = part
    BY DEF Next, pageVars
<1>2. /\ part = "host"   => HostInv'
      /\ part = "media"  => MediaInv'
      /\ part = "sfu"    => SfuInv'
      /\ part = "record" => RecInv'
      /\ part = "views"  => ViewsInv'
    BY HostStep, MediaStep, SfuStep, RecStep, ViewsStep DEF PageInv
<1>3. /\ part = "lists"  => ListsInv'
      /\ part = "out"    => OutInv'
      /\ part = "events" => EvInv'
      /\ part = "broadcasts" => BcInv'
    BY ListsStep, OutStep, EvStep, BcStep DEF PageInv
<1> QED BY <1>1, <1>2, <1>3 DEF PageInv

\* In every state the chosen part's invariant holds.
LEMMA PageAlways == Spec => []PageInv
<1> QED BY PageInit, PageStep, PTL DEF Spec

\* What a part's invariant says of the properties.
LEMMA PageSays ==
    ASSUME PageInv
    PROVE  RenderedIsTrue /\ NothingLeftBehind /\ TracksAreCurrent /\ DeliveredOnce
<1>1. RenderedIsTrue
    BY HostSays, MediaSays, RecSays, ViewsSays, ListsSays DEF PageInv, SfuInv, RenderedIsTrue
<1>2. NothingLeftBehind
    BY HostSays, MediaSays, RecSays DEF PageInv, SfuInv, SfuRooms, NothingLeftBehind
<1>3. TracksAreCurrent
    BY SfuSays, OutSays DEF PageInv, TracksAreCurrent
<1>4. DeliveredOnce
    BY RecSays, EvSays, BcSays DEF PageInv, DeliveredOnce
<1> QED BY <1>1, <1>2, <1>3, <1>4

\* A hook's or an element's state is always that of the object it holds, "granted" comes with
\* a stream, an SFU viewer's stream is its publisher's, a view of presence and chat is that of
\* the present channel, and what is picked stays picked; unless answers overtook each other or
\* a user toggled in haste, the devices listed are there and toggles alternate.
THEOREM Page_Rendered == Spec => []RenderedIsTrue
<1> QED BY PageAlways, PageSays, PTL

\* A component that unmounts or an object that stops leaves no member of the room, no live
\* track, no SFU room and no running MediaRecorder, in whichever order its promises settle;
\* the states excepted are those that a lost race has already spoiled (raced, early, failed).
THEOREM Page_NothingLeft == Spec => []NothingLeftBehind
<1> QED BY PageAlways, PageSays, PTL

\* Viewers come and go while tracks are replaced: once the replacements have settled, each
\* sender sends what was replaced last, unless one of them was rejected (broken); and unless
\* two overlapped, the SFU publishes no track but the current one.
THEOREM Page_Tracks == Spec => []TracksAreCurrent
<1> QED BY PageAlways, PageSays, PTL

\* No chunk is uploaded twice, no emission is missed by or told twice to a listener that
\* stayed subscribed, nested emissions included, and a broadcast reaches each other client
\* once, in order.
THEOREM Page_Delivered == Spec => []DeliveredOnce
<1> QED BY PageAlways, PageSays, PTL

\* Each presence diff a component computes leads from the snapshot it showed to the next.
THEOREM Page_Diffs == Spec => DiffsPatch
<1>1. ASSUME PageInv, PageInv', [Next]_pageVars
      PROVE  [part = "views" => Views!DiffPatches]_pageVars
    <2>1. part' = part
        BY <1>1 DEF Next, pageVars
    <2> QED BY <1>1, <2>1, ViewsDiffs DEF PageInv
<1> QED BY <1>1, PageAlways, PTL DEF Spec, DiffsPatch
=============================================================================

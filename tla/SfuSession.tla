----------------------------- MODULE SfuSession -----------------------------
(***************************************************************************)
(* SfuPublisher and SfuViewer of sfu-livekit over LiveKit's Room, and the  *)
(* hooks of React and Vue that own one.  A step is what runs between two   *)
(* awaits.                                                                 *)
(*                                                                         *)
(* Of LiveKit's Room (external): connect(), publishTrack() and             *)
(* unpublishTrack() resolve or reject, and reject once the room is         *)
(* disconnected; disconnecting unsubscribes every track and then raises    *)
(* "Disconnected", whoever asked for it.                                   *)
(***************************************************************************)
EXTENDS Naturals, Sequences

CONSTANTS
    MaxCalls,           \* bound: replaceVideoTrack() and replaceAudioTrack() called
    MaxTracks,          \* bound: tracks subscribed and unsubscribed by the room
    MaxStream           \* bound: tracks of the stream a publisher is given

Kinds == {"video", "audio"}
Calls == 1..MaxCalls
Peers == {"publisher", "other"}

VARIABLES
    opts,               \* environment: [kind, host]
    mounted,            \* the hook: "no", "yes", "gone"
    state,              \* currentState
    at,                 \* where start() is suspended
    room,               \* `room`: "none", "connecting", "connected", "disconnected"
    leaving,            \* stop() awaits disconnect()
    left,               \* the tracks of the stream that start() still has to publish
    published,          \* LiveKit: this participant's publications, <<kind, number>>
    forgotten,          \* history: those that start() kept a later one of the kind for
    current,            \* currentVideoTrack, currentAudioTrack; 0 is null
    call,               \* the replacements: [kind, at, old]
    subscribed,         \* LiveKit: the tracks this viewer is subscribed to
    stream,             \* currentStream
    tracks,             \* bound
    early,              \* history: stop() came before the room was made
    failed,             \* history: a publishTrack() of start() was rejected
    overlapped          \* history: a replacement began during another, or during start()

pubVars == <<published, forgotten, current, call, left>>
subVars == <<subscribed, stream, tracks>>
history == <<early, failed, overlapped>>
vars == <<opts, mounted, state, at, room, leaving, pubVars, subVars, history>>

\* The tracks of the stream a publisher is given.
Streams == UNION {[1..n -> Kinds] : n \in 0..MaxStream}

NoCall == [kind |-> "video", at |-> "idle", old |-> 0]

Init ==
    /\ opts \in [kind : {"publisher", "viewer"}, host : {"react", "vue"}]
    /\ mounted = "no" /\ state = "idle" /\ at = "none" /\ room = "none" /\ leaving = FALSE
    /\ left = <<>> /\ published = {} /\ current = [k \in Kinds |-> 0]
    /\ call = [c \in Calls |-> NoCall]
    /\ subscribed = {} /\ stream = {} /\ tracks = 0
    /\ early = FALSE /\ failed = FALSE /\ overlapped = FALSE /\ forgotten = {}

Publisher == opts.kind = "publisher"

-----------------------------------------------------------------------------
\* start()

Start ==
    /\ state = "idle" /\ state' = "connecting" /\ at' = "opening"

\* The LiveKit client is loaded: make the room, listen, connect; stopped or not.
RoomMade ==
    /\ at = "opening" /\ at' = "connecting" /\ room' = "connecting"
    /\ UNCHANGED <<opts, mounted, state, leaving, pubVars, subVars, history>>

\* start() goes on with the tracks ts, or is at its end.
Goes(ts) ==
    IF ts = <<>> THEN at' = "none" /\ state' = "connected"
    ELSE at' = "publishing" /\ UNCHANGED state

PublisherConnected ==
    /\ Publisher /\ at = "connecting" /\ room = "connecting"
    /\ room' = "connected" /\ left' \in Streams
    /\ Goes(left')
    /\ UNCHANGED <<opts, mounted, leaving, published, forgotten, current, call, subVars, history>>

ViewerConnected ==
    /\ ~Publisher /\ at = "connecting" /\ room = "connecting"
    /\ room' = "connected" /\ at' = "none" /\ state' = "connected"
    /\ UNCHANGED <<opts, mounted, leaving, pubVars, subVars, history>>

\* The loop over the stream's tracks; start() numbers its publications above the calls.
\* The last one of a kind is kept.
TrackPublished ==
    LET k == Head(left)
        n == MaxCalls + Len(left) IN
    /\ at = "publishing" /\ room = "connected"
    /\ published' = published \cup {<<k, n>>}
    /\ current' = [current EXCEPT ![k] = n]
    /\ forgotten' = forgotten \cup ({<<k, current[k]>>} \cap published)
    /\ left' = Tail(left) /\ Goes(Tail(left))
    /\ UNCHANGED <<opts, mounted, room, leaving, call, subVars, history>>

\* The catch of start(): the client is not loaded, the room refuses, or a publication does;
\* a room that is connected stays so.
StartFails ==
    /\ at \in {"opening", "connecting", "publishing"} /\ at' = "none" /\ state' = "closed"
    /\ room' = IF at = "connecting" THEN "disconnected" ELSE room
    /\ failed' = (failed \/ (at = "publishing" /\ room = "connected"))
    /\ left' = <<>>
    /\ UNCHANGED <<opts, mounted, leaving, published, forgotten, current, call, subVars, early,
                   overlapped>>

-----------------------------------------------------------------------------
\* stop() and the end of the room.

StopDuringConnect == state # "closed" /\ room \notin {"none", "connecting"}
                                    \* bug: stop() leaves a room that is connecting alone
HasRoom == state # "closed" /\ room # "none"

Stop ==
    /\ leaving' = (leaving \/ HasRoom)
    /\ state' = IF HasRoom THEN state ELSE "closed"
    /\ early' = (early \/ (at = "opening" /\ state # "closed"))

LostUnheard(s) == s                 \* bug: "Disconnected" is not listened to
Lost(s) == "closed"

\* The tracks go, then "Disconnected" is raised.
Ends ==
    /\ room' = "disconnected"
    /\ published' = {} /\ forgotten' = {} /\ subscribed' = {} /\ stream' = stream \ subscribed

PublisherRoomEnds ==
    /\ Publisher /\ room = "connected" /\ Ends /\ state' = Lost(state)
    /\ UNCHANGED <<opts, mounted, at, leaving, left, current, call, tracks, history>>

ViewerRoomEnds ==
    /\ ~Publisher /\ room = "connected" /\ Ends /\ state' = Lost(state)
    /\ UNCHANGED <<opts, mounted, at, leaving, left, current, call, tracks, history>>

\* disconnect() has resolved; a viewer also drops its stream.
Stopped ==
    /\ Publisher /\ leaving /\ leaving' = FALSE
    /\ Ends /\ state' = "closed"
    /\ UNCHANGED <<opts, mounted, at, left, current, call, tracks, history>>

StreamDropped ==
    /\ ~Publisher /\ leaving /\ leaving' = FALSE
    /\ room' = "disconnected" /\ state' = "closed"
    /\ subscribed' = {} /\ stream' = {}
    /\ UNCHANGED <<opts, mounted, at, pubVars, tracks, history>>

-----------------------------------------------------------------------------
\* replaceVideoTrack(), replaceAudioTrack().

Busy(k) == at = "publishing" \/ \E c \in Calls : call[c].kind = k /\ call[c].at # "idle"

\* A call takes the least number that nothing of its kind has.  Bound: one call overlaps.
Free(c, k) == call[c].at = "idle" /\ <<k, c>> \notin published /\ current[k] # c

Replace(c, k) ==
    /\ Publisher /\ mounted = "yes" /\ room # "none"
    /\ (overlapped => ~Busy(k) /\ at = "none")
    /\ Free(c, k) /\ \A d \in 1..(c - 1) : ~Free(d, k)
    /\ call' = [call EXCEPT ![c] = [kind |-> k, old |-> current[k],
                  at |-> IF current[k] = 0 THEN "publishing" ELSE "unpublishing"]]
    /\ overlapped' = (overlapped \/ Busy(k) \/ at # "none")
    /\ UNCHANGED <<opts, mounted, state, at, room, leaving, published, current, left,
                   forgotten, subVars, early, failed>>

Unpublished(c) ==
    /\ call[c].at = "unpublishing" /\ room = "connected"
    /\ published' = published \ {<<call[c].kind, call[c].old>>}
    /\ call' = [call EXCEPT ![c].at = "publishing", ![c].old = 0]
    /\ UNCHANGED <<opts, mounted, state, at, room, leaving, forgotten, current, left, subVars,
                   history>>

NotRecorded(c) == current[call[c].kind]     \* bug: the new publication is not kept
Recorded(c) == c

Replaced(c) ==
    /\ call[c].at = "publishing" /\ room = "connected"
    /\ published' = published \cup {<<call[c].kind, c>>}
    /\ current' = [current EXCEPT ![call[c].kind] = Recorded(c)]
    /\ call' = [call EXCEPT ![c] = NoCall]
    /\ UNCHANGED <<opts, mounted, state, at, room, leaving, forgotten, left, subVars, history>>

ReplaceFails(c) ==
    /\ call[c].at # "idle" /\ call' = [call EXCEPT ![c] = NoCall]
    /\ UNCHANGED <<opts, mounted, state, at, room, leaving, published, forgotten, current, left,
                   subVars, history>>

-----------------------------------------------------------------------------
\* The viewer's tracks.

AnyPeer(p) == TRUE                  \* bug: everybody's tracks are taken
Wanted(p) == p = "publisher"

TrackSubscribed(p, k) ==
    /\ ~Publisher /\ room = "connected" /\ tracks < MaxTracks /\ tracks' = tracks + 1
    /\ <<p, k>> \notin subscribed /\ subscribed' = subscribed \cup {<<p, k>>}
    /\ stream' = IF Wanted(p) THEN stream \cup {<<p, k>>} ELSE stream
    /\ UNCHANGED <<opts, mounted, state, at, room, leaving, pubVars, history>>

TrackUnsubscribed(p, k) ==
    /\ ~Publisher /\ room = "connected"
    /\ <<p, k>> \in subscribed /\ subscribed' = subscribed \ {<<p, k>>}
    /\ stream' = IF p = "publisher" THEN stream \ {<<p, k>>} ELSE stream
    /\ UNCHANGED <<opts, mounted, state, at, room, leaving, pubVars, tracks, history>>

-----------------------------------------------------------------------------
\* The hooks.

Is(host, kind) == opts.host = host /\ opts.kind = kind

Mounts ==
    /\ mounted = "no" /\ mounted' = "yes"
    /\ Start \/ UNCHANGED <<state, at>>     \* autoStart or not
    /\ UNCHANGED <<opts, room, leaving, pubVars, subVars, history>>

Unmounts ==
    /\ mounted = "yes" /\ mounted' = "gone" /\ Stop
    /\ UNCHANGED <<opts, at, room, pubVars, subVars, failed, overlapped>>

ReactPublisherMounts   == Is("react", "publisher") /\ Mounts
ReactPublisherUnmounts == Is("react", "publisher") /\ Unmounts
VuePublisherMounts     == Is("vue", "publisher") /\ Mounts
VuePublisherUnmounts   == Is("vue", "publisher") /\ Unmounts
ReactViewerMounts      == Is("react", "viewer") /\ Mounts
ReactViewerUnmounts    == Is("react", "viewer") /\ Unmounts
VueViewerMounts        == Is("vue", "viewer") /\ Mounts
VueViewerUnmounts      == Is("vue", "viewer") /\ Unmounts

UserStarts ==
    /\ mounted = "yes" /\ Start
    /\ UNCHANGED <<opts, mounted, room, leaving, pubVars, subVars, history>>

UserStops ==
    /\ mounted = "yes" /\ ~leaving /\ state # "closed" /\ Stop
    /\ UNCHANGED <<opts, mounted, at, room, pubVars, subVars, failed, overlapped>>

Next ==
    \/ ReactPublisherMounts \/ ReactPublisherUnmounts \/ VuePublisherMounts \/ VuePublisherUnmounts
    \/ ReactViewerMounts \/ ReactViewerUnmounts \/ VueViewerMounts \/ VueViewerUnmounts
    \/ UserStarts \/ UserStops
    \/ RoomMade \/ PublisherConnected \/ ViewerConnected \/ TrackPublished \/ StartFails
    \/ PublisherRoomEnds \/ ViewerRoomEnds \/ Stopped \/ StreamDropped
    \/ \E c \in Calls : \/ Unpublished(c) \/ Replaced(c) \/ ReplaceFails(c)
                        \/ \E k \in Kinds : Replace(c, k)
    \/ \E p \in Peers, k \in Kinds : TrackSubscribed(p, k) \/ TrackUnsubscribed(p, k)

Spec == Init /\ [][Next]_vars

-----------------------------------------------------------------------------
\* The state that start(), stop() and "Disconnected" write from both sides of their awaits
\* is the room's: no room is left when it says "closed", and one is there when it says
\* "connected".  Not so when stop() came before the room was made (start() goes on), or
\* when start() failed to publish (its room is never left).
StateIsRooms ==
    ~early /\ ~failed =>
      /\ state = "closed" => room \in {"none", "disconnected"}
      /\ state = "connected" => room = "connected"

\* However often tracks are replaced, and whichever replacements fail, no publication is
\* lost sight of: what is published is what the next replacement will unpublish.  Not so of
\* the earlier tracks of a stream that has several of a kind, which start() forgets, nor
\* when replacements overlapped.
PublishedIsCurrent ==
    ~overlapped => \A k \in Kinds :
      ~Busy(k) => {t \in published \ forgotten : t[1] = k} \subseteq {<<k, current[k]>>}

\* The viewer's stream holds the tracks of its publisher that it is subscribed to, and
\* nobody else's.
StreamIsPublishers == stream = {t \in subscribed : t[1] = "publisher"}
=============================================================================

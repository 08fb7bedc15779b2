------------------------------- MODULE MCPage -------------------------------
(***************************************************************************)
(* The parts of a page that are modelled on their own, one small instance  *)
(* of each, checked side by side: Init chooses a part, which then takes    *)
(* all the steps.  The parts' variables of one name are one variable here; *)
(* those that the chosen part does not have stay None.                     *)
(***************************************************************************)
EXTENDS Naturals, Sequences, FiniteSets

CONSTANTS
    Parts, None,
    MaxMounts, MaxRequests, MaxCalls, MaxTracks, MaxStream, MaxRecorders, MaxChunks, MaxGiven, MaxMessages,
    MaxWrites, Cameras, Speakers, MaxAsks, MaxConnections, MaxListeners, MaxEmits,
    Clients, MaxPosts, MaxConnects

ASSUME PageBounds ==
    /\ MaxMounts \in Nat /\ MaxRequests \in Nat /\ MaxCalls \in Nat /\ MaxTracks \in Nat
    /\ MaxStream \in Nat
    /\ MaxRecorders \in Nat /\ MaxChunks \in Nat /\ MaxGiven \in Nat /\ MaxMessages \in Nat
    /\ MaxWrites \in Nat /\ MaxAsks \in Nat /\ MaxConnections \in Nat
    /\ MaxListeners \in Nat /\ MaxEmits \in Nat /\ MaxPosts \in Nat /\ MaxConnects \in Nat
    /\ Cameras \subseteq Nat \ {0} /\ Speakers \subseteq Nat \ {0}
    /\ IsFiniteSet(Clients)

VARIABLES
    part,
    opts, mounted, shown, made, state, asked, at, leaving, raced, call, tasks, host,    \* shared
    cur, last, stopping, timer, subs, tstate, sock, old, userClosed, reopen, out, wire, members,
    bound,
    used, pending, aborted, ctrl, live, status,
    room, left, published, current, subscribed, stream, tracks, early, failed, overlapped,
    forgotten, hasStream, held, rec, native, cut, got, piped, feeding, sink, sent, blob, url, urls, adrift,
    late, slotted,
    given, nth, own, peers, buffer, shownPeers, shownChat, messages, writes, wish, hasty, replayed,
    plugged, watcher, list, value, picked, unset, newest, overtaken,
    entries, sends, swaps, called, loop, began, broken,
    bucket, single, stack, emitted, told, stayed, nested,
    channel, posts, received, reached

Host      == INSTANCE SessionHost
Media     == INSTANCE Capture
Sfu       == INSTANCE SfuSession
Record    == INSTANCE RecorderHost
Views     == INSTANCE RoomViews
Lists     == INSTANCE DeviceLists
Out       == INSTANCE Outbound
Events    == INSTANCE Emitter
Broadcasts == INSTANCE Broadcast

pageVars ==
    <<part, Host!vars, Media!vars, Sfu!vars, Record!vars, Views!vars, Lists!vars, Out!vars,
      Events!vars, Broadcasts!vars>>

IsNone(parts, v) == IF part \in parts THEN TRUE ELSE v = None
Kept(parts, v)  == IF part \in parts THEN TRUE ELSE UNCHANGED v

\* The variables a part does not have, in its initial states and in its steps.
OthersNone ==
    /\ IsNone({"host", "media", "sfu", "record"}, opts)
    /\ IsNone({"media", "sfu", "record", "lists"}, mounted)
    /\ IsNone({"host", "media", "record"}, shown)
    /\ IsNone({"record", "out", "events", "broadcasts"}, made)
    /\ IsNone({"host", "sfu", "broadcasts"}, state) /\ IsNone({"views", "lists"}, asked)
    /\ IsNone({"host", "sfu"}, at) /\ IsNone({"host", "sfu"}, leaving)
    /\ IsNone({"host", "media"}, raced) /\ IsNone({"sfu", "lists"}, call)
    /\ IsNone({"record", "broadcasts"}, tasks) /\ IsNone({"views", "lists"}, host)
    /\ IsNone({"host"}, cur) /\ IsNone({"host"}, last) /\ IsNone({"host"}, stopping)
    /\ IsNone({"host"}, timer) /\ IsNone({"host"}, subs) /\ IsNone({"host"}, tstate)
    /\ IsNone({"host"}, sock) /\ IsNone({"host"}, old) /\ IsNone({"host"}, userClosed)
    /\ IsNone({"host"}, reopen) /\ IsNone({"host"}, out) /\ IsNone({"host"}, wire)
    /\ IsNone({"host"}, members) /\ IsNone({"host"}, bound)
    /\ IsNone({"media"}, used) /\ IsNone({"media"}, pending) /\ IsNone({"media"}, aborted)
    /\ IsNone({"media"}, ctrl) /\ IsNone({"media"}, live) /\ IsNone({"media"}, status)
    /\ IsNone({"sfu"}, room) /\ IsNone({"sfu"}, left) /\ IsNone({"sfu"}, published)
    /\ IsNone({"sfu"}, current) /\ IsNone({"sfu"}, subscribed) /\ IsNone({"sfu"}, stream)
    /\ IsNone({"sfu"}, tracks) /\ IsNone({"sfu"}, early) /\ IsNone({"sfu"}, failed)
    /\ IsNone({"sfu"}, overlapped) /\ IsNone({"sfu"}, forgotten)
    /\ IsNone({"record"}, hasStream) /\ IsNone({"record"}, held) /\ IsNone({"record"}, rec)
    /\ IsNone({"record"}, native) /\ IsNone({"record"}, cut) /\ IsNone({"record"}, got)
    /\ IsNone({"record"}, piped) /\ IsNone({"record"}, feeding) /\ IsNone({"record"}, sink)
    /\ IsNone({"record"}, sent) /\ IsNone({"record"}, blob) /\ IsNone({"record"}, url)
    /\ IsNone({"record"}, urls) /\ IsNone({"record"}, adrift) /\ IsNone({"record"}, late)
    /\ IsNone({"record"}, slotted)
    /\ IsNone({"views"}, given) /\ IsNone({"views"}, nth)
    /\ IsNone({"views"}, own) /\ IsNone({"views"}, peers)
    /\ IsNone({"views"}, buffer) /\ IsNone({"views"}, shownPeers) /\ IsNone({"views"}, shownChat)
    /\ IsNone({"views"}, messages) /\ IsNone({"views"}, writes) /\ IsNone({"views"}, wish)
    /\ IsNone({"views"}, hasty) /\ IsNone({"views"}, replayed)
    /\ IsNone({"lists"}, plugged) /\ IsNone({"lists"}, watcher) /\ IsNone({"lists"}, list)
    /\ IsNone({"lists"}, value) /\ IsNone({"lists"}, picked) /\ IsNone({"lists"}, unset)
    /\ IsNone({"lists"}, newest) /\ IsNone({"lists"}, overtaken)
    /\ IsNone({"out"}, entries) /\ IsNone({"out"}, sends) /\ IsNone({"out"}, swaps)
    /\ IsNone({"out"}, called) /\ IsNone({"out"}, loop)
    /\ IsNone({"out"}, began) /\ IsNone({"out"}, broken)
    /\ IsNone({"events"}, bucket) /\ IsNone({"events"}, single) /\ IsNone({"events"}, stack)
    /\ IsNone({"events"}, emitted) /\ IsNone({"events"}, told) /\ IsNone({"events"}, stayed)
    /\ IsNone({"events"}, nested)
    /\ IsNone({"broadcasts"}, channel) /\ IsNone({"broadcasts"}, posts)
    /\ IsNone({"broadcasts"}, received) /\ IsNone({"broadcasts"}, reached)

OthersKept ==
    /\ Kept({"host", "media", "sfu", "record"}, opts)
    /\ Kept({"media", "sfu", "record", "lists"}, mounted)
    /\ Kept({"host", "media", "record"}, shown)
    /\ Kept({"record", "out", "events", "broadcasts"}, made)
    /\ Kept({"host", "sfu", "broadcasts"}, state) /\ Kept({"views", "lists"}, asked)
    /\ Kept({"host", "sfu"}, at) /\ Kept({"host", "sfu"}, leaving)
    /\ Kept({"host", "media"}, raced) /\ Kept({"sfu", "lists"}, call)
    /\ Kept({"record", "broadcasts"}, tasks) /\ Kept({"views", "lists"}, host)
    /\ Kept({"host"}, <<cur, last, stopping, timer, subs, tstate, sock, old, userClosed, reopen,
                  out, wire, members, bound>>)
    /\ Kept({"media"}, <<used, pending, aborted, ctrl, live, status>>)
    /\ Kept({"sfu"}, <<room, left, published, current, subscribed, stream, tracks, early,
                  failed, overlapped, forgotten>>)
    /\ Kept({"record"}, <<hasStream, held, rec, native, cut, got, piped, feeding, sink, sent,
                  blob, url, urls, adrift, late, slotted>>)
    /\ Kept({"views"}, <<given, nth, own, peers, buffer, shownPeers, shownChat, messages, writes,
                  wish, hasty, replayed>>)
    /\ Kept({"lists"}, <<plugged, watcher, list, value, picked, unset, newest, overtaken>>)
    /\ Kept({"out"}, <<entries, sends, swaps, called, loop, began, broken>>)
    /\ Kept({"events"}, <<bucket, single, stack, emitted, told, stayed, nested>>)
    /\ Kept({"broadcasts"}, <<channel, posts, received, reached>>)

Init ==
    /\ part \in Parts
    /\ \/ part = "host"   /\ Host!Init
       \/ part = "media"  /\ Media!Init
       \/ part = "sfu"    /\ Sfu!Init
       \/ part = "record" /\ Record!Init
       \/ part = "views"  /\ Views!Init
       \/ part = "lists"  /\ Lists!Init
       \/ part = "out"    /\ Out!Init
       \/ part = "events" /\ Events!Init
       \/ part = "broadcasts" /\ Broadcasts!Init
    /\ OthersNone

Next ==
    /\ \/ part = "host"   /\ Host!Next
       \/ part = "media"  /\ Media!Next
       \/ part = "sfu"    /\ Sfu!Next
       \/ part = "record" /\ Record!Next
       \/ part = "views"  /\ Views!Next
       \/ part = "lists"  /\ Lists!Next
       \/ part = "out"    /\ Out!Next
       \/ part = "events" /\ Events!Next
       \/ part = "broadcasts" /\ Broadcasts!Next
    /\ UNCHANGED part /\ OthersKept

hostVars == Host!vars
OfHost(A) == part = "host" /\ A

\* That of SessionHost: promises settle, timers fire, sockets open and close, messages arrive.
Fairness ==
    \A n \in Host!Objects :
      /\ WF_hostVars(OfHost(Host!Joins(n))) /\ WF_hostVars(OfHost(Host!RetryFires(n)))
      /\ WF_hostVars(OfHost(Host!Stopped(n))) /\ WF_hostVars(OfHost(Host!Opens(n)))
      /\ WF_hostVars(OfHost(Host!CloseEvent(n))) /\ WF_hostVars(OfHost(Host!Reopens(n)))
      /\ WF_hostVars(OfHost(Host!ServerReceives(n)))

Spec == Init /\ [][Next]_pageVars /\ Fairness

-----------------------------------------------------------------------------
\* What components render is so: a hook's or an element's state is that of the object it
\* holds now, "granted" comes with a stream, an SFU viewer's stream is its publisher's,
\* presence and chats are those of the present channel, toggles alternate, the devices
\* listed are there, and the one picked stays.
RenderedIsTrue ==
    /\ part = "host"   => Host!ShownIsCurrent
    /\ part = "media"  => Media!GrantedMeansShown
    /\ part = "sfu"    => Sfu!StreamIsPublishers
    /\ part = "record" => Record!ShownIsHeld
    /\ part = "views"  => Views!ViewsAreTrue /\ Views!TogglesAlternate
    /\ part = "lists"  => Lists!ListIsTrue /\ Lists!SelectionStays

\* What stops or unmounts leaves nothing behind: no member of the room, no live track, no
\* SFU room, no running MediaRecorder.
NothingLeftBehind ==
    /\ part = "host"   => Host!UnmountLeaves
    /\ part = "media"  => Media!LiveIsShown
    /\ part = "sfu"    => Sfu!StateIsRooms
    /\ part = "record" => Record!GoneIsOff

\* A replaced track is replaced for everyone: every viewer's sender sends the last one, and
\* the SFU publishes no track that the next replacement would not take back.
TracksAreCurrent ==
    /\ part = "sfu" => Sfu!PublishedIsCurrent
    /\ part = "out" => Out!SwapsReachAll

\* Nothing is delivered twice or lost between sender and receiver: chunks to an uploader,
\* an emission to its listeners, a broadcast to the other clients.
DeliveredOnce ==
    /\ part = "record" => Record!UploadedOnce
    /\ part = "events" => Events!ToldOnce
    /\ part = "broadcasts" => Broadcasts!ReceivedOnce

\* SessionHost's MountedConnects: a component that stays mounted ends up in the room.
MountedConnects ==
    \A n \in Host!Objects :
      <>[](part = "host" /\ Host!Waits(n)) => <>[](part = "host" /\ Host!Served(n))

\* RoomViews's DiffsPatch: a presence diff leads from each snapshot to the next.
DiffsPatch == [][part = "views" => Views!DiffPatches]_pageVars
=============================================================================

---------------------------- MODULE SessionHost ----------------------------
(***************************************************************************)
(* The bindings that keep a publisher, a viewer or a room channel for as   *)
(* long as a component is mounted: usePublisher, useViewer, useRoomChannel *)
(* of React and Vue, <forinda-video-viewer>.  Every mount makes an object  *)
(* of its own; a component that is mounted again (React's StrictMode, a    *)
(* changed dependency, a moved element) has the next object while stop()   *)
(* of the last one is under way.  The objects have a transport each, or    *)
(* share the one the application passes.                                   *)
(*                                                                         *)
(* Objects are reduced to their lifecycle (Mesh and RoomChannel have them  *)
(* in full; a viewer's media is taken to follow its signaling), the        *)
(* transport to what closing and opening it means for two users; peer ids  *)
(* are the objects'.  Nothing fails here but what the objects do to each   *)
(* other.                                                                  *)
(***************************************************************************)
EXTENDS Naturals, Sequences, FiniteSetsExt

CONSTANT MaxMounts          \* bound: objects made

Objects == 1..MaxMounts

VARIABLES
    opts,       \* environment: [host, kind, shared, auto]
    cur, last,  \* the mounted object, or 0; the last one made
    state,      \* of each object
    at,         \* what it awaits: "start" and "retry" are suspended in connect()
    stopping, leaving,  \* stop() was called; it awaits its leave
    timer,      \* retryTimer
    subs,       \* the objects the binding listens to
    shown,      \* the state it renders
    tstate, sock, old, userClosed, reopen,  \* per transport: its state, its socket,
                \* a closed socket whose close event is to come, reconnectTimer
    out, wire,  \* its queue, and what was written to the socket
    members, bound,     \* server: the peers of the room, the peer of each connection
    raced       \* history: objects stopped while their start() or retry was suspended;
                \* all of them once a transport has opened a second socket

objVars  == <<state, at, stopping, leaving, timer>>
hostVars == <<cur, last, subs, shown>>
linkVars == <<tstate, sock, old, userClosed, reopen, out, wire>>
vars == <<opts, hostVars, objVars, linkVars, members, bound, raced>>

Options ==
    {o \in [host : {"react", "vue", "element"}, kind : {"publisher", "viewer", "channel"},
            shared : BOOLEAN, auto : BOOLEAN] :
       o.host = "element" => o.kind = "viewer" /\ ~o.shared}

Init ==
    /\ opts \in Options
    /\ cur = 0 /\ last = 0 /\ subs = {} /\ shown = "idle" /\ raced = {}
    /\ state = [n \in Objects |-> "idle"] /\ at = [n \in Objects |-> "none"]
    /\ stopping = [n \in Objects |-> FALSE] /\ leaving = [n \in Objects |-> FALSE]
    /\ timer = [n \in Objects |-> FALSE]
    /\ tstate = [l \in Objects |-> "idle"] /\ sock = [l \in Objects |-> "none"]
    /\ old = [l \in Objects |-> FALSE] /\ userClosed = [l \in Objects |-> FALSE]
    /\ reopen = [l \in Objects |-> FALSE]
    /\ out = [l \in Objects |-> <<>>] /\ wire = [l \in Objects |-> <<>>]
    /\ members = {} /\ bound = [l \in Objects |-> 0]

Channel == opts.kind = "channel"
LinkOf(n) == IF opts.shared THEN 1 ELSE n

-----------------------------------------------------------------------------
\* The objects on their transport.

\* openSocket().  With a reconnect under way it may be the second one: WsTransport has them
\* both, here the newer one takes the link's place.
OpenSocket(l) ==
    /\ sock' = [sock EXCEPT ![l] = "opening"]
    /\ raced' = IF sock[l] = "none" THEN raced ELSE Objects

\* connect(): a transport that is connected or connecting is left as it is.
Connect(l) ==
    IF tstate[l] \in {"connected", "connecting"} THEN UNCHANGED <<tstate, sock, userClosed, raced>>
    ELSE /\ tstate' = [tstate EXCEPT ![l] = "connecting"]
         /\ OpenSocket(l)
         /\ userClosed' = [userClosed EXCEPT ![l] = FALSE]

\* send(): written to an open socket, queued otherwise.
Send(l, msgs) ==
    IF tstate[l] = "connected" THEN /\ wire' = [wire EXCEPT ![l] = @ \o msgs]
                                    /\ UNCHANGED out
    ELSE out' = [out EXCEPT ![l] = @ \o msgs] /\ UNCHANGED wire

\* disconnect(): what was written to an open socket still arrives.
Disconnect(l) ==
    IF tstate[l] = "closed" THEN UNCHANGED <<tstate, sock, old, userClosed, reopen>>
    ELSE /\ tstate' = [tstate EXCEPT ![l] = "closed"]
         /\ old' = [old EXCEPT ![l] = @ \/ sock[l] # "none"]
         /\ sock' = [sock EXCEPT ![l] = "none"]
         /\ userClosed' = [userClosed EXCEPT ![l] = TRUE]
         /\ reopen' = [reopen EXCEPT ![l] = FALSE]

\* Listeners attached by start(); stop() detaches them or makes them ignore.
Listening(n) == state[n] # "idle" /\ ~stopping[n]

HeardWhenUp(n, s) ==                \* bug: a close is heard only by who is connected
    IF s = "closed" /\ state[n] # "connected" THEN state[n]
    ELSE IF s = "closed" THEN "failed" ELSE IF s = "connected" THEN "connected" ELSE state[n]

\* A publisher or viewer follows its transport, as far as the transition table lets it;
\* a channel only recovers from "connected".
Heard(n, s) ==
    CASE Channel -> IF s = "closed" /\ state[n] = "connected" THEN "reconnecting" ELSE state[n]
      [] ~Channel /\ s = "connected" ->
           IF state[n] \in {"connecting", "reconnecting"} THEN "connected" ELSE state[n]
      [] ~Channel /\ s = "reconnecting" ->
           IF state[n] \in {"connected", "failed"} THEN "reconnecting" ELSE state[n]
      [] ~Channel /\ s = "closed" -> IF state[n] = "closed" THEN "closed" ELSE "failed"
      [] OTHER -> state[n]

\* The objects when transport l has become s; a session that failed is retried later.
Told(l, s) == [n \in Objects |-> IF LinkOf(n) = l /\ s # tstate[l] /\ Listening(n)
                                THEN Heard(n, s) ELSE state[n]]
Retrying(l, s) == [n \in Objects |-> timer[n] \/ (s = "closed" /\ Told(l, s)[n] # state[n])]

\* What the binding renders: the last event of an object it listens to or, for a channel,
\* of its transport.
Render ==
    LET moved == {n \in subs : tstate'[LinkOf(n)] # tstate[LinkOf(n)]}
        told  == {n \in subs : state'[n] # state[n]}
    IN shown' = IF Channel THEN IF moved = {} THEN shown ELSE tstate'[LinkOf(Max(moved))]
                ELSE IF told = {} THEN shown ELSE state'[Max(told)]

-----------------------------------------------------------------------------
\* The objects.

\* start(), when it is idle.
Start(n) ==
    /\ state' = [state EXCEPT ![n] = "connecting"] /\ at' = [at EXCEPT ![n] = "start"]
    /\ Connect(LinkOf(n))

\* connect() has resolved: join, stopped meanwhile or not.
Joins(n) ==
    /\ at[n] # "none" /\ at' = [at EXCEPT ![n] = "none"]
    /\ Send(LinkOf(n), <<[type |-> "join", who |-> n]>>)
    /\ state' = IF Channel THEN [state EXCEPT ![n] = "connected"] ELSE state
    /\ UNCHANGED <<opts, hostVars, stopping, leaving, timer, tstate, sock, old, userClosed,
                   reopen, members, bound, raced>>

\* attemptReconnect().
RetryFires(n) ==
    /\ timer[n] /\ timer' = [timer EXCEPT ![n] = FALSE]
    /\ Connect(LinkOf(n))
    /\ at' = [at EXCEPT ![n] = "retry"]
    /\ state' = IF Channel THEN state ELSE [state EXCEPT ![n] = "reconnecting"]
    /\ Render
    /\ UNCHANGED <<opts, cur, last, subs, stopping, leaving, old, reopen, out, wire, members,
                   bound>>

NoGoodbye(n) == <<>>                \* bug: stop() says nothing to the room
Goodbye(n) == <<[type |-> "leave", who |-> n]>>

\* stop() up to its leave; nothing for a closed object or an idle channel.
Stop(n) ==
    IF state[n] = "closed" \/ (Channel /\ state[n] = "idle") \/ stopping[n]
    THEN UNCHANGED <<stopping, leaving, timer, out, wire, raced>>
    ELSE /\ stopping' = [stopping EXCEPT ![n] = TRUE]
         /\ leaving' = [leaving EXCEPT ![n] = TRUE]
         /\ timer' = [timer EXCEPT ![n] = FALSE]
         /\ Send(LinkOf(n), Goodbye(n))
         /\ raced' = IF at[n] # "none" THEN raced \cup {n} ELSE raced

\* The rest of stop(): a publisher or viewer closes its transport, a channel leaves it open.
Stopped(n) ==
    /\ leaving[n] /\ leaving' = [leaving EXCEPT ![n] = FALSE]
    /\ IF Channel
       THEN /\ state' = [state EXCEPT ![n] = "closed"]
            /\ UNCHANGED <<timer, tstate, sock, old, userClosed, reopen>>
       ELSE /\ Disconnect(LinkOf(n))
            /\ state' = [Told(LinkOf(n), "closed") EXCEPT ![n] = "closed"]
            /\ timer' = Retrying(LinkOf(n), "closed")
    /\ IF n \in subs /\ ~Channel THEN shown' = "closed" ELSE Render
    /\ UNCHANGED <<opts, cur, last, subs, at, stopping, out, wire, members, bound, raced>>

-----------------------------------------------------------------------------
\* The bindings.

Is(host, kind) == opts.host = host /\ opts.kind = kind

\* The effect, the setup function, connectedCallback, with autoStart or without; the element
\* always starts.
Mounted ==
    /\ cur = 0 /\ last < MaxMounts
    /\ \E autoStart \in IF opts.host = "element" THEN {TRUE} ELSE BOOLEAN :
         LET n == last + 1 IN
         /\ cur' = n /\ last' = n /\ subs' = subs \cup {n}
         /\ IF autoStart THEN Start(n)
            ELSE UNCHANGED <<state, at, tstate, sock, userClosed, raced>>
         /\ shown' = IF Channel THEN tstate'[LinkOf(n)]
                     ELSE IF autoStart THEN "connecting" ELSE shown
    /\ UNCHANGED <<opts, stopping, leaving, timer, old, reopen, out, wire, members, bound>>

StillListening == subs              \* bug: the old object's events are still rendered
Unsubscribed == subs \ {cur}

\* The cleanup of the effect, onScopeDispose.
Unmounted ==
    /\ cur # 0 /\ cur' = 0
    /\ subs' = Unsubscribed /\ shown' = "idle"
    /\ Stop(cur)
    /\ UNCHANGED <<opts, last, state, at, tstate, sock, old, userClosed, reopen, members, bound>>

ReactPublisherMounts   == Is("react", "publisher") /\ Mounted
ReactPublisherUnmounts == Is("react", "publisher") /\ Unmounted
VuePublisherMounts     == Is("vue", "publisher") /\ Mounted
VuePublisherUnmounts   == Is("vue", "publisher") /\ Unmounted
ReactViewerMounts      == Is("react", "viewer") /\ Mounted
ReactViewerUnmounts    == Is("react", "viewer") /\ Unmounted
VueViewerMounts        == Is("vue", "viewer") /\ Mounted
VueViewerUnmounts      == Is("vue", "viewer") /\ Unmounted
ReactChannelMounts     == Is("react", "channel") /\ Mounted
ReactChannelUnmounts   == Is("react", "channel") /\ Unmounted
VueChannelMounts       == Is("vue", "channel") /\ Mounted
VueChannelUnmounts     == Is("vue", "channel") /\ Unmounted
ElementConnected       == Is("element", "viewer") /\ Mounted

\* teardown() closes the transport without waiting for stop(); the last state it
\* dispatched stays.
ElementDisconnected ==
    /\ Is("element", "viewer")
    /\ cur # 0 /\ cur' = 0
    /\ subs' = Unsubscribed
    /\ Stop(cur) /\ Disconnect(LinkOf(cur))
    /\ UNCHANGED <<opts, last, shown, state, at, members, bound>>

\* start() and stop() that the hooks return.
UserStarts ==
    /\ opts.host # "element" /\ ~Channel /\ cur # 0 /\ state[cur] = "idle" /\ ~stopping[cur]
    /\ Start(cur) /\ Render
    /\ UNCHANGED <<opts, cur, last, subs, stopping, leaving, timer, old, reopen, out, wire,
                   members, bound>>

UserStops ==
    /\ opts.host # "element" /\ ~Channel /\ cur # 0 /\ ~stopping[cur] /\ Stop(cur)
    /\ UNCHANGED <<opts, hostVars, state, at, tstate, sock, old, userClosed, reopen, members, bound>>

-----------------------------------------------------------------------------
\* The transports and the server.

\* The socket that was closed before is gone by the time a new one opens.
Opens(l) ==
    /\ sock[l] = "opening" /\ ~old[l]
    /\ sock' = [sock EXCEPT ![l] = "open"] /\ tstate' = [tstate EXCEPT ![l] = "connected"]
    /\ wire' = [wire EXCEPT ![l] = out[l]] /\ out' = [out EXCEPT ![l] = <<>>]
    /\ state' = Told(l, "connected") /\ Render
    /\ UNCHANGED <<opts, cur, last, subs, at, stopping, leaving, timer, old, userClosed, reopen,
                   members, bound, raced>>

\* onClose of a socket closed before: it also disposes of the listeners of the one made
\* since and forgets it.
CloseEvent(l) ==
    LET next == IF userClosed[l] \/ ~opts.auto THEN "closed" ELSE "reconnecting" IN
    /\ old[l] /\ wire[l] = <<>> /\ old' = [old EXCEPT ![l] = FALSE]
    /\ sock' = [sock EXCEPT ![l] = "none"] /\ tstate' = [tstate EXCEPT ![l] = next]
    /\ reopen' = [reopen EXCEPT ![l] = next = "reconnecting"]
    /\ state' = Told(l, next) /\ timer' = Retrying(l, next) /\ Render
    /\ members' = members \ {bound[l]} /\ bound' = [bound EXCEPT ![l] = 0]
    /\ UNCHANGED <<opts, cur, last, subs, at, stopping, leaving, userClosed, out, wire, raced>>

\* The timer of scheduleReconnect(); connect() does not clear it.
Reopens(l) ==
    /\ reopen[l] /\ reopen' = [reopen EXCEPT ![l] = FALSE]
    /\ OpenSocket(l)
    /\ UNCHANGED <<opts, hostVars, objVars, tstate, old, userClosed, out, wire, members, bound>>

\* A join binds the connection to its peer; the peer it was bound to stays in the room.
ServerReceives(l) ==
    /\ wire[l] # <<>> /\ wire' = [wire EXCEPT ![l] = Tail(@)]
    /\ LET msg == Head(wire[l]) IN
       IF msg.type = "join"
       THEN members' = members \cup {msg.who} /\ bound' = [bound EXCEPT ![l] = msg.who]
       ELSE /\ members' = members \ {msg.who}
            /\ bound' = IF bound[l] = msg.who THEN [bound EXCEPT ![l] = 0] ELSE bound
    /\ UNCHANGED <<opts, hostVars, objVars, tstate, sock, old, userClosed, reopen, out, raced>>

Next ==
    \/ ReactPublisherMounts \/ ReactPublisherUnmounts \/ VuePublisherMounts \/ VuePublisherUnmounts
    \/ ReactViewerMounts \/ ReactViewerUnmounts \/ VueViewerMounts \/ VueViewerUnmounts
    \/ ReactChannelMounts \/ ReactChannelUnmounts \/ VueChannelMounts \/ VueChannelUnmounts
    \/ ElementConnected \/ ElementDisconnected \/ UserStarts \/ UserStops
    \/ \E n \in Objects : Joins(n) \/ RetryFires(n) \/ Stopped(n)
    \/ \E l \in Objects : Opens(l) \/ CloseEvent(l) \/ Reopens(l) \/ ServerReceives(l)

\* Promises settle, timers fire, sockets open and close, messages arrive.
Fairness ==
    /\ \A n \in Objects : WF_vars(Joins(n)) /\ WF_vars(RetryFires(n)) /\ WF_vars(Stopped(n))
    /\ \A l \in Objects : /\ WF_vars(Opens(l)) /\ WF_vars(CloseEvent(l))
                         /\ WF_vars(Reopens(l)) /\ WF_vars(ServerReceives(l))

Spec == Init /\ [][Next]_vars /\ Fairness

-----------------------------------------------------------------------------
\* What is rendered is the state of the mounted object, for a channel that of its
\* transport, whatever the objects of earlier mounts still go through.
ShownIsCurrent ==
    IF cur = 0 THEN opts.host = "element" \/ shown = "idle"
    ELSE shown = IF Channel THEN tstate[LinkOf(cur)] ELSE state[cur]

\* All that was said has been heard.
Quiet == /\ at = [n \in Objects |-> "none"] /\ leaving = [n \in Objects |-> FALSE]
         /\ timer = [n \in Objects |-> FALSE]
         /\ \A l \in Objects : wire[l] = <<>> /\ ~old[l] /\ ~reopen[l] /\ sock[l] # "opening"

\* An unmounted object is not in the room, as long as none was stopped while its start()
\* or its retry awaited connect(), and no transport has had two sockets.
UnmountLeaves == Quiet /\ raced = {} => members \subseteq {cur}

Waits(n)  == cur = n /\ state[n] # "idle" /\ ~stopping[n]
Served(n) == state[n] = "connected" /\ n \in members

\* A component that stays mounted, started and not stopped by the user, ends up connected
\* and in the room, whatever the stop() of the last object does to its transport.
MountedConnects == \A n \in Objects : <>[]Waits(n) => <>[]Served(n)
=============================================================================

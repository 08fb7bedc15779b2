---------------------------- MODULE WsTransport ----------------------------
(***************************************************************************)
(* The browser's WebSocket transport: `WebSocketSignaling` of              *)
(* packages/signaling-ws.  A step is one callback: a method called by the  *)
(* application, a WebSocket event, a timer, or the answer of the `auth`    *)
(* callback at which openSocket() suspends.  A state listener is called    *)
(* before the rest of the method that changes the state, and may itself    *)
(* call connect(), disconnect() and send(): `within` is the stack of those *)
(* methods, and what is left of one is a step of its own (...Ends).        *)
(*                                                                         *)
(* A WebSocket is "opening", "open" or "closing" until its close event;    *)
(* then its id stands for a socket not created yet ("none").  Backoff      *)
(* delays and heartbeat intervals are abstracted to "later".               *)
(***************************************************************************)
EXTENDS Integers, Sequences, FiniteSets

CONSTANTS
    MaxSockets,     \* bound: connection attempts alive at once (see Attempts)
    MaxMsgs,        \* bound: messages the application sends
    Options         \* the options and uses of the transport to explore

Sockets == 1..MaxSockets
NoWs    == 0
States  == {"idle", "connecting", "connected", "reconnecting", "closed"}

\* auth: is an `auth` callback configured?  connectIn: the states in which the
\* application calls connect().  beats: is heartbeatIntervalMs positive?
AllOptions == [auth: BOOLEAN, reconnect: BOOLEAN, beats: BOOLEAN, connectIn: SUBSET States]

\* The methods with something left to do after their listeners: connect(), onOpen, onClose.
Methods == {"connecting", "opening", "closing"}

ASSUME WsConstants ==
    /\ MaxSockets \in Nat \ {0} /\ MaxMsgs \in Nat
    /\ Options \subseteq AllOptions

VARIABLES
    opts,           \* this.opts, and how the application uses connect(); never changes
    state,          \* _state
    sock,           \* sock[w]: readyState of WebSocket w
    listening,      \* sockets whose listeners are attached (wsDisposers)
    ws,             \* this.ws
    auths,          \* openSocket() calls suspended at `await auth()`
    timer,          \* is the timer held by reconnectTimer pending?
    strays,         \* pending timers whose handle was overwritten
    heartbeat,      \* is the heartbeat interval running?
    userClosed,     \* userClosed
    within,         \* methods whose state listeners are being called, innermost first
    queue,          \* outboundQueue
    wire,           \* messages written to an open socket, in order
    lost,           \* messages handed to a socket that was not open
    next,           \* number of the next message the application sends
    rejected,       \* history: has the `auth` callback ever failed?
    interrupted,    \* history: methods whose listeners have called disconnect()
    hasty           \* history: messages listeners sent before onOpen flushed the queue

connVars == <<opts, state, sock, listening, ws, auths, timer, strays, heartbeat, userClosed,
              within>>
msgVars == <<queue, wire, lost, next, hasty>>
vars == <<connVars, msgVars, rejected, interrupted>>

Live == {w \in Sockets : sock[w] # "none"}

\* Whatever ends in a socket, or is one.  Only connect() adds to it: a close makes
\* at most one timer, a timer one openSocket(), an openSocket() one socket.
Attempts == Cardinality(Live) + auths + strays + (IF timer THEN 1 ELSE 0)
            + Cardinality({i \in DOMAIN within : within[i] # "opening"})

Init ==
    /\ opts \in Options
    /\ state = "idle"
    /\ sock = [w \in Sockets |-> "none"]
    /\ listening = {}
    /\ ws = NoWs
    /\ auths = 0 /\ timer = FALSE /\ strays = 0
    /\ heartbeat = FALSE /\ userClosed = FALSE /\ within = <<>>
    /\ queue = <<>> /\ wire = <<>> /\ lost = {} /\ next = 1
    /\ rejected = FALSE /\ interrupted = {} /\ hasty = {}

\* The listeners of method m have returned.
Return(m) == within # <<>> /\ Head(within) = m /\ within' = Tail(within)

-----------------------------------------------------------------------------
\* openSocket() after its await: a new WebSocket, now `this.ws`, with listeners.
CreateSocket ==
    \E w \in Sockets :
        /\ sock[w] = "none"
        /\ \A v \in 1..(w - 1) : sock[v] # "none"
        /\ sock' = [sock EXCEPT ![w] = "opening"]
        /\ ws' = w
        /\ listening' = listening \cup {w}

\* openSocket() from its start.
OpenSocket ==
    IF opts.auth
    THEN /\ auths' = auths + 1
         /\ UNCHANGED <<sock, ws, listening>>
    ELSE CreateSocket /\ UNCHANGED auths

\* ws.close() on a socket that is not closed yet.
Closing(w) == IF w = NoWs THEN sock ELSE [sock EXCEPT ![w] = "closing"]

\* connect() up to the listeners of "connecting", and from there.
Connect ==
    /\ state \in opts.connectIn \ {"connected", "connecting"}
    /\ Attempts < MaxSockets
    /\ userClosed' = FALSE
    /\ state' = "connecting"
    /\ within' = <<"connecting">> \o within
    /\ UNCHANGED <<opts, sock, listening, ws, auths, timer, strays, heartbeat, msgVars,
                   rejected, interrupted>>

ConnectEnds ==
    /\ Return("connecting")
    /\ OpenSocket
    /\ UNCHANGED <<opts, state, timer, strays, heartbeat, userClosed, msgVars, rejected,
                   interrupted>>

TimerKept == timer                  \* bug: the pending reconnect is not cleared
TimerAfterDisconnect == FALSE

\* disconnect() reaches the timer it holds a handle on, and the current socket; the
\* methods that are calling their listeners go on after it.
Disconnect ==
    /\ state # "closed"
    /\ userClosed' = TRUE
    /\ timer' = TimerAfterDisconnect
    /\ heartbeat' = FALSE
    /\ sock' = Closing(ws)
    /\ state' = "closed"
    /\ interrupted' = interrupted \cup {within[i] : i \in DOMAIN within}
    /\ UNCHANGED <<opts, listening, ws, auths, strays, within, msgVars, rejected>>

-----------------------------------------------------------------------------
\* Messages.

\* Hand the messages of `batch`, in order, to this.ws.  A socket past OPEN drops
\* them silently; one still connecting throws at the first, which is gone.
Flush(batch) ==
    /\ wire' = IF sock'[ws] = "open" THEN wire \o batch ELSE wire
    /\ lost' = CASE sock'[ws] = "open" \/ batch = <<>> -> lost
                 [] sock'[ws] = "closing" -> lost \cup {batch[i] : i \in DOMAIN batch}
                 [] OTHER -> lost \cup {Head(batch)}

LeftAfterFlush == IF sock'[ws] = "opening" /\ queue # <<>> THEN Tail(queue) ELSE <<>>

BeforeFlush == \E i \in DOMAIN within : within[i] = "opening"

Send ==
    /\ next <= MaxMsgs
    /\ next' = next + 1
    /\ UNCHANGED <<connVars, rejected, interrupted>>
    /\ IF state = "connected" /\ ws # NoWs
       THEN /\ Flush(<<next>>)
            /\ hasty' = IF BeforeFlush THEN hasty \cup {next} ELSE hasty
            /\ UNCHANGED queue
       ELSE queue' = Append(queue, next) /\ UNCHANGED <<wire, lost, hasty>>

-----------------------------------------------------------------------------
\* WebSocket events.  Like timers and promises they wait until all listeners have returned.

QueueKept == queue                  \* bug: the queue is sent again on every open
QueueAfterOpen == LeftAfterFlush

\* onOpen after its listeners; flushQueue writes to this.ws.
FinishOpen ==
    /\ heartbeat' = (opts.beats \/ heartbeat)
    /\ Flush(queue)
    /\ queue' = QueueAfterOpen

\* "open": a listener attached to it runs onOpen, which calls the state listeners unless
\* the state is "connected" already.
SocketOpens(w) ==
    /\ within = <<>>
    /\ sock[w] = "opening"
    /\ sock' = [sock EXCEPT ![w] = "open"]
    /\ UNCHANGED <<opts, listening, ws, auths, timer, strays, userClosed, next, hasty,
                   rejected, interrupted>>
    /\ \/ /\ w \in listening /\ state # "connected"
          /\ state' = "connected"
          /\ within' = <<"opening">>
          /\ UNCHANGED <<heartbeat, queue, wire, lost>>
       \/ /\ w \in listening /\ state = "connected"
          /\ FinishOpen
          /\ UNCHANGED <<state, within>>
       \/ /\ w \notin listening
          /\ UNCHANGED <<state, heartbeat, within, queue, wire, lost>>

OpenEnds ==
    /\ Return("opening")
    /\ UNCHANGED <<opts, state, sock, listening, ws, auths, timer, strays, userClosed, next,
                   hasty, rejected, interrupted>>
    /\ FinishOpen

HeartbeatKept == heartbeat          \* bug: no stopHeartbeat in onClose
HeartbeatAfterClose == FALSE

NoRetry == FALSE                    \* bug: a drop does not schedule a retry
Retry == ~userClosed /\ opts.reconnect

StateAfterClose == IF ~userClosed /\ opts.reconnect THEN "reconnecting" ELSE "closed"

WsAfterClose == NoWs

\* scheduleReconnect(): the handle of a timer that is still pending is overwritten.
ScheduleReconnect ==
    /\ timer' = TRUE
    /\ strays' = IF timer THEN strays + 1 ELSE strays

\* "close", after a failed attempt, a drop, or a close() of ours.  onClose
\* detaches the listeners of every socket and forgets this.ws, whichever closed.
SocketCloses(w) ==
    /\ within = <<>>
    /\ sock[w] # "none"
    /\ sock' = [sock EXCEPT ![w] = "none"]
    /\ UNCHANGED <<opts, auths, userClosed, msgVars, rejected, interrupted>>
    /\ IF w \in listening
       THEN /\ listening' = {}
            /\ ws' = WsAfterClose
            /\ heartbeat' = HeartbeatAfterClose
            /\ state' = StateAfterClose
            /\ \/ ~Retry /\ UNCHANGED <<timer, strays, within>>
               \/ /\ Retry /\ state # "reconnecting"
                  /\ within' = <<"closing">>
                  /\ UNCHANGED <<timer, strays>>
               \/ Retry /\ state = "reconnecting" /\ ScheduleReconnect /\ UNCHANGED within
       ELSE UNCHANGED <<listening, ws, heartbeat, state, timer, strays, within>>

CloseEnds ==
    /\ Return("closing")
    /\ ScheduleReconnect
    /\ UNCHANGED <<opts, state, sock, listening, ws, auths, heartbeat, userClosed, msgVars,
                   rejected, interrupted>>

-----------------------------------------------------------------------------
\* Timers and authentication.

TimerFires ==
    /\ within = <<>>
    /\ \/ timer /\ timer' = FALSE /\ UNCHANGED strays
       \/ strays > 0 /\ strays' = strays - 1 /\ UNCHANGED timer
    /\ OpenSocket
    /\ UNCHANGED <<opts, state, heartbeat, userClosed, within, msgVars, rejected, interrupted>>

TimerAtOnce == TRUE                 \* bug: the watchdog reconnects before the close
TimerAfterTimeout == timer

\* No inbound message for two intervals: close, and let the close event reconnect.
HeartbeatTimeout ==
    /\ within = <<>>
    /\ heartbeat /\ ws # NoWs
    /\ sock' = Closing(ws)
    /\ timer' = TimerAfterTimeout
    /\ UNCHANGED <<opts, state, listening, ws, auths, strays, heartbeat, userClosed, within,
                   msgVars, rejected, interrupted>>

AuthResolves ==
    /\ within = <<>>
    /\ auths > 0
    /\ auths' = auths - 1
    /\ CreateSocket
    /\ UNCHANGED <<opts, state, timer, strays, heartbeat, userClosed, within, msgVars, rejected,
                   interrupted>>

\* openSocket() rejects: connect()'s caller is told, a timer's caller is nobody.
AuthRejects ==
    /\ within = <<>>
    /\ auths > 0
    /\ auths' = auths - 1
    /\ rejected' = TRUE
    /\ UNCHANGED <<opts, state, sock, listening, ws, timer, strays, heartbeat, userClosed, within,
                   msgVars, interrupted>>

-----------------------------------------------------------------------------
Next ==
    \/ Connect \/ Disconnect \/ Send
    \/ ConnectEnds \/ OpenEnds \/ CloseEnds
    \/ \E w \in Sockets : SocketOpens(w) \/ SocketCloses(w)
    \/ TimerFires \/ HeartbeatTimeout \/ AuthResolves \/ AuthRejects

\* Listeners return, timers fire, `auth` answers, a socket that was told to close reports
\* it, an attempt ends one way or the other, and not every attempt fails.
Fairness ==
    /\ WF_vars(ConnectEnds \/ OpenEnds \/ CloseEnds)
    /\ WF_vars(TimerFires)
    /\ WF_vars(AuthResolves \/ AuthRejects)
    /\ \A w \in Sockets :
         /\ WF_vars(sock[w] \in {"opening", "closing"} /\ SocketCloses(w))
         /\ SF_vars(SocketOpens(w))

Spec == Init /\ [][Next]_vars
FairSpec == Spec /\ Fairness

-----------------------------------------------------------------------------
TypeOK ==
    /\ opts \in Options
    /\ state \in States
    /\ sock \in [Sockets -> {"none", "opening", "open", "closing"}]
    /\ listening \subseteq Live
    /\ ws \in listening \cup {NoWs}
    /\ auths \in Nat /\ strays \in Nat /\ Attempts <= MaxSockets
    /\ timer \in BOOLEAN /\ heartbeat \in BOOLEAN
    /\ userClosed \in BOOLEAN /\ rejected \in BOOLEAN
    /\ within \in Seq(Methods) /\ interrupted \subseteq Methods
    /\ queue \in Seq(1..MaxMsgs) /\ wire \in Seq(1..MaxMsgs)
    /\ lost \subseteq 1..MaxMsgs /\ hasty \subseteq 1..MaxMsgs /\ next \in 1..(MaxMsgs + 1)

\* The application calls connect() once; the transport reconnects by itself.
ConnectedOnce == opts.connectIn \subseteq {"idle"}

\* With one connect() per transport there is one connection attempt at a time:
\* a pending authentication, a pending retry and a live socket exclude each other,
\* whatever drops, timeouts and disconnect() do, from a state listener too (openSocket,
\* scheduleReconnect).  However often connect() is called, a connection whose listeners
\* have returned has its heartbeat, if there is one at all: a dead peer is noticed.  No
\* heartbeat outlives its socket, nor its connection unless a listener of "connected"
\* called disconnect() before it began; with one connect() that socket is closing
\* (startHeartbeat, stopHeartbeat).
OneAttempt ==
    /\ ConnectedOnce => Attempts <= 1
    /\ state = "connected" /\ opts.beats /\ within = <<>> => heartbeat
    /\ heartbeat => opts.beats /\ ws # NoWs
    /\ heartbeat /\ state # "connected" =>
         /\ "opening" \in interrupted
         /\ ConnectedOnce => sock[ws] = "closing"

\* No message is forgotten or repeated, even when connect() is called again while
\* a retry is pending or an old socket is closing: it has been written, or waits in
\* the queue, or was handed to a socket that could not take it (send, flushQueue).
\* With one connect(), messages reach the wire in the order they were sent, across
\* any number of reconnects; only what a listener of "connected" sends can overtake the
\* queue, which onOpen flushes after its listeners (outboundQueue).
Outgoing == wire \o queue
EachMessageOnce ==
    /\ lost \cup {Outgoing[i] : i \in DOMAIN Outgoing} = 1..(next - 1)
    /\ Cardinality(lost) + Len(Outgoing) = next - 1
    /\ ConnectedOnce => \A i, j \in DOMAIN Outgoing :
                           i < j => Outgoing[i] < Outgoing[j] \/ Outgoing[i] \in hasty

\* With one connect(), no retry is ever pending after disconnect(), whatever was under
\* way when it was called; except by a listener of "reconnecting", before onClose arms the
\* retry (disconnect, onClose).
NoRetryAfterDisconnect ==
    ConnectedOnce /\ userClosed /\ "closing" \notin interrupted => ~timer /\ strays = 0

\* With one connect(), a dropped connection comes back, unless it is closed or `auth` failed
\* (onClose, scheduleReconnect).
Recovers ==
    (ConnectedOnce /\ state = "reconnecting") ~> (state \in {"connected", "closed"} \/ rejected)
=============================================================================

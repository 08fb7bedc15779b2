-------------------------------- MODULE Mesh --------------------------------
(***************************************************************************)
(* A publisher and its viewers: `Publisher`, `Viewer`, `Negotiator`,       *)
(* `StateMachine` and `RetryPolicy` of packages/core, standalone, each     *)
(* with a transport of its own, over one server and one room.              *)
(*                                                                         *)
(* Transport and server are WsTransport and Session as these clients see   *)
(* them.  `out` holds the outbound queue and what is written but not       *)
(* received; messages a client ignores are left out.  A peer connection is *)
(* its number among those its owner made for the pair, with the offer or   *)
(* answer it was given: it carries media when both ends refer to each      *)
(* other.  Only the publisher makes offers.                                *)
(***************************************************************************)
EXTENDS Integers, Sequences, FiniteSets, SequencesExt

CONSTANTS
    Pub, Viewers,       \* the publisher, its viewers
    MaxAttempts,        \* retry.maxAttempts
    Options,            \* the environments to explore
    MaxDrops,           \* bound: sockets that close unasked
    MaxFailures         \* bound: peer connections that fail

Clients == {Pub} \cup Viewers

\* auto: the transports reconnect by themselves (their default).  auth: they have an
\* `auth` callback.  ice: peer connections may fail.  prompt: the delay before a retry
\* is longer than any message takes.
AllOptions == [auto: BOOLEAN, auth: BOOLEAN, ice: BOOLEAN, prompt: BOOLEAN]

ASSUME MeshConstants ==
    /\ Pub \notin Viewers /\ IsFiniteSet(Viewers)
    /\ {MaxAttempts, MaxDrops, MaxFailures} \subseteq Nat
    /\ Options \subseteq AllOptions
    \* connect() on a transport that is reconnecting by itself is WsTransport's subject
    /\ \A o \in Options : o.auto => ~o.ice

VARIABLES
    opts,
    state,          \* state of each client's stateMachine
    stopping,       \* stopping
    waiting,        \* what awaits connect(): "none", "start", "attempt"
    timers,         \* retry timers pending
    attempts,       \* retryPolicy.attempt
    fresh,          \* is successResetTimer pending?
    entry,          \* the publisher's viewers map: its connection to each viewer
    pc,             \* each viewer's pc, with what its negotiator and flags know
    sigUp,          \* each viewer's signalingConnected
    tstate, sock,   \* transport's state; its socket: none, auth, opening, open, closing
    out, in,        \* messages on their way to the server, from it
    members,        \* the room
    drops, failures

cliVars  == <<state, stopping, waiting, timers, attempts, fresh, sigUp>>
pcVars   == <<entry, pc>>
linkVars == <<tstate, sock>>
vars == <<opts, cliVars, pcVars, linkVars, out, in, members, drops, failures>>

\* Torn down, or never made; the number stays, so that no number is used twice.
NoEntry(n) == [id |-> n, sdp |-> "none", answer |-> <<0, 0>>]
NoPc(n)    == [id |-> n, open |-> FALSE, offer |-> 0, up |-> FALSE]

Init ==
    /\ opts \in Options
    /\ state = [c \in Clients |-> "idle"]
    /\ stopping = [c \in Clients |-> FALSE] /\ waiting = [c \in Clients |-> "none"]
    /\ timers = [c \in Clients |-> 0] /\ attempts = [c \in Clients |-> 0]
    /\ fresh = [c \in Clients |-> FALSE]
    /\ entry = [v \in Viewers |-> NoEntry(0)] /\ pc = [v \in Viewers |-> NoPc(0)]
    /\ sigUp = [v \in Viewers |-> FALSE]
    /\ tstate = [c \in Clients |-> "idle"] /\ sock = [c \in Clients |-> "none"]
    /\ out = [c \in Clients |-> <<>>] /\ in = [c \in Clients |-> <<>>]
    /\ members = {} /\ drops = 0 /\ failures = 0

Known == {v \in Viewers : entry[v].sdp # "none"}        \* peers()

-----------------------------------------------------------------------------
\* The lifecycle. A forbidden transition is refused.

Transitions == [
    idle         |-> {"connecting", "closed"},
    connecting   |-> {"connected", "failed", "closed"},
    connected    |-> {"reconnecting", "failed", "closed"},
    reconnecting |-> {"connected", "failed", "closed"},
    failed       |-> {"reconnecting", "closed"},
    closed       |-> {}]

To(s, next) == IF next \in Transitions[s] THEN next ELSE s

\* stateMachine.transition(next); entering "connected" (re)starts the success timer.
Becomes(c, next) ==
    /\ state' = [state EXCEPT ![c] = To(@, next)]
    /\ fresh' = [fresh EXCEPT ![c] = @ \/ (next = "connected" /\ state'[c] # state[c])]

\* Listeners attached by start() and detached by stop().
Listening(c) == state[c] # "idle" /\ ~stopping[c]

\* teardownViewer for every viewer; teardownPeer.
TearDown(c) ==
    /\ entry' = IF c = Pub THEN [v \in Viewers |-> NoEntry(entry[v].id)] ELSE entry
    /\ pc' = IF c = Pub THEN pc ELSE [pc EXCEPT ![c] = NoPc(@.id)]

\* nextDelayMs() # null: attempts are left, and maxDurationMs has not passed since
\* the first one.
Budget(c) == IF attempts[c] >= MaxAttempts THEN {FALSE}
             ELSE IF attempts[c] = 0 THEN {TRUE} ELSE BOOLEAN

NothingTornDown(c) == UNCHANGED pcVars      \* bug: the old connections are kept
DropConnections(c) == TearDown(c)

NewTimers(retry) == IF retry THEN 1 ELSE 0

\* handleSessionFailure
SessionFails(c) ==
    /\ DropConnections(c)
    /\ UNCHANGED fresh
    /\ \E retry \in Budget(c) :
         /\ timers' = [timers EXCEPT ![c] = @ + NewTimers(retry)]
         /\ attempts' = [attempts EXCEPT ![c] = @ + (IF retry THEN 1 ELSE 0)]
         /\ state' = [state EXCEPT ![c] = IF retry THEN To(@, "failed") ELSE "closed"]

-----------------------------------------------------------------------------
\* start(), stop(), retries.

Join == <<[type |-> "join"]>>
Leave == <<[type |-> "leave"]>>

Says(c, msgs) == out' = [out EXCEPT ![c] = @ \o msgs]

\* connect() returns at once when the transport is connected or connecting.
Busy(c) == tstate[c] \in {"connected", "connecting"}

\* connect(), then join: at once, or when `auth` has answered.  Without `auth` nothing
\* comes between the two.
ConnectAndJoin(c, caller) ==
    LET suspended == ~Busy(c) /\ opts.auth IN
    /\ waiting' = IF suspended THEN [waiting EXCEPT ![c] = caller] ELSE waiting
    /\ IF suspended THEN UNCHANGED out ELSE Says(c, Join)
    /\ IF Busy(c) THEN UNCHANGED linkVars
       ELSE /\ tstate' = [tstate EXCEPT ![c] = "connecting"]
            /\ sock' = [sock EXCEPT ![c] = IF opts.auth THEN "auth" ELSE "opening"]

Start(c) ==
    /\ state[c] = "idle" /\ ~stopping[c]
    /\ Becomes(c, "connecting")
    /\ ConnectAndJoin(c, "start")
    /\ UNCHANGED <<opts, stopping, timers, attempts, sigUp, pcVars, in, members, drops, failures>>

\* Only the retry whose handle retryTimer holds is cleared.
TimersAfterStop(n) == IF n = 0 THEN 0 ELSE n - 1

\* leave, then disconnect(): an open socket delivers what was written, one that is
\* opening never opens, one that waits for `auth` is made all the same.
Stop(c) ==
    /\ state[c] # "closed"
    /\ stopping' = [stopping EXCEPT ![c] = TRUE]
    /\ timers' = [timers EXCEPT ![c] = TimersAfterStop(@)]
    /\ fresh' = [fresh EXCEPT ![c] = FALSE]
    /\ TearDown(c)
    /\ Says(c, Leave)
    /\ tstate' = [tstate EXCEPT ![c] = "closed"]
    /\ sock' = [sock EXCEPT ![c] = CASE @ = "open" -> "closing" [] @ = "opening" -> "none"
                                     [] OTHER -> @]
    /\ in' = [in EXCEPT ![c] = <<>>]
    /\ state' = [state EXCEPT ![c] = "closed"]
    /\ UNCHANGED <<opts, waiting, attempts, sigUp, members, drops, failures>>

\* No message of another client is on its way, nor about to be.
Quiet(c) ==
    \A d \in Clients \ {c} :
        /\ sock[d] \in {"open", "closing"} => out[d] = <<>> /\ in[d] = <<>>
        /\ d = Pub => \A v \in Viewers : entry[v].sdp # "making"

SigUpAfterAttempt(c) == IF c = Pub THEN sigUp ELSE [sigUp EXCEPT ![c] = FALSE]

NeverGivesUp(c) == FALSE            \* bug: an attempt does not look at `stopping`
GivesUp(c) == stopping[c]

\* attemptReconnect
RetryFires(c) ==
    /\ timers[c] > 0 /\ (opts.prompt => Quiet(c))
    /\ timers' = [timers EXCEPT ![c] = @ - 1]
    /\ IF GivesUp(c) THEN UNCHANGED <<state, fresh, sigUp, waiting, linkVars, out>>
       ELSE /\ Becomes(c, "reconnecting")
            /\ sigUp' = SigUpAfterAttempt(c)
            /\ ConnectAndJoin(c, "attempt")
    /\ UNCHANGED <<opts, stopping, attempts, pcVars, in, members, drops, failures>>

\* The suspended connect() resolves: the socket is made, and its caller joins, even
\* after stop().
ConnectResolves(c) ==
    /\ sock[c] = "auth"
    /\ sock' = [sock EXCEPT ![c] = "opening"]
    /\ waiting' = [waiting EXCEPT ![c] = "none"]
    /\ Says(c, Join)
    /\ UNCHANGED <<opts, state, stopping, timers, attempts, fresh, sigUp, pcVars, tstate, in,
                   members, drops, failures>>

\* It rejects: start() throws, an attempt is a failure.  The transport's state is left.
ConnectRejects(c) ==
    /\ sock[c] = "auth"
    /\ sock' = [sock EXCEPT ![c] = "none"]
    /\ waiting' = [waiting EXCEPT ![c] = "none"]
    /\ IF waiting[c] = "attempt" /\ ~stopping[c] THEN SessionFails(c)
       ELSE UNCHANGED <<state, timers, attempts, fresh, pcVars>>
    /\ UNCHANGED <<opts, stopping, sigUp, tstate, out, in, members, drops, failures>>

\* The success timer, 30 s after "connected": markSuccess() resets the budget unless
\* an attempt was made since.
BudgetResets(c) ==
    /\ fresh[c]
    /\ fresh' = [fresh EXCEPT ![c] = FALSE]
    /\ \E n \in {0, attempts[c]} : attempts' = [attempts EXCEPT ![c] = n]
    /\ UNCHANGED <<opts, state, stopping, waiting, timers, sigUp, pcVars, linkVars, out, in,
                   members, drops, failures>>

-----------------------------------------------------------------------------
\* The viewer's "connected": signaling up, peer connection up, and the track, which
\* comes with the offer.
Flowing(v) == sigUp'[v] /\ pc'[v].up /\ pc'[v].offer # 0
MaybeMarkConnected(v) ==
    IF Flowing(v) THEN Becomes(v, "connected") ELSE UNCHANGED <<state, fresh>>

\* Transport events.

SigUpKept(c) == sigUp               \* bug: a new connection is not noted
SigUpAfterOpen(c) ==
    IF c # Pub /\ Listening(c) THEN [sigUp EXCEPT ![c] = TRUE] ELSE sigUp

Opens(c) ==
    /\ sock[c] = "opening"
    /\ sock' = [sock EXCEPT ![c] = "open"]
    /\ tstate' = [tstate EXCEPT ![c] = "connected"]
    /\ sigUp' = SigUpAfterOpen(c)
    /\ UNCHANGED pcVars
    /\ CASE ~Listening(c) -> UNCHANGED <<state, fresh>>
         [] Listening(c) /\ c = Pub -> Becomes(c, "connected")
         [] Listening(c) /\ c # Pub -> MaybeMarkConnected(c)
    /\ UNCHANGED <<opts, stopping, waiting, timers, attempts, out, in, members, drops, failures>>

\* Whom c hears of: a viewer ignores the other viewers.
Counterparts(c) == IF c = Pub THEN Viewers ELSE {Pub}

\* A message for anyone else is lost or ignored.
Hears(c) == sock[c] = "open" /\ Listening(c)
Reachable(c) == {d \in Counterparts(c) \cap members : Hears(d)}

\* `msg` for every member that cares about c.
Tell(c, msg) == [d \in Clients |-> IF d \in Reachable(c) THEN Append(in[d], msg) ELSE in[d]]

PeerLeft(c) == [type |-> "peer-left", peer |-> c]
PeerJoined(c) == [type |-> "peer-joined", peer |-> c]

\* The server drops the peer with its socket (Session's runs cover a late close).
Closes(c) ==
    /\ sock[c] \in {"opening", "open", "closing"}
    /\ sock[c] = "closing" \/ drops < MaxDrops
    /\ drops' = IF sock[c] = "closing" THEN drops ELSE drops + 1
    /\ sock' = [sock EXCEPT ![c] = "none"]
    /\ out' = IF sock[c] = "opening" THEN out ELSE [out EXCEPT ![c] = <<>>]
    /\ in' = [(IF c \in members THEN Tell(c, PeerLeft(c)) ELSE in) EXCEPT ![c] = <<>>]
    /\ members' = members \ {c}
    /\ LET again == opts.auto /\ ~stopping[c] IN
       /\ tstate' = [tstate EXCEPT ![c] = IF again THEN "reconnecting" ELSE "closed"]
       /\ CASE Listening(c) /\ again ->
                 Becomes(c, "reconnecting") /\ UNCHANGED <<timers, attempts, pcVars>>
            [] Listening(c) /\ ~again /\ state[c] # "closed" -> SessionFails(c)
            [] OTHER -> UNCHANGED <<state, fresh, timers, attempts, pcVars>>
    /\ UNCHANGED <<opts, stopping, waiting, sigUp, failures>>

\* The transport's own retry.
AutoReconnects(c) ==
    /\ tstate[c] = "reconnecting" /\ sock[c] = "none" /\ (opts.prompt => Quiet(c))
    /\ sock' = [sock EXCEPT ![c] = "opening"]
    /\ UNCHANGED <<opts, cliVars, pcVars, tstate, out, in, members, drops, failures>>

-----------------------------------------------------------------------------
\* The server: applyJoin, applyLeave, applySdp.

ServerReceives(c) ==
    /\ sock[c] \in {"open", "closing"} /\ out[c] # <<>>
    /\ out' = [out EXCEPT ![c] = Tail(@)]
    /\ UNCHANGED <<opts, cliVars, pcVars, linkVars, drops, failures>>
    /\ LET msg == Head(out[c]) IN
       CASE msg.type = "join" ->
              /\ members' = members \cup {c}
              /\ in' = [Tell(c, PeerJoined(c)) EXCEPT ![c] =
                          IF ~Hears(c) THEN @
                          ELSE @ \o [i \in DOMAIN SetToSeq(Counterparts(c) \cap members) |->
                                       PeerJoined(SetToSeq(Counterparts(c) \cap members)[i])]]
         [] msg.type = "leave" ->
              /\ members' = members \ {c}
              /\ in' = IF c \in members THEN Tell(c, PeerLeft(c)) ELSE in
         [] msg.type \in {"offer", "answer"} ->
              /\ in' = IF msg.to \in Reachable(c) THEN [in EXCEPT ![msg.to] = Append(@, msg)]
                       ELSE in
              /\ UNCHANGED members

-----------------------------------------------------------------------------
\* Messages: handleMessage, handleViewerJoined, handlePublisherJoined, handleSdp.

KnownKept(v) == TRUE                \* bug: peer-left is not handled
Forgets(v) == FALSE

SilentEntry(v) ==                   \* bug: makeOffer() is not called
    [id |-> entry[v].id + 1, sdp |-> "offered", answer |-> <<0, 0>>]
NewEntry(v) == [id |-> entry[v].id + 1, sdp |-> "making", answer |-> <<0, 0>>]

\* An answer is accepted while an offer is out, whichever offer it answers; in any other
\* state setRemoteDescription rejects it.
PublisherReceives ==
    /\ in[Pub] # <<>>
    /\ in' = [in EXCEPT ![Pub] = Tail(@)]
    /\ LET msg == Head(in[Pub]) IN
       entry' =
         CASE msg.type = "peer-joined" /\ msg.peer \notin Known ->
                [entry EXCEPT ![msg.peer] = NewEntry(msg.peer)]
           [] msg.type = "peer-left" ->
                [entry EXCEPT ![msg.peer] = IF Forgets(msg.peer) THEN @ ELSE NoEntry(@.id)]
           [] msg.type = "answer" /\ entry[msg.from].sdp = "offered" ->
                [entry EXCEPT ![msg.from] = [@ EXCEPT !.sdp = "stable",
                                                      !.answer = <<msg.offer, msg.pc>>]]
           [] OTHER -> entry
    /\ UNCHANGED <<opts, cliVars, pc, linkVars, out, members, drops, failures>>

\* makeOffer() after createOffer() and setLocalDescription().
OfferMade(v) ==
    /\ entry[v].sdp = "making"
    /\ entry' = [entry EXCEPT ![v].sdp = "offered"]
    /\ Says(Pub, <<[type |-> "offer", to |-> v, offer |-> entry[v].id]>>)
    /\ UNCHANGED <<opts, cliVars, pc, linkVars, in, members, drops, failures>>

\* An offer is taken and answered, whichever came before it.
ViewerReceives(v) ==
    /\ in[v] # <<>>
    /\ in' = [in EXCEPT ![v] = Tail(@)]
    /\ LET msg == Head(in[v]) IN
       /\ pc' = CASE msg.type = "peer-joined" /\ ~pc[v].open ->
                       [pc EXCEPT ![v] = [NoPc(@.id + 1) EXCEPT !.open = TRUE]]
                  [] msg.type = "peer-left" -> [pc EXCEPT ![v] = NoPc(@.id)]
                  [] msg.type = "offer" /\ pc[v].open -> [pc EXCEPT ![v].offer = msg.offer]
                  [] OTHER -> pc
       /\ IF msg.type = "offer" /\ pc[v].open
          THEN Says(v, <<[type |-> "answer", from |-> v, to |-> Pub, offer |-> msg.offer,
                          pc |-> pc[v].id]>>)
          ELSE UNCHANGED out
    /\ UNCHANGED sigUp
    /\ MaybeMarkConnected(v)
    /\ UNCHANGED <<opts, stopping, waiting, timers, attempts, entry, linkVars, members,
                   drops, failures>>

-----------------------------------------------------------------------------
\* Peer connections.

\* Both ends refer to each other.
Mated(v) ==
    /\ pc[v].open /\ pc[v].offer = entry[v].id
    /\ entry[v].sdp = "stable" /\ entry[v].answer = <<entry[v].id, pc[v].id>>

PcConnects(v) ==
    /\ Mated(v) /\ ~pc[v].up
    /\ pc' = [pc EXCEPT ![v].up = TRUE]
    /\ UNCHANGED sigUp
    /\ MaybeMarkConnected(v)
    /\ UNCHANGED <<opts, stopping, waiting, timers, attempts, entry, linkVars, out, in,
                   members, drops, failures>>

PcFails(v) ==
    /\ opts.ice /\ failures < MaxFailures
    /\ pc[v].open /\ pc[v].offer # 0
    /\ failures' = failures + 1
    /\ SessionFails(v)
    /\ UNCHANGED <<opts, stopping, waiting, sigUp, linkVars, out, in, members, drops>>

-----------------------------------------------------------------------------
Next ==
    \/ \E c \in Clients :
         \/ Start(c) \/ Stop(c) \/ RetryFires(c) \/ ConnectResolves(c) \/ ConnectRejects(c)
         \/ BudgetResets(c) \/ Opens(c) \/ Closes(c) \/ AutoReconnects(c) \/ ServerReceives(c)
    \/ PublisherReceives
    \/ \E v \in Viewers : OfferMade(v) \/ ViewerReceives(v) \/ PcConnects(v) \/ PcFails(v)

\* Timers fire, what is awaited is answered, messages arrive, a connection that can be
\* made is made.
Fairness ==
    /\ \A c \in Clients :
         /\ WF_vars(RetryFires(c)) /\ WF_vars(AutoReconnects(c))
         /\ WF_vars(ConnectResolves(c) \/ ConnectRejects(c))
         /\ WF_vars(Opens(c)) /\ WF_vars(ServerReceives(c))
    /\ WF_vars(PublisherReceives)
    /\ \A v \in Viewers : WF_vars(OfferMade(v)) /\ WF_vars(ViewerReceives(v)) /\ WF_vars(PcConnects(v))

Spec == Init /\ [][Next]_vars
FairSpec == Spec /\ Fairness

-----------------------------------------------------------------------------
TypeOK ==
    /\ opts \in Options
    /\ state \in [Clients -> DOMAIN Transitions]
    /\ members \subseteq Clients
    /\ \A c \in Clients : timers[c] \in Nat /\ attempts[c] \in 0..MaxAttempts
    /\ tstate \in [Clients -> {"idle", "connecting", "connected", "reconnecting", "closed"}]
    /\ sock \in [Clients -> {"none", "auth", "opening", "open", "closing"}]

\* Everything said by c and to c has been heard.
Settled(c) == out[c] = <<>> /\ in[c] = <<>> /\ (sock[c] = "open" \/ c \notin members)

\* Once everything has arrived, whatever order drops, leaves and rejoins came in: peers()
\* of a publisher that is in the room is exactly the viewers in the room, and a viewer in
\* the room has a peer connection exactly if the publisher is there, unless its retry is
\* still to come (handleViewerJoined, teardownViewer, handlePublisherJoined, teardownPeer).
PeersAreTheViewers ==
    /\ Pub \in members /\ Listening(Pub) /\ Settled(Pub) =>
         Known = {v \in Viewers : v \in members}
    /\ \A v \in Viewers :
         v \in members /\ Listening(v) /\ Settled(v) /\ timers[v] = 0 /\ state[v] # "closed" =>
           (pc[v].open <=> Pub \in members)

\* Whatever was torn down on either side, when everything has arrived the two ends of
\* every connection refer to each other, provided no retry outruns a message and no
\* peer connection failed (makeOffer, handleSdp).
EndsMatch ==
    opts.prompt /\ ~opts.ice =>
      \A v \in Viewers :
        (\A c \in {v, Pub} : c \in members /\ Listening(c) /\ Settled(c)) /\ entry[v].sdp # "making"
          => Mated(v)

\* Once the server has everything a stopped client said, the client is not in the room,
\* whatever it was waiting for when it was stopped (stop, attemptReconnect).  With an
\* `auth` callback it may be: see ConnectResolves.
StoppedLeaves ==
    ~opts.auth => \A c \in Clients : stopping[c] /\ out[c] = <<>> => c \notin members

\* A viewer that is reconnecting comes to something as long as the publisher is there:
\* connected, or failed and then retrying or closed.
Stuck(v) == state[v] = "reconnecting"
PublisherStays == <>[](Pub \in members /\ state[Pub] = "connected")
ReconnectingEnds == PublisherStays => \A v \in Viewers : Stuck(v) ~> ~Stuck(v)

\* It does after a drop of any connection, through messages that cross it and attempts
\* that fail (attemptReconnect, handlePublisherJoined, maybeMarkConnected), when no retry
\* outruns a message, `auth` does not fail and transports leave reconnecting to it.
ViewerRecovers == opts.prompt /\ ~opts.ice /\ ~opts.auth /\ ~opts.auto => ReconnectingEnds
=============================================================================

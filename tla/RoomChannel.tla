---------------------------- MODULE RoomChannel ----------------------------
(***************************************************************************)
(* Presence and chat of one peer: `RoomChannel` of packages/core, with     *)
(* manageJoin, over a transport that drops and a server that answers.      *)
(*                                                                         *)
(* The transport is WsTransport as the channel sees it: its state, the     *)
(* socket under it, and the messages on their way.  `out` holds both the   *)
(* outbound queue and what is written but not received: a drop loses the   *)
(* latter.  The server is Session as one member sees it; it has one        *)
(* attribute per peer, with values 1..MaxValue and 0 for "not set".        *)
(***************************************************************************)
EXTENDS Integers, Sequences, FiniteSets, SequencesExt

CONSTANTS
    Me, Others,         \* this peer; the other members of the room
    HistoryLimit,       \* chatHistoryLimit
    MaxAttempts,        \* retry.maxAttempts
    Options,            \* which transports and options to explore
    MaxValue,           \* bound: values of the attribute
    MaxChats,           \* bound: chats sent by anybody
    MaxSets,            \* bound: calls that change my attribute
    MaxDrops,           \* bound: sockets that close
    MaxIncoming         \* bound: others are silent while so much is on its way

Peers  == {Me} \cup Others
Values == 0..MaxValue
Chats  == 1..MaxChats

\* auto: the transport reconnects by itself (its default).  replay: replayHistory.
AllOptions == [auto: BOOLEAN, replay: BOOLEAN]

ASSUME ChannelConstants ==
    /\ Me \notin Others
    /\ HistoryLimit \in Nat \ {0} /\ MaxAttempts \in Nat
    /\ Options \subseteq AllOptions
    /\ {MaxValue, MaxChats, MaxSets, MaxDrops, MaxIncoming} \subseteq Nat

VARIABLES
    opts,
    \* the channel
    chan,           \* _state
    subscribed,     \* are its transport listeners attached (disposers)?
    starting,       \* start() suspended at connect()
    attempting,     \* attemptReconnect() suspended at connect()
    retryTimer,     \* is the retry timer pending?
    attempts,       \* retryPolicy.attempt
    own,            \* is the attribute in ownAttributeKeys?
    presenceMap,    \* presenceMap
    buffer,         \* chatBuffer: [chat, copy], copy for an entry made on receipt
    status,         \* status of my optimistic entries; pendingChats are the pending ones
    timers,         \* keys of chatAckTimers
    \* transport, server
    tstate, sock,   \* transport's state; its socket: "none", "auth", "opening", "open"
    out, in,        \* messages on their way to the server, from it
    member,         \* does the server hold me as a member?
    srvPresence,    \* its presence of each peer
    log,            \* chats it accepted
    \* history
    next, sets, drops,  \* chats sent, attribute calls, sockets closed so far
    wanted,         \* the value I last gave my attribute
    unsure          \* was it set, or in flight, while the connection was down?

chanVars == <<chan, subscribed, starting, attempting, retryTimer, attempts>>
presVars == <<own, presenceMap>>
chatVars == <<buffer, status, timers>>
linkVars == <<tstate, sock>>
srvVars  == <<member, srvPresence, log>>
histVars == <<next, sets, drops, wanted, unsure>>
vars == <<opts, chanVars, presVars, chatVars, linkVars, out, in, srvVars, histVars>>

NobodySet == [p \in Peers |-> 0]

Init ==
    /\ opts \in Options
    /\ chan = "idle" /\ subscribed = FALSE
    /\ starting = FALSE /\ attempting = FALSE /\ retryTimer = FALSE /\ attempts = 0
    /\ own = FALSE /\ presenceMap = NobodySet
    /\ buffer = <<>> /\ status = [n \in Chats |-> "none"] /\ timers = {}
    /\ tstate = "idle" /\ sock = "none" /\ out = <<>> /\ in = <<>>
    /\ member = FALSE /\ srvPresence = NobodySet /\ log = <<>>
    /\ next = 1 /\ sets = 0 /\ drops = 0 /\ wanted = 0 /\ unsure = FALSE

-----------------------------------------------------------------------------
\* Messages.

JoinMsg(replay) == [type |-> "join", replay |-> replay]
SetMsg(v) == [type |-> "presence-update", value |-> v]
ChatMsg(n) == [type |-> "chat", chat |-> n]

NoResync == <<>>                    \* bug: attributes are not sent again
Resync ==
    IF own /\ presenceMap[Me] # 0 THEN <<SetMsg(presenceMap[Me])>> ELSE <<>>

NoRejoin == <<>>                    \* bug: a reconnect does not join
ReplayAgain == <<JoinMsg(opts.replay)>>   \* bug: it asks for the history again
Rejoin == <<JoinMsg(FALSE)>>

-----------------------------------------------------------------------------
\* Lifecycle.

\* connect() returns at once when the transport is connected or connecting.
Busy == tstate \in {"connected", "connecting"}

\* start() past connect(): join, and "connected".
JoinRoom ==
    /\ out' = Append(out, JoinMsg(opts.replay))
    /\ chan' = "connected"

\* A transport that is already reconnecting is left to itself here.
Start ==
    /\ chan = "idle" /\ tstate # "reconnecting"
    /\ subscribed' = TRUE
    /\ IF Busy
       THEN JoinRoom /\ UNCHANGED <<starting, linkVars>>
       ELSE /\ chan' = "connecting" /\ starting' = TRUE
            /\ tstate' = "connecting" /\ sock' = "auth"
            /\ UNCHANGED out
    /\ UNCHANGED <<opts, attempting, retryTimer, attempts, presVars, chatVars, in,
                   srvVars, histVars>>

Stop ==
    /\ chan \notin {"idle", "closed"}
    /\ chan' = "closed" /\ subscribed' = FALSE
    /\ retryTimer' = FALSE /\ timers' = {}
    /\ out' = Append(out, [type |-> "leave"])
    /\ UNCHANGED <<opts, starting, attempting, attempts, presVars, buffer, status,
                   linkVars, in, srvVars, histVars>>

PendingKept == status               \* bug: pending chats survive a drop
PendingFailed == [n \in Chats |-> IF status[n] = "pending" THEN "failed" ELSE status[n]]

\* nextDelayMs() # null: attempts are left, and maxDurationMs has not passed since
\* the first one.
Budget == IF attempts >= MaxAttempts THEN {FALSE}
          ELSE IF attempts = 0 THEN {TRUE} ELSE BOOLEAN

TimerLost(retry) == FALSE           \* bug: a failed attempt schedules no other
TimerAfterFailure(retry) == retry

\* handleSessionFailure
SessionFails ==
    IF chan = "closed" THEN UNCHANGED <<chan, retryTimer, attempts, status, timers>>
    ELSE /\ status' = PendingFailed
         /\ timers' = timers \ {n \in Chats : status[n] = "pending"}
         /\ \E retry \in Budget :
              /\ retryTimer' = TimerAfterFailure(retry)
              /\ chan' = IF retry THEN "reconnecting" ELSE "closed"
              /\ attempts' = IF retry THEN attempts + 1 ELSE attempts

\* attemptReconnect() past connect(); markSuccess() resets the budget if the last
\* attempt is long ago.
Reconnected ==
    /\ out' = out \o Rejoin \o Resync
    /\ chan' = "connected"
    /\ attempts' \in {attempts, 0}

RetryFires ==
    /\ retryTimer
    /\ retryTimer' = FALSE
    /\ IF Busy
       THEN Reconnected /\ UNCHANGED <<attempting, linkVars>>
       ELSE /\ attempting' = TRUE /\ tstate' = "connecting" /\ sock' = "auth"
            /\ UNCHANGED <<out, chan, attempts>>
    /\ UNCHANGED <<opts, subscribed, starting, presVars, chatVars, in, srvVars, histVars>>

\* connect() resolves for the one who awaits it: the socket is made, not open yet.
ConnectResolves ==
    /\ sock = "auth" /\ sock' = "opening"
    /\ starting' = FALSE /\ attempting' = FALSE
    /\ IF attempting THEN Reconnected ELSE JoinRoom /\ UNCHANGED attempts
    /\ UNCHANGED <<opts, subscribed, retryTimer, presVars, chatVars, tstate, in, srvVars,
                   histVars>>

\* connect() rejects: start() throws, an attempt is followed by another.
ConnectRejects ==
    /\ sock = "auth" /\ sock' = "none"
    /\ starting' = FALSE /\ attempting' = FALSE
    /\ IF attempting THEN SessionFails
       ELSE UNCHANGED <<chan, retryTimer, attempts, status, timers>>
    /\ UNCHANGED <<opts, subscribed, presVars, buffer, tstate, out, in, srvVars, histVars>>

-----------------------------------------------------------------------------
\* The transport.

Opens ==
    /\ sock = "opening" /\ sock' = "open" /\ tstate' = "connected"
    /\ UNCHANGED <<opts, chanVars, presVars, chatVars, out, in, srvVars, histVars>>

OwnInFlight ==
    \/ \E i \in DOMAIN out : out[i].type = "presence-update"
    \/ \E i \in DOMAIN in : in[i].type = "presence-state" /\ in[i].peer = Me

\* A socket closes, opened or not: what was written is lost, the server drops me,
\* and the channel reacts to `closed` while it is connected.
Closes ==
    /\ sock \in {"opening", "open"} /\ drops < MaxDrops
    /\ drops' = drops + 1
    /\ sock' = "none" /\ in' = <<>>
    /\ out' = IF sock = "open" THEN <<>> ELSE out
    /\ member' = FALSE
    /\ srvPresence' = [srvPresence EXCEPT ![Me] = 0]
    /\ unsure' = (unsure \/ OwnInFlight)
    /\ tstate' = IF opts.auto THEN "reconnecting" ELSE "closed"
    /\ IF ~opts.auto /\ subscribed /\ chan = "connected" THEN SessionFails
       ELSE UNCHANGED <<chan, retryTimer, attempts, status, timers>>
    /\ UNCHANGED <<opts, subscribed, starting, attempting, presVars, buffer, log, next,
                   sets, wanted>>

\* The transport's own retry.
AutoReconnects ==
    /\ tstate = "reconnecting" /\ sock = "none"
    /\ sock' = "opening"
    /\ UNCHANGED <<opts, chanVars, presVars, chatVars, tstate, out, in, srvVars, histVars>>

-----------------------------------------------------------------------------
\* The application.

\* Bound: once the channel is stopped, nobody uses it and the others are silent.
InUse == subscribed \/ chan = "idle"

\* setAttribute, removeAttribute and clearAttributes (v = 0).
SetAttribute(v) ==
    /\ InUse /\ sets < MaxSets
    /\ own' = (v # 0)
    /\ out' = Append(out, SetMsg(v))
    /\ wanted' = v /\ sets' = sets + 1
    /\ unsure' = ~(sock = "open" /\ member)
    /\ UNCHANGED <<opts, chanVars, presenceMap, chatVars, linkVars, in, srvVars, next, drops>>

Trimmed(entries) ==
    IF Len(entries) <= HistoryLimit THEN entries
    ELSE SubSeq(entries, Len(entries) - HistoryLimit + 1, Len(entries))

SendChat ==
    /\ InUse /\ next <= MaxChats
    /\ next' = next + 1
    /\ buffer' = Trimmed(Append(buffer, [chat |-> next, copy |-> FALSE]))
    /\ status' = [status EXCEPT ![next] = "pending"]
    /\ timers' = timers \cup {next}
    /\ out' = Append(out, ChatMsg(next))
    /\ UNCHANGED <<opts, chanVars, presVars, linkVars, in, srvVars, sets, drops, wanted, unsure>>

\* No echo within chatAckTimeoutMs.
AckTimeout(n) ==
    /\ n \in timers
    /\ timers' = timers \ {n}
    /\ status' = [status EXCEPT ![n] = IF @ = "pending" THEN "failed" ELSE @]
    /\ UNCHANGED <<opts, chanVars, presVars, buffer, linkVars, out, in, srvVars, histVars>>

-----------------------------------------------------------------------------
\* The server.

Snapshot == [type |-> "presence-snapshot", peers |-> srvPresence]
State(p, v) == [type |-> "presence-state", peer |-> p, value |-> v]

ToMe(msg) == in' = IF member THEN Append(in, msg) ELSE in

ServerReceives ==
    /\ sock = "open" /\ out # <<>>
    /\ out' = Tail(out)
    /\ UNCHANGED <<opts, chanVars, presVars, chatVars, linkVars, histVars>>
    /\ LET msg == Head(out) IN
       CASE msg.type = "join" ->
              /\ member' = TRUE
              /\ in' = in \o <<Snapshot>>
                          \o (IF msg.replay THEN <<[type |-> "chat-history", chats |-> log]>>
                              ELSE <<>>)
              /\ UNCHANGED <<srvPresence, log>>
         [] msg.type = "leave" ->
              /\ member' = FALSE
              /\ srvPresence' = [srvPresence EXCEPT ![Me] = 0]
              /\ UNCHANGED <<in, log>>
         [] msg.type = "presence-update" ->
              /\ srvPresence' = IF member THEN [srvPresence EXCEPT ![Me] = msg.value]
                                ELSE srvPresence
              /\ ToMe(State(Me, msg.value))
              /\ UNCHANGED <<member, log>>
         [] msg.type = "chat" ->
              /\ log' = IF member THEN Append(log, msg.chat) ELSE log
              /\ ToMe(msg)
              /\ UNCHANGED <<member, srvPresence>>

\* Another member sets its attribute, leaves, or says something.
OtherActs(p) ==
    /\ InUse /\ Len(in) < MaxIncoming
    /\ \/ \E v \in Values \ {srvPresence[p]} :
            /\ srvPresence' = [srvPresence EXCEPT ![p] = v]
            /\ ToMe(State(p, v))
            /\ UNCHANGED <<log, next>>
       \/ /\ srvPresence' = [srvPresence EXCEPT ![p] = 0]
          /\ ToMe([type |-> "peer-left", peer |-> p])
          /\ UNCHANGED <<log, next>>
       \/ /\ next <= MaxChats
          /\ next' = next + 1
          /\ log' = Append(log, next)
          /\ ToMe(ChatMsg(next))
          /\ UNCHANGED srvPresence
    /\ UNCHANGED <<opts, chanVars, presVars, chatVars, linkVars, out, member, sets, drops,
                   wanted, unsure>>

-----------------------------------------------------------------------------
\* routeMessage

\* applyPresenceSnapshot; a merge would keep those who left meanwhile.
Merged(peers) ==                    \* bug: the map is not cleared first
    [p \in Peers |-> IF peers[p] # 0 THEN peers[p] ELSE presenceMap[p]]
Replaced(peers) == peers

AnyPending(n) ==                    \* bug: the echo confirms the oldest pending chat
    {m \in Chats : status[m] = "pending" /\ \A k \in 1..(m - 1) : status[k] # "pending"}
Matching(n) == {n} \cap {m \in Chats : status[m] = "pending"}

ApplyChat(n) ==
    IF Matching(n) # {}
    THEN /\ status' = [m \in Chats |-> IF m \in Matching(n) THEN "confirmed" ELSE status[m]]
         /\ timers' = timers \ Matching(n)
         /\ UNCHANGED buffer
    ELSE /\ buffer' = Trimmed(Append(buffer, [chat |-> n, copy |-> TRUE]))
         /\ UNCHANGED <<status, timers>>

ApplyHistory(chats) ==
    /\ buffer' = Trimmed([i \in DOMAIN chats |-> [chat |-> chats[i], copy |-> TRUE]] \o buffer)
    /\ UNCHANGED <<status, timers>>

Receive ==
    /\ in # <<>>
    /\ in' = Tail(in)
    /\ UNCHANGED <<opts, chanVars, own, linkVars, out, srvVars, histVars>>
    /\ LET msg == Head(in) IN
       CASE ~subscribed -> UNCHANGED <<presenceMap, chatVars>>
         [] subscribed /\ msg.type = "presence-snapshot" ->
              presenceMap' = Replaced(msg.peers) /\ UNCHANGED chatVars
         [] subscribed /\ msg.type = "presence-state" ->
              presenceMap' = [presenceMap EXCEPT ![msg.peer] = msg.value] /\ UNCHANGED chatVars
         [] subscribed /\ msg.type = "peer-left" ->
              presenceMap' = [presenceMap EXCEPT ![msg.peer] = 0] /\ UNCHANGED chatVars
         [] subscribed /\ msg.type = "chat" ->
              ApplyChat(msg.chat) /\ UNCHANGED presenceMap
         [] subscribed /\ msg.type = "chat-history" ->
              ApplyHistory(msg.chats) /\ UNCHANGED presenceMap

-----------------------------------------------------------------------------
Next ==
    \/ Start \/ Stop \/ RetryFires \/ ConnectResolves \/ ConnectRejects
    \/ Opens \/ Closes \/ AutoReconnects
    \/ \E v \in Values : SetAttribute(v)
    \/ SendChat \/ \E n \in Chats : AckTimeout(n)
    \/ ServerReceives \/ Receive \/ \E p \in Others : OtherActs(p)

\* Timers fire, a suspended connect() settles.
Fairness == WF_vars(RetryFires) /\ WF_vars(ConnectResolves \/ ConnectRejects)

Spec == Init /\ [][Next]_vars
FairSpec == Spec /\ Fairness

-----------------------------------------------------------------------------
\* Everything said has been heard.
Settled == sock = "open" /\ out = <<>> /\ in = <<>>

\* A channel that says it is connected is a member of the room once its messages have
\* arrived: after any drop it "re-issues `join`" (core/README.md, "Retry + presence
\* resync").
ConnectedMeansJoined == subscribed /\ chan = "connected" /\ Settled => member

\* The same with a transport that does not reconnect by itself (handleSessionFailure,
\* attemptReconnect).
JoinedUnlessAuto == ~opts.auto => ConnectedMeansJoined

\* Once everything has arrived, the presence map is the server's, whatever drops,
\* departures and rejoins came in between (applyPresenceSnapshot, applyPresenceState,
\* routeMessage).
PresenceConverges == subscribed /\ member /\ Settled => presenceMap = srvPresence

\* An attribute whose echo came back before the connection was lost is what the others
\* see after the reconnect (resyncPresence).
EchoedPresenceSurvives ==
    subscribed /\ chan = "connected" /\ member /\ Settled /\ ~unsure =>
      srvPresence[Me] = wanted

\* A chat is confirmed only if the server accepted that very chat, whatever timed out
\* before it; and while the channel runs, exactly the pending chats have a timer: none
\* stays pending for ever, none that is decided is decided again (sendChat, markChatFailed,
\* applyChat).
ConfirmedMeansAccepted ==
    /\ \A n \in Chats : status[n] = "confirmed" => n \in ToSet(log)
    /\ subscribed => timers = {n \in Chats : status[n] = "pending"}

\* The history shows a chat twice only if it had been given up as failed: neither the
\* echo, nor the replay, nor a reconnect doubles another (applyChat, applyChatHistory).
NoDoubles ==
    \A i, j \in DOMAIN buffer :
        i # j /\ buffer[i].chat = buffer[j].chat => status[buffer[i].chat] = "failed"

\* A channel that is reconnecting ends up connected or closed (attemptReconnect,
\* handleSessionFailure).
ReconnectEnds == chan = "reconnecting" ~> chan \in {"connected", "closed"}
=============================================================================

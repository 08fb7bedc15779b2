----------------------------- MODULE RoomLeader -----------------------------
(***************************************************************************)
(* `Room` of packages/core: one transport and one join shared by attached  *)
(* children, and the director set it keeps.  Children are the start() of   *)
(* an attached publisher, viewer or channel.                               *)
(*                                                                         *)
(* A step is what runs between two awaits; continuations of settled        *)
(* promises may run in any order.  The server is Session as one member     *)
(* sees it, with one other member, who may claim director when it joins,   *)
(* and promotions, which the server tells the promoted peer only.          *)
(***************************************************************************)
EXTENDS Naturals, Sequences, FiniteSets

CONSTANTS
    Children,           \* the attached children
    MaxStarts,          \* bound: children started
    MaxDrops,           \* bound: sockets that close unasked
    MaxActs             \* bound: joins, leaves and promotions of others

ASSUME ChildrenAssumption == Children \subseteq {"publisher", "viewer", "channel"}

VARIABLES
    auth,               \* environment: has the transport an `auth` callback?
    roomState, joinedRole,
    connecting,         \* connectPromise # null
    joinMemo,           \* joinPromise: "none", "pending", "done"
    joinAs, joinAt,     \* the async body of ensureJoined: its role, where it is suspended
    closing,            \* close() awaits its leave
    child,              \* where the start() of each child is
    directorSet,
    shown,              \* what useRoom renders: [role, directors]
    tstate, sock, out, in,  \* transport and messages, as in RoomChannel
    srvRole,            \* the role the server holds for this peer, or "none"
    bob, srvDirectors,  \* the other member: "none", "viewer", "director"; Room.directors
    joins, drops, acts, \* history: joins sent; bounds
    promoted,           \* history: somebody else was promoted or demoted, or was before
    late                \* history: close() came while a connect was pending

roomVars == <<roomState, joinedRole, connecting, joinMemo, joinAs, joinAt, closing>>
linkVars == <<tstate, sock>>
srvVars  == <<srvRole, bob, srvDirectors, acts, promoted>>
vars == <<auth, roomVars, child, directorSet, shown, linkVars, out, in, srvVars, joins, drops,
          late>>

NothingShown == [role |-> "none", directors |-> {}]

Init ==
    /\ auth \in BOOLEAN
    /\ roomState = "idle" /\ joinedRole = "none"
    /\ connecting = FALSE /\ joinMemo = "none" /\ joinAs = "none" /\ joinAt = "none"
    /\ closing = FALSE /\ child = [c \in Children |-> "idle"]
    /\ directorSet = {} /\ shown = NothingShown
    /\ tstate = "idle" /\ sock = "none" /\ out = <<>> /\ in = <<>>
    /\ srvRole = "none" /\ bob \in {"none", "director"}
    /\ srvDirectors = IF bob = "director" THEN {"bob"} ELSE {}
    /\ joins = 0 /\ drops = 0 /\ acts = 0 /\ promoted = FALSE /\ late = FALSE

-----------------------------------------------------------------------------
\* ensureConnected()

\* What its caller then awaits: a settled promise ("ready"), connectPromise
\* ("connecting"), or nothing, because it threw.
Outcome == CASE roomState = "closed" -> "failed"
             [] roomState # "closed" /\ tstate = "connected" -> "ready"
             [] OTHER -> "connecting"

\* connect() of the transport; one that is connecting already resolves at once, and
\* without `auth` the socket is made in the same step.
EnsureConnected ==
    /\ roomState' = CASE Outcome = "failed" -> roomState
                      [] Outcome = "ready" -> "connected"
                      [] Outcome = "connecting" /\ connecting -> roomState
                      [] OTHER -> "connecting"
    /\ connecting' = (connecting \/ Outcome = "connecting")
    /\ IF Outcome = "connecting" /\ tstate # "connecting"
       THEN /\ tstate' = "connecting"
            /\ sock' = IF auth THEN "auth" ELSE "opening"
       ELSE UNCHANGED linkVars

\* The children and the join that await a promise get on, or fail with it.
Settled(at, next) == [c \in Children |-> IF child[c] = at THEN next ELSE child[c]]

ConnectResolves ==
    /\ connecting /\ connecting' = FALSE
    /\ sock' = IF sock = "auth" THEN "opening" ELSE sock
    /\ roomState' = "connected"
    /\ child' = Settled("connecting", "ready")
    /\ joinAt' = IF joinAt = "connecting" THEN "ready" ELSE joinAt
    /\ UNCHANGED <<auth, joinedRole, joinMemo, joinAs, closing, directorSet, shown, tstate, out, in,
                   srvVars, joins, drops, late>>

FailsAlone(c) == child[c] = "connecting"   \* bug: who awaits the join is not told
FailsWithConnect(c) ==
    child[c] = "connecting" \/ (child[c] = "joining" /\ joinAt = "connecting")

\* `auth` rejects; the transport is left "connecting".
ConnectRejects ==
    /\ connecting /\ sock = "auth"
    /\ connecting' = FALSE /\ sock' = "none"
    /\ joinMemo' = IF joinAt = "connecting" THEN "none" ELSE joinMemo
    /\ joinAt' = IF joinAt = "connecting" THEN "none" ELSE joinAt
    /\ child' = [c \in Children |-> IF FailsWithConnect(c) THEN "failed" ELSE child[c]]
    /\ UNCHANGED <<auth, roomState, joinedRole, joinAs, closing, directorSet, shown, tstate, out, in,
                   srvVars, joins, drops, late>>

-----------------------------------------------------------------------------
\* The children.

RoleOf(c) == IF c = "channel" THEN "presence" ELSE c

\* start(): ensureConnected() first.
ChildStarts(c) ==
    /\ child[c] = "idle" /\ Cardinality({d \in Children : child[d] # "idle"}) < MaxStarts
    /\ EnsureConnected
    /\ child' = [child EXCEPT ![c] = Outcome]
    /\ UNCHANGED <<auth, joinedRole, joinMemo, joinAs, joinAt, closing, directorSet, shown, out, in,
                   srvVars, joins, drops, late>>

MemoIgnored == FALSE                \* bug: joinPromise is not looked at
JoinRemembered == joinMemo # "none"

NotAwaited == TRUE                  \* bug: the pending join is not awaited
JoinIsOver == joinMemo = "done"

\* ensureJoined(role), which a channel calls only while the room has no role.
ChildJoins(c) ==
    /\ child[c] = "ready"
    /\ CASE joinedRole # "none" ->
              /\ child' = [child EXCEPT ![c] =
                             IF c = "channel" \/ joinedRole = RoleOf(c) THEN "up" ELSE "failed"]
              /\ UNCHANGED <<roomVars, linkVars>>
         [] joinedRole = "none" /\ JoinRemembered ->
              /\ child' = [child EXCEPT ![c] = IF JoinIsOver THEN "up" ELSE "joining"]
              /\ UNCHANGED <<roomVars, linkVars>>
         [] joinedRole = "none" /\ ~JoinRemembered ->
              /\ EnsureConnected
              /\ child' = [child EXCEPT ![c] = IF Outcome = "failed" THEN "failed" ELSE "joining"]
              /\ joinMemo' = IF Outcome = "failed" THEN "none" ELSE "pending"
              /\ joinAs' = RoleOf(c)
              /\ joinAt' = IF Outcome = "failed" THEN "none" ELSE Outcome
              /\ UNCHANGED <<joinedRole, closing>>
    /\ UNCHANGED <<auth, directorSet, shown, out, in, srvVars, joins, drops, late>>

\* The body of ensureJoined() past ensureConnected(); it does not look at `closed`.
JoinProceeds ==
    /\ joinAt = "ready"
    /\ out' = Append(out, [type |-> "join", role |-> joinAs])
    /\ joinedRole' = joinAs /\ joinMemo' = "done" /\ joinAt' = "none"
    /\ child' = Settled("joining", "up")
    /\ joins' = joins + 1
    /\ shown' = IF roomState = "closed" THEN shown
                ELSE [role |-> joinAs, directors |-> directorSet]
    /\ UNCHANGED <<auth, roomState, connecting, joinAs, closing, directorSet, linkVars, in,
                   srvVars, drops, late>>

\* An attached publisher or viewer whose transport closed: attemptReconnect().
ChildRetries(c) ==
    /\ child[c] = "up" /\ c # "channel" /\ tstate = "closed" /\ roomState # "closed"
    /\ EnsureConnected
    /\ child' = [child EXCEPT ![c] = Outcome]
    /\ UNCHANGED <<auth, joinedRole, joinMemo, joinAs, joinAt, closing, directorSet, shown, out, in,
                   srvVars, joins, drops, late>>

-----------------------------------------------------------------------------
\* close(), which useRoom calls when it is unmounted.

\* disconnect(): an open socket delivers what was written, one that is opening never opens.
Disconnect ==
    /\ tstate' = "closed"
    /\ sock' = CASE sock = "open" -> "closing" [] sock = "opening" -> "none" [] OTHER -> sock
    /\ in' = <<>>

Goodbye == IF joinedRole = "none" THEN <<>> ELSE <<[type |-> "leave"]>>

Close ==
    /\ roomState # "closed"
    /\ roomState' = "closed" /\ directorSet' = {} /\ shown' = NothingShown
    /\ out' = out \o Goodbye
    /\ closing' = (joinedRole # "none")
    /\ late' = (late \/ connecting \/ joinAt # "none")
    /\ IF joinedRole # "none" THEN UNCHANGED <<linkVars, in>> ELSE Disconnect
    /\ UNCHANGED <<auth, joinedRole, connecting, joinMemo, joinAs, joinAt, child, srvVars,
                   joins, drops>>

CloseProceeds ==
    /\ closing /\ closing' = FALSE
    /\ joinedRole' = "none"
    /\ Disconnect
    /\ UNCHANGED <<auth, roomState, connecting, joinMemo, joinAs, joinAt, child, directorSet,
                   shown, out, srvVars, joins, drops, late>>

-----------------------------------------------------------------------------
\* Transport and server.

Opens ==
    /\ sock = "opening" /\ sock' = "open" /\ tstate' = "connected"
    /\ UNCHANGED <<auth, roomVars, child, directorSet, shown, out, in, srvVars, joins, drops, late>>

\* An unasked close, with a transport that leaves reconnecting to the children.
SocketCloses ==
    /\ sock \in {"opening", "open", "closing"}
    /\ sock = "closing" \/ drops < MaxDrops
    /\ drops' = IF sock = "closing" THEN drops ELSE drops + 1
    /\ out' = IF sock = "opening" THEN out ELSE <<>>
    /\ sock' = "none" /\ tstate' = "closed" /\ in' = <<>>
    /\ srvRole' = "none" /\ srvDirectors' = srvDirectors \ {"me"}
    /\ UNCHANGED <<auth, roomVars, child, directorSet, shown, bob, acts, promoted, joins, late>>

Tell(msg) == IF srvRole # "none" /\ sock = "open" THEN Append(in, msg) ELSE in
BobJoined(role) == [type |-> "peer-joined", peer |-> "bob", role |-> role]

ServerReceives ==
    /\ sock \in {"open", "closing"} /\ out # <<>>
    /\ out' = Tail(out)
    /\ IF Head(out).type = "join"
       THEN /\ srvRole' = Head(out).role
            /\ in' = IF bob = "none" THEN in ELSE Append(in, BobJoined(bob))
            /\ promoted' = (promoted \/ (("bob" \in srvDirectors) # (bob = "director")))
            /\ UNCHANGED srvDirectors
       ELSE /\ srvRole' = "none" /\ srvDirectors' = srvDirectors \ {"me"}
            /\ UNCHANGED <<in, promoted>>
    /\ UNCHANGED <<auth, roomVars, child, directorSet, shown, linkVars, bob, acts, joins, drops, late>>

\* Another member joins, as a director or not, or leaves; somebody is promoted or demoted.
OthersAct ==
    /\ acts < MaxActs /\ acts' = acts + 1
    /\ \/ \E role \in {"viewer", "director"} :
            /\ bob = "none" /\ bob' = role
            /\ srvDirectors' = IF role = "director" THEN srvDirectors \cup {"bob"} ELSE srvDirectors
            /\ in' = Tell(BobJoined(role))
            /\ UNCHANGED promoted
       \/ /\ bob # "none" /\ bob' = "none"
          /\ srvDirectors' = srvDirectors \ {"bob"}
          /\ in' = Tell([type |-> "peer-left", peer |-> "bob"])
          /\ UNCHANGED promoted
       \/ \E p \in {"me", "bob"}, kind \in {"promote", "demote"} :
            /\ IF p = "me" THEN srvRole # "none" ELSE bob # "none"
            /\ srvDirectors' = IF kind = "promote" THEN srvDirectors \cup {p} ELSE srvDirectors \ {p}
            /\ in' = IF p = "me" THEN Tell([type |-> kind, peer |-> "me"]) ELSE in
            /\ promoted' = (promoted \/ (p = "bob" /\ srvRole # "none"))
            /\ UNCHANGED bob
    /\ UNCHANGED <<auth, roomVars, child, directorSet, shown, linkVars, out, srvRole, joins, drops, late>>

ReadTooEarly == directorSet         \* bug: the hook's listener runs before the Room's
ReadByHook == directorSet'

\* The listener the constructor attaches and close() detaches, then the hook's.
Receive ==
    /\ in # <<>> /\ in' = Tail(in)
    /\ LET msg == Head(in) IN
       directorSet' =
         CASE roomState = "closed" -> directorSet
           [] roomState # "closed" /\ msg.type = "peer-left" -> directorSet \ {msg.peer}
           [] roomState # "closed" /\ msg.type = "demote" -> directorSet \ {msg.peer}
           [] roomState # "closed" /\ msg.type = "promote" -> directorSet \cup {msg.peer}
           [] roomState # "closed" /\ msg.type = "peer-joined" ->
                IF msg.role = "director" THEN directorSet \cup {msg.peer} ELSE directorSet
    /\ shown' = IF roomState = "closed" THEN shown
                ELSE [role |-> joinedRole, directors |-> ReadByHook]
    /\ UNCHANGED <<auth, roomVars, child, linkVars, out, srvVars, joins, drops, late>>

Next ==
    \/ ConnectResolves \/ ConnectRejects \/ JoinProceeds \/ Close \/ CloseProceeds
    \/ \E c \in Children : ChildStarts(c) \/ ChildJoins(c) \/ ChildRetries(c)
    \/ Opens \/ SocketCloses \/ ServerReceives \/ OthersAct \/ Receive

\* Promises settle and their continuations run.
Fairness ==
    /\ WF_vars(ConnectResolves \/ ConnectRejects) /\ WF_vars(JoinProceeds)
    /\ \A c \in Children : WF_vars(ChildJoins(c))

Spec == Init /\ [][Next]_vars
FairSpec == Spec /\ Fairness

-----------------------------------------------------------------------------
\* However many children start, in whatever order their promises settle, and whatever
\* attempts failed before, the room sends one join (ensureJoined: "Concurrent callers in
\* the same tick must see this and wait").
OneJoin == joins <= 1

\* Everything said has been heard, and nothing was lost since the room was made.
Quiet == sock = "open" /\ out = <<>> /\ in = <<>> /\ drops = 0 /\ ~late

\* When start() of a child has returned, the server knows the peer, in the role the room
\* says it has (ensureConnected, ensureJoined).
UpMeansJoined ==
    Quiet /\ roomState # "closed" /\ (\E c \in Children : child[c] = "up") =>
      srvRole = joinedRole /\ joinedRole # "none"

\* A child that has been started gets on or fails: nothing waits for a promise that was
\* forgotten (connectPromise, joinPromise).
StartsSettle ==
    \A c \in Children :
      child[c] \in {"connecting", "ready", "joining"} ~> child[c] \in {"up", "failed"}

\* The role and the directors rendered are the server's, for directors that claimed the
\* role when they joined and for this peer's own promotions (Room's listener, useRoom's,
\* which reads the Room after the Room has heard the same message).
ShownAgree ==
    Quiet /\ roomState # "closed" /\ srvRole # "none" /\ ~promoted =>
      shown = [role |-> srvRole, directors |-> srvDirectors]
=============================================================================

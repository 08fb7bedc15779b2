-------------------------- MODULE RoomLeaderProofs --------------------------
(***************************************************************************)
(* That a room sends one join, that a child which is up has joined, and    *)
(* that what is rendered is the server's, for any set of children,         *)
(* whatever the bounds.                                                    *)
(***************************************************************************)
EXTENDS RoomLeader, Integers, TLAPS

\* joinPromise is forgotten only by the failure of the join it is of, which has sent
\* nothing, and is kept for good once the join is sent; while the body of ensureJoined()
\* runs, there is a promise.
JoinInv ==
    /\ joinMemo \in {"none", "pending", "done"}
    /\ joins = IF joinMemo = "done" THEN 1 ELSE 0
    /\ joinAt # "none" => joinMemo = "pending"

\* A room just made has sent nothing.
LEMMA JoinInit == Init => JoinInv
BY DEF Init, JoinInv

\* The steps that leave the join alone.
LEMMA JoinAlone ==
    ASSUME JoinInv, UNCHANGED <<joinMemo, joinAt, joins>>
    PROVE  JoinInv'
BY DEF JoinInv

\* Only connect, its outcome, and the calls of ensureJoined() touch the promise.
LEMMA JoinStep == JoinInv /\ [Next]_vars => JoinInv'
<1> SUFFICES ASSUME JoinInv, [Next]_vars PROVE JoinInv'
    OBVIOUS
<1>1. CASE ConnectResolves
    BY <1>1 DEF ConnectResolves, JoinInv
<1>2. CASE ConnectRejects
    BY <1>2 DEF ConnectRejects, JoinInv
<1>3. CASE JoinProceeds
    BY <1>3 DEF JoinProceeds, JoinInv
<1>4. CASE Close \/ CloseProceeds
    BY <1>4, JoinAlone DEF Close, CloseProceeds
<1>5. ASSUME NEW c \in Children, ChildStarts(c) \/ ChildRetries(c)
      PROVE  JoinInv'
    BY <1>5, JoinAlone DEF ChildStarts, ChildRetries
<1>6. ASSUME NEW c \in Children, ChildJoins(c)
      PROVE  JoinInv'
    <2>1. UNCHANGED joins
        BY <1>6 DEF ChildJoins
    <2>2. CASE UNCHANGED roomVars
        BY <2>1, <2>2, JoinAlone DEF roomVars
    <2>3. CASE ~UNCHANGED roomVars
        <3>1. /\ joinMemo = "none"
              /\ joinMemo' = IF Outcome = "failed" THEN "none" ELSE "pending"
              /\ joinAt' = IF Outcome = "failed" THEN "none" ELSE Outcome
            BY <1>6, <2>3 DEF ChildJoins, JoinRemembered
        <3> QED BY <2>1, <3>1 DEF JoinInv
    <2> QED BY <2>2, <2>3
<1>7. CASE Opens \/ SocketCloses \/ ServerReceives \/ OthersAct \/ Receive
    BY <1>7, JoinAlone DEF Opens, SocketCloses, ServerReceives, OthersAct, Receive, roomVars
<1>8. CASE UNCHANGED vars
    BY <1>8, JoinAlone DEF vars, roomVars
<1> QED BY <1>1, <1>2, <1>3, <1>4, <1>5, <1>6, <1>7, <1>8 DEF Next

\* However many children start, in whatever order the promises they share settle, and
\* whatever attempts failed before, the room sends at most one join.
THEOREM One_Join == Spec => []OneJoin
<1>1. Init => JoinInv
    BY JoinInit
<1>2. JoinInv /\ [Next]_vars => JoinInv'
    BY JoinStep
<1>3. JoinInv => OneJoin
    BY DEF JoinInv, OneJoin
<1> QED BY <1>1, <1>2, <1>3, PTL DEF Spec

-----------------------------------------------------------------------------
\* The room while it is used and close() did not cross a connect.
InUse == roomState # "closed" /\ ~late

\* A socket is open exactly while the transport is connected, one that closes belongs to a
\* closed room, and the server holds a role for an open socket only.  A room that was closed
\* in time has nothing pending that could open it again.
LinkInv ==
    /\ drops \in Nat
    /\ sock = "open" => tstate = "connected"
    /\ InUse => sock # "closing" /\ ~closing
    /\ InUse /\ srvRole # "none" => sock = "open"
    /\ roomState = "closed" /\ ~late => ~connecting /\ joinAt = "none"

\* ensureConnected() touches neither a closed room nor a connected transport.
LEMMA Ensured ==
    ASSUME EnsureConnected
    PROVE  /\ roomState = "closed" => roomState' = "closed" /\ (connecting' => connecting)
           /\ roomState # "closed" => roomState' # "closed"
           /\ \/ UNCHANGED <<tstate, sock>>
              \/ /\ roomState # "closed" /\ tstate # "connected"
                 /\ tstate' = "connecting" /\ sock' \in {"auth", "opening"}
<1>1. CASE Outcome = "failed"
    BY <1>1 DEF EnsureConnected, Outcome, linkVars
<1>2. CASE Outcome = "ready"
    BY <1>2 DEF EnsureConnected, Outcome, linkVars
<1>3. CASE Outcome = "connecting"
    BY <1>3 DEF EnsureConnected, Outcome, linkVars
<1>4. Outcome \in {"failed", "ready", "connecting"}
    BY DEF Outcome
<1> QED BY <1>1, <1>2, <1>3, <1>4

\* The steps that neither change the room nor its link.
LEMMA LinkAlone ==
    ASSUME LinkInv,
           UNCHANGED <<roomState, connecting, joinAt, closing, tstate, sock, srvRole, drops, late>>
    PROVE  LinkInv' /\ (InUse' => InUse)
    BY DEF LinkInv, InUse

\* A step that calls ensureConnected(), and starts a join only in a room that is not closed.
LEMMA LinkEnsured ==
    ASSUME LinkInv, EnsureConnected, UNCHANGED <<closing, srvRole, drops, late>>,
           roomState = "closed" => joinAt' \in {joinAt, "none"}
    PROVE  LinkInv' /\ (InUse' => InUse)
<1>1. /\ roomState = "closed" => roomState' = "closed" /\ (connecting' => connecting)
      /\ roomState # "closed" => roomState' # "closed"
      /\ \/ UNCHANGED <<tstate, sock>>
         \/ /\ roomState # "closed" /\ tstate # "connected"
            /\ tstate' = "connecting" /\ sock' \in {"auth", "opening"}
    BY Ensured
<1> QED BY <1>1 DEF LinkInv, InUse

\* Room and link: a step.
LEMMA LinkStep ==
    ASSUME LinkInv, [Next]_vars
    PROVE  LinkInv' /\ (InUse' => InUse)
<1>1. CASE ConnectResolves
    BY <1>1 DEF ConnectResolves, LinkInv, InUse, srvVars
<1>2. CASE ConnectRejects
    BY <1>2 DEF ConnectRejects, LinkInv, InUse, srvVars
<1>3. CASE JoinProceeds
    <2>1. UNCHANGED <<roomState, connecting, closing, tstate, sock, srvRole, drops, late>> /\ joinAt' = "none"
        BY <1>3 DEF JoinProceeds, linkVars, srvVars
    <2> QED BY <2>1 DEF LinkInv, InUse
<1>4. CASE Close
    <2>1. /\ roomState' = "closed" /\ late' = (late \/ connecting \/ joinAt # "none")
          /\ UNCHANGED <<connecting, joinAt, drops>>
          /\ sock' = "open" => tstate' = "connected"
        BY <1>4 DEF Close, Disconnect, linkVars, LinkInv
    <2> QED BY <2>1 DEF LinkInv, InUse
<1>5. CASE CloseProceeds
    <2>1. /\ closing /\ UNCHANGED <<roomState, connecting, joinAt, drops, late>>
          /\ sock' # "open"
        BY <1>5 DEF CloseProceeds, Disconnect
    <2> QED BY <2>1 DEF LinkInv, InUse
<1>6. ASSUME NEW c \in Children, ChildStarts(c) \/ ChildRetries(c)
      PROVE  LinkInv' /\ (InUse' => InUse)
    <2>1. EnsureConnected /\ UNCHANGED <<closing, srvRole, drops, late, joinAt>>
        BY <1>6 DEF ChildStarts, ChildRetries, srvVars
    <2> QED BY <2>1, LinkEnsured
<1>7. ASSUME NEW c \in Children, ChildJoins(c)
      PROVE  LinkInv' /\ (InUse' => InUse)
    <2>1. UNCHANGED <<srvRole, drops, late>>
        BY <1>7 DEF ChildJoins, srvVars
    <2>2. CASE joinedRole # "none" \/ JoinRemembered
        <3>1. UNCHANGED <<roomVars, linkVars>>
            BY <1>7, <2>2 DEF ChildJoins
        <3> QED BY <2>1, <3>1, LinkAlone DEF roomVars, linkVars
    <2>3. CASE joinedRole = "none" /\ ~JoinRemembered
        <3>1. /\ EnsureConnected /\ UNCHANGED closing
              /\ joinAt' = IF Outcome = "failed" THEN "none" ELSE Outcome
            BY <1>7, <2>3 DEF ChildJoins
        <3>2. roomState = "closed" => joinAt' = "none"
            BY <3>1 DEF Outcome
        <3> QED BY <2>1, <3>1, <3>2, LinkEnsured
    <2> QED BY <2>2, <2>3
<1>8. CASE Opens
    BY <1>8 DEF Opens, LinkInv, InUse, roomVars, srvVars
<1>9. CASE SocketCloses
    <2>1. /\ sock' = "none" /\ srvRole' = "none" /\ drops' \in Nat
          /\ UNCHANGED <<roomState, connecting, joinAt, closing, late>>
        BY <1>9 DEF SocketCloses, roomVars, LinkInv
    <2> QED BY <2>1 DEF LinkInv, InUse
<1>10. CASE ServerReceives
    <2>1. /\ sock \in {"open", "closing"}
          /\ UNCHANGED <<roomState, connecting, joinAt, closing, tstate, sock, drops, late>>
        BY <1>10 DEF ServerReceives, roomVars, linkVars
    <2> QED BY <2>1 DEF LinkInv, InUse
<1>11. CASE OthersAct \/ Receive \/ UNCHANGED vars
    BY <1>11, LinkAlone DEF OthersAct, Receive, vars, roomVars, linkVars, srvVars
<1> QED BY <1>1, <1>2, <1>3, <1>4, <1>5, <1>6, <1>7, <1>8, <1>9, <1>10, <1>11 DEF Next

-----------------------------------------------------------------------------
\* The join, on its way and received, of a room in use that lost no socket.
Running == InUse /\ drops = 0
Join(role) == [type |-> "join", role |-> role]

\* A room that has a role has remembered its join, and so has the room of a child that is up;
\* the join, once sent, is on its way or the server has the room's role.
RoleInv ==
    /\ joinAt # "none" => joinAs # "none"
    /\ joinedRole # "none" => joinMemo = "done"
    /\ \A c \in Children : child[c] = "up" => joinMemo = "done"
    /\ InUse /\ joinMemo = "done" => joinedRole # "none"
    /\ Running =>
         \/ joinMemo # "done" /\ srvRole = "none" /\ out = <<>>
         \/ joinMemo = "done" /\ srvRole = "none" /\ out = <<Join(joinedRole)>>
         \/ joinMemo = "done" /\ srvRole = joinedRole /\ out = <<>>

\* The steps that join nothing and send nothing.
LEMMA RoleAlone ==
    ASSUME RoleInv, UNCHANGED <<joinMemo, joinedRole, out, srvRole, drops>>, InUse' => InUse,
           joinAt' # "none" => joinAs' # "none",
           \A c \in Children : child'[c] = "up" => child[c] = "up" \/ joinMemo = "done"
    PROVE  RoleInv'
<1>1. Running' => Running
    BY DEF Running
<1> QED BY <1>1 DEF RoleInv, Join

\* Where a child is.
ChildrenOK == child \in [Children -> {"idle", "connecting", "ready", "joining", "up", "failed"}]

LEMMA ChildrenStep == ChildrenOK /\ [Next]_vars => ChildrenOK'
<1> SUFFICES ASSUME ChildrenOK, [Next]_vars PROVE ChildrenOK'
    OBVIOUS
<1>1. Outcome \in {"failed", "ready", "connecting"}
    BY DEF Outcome
<1>2. CASE ConnectResolves
    BY <1>2 DEF ConnectResolves, ChildrenOK, Settled
<1>3. CASE ConnectRejects
    BY <1>3 DEF ConnectRejects, ChildrenOK
<1>4. CASE JoinProceeds
    BY <1>4 DEF JoinProceeds, ChildrenOK, Settled
<1>5. ASSUME NEW c \in Children, ChildStarts(c) \/ ChildRetries(c) PROVE ChildrenOK'
    BY <1>1, <1>5 DEF ChildStarts, ChildRetries, ChildrenOK
<1>6. ASSUME NEW c \in Children, ChildJoins(c) PROVE ChildrenOK'
    BY <1>6 DEF ChildJoins, ChildrenOK
<1>7. CASE \/ Close \/ CloseProceeds \/ Opens \/ SocketCloses \/ ServerReceives
           \/ OthersAct \/ Receive \/ UNCHANGED vars
    <2>1. UNCHANGED child
        BY <1>7 DEF Close, CloseProceeds, Opens, SocketCloses, ServerReceives, OthersAct,
                    Receive, vars
    <2> QED BY <2>1 DEF ChildrenOK
<1> QED BY <1>2, <1>3, <1>4, <1>5, <1>6, <1>7 DEF Next

\* Joining: a step.
LEMMA RoleStep ==
    ASSUME ChildrenAssumption, ChildrenOK, JoinInv, LinkInv, RoleInv, [Next]_vars
    PROVE  RoleInv'
<1>0. InUse' => InUse
    BY LinkStep
<1>1. CASE ConnectResolves
    BY <1>0, <1>1, RoleAlone DEF ConnectResolves, Settled, srvVars, RoleInv
<1>2. CASE ConnectRejects
    <2>1. /\ UNCHANGED <<joinedRole, joinAs, out, srvRole, drops>>
          /\ joinMemo' = IF joinAt = "connecting" THEN "none" ELSE joinMemo
          /\ joinAt' = IF joinAt = "connecting" THEN "none" ELSE joinAt
          /\ \A c \in Children : child'[c] = "up" => child[c] = "up"
        BY <1>2 DEF ConnectRejects, srvVars, ChildrenOK
    <2>2. Running' => Running
        BY <1>0, <2>1 DEF Running
    <2>3. joinMemo = "done" <=> joinMemo' = "done"
        BY <2>1 DEF JoinInv
    <2> QED BY <1>0, <2>1, <2>2, <2>3 DEF RoleInv, Join
<1>3. CASE JoinProceeds
    <2>1. /\ joinAt = "ready" /\ out' = Append(out, Join(joinAs)) /\ joinedRole' = joinAs
          /\ joinMemo' = "done" /\ joinAt' = "none" /\ UNCHANGED <<srvRole, drops>>
        BY <1>3 DEF JoinProceeds, Join, srvVars
    <2>2. joinMemo # "done" /\ joinAs # "none"
        BY <2>1 DEF JoinInv, RoleInv
    <2>3. Running' => srvRole = "none" /\ out = <<>>
        BY <1>0, <2>1, <2>2 DEF Running, RoleInv
    <2>4. Running' => out' = <<Join(joinedRole')>>
        BY <2>1, <2>3
    <2> QED BY <2>1, <2>2, <2>3, <2>4 DEF RoleInv, Join
<1>4. CASE Close
    <2>1. ~InUse' /\ UNCHANGED <<joinAt, joinAs, joinedRole, joinMemo, child>>
        BY <1>4 DEF Close, InUse
    <2> QED BY <2>1 DEF RoleInv, Running
<1>5. CASE CloseProceeds
    <2>1. /\ closing /\ joinedRole' = "none"
          /\ UNCHANGED <<roomState, joinAt, joinAs, joinMemo, child, late>>
        BY <1>5 DEF CloseProceeds
    <2>2. ~InUse'
        BY <1>0, <2>1 DEF LinkInv
    <2> QED BY <2>1, <2>2 DEF RoleInv, Running
<1>6. ASSUME NEW c \in Children, ChildStarts(c) \/ ChildRetries(c) PROVE RoleInv'
    <2>1. /\ UNCHANGED <<joinedRole, joinMemo, joinAt, joinAs, out, srvRole, drops>>
          /\ child' = [child EXCEPT ![c] = Outcome]
        BY <1>6 DEF ChildStarts, ChildRetries, srvVars
    <2>2. Outcome # "up"
        BY DEF Outcome
    <2>3. \A d \in Children : child'[d] = "up" => child[d] = "up"
        BY <2>1, <2>2 DEF ChildrenOK
    <2> QED BY <1>0, <2>1, <2>3, RoleAlone DEF RoleInv
<1>7. ASSUME NEW c \in Children, ChildJoins(c) PROVE RoleInv'
    <2>1. UNCHANGED <<out, srvRole, drops, joinedRole>>
        BY <1>7 DEF ChildJoins, srvVars, roomVars
    <2>2. CASE joinedRole # "none" \/ JoinRemembered
        <3>1. UNCHANGED <<joinMemo, joinAt, joinAs>>
            BY <1>7, <2>2 DEF ChildJoins, roomVars
        <3>2. joinedRole # "none" => joinMemo = "done"
            BY DEF RoleInv
        <3>3. \A d \in Children : child'[d] = "up" => child[d] = "up" \/ joinMemo = "done"
            BY <1>7, <2>2, <3>2 DEF ChildJoins, JoinIsOver, ChildrenOK
        <3> QED BY <1>0, <2>1, <3>1, <3>3, RoleAlone DEF RoleInv
    <2>3. CASE joinedRole = "none" /\ ~JoinRemembered
        <3>1. /\ joinMemo = "none" /\ joinMemo' \in {"none", "pending"}
              /\ joinAs' = RoleOf(c)
              /\ child' = [child EXCEPT ![c] = IF Outcome = "failed" THEN "failed" ELSE "joining"]
            BY <1>7, <2>3 DEF ChildJoins, JoinRemembered
        <3>2. joinAs' # "none"
            BY <3>1 DEF RoleOf, ChildrenAssumption
        <3>3. \A d \in Children : child'[d] = "up" => child[d] = "up"
            BY <3>1 DEF ChildrenOK
        <3>4. Running' => Running
            BY <1>0, <2>1 DEF Running
        <3> QED BY <1>0, <2>1, <2>3, <3>1, <3>2, <3>3, <3>4 DEF RoleInv, Join
    <2> QED BY <2>2, <2>3
<1>8. CASE Opens
    BY <1>0, <1>8, RoleAlone DEF Opens, roomVars, srvVars, RoleInv
<1>9. CASE SocketCloses
    <2>1. /\ UNCHANGED <<joinedRole, joinMemo, joinAt, joinAs, child>>
          /\ drops' = IF sock = "closing" THEN drops ELSE drops + 1
        BY <1>9 DEF SocketCloses, roomVars
    <2>2. ~Running'
        BY <1>0, <2>1 DEF LinkInv, Running
    <2> QED BY <1>0, <2>1, <2>2 DEF RoleInv
<1>10. CASE ServerReceives
    <2>1. /\ UNCHANGED <<joinedRole, joinMemo, joinAt, joinAs, child, drops>>
          /\ out # <<>> /\ out' = Tail(out)
          /\ Head(out).type = "join" => srvRole' = Head(out).role
        BY <1>10 DEF ServerReceives, roomVars
    <2>2. Running' => joinMemo = "done" /\ srvRole = "none" /\ out = <<Join(joinedRole)>>
        BY <1>0, <2>1 DEF RoleInv, Running
    <2>3. Running' => srvRole' = joinedRole' /\ out' = <<>>
        <3> DEFINE m == Join(joinedRole)
        <3>1. m.type = "join" /\ m.role = joinedRole
            BY DEF Join
        <3> HIDE DEF m
        <3>2. Head(<<m>>) = m /\ Tail(<<m>>) = <<>>
            OBVIOUS
        <3>3. Running' => out = <<m>>
            BY <2>2 DEF m
        <3> QED BY <2>1, <3>1, <3>2, <3>3
    <2> QED BY <1>0, <2>1, <2>2, <2>3 DEF RoleInv
<1>11. CASE OthersAct \/ Receive \/ UNCHANGED vars
    <2>1. UNCHANGED <<joinMemo, joinedRole, joinAt, joinAs, out, srvRole, drops, child>>
        BY <1>11 DEF OthersAct, Receive, vars, roomVars, srvVars
    <2> QED BY <1>0, <2>1, RoleAlone DEF RoleInv
<1> QED BY <1>1, <1>2, <1>3, <1>4, <1>5, <1>6, <1>7, <1>8, <1>9, <1>10, <1>11 DEF Next

\* Nothing has happened in a room just made.
LEMMA RoleInit == Init => JoinInv /\ LinkInv /\ ChildrenOK /\ RoleInv
<1> SUFFICES ASSUME Init PROVE LinkInv /\ ChildrenOK /\ RoleInv
    BY JoinInit
<1>1. child = [c \in Children |-> "idle"] /\ \A c \in Children : child[c] = "idle"
    BY DEF Init
<1>2. LinkInv /\ ChildrenOK
    BY <1>1 DEF Init, LinkInv, ChildrenOK, InUse
<1>3. RoleInv
    BY <1>1 DEF Init, RoleInv, Running, InUse
<1> QED BY <1>2, <1>3

\* When start() of a child has returned, the server knows the peer in the role the room says
\* it has, unless close() came while a connect was pending (ensureConnected, ensureJoined).
THEOREM Up_Joined == Spec => []UpMeansJoined
<1>1. Init => JoinInv /\ LinkInv /\ ChildrenOK /\ RoleInv
    BY RoleInit
<1>2. JoinInv /\ LinkInv /\ ChildrenOK /\ RoleInv /\ [Next]_vars
        => JoinInv' /\ LinkInv' /\ ChildrenOK' /\ RoleInv'
    BY JoinStep, LinkStep, ChildrenStep, RoleStep, ChildrenAssumption
<1>3. RoleInv => UpMeansJoined
    <2> SUFFICES ASSUME RoleInv, Quiet, roomState # "closed", NEW c \in Children, child[c] = "up"
                 PROVE  srvRole = joinedRole /\ joinedRole # "none"
        BY DEF UpMeansJoined
    <2>1. Running /\ InUse /\ joinMemo = "done" /\ out = <<>>
        BY DEF Quiet, Running, InUse, RoleInv
    <2> QED BY <2>1 DEF RoleInv
<1> QED BY <1>1, <1>2, <1>3, PTL DEF Spec

-----------------------------------------------------------------------------
\* Directors: what is on its way brings the room's set to the server's.
People == {"me", "bob"}
Messages == [type : {"peer-left", "promote", "demote"}, peer : People]
              \cup [type : {"peer-joined"}, peer : People, role : {"viewer", "director"}]

\* Does `m` decide whether p is a director, and how?
Decides(m, p) == m.peer = p /\ (m.type = "peer-joined" => m.role = "director")
Appoints(m) == m.type \in {"peer-joined", "promote"}

\* The last message of `list` that decides about p decides as `there` has it; if there is
\* none, `here` agrees already.
Brings(list, p, here, there) ==
    \/ \E i \in DOMAIN list :
         /\ Decides(list[i], p) /\ (Appoints(list[i]) <=> p \in there)
         /\ \A j \in DOMAIN list : j > i => ~Decides(list[j], p)
    \/ (p \in here <=> p \in there) /\ \A j \in DOMAIN list : ~Decides(list[j], p)

\* A message more.
LEMMA BringsAppend ==
    ASSUME NEW list \in Seq(Messages), NEW m \in Messages, NEW p, NEW here, NEW there
    PROVE  /\ Decides(m, p) /\ (Appoints(m) <=> p \in there) => Brings(Append(list, m), p, here, there)
           /\ \A before : ~Decides(m, p) /\ (p \in before <=> p \in there)
                            /\ Brings(list, p, here, before) => Brings(Append(list, m), p, here, there)
<1> DEFINE r == Append(list, m)
<1>1. /\ DOMAIN list = 1..Len(list) /\ Len(list) \in Nat /\ DOMAIN r = 1..(Len(list) + 1)
      /\ \A i \in DOMAIN list : r[i] = list[i]
      /\ r[Len(list) + 1] = m
      /\ \A i \in DOMAIN r : i \in DOMAIN list \/ i = Len(list) + 1
    OBVIOUS
<1> HIDE DEF r
<1>2. ASSUME Decides(m, p), Appoints(m) <=> p \in there PROVE Brings(r, p, here, there)
    <2>1. Len(list) + 1 \in DOMAIN r /\ \A j \in DOMAIN r : ~(j > Len(list) + 1)
        BY <1>1
    <2> QED BY <1>1, <1>2, <2>1 DEF Brings
<1>3. ASSUME NEW before, ~Decides(m, p), p \in before <=> p \in there, Brings(list, p, here, before)
      PROVE  Brings(r, p, here, there)
    <2>1. \A j \in DOMAIN r : Decides(r[j], p) => j \in DOMAIN list /\ r[j] = list[j]
        BY <1>1, <1>3
    <2>2. \A i \in DOMAIN list : i \in DOMAIN r
        BY <1>1
    <2> QED BY <1>1, <1>3, <2>1, <2>2 DEF Brings
<1> QED BY <1>2, <1>3 DEF r

\* A message received.
LEMMA BringsTail ==
    ASSUME NEW list \in Seq(Messages), list # <<>>, NEW p, NEW here, NEW after, NEW there,
           Brings(list, p, here, there),
           p \in after <=> IF Decides(Head(list), p) THEN Appoints(Head(list)) ELSE p \in here
    PROVE  Brings(Tail(list), p, after, there)
<1> DEFINE r == Tail(list)
           m == Head(list)
<1>1. /\ m = list[1] /\ 1 \in DOMAIN list
      /\ DOMAIN list \subseteq Int /\ DOMAIN r \subseteq Int
      /\ \A i \in DOMAIN r : i >= 1
      /\ \A i \in DOMAIN r : i + 1 \in DOMAIN list /\ r[i] = list[i + 1]
      /\ \A i \in DOMAIN list : i # 1 => i - 1 \in DOMAIN r /\ r[i - 1] = list[i]
    OBVIOUS
<1>2. p \in after <=> IF Decides(m, p) THEN Appoints(m) ELSE p \in here
    OBVIOUS
<1> HIDE DEF r, m
<1>3. CASE (p \in here <=> p \in there) /\ \A j \in DOMAIN list : ~Decides(list[j], p)
    BY <1>1, <1>2, <1>3 DEF Brings
<1>4. ASSUME NEW i \in DOMAIN list, Decides(list[i], p), Appoints(list[i]) <=> p \in there,
             \A j \in DOMAIN list : j > i => ~Decides(list[j], p)
      PROVE  Brings(r, p, after, there)
    <2>1. CASE i = 1
        <3>1. \A j \in DOMAIN r : ~Decides(r[j], p)
            BY <1>1, <1>4, <2>1
        <3> QED BY <1>1, <1>2, <1>4, <2>1, <3>1 DEF Brings
    <2>2. CASE i # 1
        <3>1. i - 1 \in DOMAIN r /\ r[i - 1] = list[i]
            BY <1>1, <2>2
        <3>2. \A j \in DOMAIN r : j > i - 1 => ~Decides(r[j], p)
            BY <1>1, <1>4
        <3> QED BY <1>4, <3>1, <3>2 DEF Brings
    <2> QED BY <2>1, <2>2
<1> QED BY <1>3, <1>4 DEF Brings, r

\* What is rendered is what the room holds; before the server knows this peer, nothing came
\* and the room has no directors, and after that the messages on their way account for every
\* difference between its directors and the room's, as long as all were announced.
ViewInv ==
    /\ in \in Seq(Messages)
    /\ bob \in {"none", "viewer", "director"}
    /\ srvDirectors \subseteq People /\ directorSet \subseteq People
    /\ Running /\ srvRole = "none" => "me" \notin srvDirectors
    /\ bob = "none" => "bob" \notin srvDirectors
    /\ Running =>
         /\ srvRole = "none" => in = <<>> /\ directorSet = {}
         /\ joinMemo = "done" => shown = [role |-> joinedRole, directors |-> directorSet]
         /\ srvRole # "none" /\ ~promoted =>
              \A p \in People : Brings(in, p, directorSet, srvDirectors)

\* The same of the next state.
LEMMA ViewPrimed ==
    ASSUME in' \in Seq(Messages), bob' \in {"none", "viewer", "director"},
           srvDirectors' \subseteq People, directorSet' \subseteq People,
           Running' /\ srvRole' = "none" => "me" \notin srvDirectors',
           bob' = "none" => "bob" \notin srvDirectors',
           Running' =>
             /\ srvRole' = "none" => in' = <<>> /\ directorSet' = {}
             /\ joinMemo' = "done" => shown' = [role |-> joinedRole', directors |-> directorSet']
             /\ srvRole' # "none" /\ ~promoted' =>
                  \A p \in People : Brings(in', p, directorSet', srvDirectors')
    PROVE  ViewInv'
<1>1. Running' => (srvRole' # "none" /\ ~promoted' =>
                     \A p \in People : Brings(in, p, directorSet, srvDirectors)')
    BY DEF Brings, Decides, Appoints
<1> QED BY <1>1 DEF ViewInv, Messages, People

\* The steps that neither tell nor render anything.
LEMMA ViewAlone ==
    ASSUME ViewInv, Running' => Running,
           UNCHANGED <<in, bob, srvDirectors, directorSet, srvRole, shown, joinedRole, promoted>>,
           joinMemo' = "done" => joinMemo = "done"
    PROVE  ViewInv'
    BY ViewPrimed DEF ViewInv

\* A message for this peer, or none, after others acted.
LEMMA OthersTold ==
    ASSUME ViewInv, LinkInv, RoleInv, Running' => Running,
           UNCHANGED <<directorSet, srvRole, shown, joinedRole, joinMemo, sock>>,
           NEW m \in Messages, in' = Tell(m),
           bob' \in {"none", "viewer", "director"}, srvDirectors' \subseteq People,
           Running' /\ srvRole' = "none" => "me" \notin srvDirectors',
           bob' = "none" => "bob" \notin srvDirectors',
           \A p \in People : IF Decides(m, p) THEN (Appoints(m) <=> p \in srvDirectors')
                             ELSE (p \in srvDirectors' <=> p \in srvDirectors),
           promoted => promoted'
    PROVE  ViewInv'
<1>1. /\ in \in Seq(Messages) /\ in' = IF srvRole # "none" /\ sock = "open" THEN Append(in, m) ELSE in
      /\ directorSet \subseteq People
    BY DEF Tell, ViewInv
<1>2. in' \in Seq(Messages)
    BY <1>1
<1>3. ASSUME Running', srvRole # "none", ~promoted', NEW p \in People
      PROVE  Brings(in', p, directorSet, srvDirectors')
    <2>1. sock = "open" /\ in' = Append(in, m)
        BY <1>1, <1>3 DEF LinkInv, Running
    <2>2. Brings(in, p, directorSet, srvDirectors)
        BY <1>3 DEF ViewInv
    <2>3. CASE Decides(m, p)
        BY <1>1, <2>1, <2>3, BringsAppend
    <2>4. CASE ~Decides(m, p)
        BY <1>1, <2>1, <2>2, <2>4, BringsAppend
    <2> QED BY <2>3, <2>4
<1>4. Running' => /\ srvRole = "none" => in' = <<>> /\ directorSet = {}
                  /\ joinMemo = "done" => shown = [role |-> joinedRole, directors |-> directorSet]
    BY <1>1 DEF ViewInv
<1> QED BY <1>1, <1>2, <1>3, <1>4, ViewPrimed

\* What the first join tells: the other member, if there is one.
LEMMA FirstView ==
    ASSUME bob \in {"none", "viewer", "director"}, srvDirectors \subseteq People,
           "me" \notin srvDirectors, bob = "none" => "bob" \notin srvDirectors,
           "bob" \in srvDirectors <=> bob = "director"
    PROVE  /\ BobJoined(bob) \in Messages \/ bob = "none"
           /\ \A p \in People :
                Brings(IF bob = "none" THEN <<>> ELSE <<BobJoined(bob)>>, p, {}, srvDirectors)
<1>1. CASE bob = "none"
    BY <1>1 DEF Brings, People
<1>2. CASE bob # "none"
    <2> DEFINE m == BobJoined(bob)
    <2>1. /\ m \in Messages /\ m.type = "peer-joined" /\ m.peer = "bob" /\ m.role = bob
        BY <1>2 DEF BobJoined, Messages, People
    <2> HIDE DEF m
    <2>2. ASSUME NEW p \in People PROVE Brings(Append(<<>>, m), p, {}, srvDirectors)
        <3>1. <<>> \in Seq(Messages) /\ Brings(<<>>, p, {}, {})
            BY DEF Brings
        <3>2. CASE Decides(m, p)
            <4>1. Appoints(m) <=> p \in srvDirectors
                BY <2>1, <3>2 DEF Decides, Appoints
            <4> QED BY <2>1, <3>1, <3>2, <4>1, BringsAppend
        <3>3. CASE ~Decides(m, p)
            <4>1. p \notin srvDirectors
                BY <1>2, <2>1, <3>3 DEF Decides, People
            <4> QED BY <2>1, <3>1, <3>3, <4>1, BringsAppend
        <3> QED BY <3>2, <3>3
    <2>3. Append(<<>>, m) = <<m>>
        OBVIOUS
    <2>4. \A p \in People : Brings(<<m>>, p, {}, srvDirectors)
        BY <2>2, <2>3
    <2> QED BY <1>2, <2>1, <2>4 DEF m
<1> QED BY <1>1, <1>2

\* Directors: a step.
LEMMA ViewStep ==
    ASSUME JoinInv, LinkInv, RoleInv, ViewInv, [Next]_vars
    PROVE  ViewInv'
<1>0. /\ InUse' => InUse
      /\ in \in Seq(Messages) /\ bob \in {"none", "viewer", "director"}
      /\ srvDirectors \subseteq People /\ directorSet \subseteq People
      /\ bob = "none" => "bob" \notin srvDirectors
      /\ <<>> \in Seq(Messages)
    BY LinkStep DEF ViewInv
<1>1. UNCHANGED drops => (Running' => Running)
    BY <1>0 DEF Running
<1>2. ASSUME ~Running', in' \in Seq(Messages), UNCHANGED bob, srvDirectors' \subseteq srvDirectors,
             directorSet' \subseteq People
      PROVE  ViewInv'
    BY <1>0, <1>2, ViewPrimed
<1>3. CASE ConnectResolves \/ ConnectRejects
    <2>1. UNCHANGED <<in, bob, srvDirectors, directorSet, srvRole, shown, joinedRole, promoted, drops>>
        BY <1>3 DEF ConnectResolves, ConnectRejects, srvVars
    <2>2. joinMemo' = "done" => joinMemo = "done"
        BY <1>3 DEF ConnectResolves, ConnectRejects
    <2> QED BY <1>1, <2>1, <2>2, ViewAlone
<1>4. CASE JoinProceeds
    <2>1. /\ UNCHANGED <<in, bob, srvDirectors, directorSet, srvRole, promoted, roomState, drops>>
          /\ joinedRole' = joinAs
          /\ roomState # "closed" => shown' = [role |-> joinAs, directors |-> directorSet]
        BY <1>4 DEF JoinProceeds, srvVars
    <2>2. Running' => Running /\ shown' = [role |-> joinedRole', directors |-> directorSet]
        BY <1>1, <2>1 DEF Running, InUse
    <2> QED BY <2>1, <2>2, ViewPrimed DEF ViewInv
<1>5. CASE Close
    <2>1. /\ roomState' = "closed" /\ directorSet' = {} /\ in' \in {in, <<>>}
          /\ UNCHANGED <<bob, srvDirectors>>
        BY <1>5 DEF Close, Disconnect, srvVars
    <2> QED BY <1>0, <1>2, <2>1 DEF Running, InUse
<1>6. CASE CloseProceeds
    <2>1. closing /\ in' = <<>> /\ UNCHANGED <<bob, srvDirectors, directorSet>>
        BY <1>6 DEF CloseProceeds, Disconnect, srvVars
    <2> QED BY <1>0, <1>2, <2>1 DEF Running, LinkInv
<1>7. ASSUME NEW c \in Children, ChildStarts(c) \/ ChildRetries(c) \/ ChildJoins(c)
      PROVE  ViewInv'
    <2>1. UNCHANGED <<in, bob, srvDirectors, directorSet, srvRole, shown, promoted, drops>>
        BY <1>7 DEF ChildStarts, ChildRetries, ChildJoins, srvVars
    <2>2. UNCHANGED joinedRole /\ (joinMemo' = "done" => joinMemo = "done")
        BY <1>7 DEF ChildStarts, ChildRetries, ChildJoins, roomVars
    <2> QED BY <1>1, <2>1, <2>2, ViewAlone
<1>8. CASE Opens \/ UNCHANGED vars
    <2>1. UNCHANGED <<in, bob, srvDirectors, directorSet, srvRole, shown, joinedRole, joinMemo,
                      promoted, drops>>
        BY <1>8 DEF Opens, roomVars, srvVars, vars
    <2> QED BY <1>1, <2>1, ViewAlone
<1>9. CASE SocketCloses
    <2>1. /\ in' = <<>> /\ srvDirectors' = srvDirectors \ {"me"}
          /\ UNCHANGED <<bob, directorSet>>
          /\ drops' = IF sock = "closing" THEN drops ELSE drops + 1
        BY <1>9 DEF SocketCloses
    <2>2. ~Running'
        BY <1>0, <2>1 DEF LinkInv, Running
    <2> QED BY <1>0, <1>2, <2>1, <2>2
<1>10. CASE ServerReceives
    <2>1. /\ out # <<>>
          /\ UNCHANGED <<roomState, joinedRole, joinMemo, directorSet, shown, bob, drops, late>>
        BY <1>10 DEF ServerReceives, roomVars
    <2>2. Running' => /\ Running /\ srvRole = "none" /\ joinMemo = "done"
                      /\ out = <<Join(joinedRole)>> /\ joinedRole # "none"
        BY <1>1, <2>1 DEF RoleInv, Running
    <2>3. CASE Head(out).type = "join"
        <3>1. /\ srvRole' = Head(out).role /\ UNCHANGED srvDirectors
              /\ in' = IF bob = "none" THEN in ELSE Append(in, BobJoined(bob))
              /\ promoted' = (promoted \/ (("bob" \in srvDirectors) # (bob = "director")))
            BY <1>10, <2>3 DEF ServerReceives
        <3>2. in' \in Seq(Messages)
            <4>1. bob # "none" => BobJoined(bob) \in Messages
                BY <1>0 DEF BobJoined, Messages, People
            <4> QED BY <1>0, <3>1, <4>1
        <3>3. ASSUME Running'
              PROVE  /\ srvRole' # "none" /\ shown' = [role |-> joinedRole', directors |-> directorSet']
                     /\ ~promoted' => \A p \in People : Brings(in', p, directorSet', srvDirectors')
            <4>1. in = <<>> /\ directorSet = {} /\ "me" \notin srvDirectors
                  /\ shown = [role |-> joinedRole, directors |-> directorSet]
                BY <2>2, <3>3 DEF ViewInv
            <4>2. srvRole' = joinedRole
                <5> DEFINE m == Join(joinedRole)
                <5>1. m.role = joinedRole
                    BY DEF Join
                <5> HIDE DEF m
                <5>2. Head(<<m>>) = m /\ out = <<m>>
                    BY <2>2, <3>3 DEF m
                <5> QED BY <3>1, <5>1, <5>2
            <4>3. in' = IF bob = "none" THEN <<>> ELSE <<BobJoined(bob)>>
                BY <3>1, <4>1
            <4>4. ~promoted' => ("bob" \in srvDirectors <=> bob = "director")
                BY <3>1
            <4>5. ~promoted' => \A p \in People : Brings(in', p, {}, srvDirectors)
                BY <1>0, <4>1, <4>3, <4>4, FirstView
            <4> QED BY <2>1, <2>2, <3>1, <3>3, <4>1, <4>2, <4>5
        <3> QED BY <1>0, <2>1, <3>1, <3>2, <3>3, ViewPrimed
    <2>4. CASE Head(out).type # "join"
        <3>1. srvDirectors' = srvDirectors \ {"me"} /\ UNCHANGED in
            BY <1>10, <2>4 DEF ServerReceives
        <3>2. ~Running'
            <4> DEFINE m == Join(joinedRole)
            <4>1. m.type = "join"
                BY DEF Join
            <4> HIDE DEF m
            <4>2. Head(<<m>>) = m /\ (Running' => out = <<m>>)
                BY <2>2 DEF m
            <4> QED BY <2>4, <4>1, <4>2
        <3> QED BY <1>0, <1>2, <2>1, <3>1, <3>2
    <2> QED BY <2>3, <2>4
<1>11. CASE Receive
    <2> DEFINE m == Head(in)
    <2>1. /\ in # <<>> /\ in' = Tail(in)
          /\ UNCHANGED <<roomState, joinedRole, joinMemo, bob, srvDirectors, srvRole, promoted,
                         drops, late>>
          /\ roomState = "closed" => directorSet' = directorSet
          /\ roomState # "closed" => shown' = [role |-> joinedRole, directors |-> directorSet']
        BY <1>11 DEF Receive, roomVars, srvVars, ReadByHook
    <2>2. in' \in Seq(Messages) /\ m \in Messages
        BY <1>0, <2>1
    <2>3. /\ m.peer \in People /\ m.type \in {"peer-joined", "peer-left", "promote", "demote"}
          /\ roomState # "closed" =>
               directorSet' = CASE m.type = "peer-left" -> directorSet \ {m.peer}
                                [] m.type = "demote" -> directorSet \ {m.peer}
                                [] m.type = "promote" -> directorSet \cup {m.peer}
                                [] m.type = "peer-joined" ->
                                     IF m.role = "director" THEN directorSet \cup {m.peer}
                                     ELSE directorSet
        BY <1>11, <2>2 DEF Receive, Messages
    <2> HIDE DEF m
    <2>4. /\ directorSet' \subseteq People
          /\ roomState # "closed" =>
               \A p \in People : p \in directorSet' <=> IF Decides(m, p) THEN Appoints(m)
                                                        ELSE p \in directorSet
        BY <1>0, <2>1, <2>3 DEF Decides, Appoints
    <2>5. ASSUME Running'
          PROVE  /\ srvRole # "none" /\ joinMemo = "done" => shown' = [role |-> joinedRole, directors |-> directorSet']
                 /\ ~promoted => \A p \in People : Brings(in', p, directorSet', srvDirectors)
        <3>1. Running /\ roomState # "closed" /\ srvRole # "none"
            BY <1>1, <2>1, <2>5 DEF ViewInv, Running, InUse
        <3>2. ASSUME ~promoted, NEW p \in People PROVE Brings(in', p, directorSet', srvDirectors)
            <4>1. Brings(in, p, directorSet, srvDirectors)
                BY <3>1, <3>2 DEF ViewInv
            <4>2. p \in directorSet' <=> IF Decides(Head(in), p) THEN Appoints(Head(in))
                                         ELSE p \in directorSet
                BY <2>4, <3>1 DEF m
            <4> QED BY <1>0, <2>1, <4>1, <4>2, BringsTail
        <3> QED BY <2>1, <3>1, <3>2
    <2>6. Running' => srvRole # "none"
        BY <1>1, <2>1 DEF ViewInv
    <2> QED BY <1>0, <2>1, <2>2, <2>4, <2>5, <2>6, ViewPrimed
<1>12. CASE OthersAct
    <2>1. UNCHANGED <<directorSet, srvRole, shown, joinedRole, joinMemo, sock, drops>>
        BY <1>12 DEF OthersAct, roomVars, linkVars
    <2>2. ASSUME NEW role \in {"viewer", "director"}, bob = "none", bob' = role,
                 srvDirectors' = IF role = "director" THEN srvDirectors \cup {"bob"} ELSE srvDirectors,
                 in' = Tell(BobJoined(role)), UNCHANGED promoted
          PROVE  ViewInv'
        <3> DEFINE m == BobJoined(role)
        <3>1. /\ m \in Messages /\ m.type = "peer-joined" /\ m.peer = "bob" /\ m.role = role
              /\ in' = Tell(m)
            BY <2>2 DEF BobJoined, Messages, People
        <3> HIDE DEF m
        <3>2. \A p \in People : IF Decides(m, p) THEN (Appoints(m) <=> p \in srvDirectors')
                                ELSE (p \in srvDirectors' <=> p \in srvDirectors)
            BY <2>2, <3>1 DEF Decides, Appoints
        <3>3. /\ srvDirectors' \subseteq People /\ bob' # "none"
              /\ Running' /\ srvRole' = "none" => "me" \notin srvDirectors'
            BY <1>0, <1>1, <2>1, <2>2 DEF ViewInv, People
        <3> QED BY <1>1, <2>1, <2>2, <3>1, <3>2, <3>3, OthersTold
    <2>3. ASSUME bob # "none", bob' = "none", srvDirectors' = srvDirectors \ {"bob"},
                 in' = Tell([type |-> "peer-left", peer |-> "bob"]), UNCHANGED promoted
          PROVE  ViewInv'
        <3> DEFINE m == [type |-> "peer-left", peer |-> "bob"]
        <3>1. /\ m \in Messages /\ m.type = "peer-left" /\ m.peer = "bob" /\ in' = Tell(m)
            BY <2>3 DEF Messages, People
        <3> HIDE DEF m
        <3>2. \A p \in People : IF Decides(m, p) THEN (Appoints(m) <=> p \in srvDirectors')
                                ELSE (p \in srvDirectors' <=> p \in srvDirectors)
            BY <2>3, <3>1 DEF Decides, Appoints
        <3>3. /\ srvDirectors' \subseteq People /\ "bob" \notin srvDirectors'
              /\ Running' /\ srvRole' = "none" => "me" \notin srvDirectors'
            BY <1>0, <1>1, <2>1, <2>3 DEF ViewInv
        <3> QED BY <1>1, <2>1, <2>3, <3>1, <3>2, <3>3, OthersTold
    <2>4. ASSUME NEW kind \in {"promote", "demote"}, srvRole # "none", UNCHANGED bob,
                 srvDirectors' = IF kind = "promote" THEN srvDirectors \cup {"me"}
                                 ELSE srvDirectors \ {"me"},
                 in' = Tell([type |-> kind, peer |-> "me"]), promoted => promoted'
          PROVE  ViewInv'
        <3> DEFINE m == [type |-> kind, peer |-> "me"]
        <3>1. /\ m \in Messages /\ m.type = kind /\ m.peer = "me" /\ in' = Tell(m)
            BY <2>4 DEF Messages, People
        <3> HIDE DEF m
        <3>2. \A p \in People : IF Decides(m, p) THEN (Appoints(m) <=> p \in srvDirectors')
                                ELSE (p \in srvDirectors' <=> p \in srvDirectors)
            BY <2>4, <3>1 DEF Decides, Appoints
        <3>3. srvDirectors' \subseteq People /\ (bob' = "none" => "bob" \notin srvDirectors')
            BY <1>0, <2>4 DEF People
        <3> QED BY <1>0, <1>1, <2>1, <2>4, <3>1, <3>2, <3>3, OthersTold
    <2>5. ASSUME NEW kind \in {"promote", "demote"}, bob # "none", UNCHANGED <<bob, in>>,
                 srvDirectors' = IF kind = "promote" THEN srvDirectors \cup {"bob"}
                                 ELSE srvDirectors \ {"bob"},
                 srvRole # "none" => promoted'
          PROVE  ViewInv'
        <3>1. /\ srvDirectors' \subseteq People
              /\ Running' /\ srvRole' = "none" => "me" \notin srvDirectors'
            BY <1>0, <1>1, <2>1, <2>5 DEF ViewInv, People
        <3>2. Running' => /\ srvRole' = "none" => in' = <<>> /\ directorSet' = {}
                          /\ joinMemo' = "done" => shown' = [role |-> joinedRole', directors |-> directorSet']
            BY <1>1, <2>1, <2>5 DEF ViewInv
        <3> QED BY <1>0, <2>1, <2>5, <3>1, <3>2, ViewPrimed
    <2>6. ASSUME NEW p \in {"me", "bob"}, NEW kind \in {"promote", "demote"},
                 IF p = "me" THEN srvRole # "none" ELSE bob # "none",
                 srvDirectors' = IF kind = "promote" THEN srvDirectors \cup {p} ELSE srvDirectors \ {p},
                 in' = IF p = "me" THEN Tell([type |-> kind, peer |-> "me"]) ELSE in,
                 promoted' = (promoted \/ (p = "bob" /\ srvRole # "none")),
                 UNCHANGED bob
          PROVE  ViewInv'
        <3>1. CASE p = "me"
            BY <2>4, <2>6, <3>1
        <3>2. CASE p = "bob"
            BY <2>5, <2>6, <3>2
        <3> QED BY <3>1, <3>2
    <2> QED BY <1>12, <2>2, <2>3, <2>6 DEF OthersAct
<1> QED BY <1>3, <1>4, <1>5, <1>6, <1>7, <1>8, <1>9, <1>10, <1>11, <1>12 DEF Next

\* The role and the directors rendered are the server's, for directors that claimed the role
\* when they joined and for this peer's own promotions, unless close() came while a connect was
\* pending (Room's listener, useRoom's).
THEOREM Shown_Agree == Spec => []ShownAgree
<1>1. Init => JoinInv /\ LinkInv /\ ChildrenOK /\ RoleInv /\ ViewInv
    <2>1. Init => ViewInv
        <3> SUFFICES ASSUME Init PROVE ViewInv
            OBVIOUS
        <3>1. /\ in = <<>> /\ directorSet = {} /\ bob \in {"none", "director"} /\ joinMemo = "none"
              /\ srvRole = "none"
              /\ srvDirectors = IF bob = "director" THEN {"bob"} ELSE {}
            BY DEF Init
        <3> QED BY <3>1 DEF ViewInv, People
    <2> QED BY <2>1, RoleInit
<1>2. JoinInv /\ LinkInv /\ ChildrenOK /\ RoleInv /\ ViewInv /\ [Next]_vars
        => JoinInv' /\ LinkInv' /\ ChildrenOK' /\ RoleInv' /\ ViewInv'
    BY JoinStep, LinkStep, ChildrenStep, RoleStep, ViewStep, ChildrenAssumption
<1>3. RoleInv /\ ViewInv => ShownAgree
    <2> SUFFICES ASSUME RoleInv, ViewInv, Quiet, roomState # "closed", srvRole # "none", ~promoted
                 PROVE  shown = [role |-> srvRole, directors |-> srvDirectors]
        BY DEF ShownAgree
    <2>1. Running /\ in = <<>> /\ out = <<>>
        BY DEF Quiet, Running, InUse
    <2>2. joinMemo = "done" /\ srvRole = joinedRole
        BY <2>1 DEF RoleInv
    <2>3. \A p \in People : p \in directorSet <=> p \in srvDirectors
        BY <2>1 DEF ViewInv, Brings
    <2>4. directorSet = srvDirectors
        BY <2>3 DEF ViewInv
    <2> QED BY <2>1, <2>2, <2>4 DEF ViewInv
<1> QED BY <1>1, <1>2, <1>3, PTL DEF Spec

=============================================================================

-------------------------- MODULE SignalingServer --------------------------
(***************************************************************************)
(* The WebSocket host of a Session: `defineWebSocketSignalingServer` of    *)
(* packages/signaling-adapter-ws (the Express adapter wires the same       *)
(* three callbacks).  It keeps the map the session lacks, from a peer id   *)
(* to the socket its messages go to, and learns it by peeking at join      *)
(* messages before the session has accepted them.                          *)
(***************************************************************************)
EXTENDS SessionProperties

VARIABLE peerToSocket   \* peerToSocket[p]: where onSend delivers p's messages

serverVars == <<vars, peerToSocket>>

ServerInit == Init /\ peerToSocket = [p \in Peers |-> NoSocket]

\* onSend(p): the socket the message is written to; socketToWs holds the open ones.
Deliver(p) == IF peerToSocket[p] # NoSocket /\ Registered(peerToSocket[p])
              THEN peerToSocket[p] ELSE NoSocket

\* wss.on("connection")
OnConnection(s) == HandleConnection(s) /\ UNCHANGED peerToSocket

\* ws.on("message") with a join: route first, then hand it to the session,
\* which may refuse it at once.
RouteTo(j) == [peerToSocket EXCEPT ![j.peer] = j.socket]

OnJoin(j) ==
    /\ Registered(j.socket)
    /\ peerToSocket' = RouteTo(j)
    /\ \/ ApplyJoin(j)
       \/ RequestJoin(j)
       \/ /\ ~Authenticate /\ j.role = "director" /\ ~Claimable(j.room)
          /\ UNCHANGED vars

\* ws.on("message") with anything else.
OnMessage(s) == HandleMessage(s) /\ UNCHANGED peerToSocket

\* ws.on("close"): drop every mapping to this socket, then tell the session.
RoutesKept(s) == peerToSocket                   \* bug: mappings outlive the socket
NoRouteLeft(s) == [p \in Peers |-> NoSocket]    \* bug: no comparison with the socket
RoutesWithout(s) ==
    [p \in Peers |-> IF peerToSocket[p] = s THEN NoSocket ELSE peerToSocket[p]]

OnClose(s) ==
    /\ peerToSocket' = RoutesWithout(s)
    /\ HandleDisconnect(s)

ServerNext ==
    \/ \E s \in Sockets :
        \/ OnConnection(s)
        \/ OnClose(s)
        \/ OnMessage(s)
        \/ \E j \in JoinsOf(s) : OnJoin(j)
    \/ Background /\ UNCHANGED peerToSocket

ServerSpec == ServerInit /\ [][ServerNext]_serverVars

-----------------------------------------------------------------------------
\* Holds of the clients: no two sockets name the same peer id.
OneSocketPerPeer ==
    \A s, t \in Sockets : \A b \in Claims[s], c \in Claims[t] :
        b.peer = c.peer => s = t

\* Holds of the clients and the host: each socket speaks for one peer of its own, and
\* joins do not wait for an authenticator.
Plain == OneSocketPerPeer /\ ~Authenticate /\ \A s \in Sockets : \E b \in Binding : Claims[s] = {b}

\* The host routed every join before the session accepted it; all the same no message
\* is routed to a socket that is gone (a close removes the routes of refused and waiting
\* joins too), and a member whose entry names an open socket is reached through it.
\* Without an authenticator every member's socket is open: no close goes unnoticed.
MembersAreReached ==
    /\ \A p \in Peers : peerToSocket[p] # NoSocket => Registered(peerToSocket[p])
    /\ OneSocketPerPeer =>
         \A r \in Rooms : \A p \in Members(r) :
           Registered(peerMap[r][p]) => Deliver(p) = peerMap[r][p]
    /\ Plain => MembersAreConnected
=============================================================================

------------------------- MODULE WsTransportProofs -------------------------
(***************************************************************************)
(* The transport keeps one attempt and every message, for any number of    *)
(* sockets, messages and options.                                          *)
(***************************************************************************)
EXTENDS WsTransport, FiniteSetTheorems, TLAPS

-----------------------------------------------------------------------------
\* Sequences of messages.

Elems(s) == {s[i] : i \in DOMAIN s}
Distinct(s) == \A i, j \in DOMAIN s : s[i] = s[j] => i = j
Increasing(s, h) == \A i, j \in DOMAIN s : i < j => s[i] < s[j] \/ s[i] \in h
Apart(s, t) == Elems(s) \cap Elems(t) = {}
Before(s, t, h) == \A x \in Elems(s), y \in Elems(t) : x < y \/ x \in h

\* One sequence after another has the messages of both, in order, but for those of h, if all
\* of the first are less than all of the second.
LEMMA ConcatFacts ==
    ASSUME NEW s \in Seq(Nat), NEW t \in Seq(Nat), NEW h
    PROVE  /\ s \o t \in Seq(Nat)
           /\ Elems(s \o t) = Elems(s) \cup Elems(t)
           /\ Distinct(s) /\ Distinct(t) /\ Apart(s, t) => Distinct(s \o t)
           /\ Increasing(s, h) /\ Increasing(t, h) /\ Before(s, t, h) => Increasing(s \o t, h)
<1> DEFINE c == s \o t
<1>1. /\ c \in Seq(Nat) /\ DOMAIN c = 1..(Len(s) + Len(t))
      /\ DOMAIN s = 1..Len(s) /\ DOMAIN t = 1..Len(t)
      /\ Len(s) \in Nat /\ Len(t) \in Nat
    OBVIOUS
<1>2. \A i \in DOMAIN s : i \in DOMAIN c /\ c[i] = s[i]
    BY <1>1
<1>3. \A i \in DOMAIN t : Len(s) + i \in DOMAIN c /\ c[Len(s) + i] = t[i]
    BY <1>1
<1> HIDE DEF c
<1>4. \A i \in DOMAIN c : \/ i \in DOMAIN s /\ c[i] = s[i]
                          \/ i - Len(s) \in DOMAIN t /\ c[i] = t[i - Len(s)] /\ i > Len(s)
    <2> SUFFICES ASSUME NEW i \in DOMAIN c, i \notin DOMAIN s
                 PROVE  i - Len(s) \in DOMAIN t /\ c[i] = t[i - Len(s)] /\ i > Len(s)
        BY <1>2
    <2>1. i - Len(s) \in DOMAIN t /\ i > Len(s) /\ Len(s) + (i - Len(s)) = i
        BY <1>1
    <2> QED BY <1>3, <2>1
<1>5. Elems(c) = Elems(s) \cup Elems(t)
    <2>1. \A x \in Elems(c) : x \in Elems(s) \/ x \in Elems(t)
        BY <1>4 DEF Elems
    <2>2. \A x \in Elems(s) : x \in Elems(c)
        BY <1>2 DEF Elems
    <2>3. \A x \in Elems(t) : x \in Elems(c)
        BY <1>3 DEF Elems
    <2> QED BY <2>1, <2>2, <2>3
<1>6. ASSUME Distinct(s), Distinct(t), Apart(s, t) PROVE Distinct(c)
    <2> SUFFICES ASSUME NEW i \in DOMAIN c, NEW j \in DOMAIN c, c[i] = c[j] PROVE i = j
        BY DEF Distinct
    <2>1. CASE i \in DOMAIN s /\ c[i] = s[i]
        <3>1. c[j] \notin Elems(t)
            BY <1>6, <2>1 DEF Apart, Elems
        <3>2. j \in DOMAIN s /\ c[j] = s[j]
            BY <1>4, <3>1 DEF Elems
        <3> QED BY <1>6, <2>1, <3>2 DEF Distinct
    <2>2. CASE i - Len(s) \in DOMAIN t /\ c[i] = t[i - Len(s)]
        <3>1. c[j] \notin Elems(s)
            BY <1>6, <2>2 DEF Apart, Elems
        <3>2. j - Len(s) \in DOMAIN t /\ c[j] = t[j - Len(s)]
            BY <1>4, <3>1 DEF Elems
        <3>3. i - Len(s) = j - Len(s)
            BY <1>6, <2>2, <3>2 DEF Distinct
        <3> QED BY <1>1, <3>3
    <2> QED BY <1>4, <2>1, <2>2
<1>7. ASSUME Increasing(s, h), Increasing(t, h), Before(s, t, h) PROVE Increasing(c, h)
    <2> SUFFICES ASSUME NEW i \in DOMAIN c, NEW j \in DOMAIN c, i < j
                 PROVE  c[i] < c[j] \/ c[i] \in h
        BY DEF Increasing
    <2>1. CASE j \in DOMAIN s
        <3>1. i \in DOMAIN s
            BY <1>1, <2>1
        <3>2. c[i] = s[i] /\ c[j] = s[j]
            BY <1>2, <2>1, <3>1
        <3> QED BY <1>7, <2>1, <3>1, <3>2 DEF Increasing
    <2>2. CASE j \notin DOMAIN s
        <3>1. j - Len(s) \in DOMAIN t /\ c[j] = t[j - Len(s)]
            BY <1>4, <2>2
        <3>2. CASE i \in DOMAIN s
            BY <1>2, <1>7, <3>1, <3>2 DEF Before, Elems
        <3>3. CASE i \notin DOMAIN s
            <4>1. i - Len(s) \in DOMAIN t /\ c[i] = t[i - Len(s)]
                BY <1>4, <3>3
            <4>2. i - Len(s) < j - Len(s)
                BY <1>1
            <4> QED BY <1>7, <3>1, <4>1, <4>2 DEF Increasing
        <3> QED BY <3>2, <3>3
    <2> QED BY <2>1, <2>2
<1> QED BY <1>1, <1>5, <1>6, <1>7 DEF c

\* A sequence without its head.
LEMMA TailFacts ==
    ASSUME NEW s \in Seq(Nat), s # <<>>
    PROVE  /\ Tail(s) \in Seq(Nat) /\ Head(s) \in Nat
           /\ Elems(s) = {Head(s)} \cup Elems(Tail(s))
           /\ Distinct(s) => Distinct(Tail(s)) /\ Head(s) \notin Elems(Tail(s))
<1>1. /\ Tail(s) \in Seq(Nat) /\ DOMAIN Tail(s) = 1..(Len(s) - 1)
      /\ DOMAIN s = 1..Len(s) /\ Len(s) \in Nat \ {0} /\ Head(s) = s[1]
    OBVIOUS
<1>2. \A i \in DOMAIN Tail(s) : i + 1 \in DOMAIN s /\ Tail(s)[i] = s[i + 1] /\ i + 1 # 1
    BY <1>1
<1>3. \A i \in DOMAIN s : i = 1 \/ (i - 1 \in DOMAIN Tail(s) /\ Tail(s)[i - 1] = s[i])
    BY <1>1
<1>4. 1 \in DOMAIN s /\ Head(s) \in Nat
    BY <1>1
<1> DEFINE r == Tail(s)
<1> HIDE DEF r
<1>5. Elems(s) = {Head(s)} \cup Elems(r)
    <2>1. \A x \in Elems(s) : x = Head(s) \/ x \in Elems(r)
        BY <1>1, <1>3 DEF Elems, r
    <2>2. \A x \in Elems(r) : x \in Elems(s)
        BY <1>2 DEF Elems, r
    <2>3. Head(s) \in Elems(s)
        BY <1>1, <1>4 DEF Elems
    <2> QED BY <2>1, <2>2, <2>3
<1>6. Distinct(s) => Distinct(r) /\ Head(s) \notin Elems(r)
    BY <1>1, <1>2, <1>4 DEF Distinct, Elems, r
<1> QED BY <1>1, <1>4, <1>5, <1>6 DEF r

\* A sequence without repetitions has as many elements as its length.
LEMMA DistinctCount ==
    ASSUME NEW s \in Seq(Nat), Distinct(s)
    PROVE  IsFiniteSet(Elems(s)) /\ Cardinality(Elems(s)) = Len(s)
<1>1. DOMAIN s = 1..Len(s) /\ Len(s) \in Nat
    OBVIOUS
<1> DEFINE f == [i \in 1..Len(s) |-> s[i]]
<1>2. f \in Bijection(1..Len(s), Elems(s))
    <2>1. f \in [1..Len(s) -> Elems(s)]
        BY <1>1 DEF Elems
    <2>2. \A i, j \in 1..Len(s) : f[i] = f[j] => i = j
        BY <1>1 DEF Distinct
    <2>3. \A x \in Elems(s) : \E i \in 1..Len(s) : f[i] = x
        BY <1>1 DEF Elems
    <2> QED BY <2>1, <2>2, <2>3 DEF Bijection, Injection, Surjection, IsInjective
<1>3. IsFiniteSet(1..Len(s)) /\ Cardinality(1..Len(s)) = Len(s)
    <2>1. Len(s) \in Int
        BY <1>1
    <2>2. /\ IsFiniteSet(1..Len(s))
          /\ Cardinality(1..Len(s)) = IF 1 > Len(s) THEN 0 ELSE Len(s) - 1 + 1
        BY <2>1, FS_Interval
    <2> QED BY <1>1, <2>2
<1>4. ExistsBijection(1..Len(s), Elems(s))
    BY <1>2 DEF ExistsBijection
<1> QED BY <1>3, <1>4, FS_Bijection

-----------------------------------------------------------------------------
\* The stack of methods whose listeners are being called.

\* A call puts a method on top of the stack, its return takes it off.
LEMMA StackFacts ==
    ASSUME NEW s \in Seq(Methods), NEW m \in Methods
    PROVE  /\ <<m>> \o s \in Seq(Methods) /\ Elems(<<m>> \o s) = {m} \cup Elems(s)
           /\ <<m>> \o s # <<>> /\ Head(<<m>> \o s) = m
           /\ s # <<>> => /\ Tail(s) \in Seq(Methods) /\ Head(s) \in Methods
                          /\ Elems(s) = {Head(s)} \cup Elems(Tail(s))
<1> DEFINE c == <<m>> \o s
<1>1. /\ c \in Seq(Methods) /\ c # <<>> /\ Head(c) = m /\ DOMAIN c = 1..(Len(s) + 1)
      /\ c[1] = m /\ DOMAIN s = 1..Len(s) /\ Len(s) \in Nat
    OBVIOUS
<1>2. \A i \in DOMAIN s : i + 1 \in DOMAIN c /\ c[i + 1] = s[i]
    BY <1>1
<1>3. \A i \in DOMAIN c : i = 1 \/ (i - 1 \in DOMAIN s /\ c[i] = s[i - 1])
    BY <1>1
<1> HIDE DEF c
<1>4. Elems(c) = {m} \cup Elems(s)
    <2>1. \A x \in Elems(c) : x = m \/ x \in Elems(s)
        BY <1>1, <1>3 DEF Elems
    <2>2. \A x \in Elems(s) : x \in Elems(c)
        BY <1>2 DEF Elems
    <2>3. m \in Elems(c)
        BY <1>1 DEF Elems
    <2> QED BY <2>1, <2>2, <2>3
<1>5. ASSUME s # <<>>
      PROVE  /\ Tail(s) \in Seq(Methods) /\ Head(s) \in Methods
             /\ Elems(s) = {Head(s)} \cup Elems(Tail(s))
    <2> DEFINE r == Tail(s)
    <2>1. /\ r \in Seq(Methods) /\ Head(s) \in Methods /\ Head(s) = s[1] /\ 1 \in DOMAIN s
          /\ DOMAIN r = 1..(Len(s) - 1)
        BY <1>1, <1>5
    <2>2. \A i \in DOMAIN r : i + 1 \in DOMAIN s /\ r[i] = s[i + 1]
        BY <1>1, <1>5
    <2>3. \A i \in DOMAIN s : i = 1 \/ (i - 1 \in DOMAIN r /\ r[i - 1] = s[i])
        BY <1>1, <1>5
    <2> HIDE DEF r
    <2>4. \A x \in Elems(s) : x = Head(s) \/ x \in Elems(r)
        BY <2>1, <2>3 DEF Elems
    <2>5. \A x \in Elems(r) : x \in Elems(s)
        BY <2>2 DEF Elems
    <2>6. Head(s) \in Elems(s)
        BY <2>1 DEF Elems
    <2> QED BY <2>1, <2>4, <2>5, <2>6 DEF r
<1> QED BY <1>1, <1>4, <1>5 DEF c

\* A stack of one method.
LEMMA SingleFacts ==
    ASSUME NEW m
    PROVE  /\ <<m>> # <<>> /\ Head(<<m>>) = m /\ Tail(<<m>>) = <<>> /\ <<m>> \o <<>> = <<m>>
           /\ Elems(<<m>>) = {m} /\ Elems(<<>>) = {} /\ DOMAIN <<m>> = {1} /\ <<m>>[1] = m
           /\ \A n : <<m>> = <<n>> => m = n
<1>1. /\ <<m>> # <<>> /\ Head(<<m>>) = m /\ Tail(<<m>>) = <<>> /\ <<m>> \o <<>> = <<m>>
      /\ DOMAIN <<m>> = {1} /\ <<m>>[1] = m
    OBVIOUS
<1>2. Elems(<<m>>) = {m}
    BY <1>1 DEF Elems
<1>3. Elems(<<>>) = {}
    BY DEF Elems
<1>4. \A n : <<n>>[1] = n
    OBVIOUS
<1>5. \A n : <<m>> = <<n>> => m = n
    BY <1>4
<1> QED BY <1>1, <1>2, <1>3, <1>5

-----------------------------------------------------------------------------
\* Connections.

\* this.ws is known as long as there are listeners, and is the socket of one of them.
WsTypeOK ==
    /\ opts \in AllOptions
    /\ state \in States
    /\ sock \in [Sockets -> {"none", "opening", "open", "closing"}]
    /\ listening \subseteq Live
    /\ IF listening = {} THEN ws = NoWs ELSE ws \in listening
    /\ auths \in Nat /\ strays \in Nat
    /\ heartbeat \in BOOLEAN
    /\ within \in Seq(Methods)

\* No listener is being called, or those of one method.
Quiet == within = <<>>
Only(m) == within = <<m>>
Below == Elems(within)

\* Nothing but onOpen brings the state to "connected", and it calls its listeners at once;
\* until they have returned it has no heartbeat, and may have lost its connection to them.
HeartbeatInv ==
    /\ state = "connected" => Quiet \/ Only("opening")
    /\ state = "connected" /\ opts.beats /\ Quiet => heartbeat
    /\ heartbeat => opts.beats /\ ws # NoWs
    /\ heartbeat /\ state # "connected" => "opening" \in interrupted
    /\ "opening" \in Below => /\ listening # {}
                              /\ state # "connected" => "opening" \in interrupted

\* One attempt is in one of four places: a socket, which then listens, a call of `auth`,
\* the timer, or a method that will make one of these when its listeners have returned; and
\* disconnect() leaves no timer, except in a listener of onClose.
OnceInv ==
    /\ \A v, w \in Live : v = w
    /\ listening = Live
    /\ strays = 0
    /\ auths \in {0, 1}
    /\ Quiet \/ Only("opening") \/ Only("closing") \/ Only("connecting")
    /\ Live # {} => auths = 0 /\ ~timer /\ (Quiet \/ Only("opening"))
    /\ timer => auths = 0 /\ Quiet /\ (userClosed => "closing" \in interrupted)
    /\ auths = 1 => Quiet
    /\ Only("closing") /\ userClosed => "closing" \in interrupted
    /\ state = "idle" => Live = {} /\ auths = 0 /\ ~timer /\ Quiet
    /\ Only("opening") => /\ Live # {}
                          /\ sock[ws] = (IF state = "connected" THEN "open" ELSE "closing")
    /\ heartbeat /\ state # "connected" => sock[ws] = "closing"

OneAttemptInv ==
    /\ WsTypeOK
    /\ HeartbeatInv
    /\ ConnectedOnce => OnceInv

\* No socket is NoWs.
LEMMA NotNoWs == NoWs \notin Sockets
BY WsConstants DEF NoWs, Sockets

\* A new transport has no attempt under way.
LEMMA ConnInit == Init => OneAttemptInv
<1> SUFFICES ASSUME Init PROVE OneAttemptInv
    OBVIOUS
<1>1. Live = {}
    BY DEF Init, Live
<1>2. Quiet /\ Below = {} /\ <<>> \in Seq(Methods)
    <2>1. within = <<>> /\ Elems(<<>>) = {}
        BY SingleFacts DEF Init
    <2>2. <<>> \in Seq(Methods)
        OBVIOUS
    <2> QED BY <2>1, <2>2 DEF Quiet, Below
<1>3. WsTypeOK
    BY <1>1, <1>2, WsConstants DEF Init, WsTypeOK, States
<1>4. HeartbeatInv
    BY <1>2 DEF Init, HeartbeatInv
<1>5. OnceInv
    <2>1. ~Only("opening") /\ ~Only("closing")
        BY <1>2, SingleFacts DEF Only, Quiet
    <2> QED BY <1>1, <1>2, <2>1 DEF Init, OnceInv
<1> QED BY <1>3, <1>4, <1>5 DEF OneAttemptInv

\* A new socket is one more alive, listens, and is this.ws.
LEMMA CreateFacts ==
    ASSUME WsTypeOK, CreateSocket
    PROVE  \E w \in Sockets :
             /\ w \notin Live /\ Live' = Live \cup {w}
             /\ listening' = listening \cup {w} /\ ws' = w /\ ws' # NoWs
             /\ sock' = [sock EXCEPT ![w] = "opening"]
             /\ sock' \in [Sockets -> {"none", "opening", "open", "closing"}]
<1>1. PICK w \in Sockets :
         sock[w] = "none" /\ sock' = [sock EXCEPT ![w] = "opening"]
         /\ ws' = w /\ listening' = listening \cup {w}
    BY DEF CreateSocket
<1>2. ws' # NoWs
    BY <1>1, NotNoWs
<1>3. sock \in [Sockets -> {"none", "opening", "open", "closing"}]
    BY DEF WsTypeOK
<1>4. /\ w \notin Live /\ Live' = Live \cup {w}
      /\ sock' \in [Sockets -> {"none", "opening", "open", "closing"}]
    BY <1>1, <1>3 DEF Live
<1> QED BY <1>1, <1>2, <1>4

\* close() leaves the socket alive until its close event.
LEMMA ClosingFacts ==
    ASSUME WsTypeOK, sock' = Closing(ws)
    PROVE  /\ Live' = Live
           /\ sock' \in [Sockets -> {"none", "opening", "open", "closing"}]
           /\ ws # NoWs => sock'[ws] = "closing"
<1>1. CASE ws = NoWs
    BY <1>1 DEF Closing, WsTypeOK, Live
<1>2. CASE ws # NoWs
    <2>1. ws \in Sockets /\ sock[ws] # "none"
        BY <1>2 DEF WsTypeOK, Live
    <2>2. sock' = [sock EXCEPT ![ws] = "closing"]
        BY <1>2 DEF Closing
    <2> QED BY <2>1, <2>2 DEF WsTypeOK, Live
<1> QED BY <1>1, <1>2

\* No step changes the options.
LEMMA OptsStay == [Next]_vars => opts' = opts /\ (ConnectedOnce' <=> ConnectedOnce)
BY DEF Next, Connect, ConnectEnds, Disconnect, Send, SocketOpens, OpenEnds, SocketCloses,
       CloseEnds, TimerFires, HeartbeatTimeout, AuthResolves, AuthRejects, vars, connVars,
       ConnectedOnce

\* What a return leaves of the stack.
LEMMA ReturnFacts ==
    ASSUME WsTypeOK, NEW m, Return(m)
    PROVE  /\ within' \in Seq(Methods) /\ Below = {m} \cup Below' /\ ~Quiet
           /\ \A n : Only(n) => n = m /\ Quiet'
<1>1. within \in Seq(Methods) /\ within # <<>> /\ Head(within) = m /\ within' = Tail(within)
    BY DEF WsTypeOK, Return
<1>2. "opening" \in Methods
    BY DEF Methods
<1>3. within' \in Seq(Methods) /\ Elems(within) = {m} \cup Elems(within')
    BY <1>1, <1>2, StackFacts
<1>4. \A n : within = <<n>> => n = m /\ within' = <<>>
    BY <1>1, SingleFacts
<1> QED BY <1>1, <1>3, <1>4 DEF Below, Quiet, Only

\* Every callback keeps the types.
LEMMA TypeStep == WsTypeOK /\ [Next]_vars => WsTypeOK'
<1> SUFFICES ASSUME WsTypeOK, [Next]_vars PROVE WsTypeOK'
    OBVIOUS
<1>0. opts' = opts
    BY OptsStay
<1>t. "connecting" \in Methods /\ <<"opening">> \in Seq(Methods) /\ <<"closing">> \in Seq(Methods)
    BY DEF Methods
<1>1. CASE Connect
    <2>1. within' \in Seq(Methods)
        BY <1>1, <1>t, StackFacts DEF Connect, WsTypeOK
    <2> QED BY <1>1, <2>1 DEF Connect, WsTypeOK, States, Live
<1>2. ASSUME OpenSocket,
             UNCHANGED <<opts, state, strays, heartbeat>> \/ (strays > 0 /\ strays' = strays - 1
                                                /\ UNCHANGED <<opts, state, heartbeat>>),
             within' \in Seq(Methods)
      PROVE  WsTypeOK'
    <2>1. CASE opts.auth
        BY <1>2, <2>1 DEF OpenSocket, WsTypeOK, Live
    <2>2. CASE ~opts.auth
        <3>1. CreateSocket /\ auths' = auths
            BY <1>2, <2>2 DEF OpenSocket
        <3> QED BY <1>2, <3>1, CreateFacts DEF WsTypeOK
    <2> QED BY <2>1, <2>2
<1>3. CASE ConnectEnds
    BY <1>2, <1>3, ReturnFacts DEF ConnectEnds
<1>4. CASE Disconnect
    <2>1. /\ Live' = Live
          /\ sock' \in [Sockets -> {"none", "opening", "open", "closing"}]
        BY <1>4, ClosingFacts DEF Disconnect
    <2> QED BY <1>4, <2>1 DEF Disconnect, WsTypeOK, States
<1>5. CASE Send
    BY <1>5 DEF Send, connVars, WsTypeOK, Live
<1>6. ASSUME NEW w \in Sockets, SocketOpens(w) PROVE WsTypeOK'
    <2>1. Live' = Live /\ sock' \in [Sockets -> {"none", "opening", "open", "closing"}]
        BY <1>6 DEF SocketOpens, WsTypeOK, Live
    <2>2. opts.beats \in BOOLEAN
        BY DEF WsTypeOK, AllOptions
    <2> QED BY <1>6, <1>t, <2>1, <2>2 DEF SocketOpens, FinishOpen, WsTypeOK, States
<1>7. CASE OpenEnds
    <2>1. opts.beats \in BOOLEAN
        BY DEF WsTypeOK, AllOptions
    <2>2. within' \in Seq(Methods)
        BY <1>7, ReturnFacts DEF OpenEnds
    <2> QED BY <1>7, <2>1, <2>2 DEF OpenEnds, FinishOpen, WsTypeOK, Live
<1>8. ASSUME NEW w \in Sockets, SocketCloses(w) PROVE WsTypeOK'
    <2>1. /\ Live' = Live \ {w}
          /\ sock' \in [Sockets -> {"none", "opening", "open", "closing"}]
        BY <1>8 DEF SocketCloses, WsTypeOK, Live
    <2>2. CASE w \in listening
        <3>1. /\ listening' = {} /\ ws' = NoWs /\ heartbeat' = FALSE /\ state' \in States
              /\ UNCHANGED <<opts, auths>>
            BY <1>8, <2>2
            DEF SocketCloses, StateAfterClose, WsAfterClose, HeartbeatAfterClose, States
        <3>2. strays \in Nat /\ within \in Seq(Methods)
            BY DEF WsTypeOK
        <3>3. /\ within' = within \/ within' = <<"closing">>
              /\ strays' = strays \/ strays' = strays + 1
            BY <1>8, <2>2 DEF SocketCloses, ScheduleReconnect
        <3>4. within' \in Seq(Methods)
            BY <1>t, <3>2, <3>3
        <3>5. strays' \in Nat
            BY <3>2, <3>3
        <3> QED BY <2>1, <3>1, <3>4, <3>5 DEF WsTypeOK
    <2>3. CASE w \notin listening
        BY <1>8, <2>1, <2>3 DEF SocketCloses, WsTypeOK
    <2> QED BY <2>2, <2>3
<1>9. CASE CloseEnds
    <2>1. within' \in Seq(Methods)
        BY <1>9, ReturnFacts DEF CloseEnds
    <2> QED BY <1>9, <2>1 DEF CloseEnds, ScheduleReconnect, WsTypeOK, Live
<1>10. CASE TimerFires
    BY <1>2, <1>10 DEF TimerFires, WsTypeOK
<1>11. CASE HeartbeatTimeout
    <2>1. /\ Live' = Live
          /\ sock' \in [Sockets -> {"none", "opening", "open", "closing"}]
        BY <1>11, ClosingFacts DEF HeartbeatTimeout
    <2> QED BY <1>11, <2>1 DEF HeartbeatTimeout, WsTypeOK
<1>12. CASE AuthResolves
    BY <1>12, CreateFacts DEF AuthResolves, WsTypeOK
<1>13. CASE AuthRejects
    BY <1>13 DEF AuthRejects, WsTypeOK, Live
<1>14. CASE UNCHANGED vars
    BY <1>14 DEF vars, connVars, WsTypeOK, Live
<1> QED BY <1>1, <1>3, <1>4, <1>5, <1>6, <1>7, <1>8, <1>9, <1>10, <1>11, <1>12, <1>13, <1>14
        DEF Next

\* A connection has its heartbeat when its listeners have returned.
LEMMA HeartbeatStep == WsTypeOK /\ HeartbeatInv /\ [Next]_vars => HeartbeatInv'
<1> SUFFICES ASSUME WsTypeOK, HeartbeatInv, [Next]_vars PROVE HeartbeatInv'
    OBVIOUS
<1>0. opts' = opts /\ opts.beats \in BOOLEAN /\ heartbeat \in BOOLEAN
    BY OptsStay DEF WsTypeOK, AllOptions
<1>t. /\ Elems(<<>>) = {} /\ Elems(<<"opening">>) = {"opening"}
      /\ Elems(<<"closing">>) = {"closing"} /\ <<"opening">> # <<>> /\ <<"closing">> # <<>>
    BY SingleFacts
<1>1. CASE Connect
    <2>1. "connecting" \in Methods /\ within \in Seq(Methods)
        BY DEF Methods, WsTypeOK
    <2>2. Below' = {"connecting"} \cup Below
        BY <1>1, <2>1, StackFacts DEF Connect, Below
    <2> QED BY <1>0, <1>1, <2>2 DEF Connect, HeartbeatInv
<1>2. ASSUME OpenSocket PROVE listening # {} => listening' # {} /\ (ws # NoWs => ws' # NoWs)
    <2>1. CASE opts.auth
        BY <1>2, <2>1 DEF OpenSocket
    <2>2. CASE ~opts.auth
        BY <1>2, <2>2, CreateFacts DEF OpenSocket
    <2> QED BY <2>1, <2>2
<1>l. ws # NoWs => listening # {}
    BY DEF WsTypeOK
<1>3. CASE ConnectEnds
    <2>1. /\ Return("connecting") /\ UNCHANGED <<state, heartbeat, interrupted>>
        BY <1>3 DEF ConnectEnds
    <2>2. state # "connected" /\ ("opening" \in Below' => "opening" \in Below)
        <3>1. /\ Below = {"connecting"} \cup Below' /\ ~Quiet
              /\ \A n : Only(n) => n = "connecting"
            BY <2>1, ReturnFacts
        <3> QED BY <3>1 DEF HeartbeatInv
    <2>3. listening # {} => listening' # {} /\ (ws # NoWs => ws' # NoWs)
        BY <1>2, <1>3 DEF ConnectEnds
    <2> QED BY <1>0, <1>l, <2>1, <2>2, <2>3 DEF HeartbeatInv
<1>4. CASE Disconnect
    BY <1>0, <1>4 DEF Disconnect, HeartbeatInv, Below, Elems
<1>5. CASE Send
    BY <1>5 DEF Send, connVars, HeartbeatInv, Quiet, Only, Below
<1>6. ASSUME NEW w \in Sockets, SocketOpens(w) PROVE HeartbeatInv'
    <2>1. CASE w \in listening /\ state # "connected"
        BY <1>0, <1>6, <1>t, <2>1 DEF SocketOpens, HeartbeatInv, Quiet, Only, Below
    <2>2. CASE w \in listening /\ state = "connected"
        <3>1. heartbeat' = (opts.beats \/ heartbeat) /\ ws # NoWs /\ Quiet /\ Quiet'
              /\ UNCHANGED <<state, ws, interrupted, listening>>
            BY <1>6, <2>2, NotNoWs DEF SocketOpens, FinishOpen, WsTypeOK, Quiet, Live
        <3> QED BY <1>0, <1>t, <2>2, <3>1 DEF HeartbeatInv, Quiet, Below
    <2>3. CASE w \notin listening
        BY <1>0, <1>6, <1>t, <2>3 DEF SocketOpens, HeartbeatInv, Quiet, Only, Below
    <2> QED BY <2>1, <2>2, <2>3
<1>7. CASE OpenEnds
    <2>1. /\ Return("opening") /\ UNCHANGED <<state, listening, ws, interrupted>>
          /\ heartbeat' = (opts.beats \/ heartbeat)
        BY <1>7 DEF OpenEnds, FinishOpen
    <2>2. /\ Below = {"opening"} \cup Below'
          /\ \A n : Only(n) => Quiet'
          /\ ~Quiet
        BY <2>1, ReturnFacts
    <2>3. listening # {} /\ (state # "connected" => "opening" \in interrupted)
        BY <2>2 DEF HeartbeatInv
    <2>4. ws # NoWs
        BY <2>3, NotNoWs DEF WsTypeOK, Live
    <2>5. state = "connected" => Quiet'
        BY <2>2 DEF HeartbeatInv
    <2> QED BY <1>0, <2>1, <2>2, <2>3, <2>4, <2>5 DEF HeartbeatInv
<1>8. ASSUME NEW w \in Sockets, SocketCloses(w) PROVE HeartbeatInv'
    <2>1. CASE w \in listening
        <3>1. /\ heartbeat' = FALSE /\ state' # "connected"
              /\ within' = <<>> \/ within' = <<"closing">>
            BY <1>8, <2>1 DEF SocketCloses, HeartbeatAfterClose, StateAfterClose
        <3>2. "opening" \notin Below'
            BY <1>t, <3>1 DEF Below
        <3> QED BY <3>1, <3>2 DEF HeartbeatInv
    <2>2. CASE w \notin listening
        BY <1>0, <1>8, <2>2 DEF SocketCloses, HeartbeatInv, Quiet, Only, Below
    <2> QED BY <2>1, <2>2
<1>9. CASE CloseEnds
    <2>1. Return("closing") /\ UNCHANGED <<state, listening, ws, heartbeat, interrupted>>
        BY <1>9 DEF CloseEnds
    <2>2. /\ Below = {"closing"} \cup Below' /\ ~Quiet
          /\ \A n : Only(n) => n = "closing"
        BY <2>1, ReturnFacts
    <2>3. state # "connected"
        BY <2>2 DEF HeartbeatInv
    <2> QED BY <1>0, <2>1, <2>2, <2>3 DEF HeartbeatInv
<1>10. CASE TimerFires
    <2>1. /\ Quiet /\ Quiet' /\ UNCHANGED <<state, heartbeat, interrupted>>
          /\ ws # NoWs => ws' # NoWs
        BY <1>2, <1>l, <1>10 DEF TimerFires, Quiet
    <2>2. Below' = {}
        BY <1>t, <2>1 DEF Quiet, Below
    <2> QED BY <1>0, <2>1, <2>2 DEF HeartbeatInv
<1>11. CASE HeartbeatTimeout
    BY <1>0, <1>11 DEF HeartbeatTimeout, HeartbeatInv, Quiet, Only, Below
<1>12. CASE AuthResolves
    <2>1. Quiet /\ Quiet' /\ UNCHANGED <<state, heartbeat, interrupted>> /\ ws' # NoWs
        BY <1>12, CreateFacts DEF AuthResolves, Quiet
    <2>2. Below' = {}
        BY <1>t, <2>1 DEF Quiet, Below
    <2> QED BY <1>0, <2>1, <2>2 DEF HeartbeatInv
<1>13. CASE AuthRejects
    BY <1>0, <1>13 DEF AuthRejects, HeartbeatInv, Quiet, Only, Below
<1>14. CASE UNCHANGED vars
    BY <1>14 DEF vars, connVars, HeartbeatInv, Quiet, Only, Below
<1> QED BY <1>1, <1>3, <1>4, <1>5, <1>6, <1>7, <1>8, <1>9, <1>10, <1>11, <1>12, <1>13, <1>14
        DEF Next

\* With one connect(), the one attempt moves from place to place.
LEMMA OnceStep == OneAttemptInv /\ ConnectedOnce /\ [Next]_vars => OnceInv'
<1> SUFFICES ASSUME OneAttemptInv, ConnectedOnce, [Next]_vars PROVE OnceInv'
    OBVIOUS
<1>0. WsTypeOK /\ HeartbeatInv /\ OnceInv
    BY DEF OneAttemptInv
<1>t. /\ \A m, n : <<m>> = <<n>> => m = n
      /\ \A m : <<m>> # <<>> /\ Elems(<<m>>) = {m} /\ <<m>> \o <<>> = <<m>>
      /\ Elems(<<>>) = {}
    BY SingleFacts
<1>1. CASE Connect
    <2>1. /\ state = "idle" /\ state' = "connecting" /\ userClosed' = FALSE
          /\ within' = <<"connecting">> \o within
          /\ UNCHANGED <<sock, listening, ws, auths, timer, strays, heartbeat>>
        BY <1>1 DEF Connect, ConnectedOnce
    <2>2. Live = {} /\ auths = 0 /\ ~timer /\ Quiet /\ Live' = Live /\ strays = 0 /\ listening = {}
        BY <1>0, <2>1 DEF OnceInv, Live
    <2>3. Only("connecting")' /\ ~Only("opening")' /\ ~Only("closing")' /\ ~Quiet'
        BY <1>t, <2>1, <2>2 DEF Only, Quiet
    <2>4. ~heartbeat
        BY <1>0, <2>2 DEF HeartbeatInv, WsTypeOK
    <2> QED BY <2>1, <2>2, <2>3, <2>4 DEF OnceInv
<1>2. ASSUME OpenSocket, Live = {}, auths = 0, listening = {}, strays' = 0, ~timer', Quiet',
             state' # "idle", ~heartbeat'
      PROVE  OnceInv'
    <2>1. ~Only("opening")' /\ ~Only("closing")' /\ ~Only("connecting")'
        BY <1>2, <1>t DEF Only, Quiet
    <2>2. CASE opts.auth
        <3>1. auths' = 1 /\ Live' = {} /\ listening' = {}
            BY <1>2, <2>2 DEF OpenSocket, Live
        <3> QED BY <1>2, <2>1, <3>1 DEF OnceInv
    <2>3. CASE ~opts.auth
        <3>1. CreateSocket /\ auths' = 0
            BY <1>2, <2>3 DEF OpenSocket
        <3>2. PICK w \in Sockets : Live' = {w} /\ listening' = {w}
            BY <1>0, <1>2, <3>1, CreateFacts
        <3> QED BY <1>2, <2>1, <3>1, <3>2 DEF OnceInv
    <2> QED BY <2>2, <2>3
<1>h. Live = {} => ~heartbeat
    BY <1>0 DEF HeartbeatInv, WsTypeOK
<1>3. CASE ConnectEnds
    <2>1. Return("connecting") /\ OpenSocket /\ UNCHANGED <<state, timer, strays, heartbeat>>
        BY <1>3 DEF ConnectEnds
    <2>2. /\ ~Quiet /\ \A n : Only(n) => n = "connecting" /\ Quiet'
        BY <1>0, <2>1, ReturnFacts
    <2>3. Only("connecting") /\ Quiet' /\ ~Only("opening")
        BY <1>0, <2>2 DEF OnceInv
    <2>4. Live = {} /\ auths = 0 /\ ~timer /\ strays = 0 /\ listening = {} /\ state # "idle"
        BY <1>0, <2>2, <2>3 DEF OnceInv
    <2> QED BY <1>2, <1>h, <2>1, <2>3, <2>4
<1>4. CASE Disconnect
    <2>1. /\ Live' = Live /\ (ws # NoWs => sock'[ws] = "closing")
          /\ timer' = FALSE /\ heartbeat' = FALSE /\ state' = "closed"
          /\ interrupted' = interrupted \cup {within[i] : i \in DOMAIN within}
          /\ UNCHANGED <<listening, ws, auths, strays, within>>
        BY <1>0, <1>4, ClosingFacts DEF Disconnect, TimerAfterDisconnect
    <2>2. Only("closing") => "closing" \in interrupted'
        BY <1>t, <2>1 DEF Only, Elems
    <2>3. Live # {} => ws # NoWs
        BY <1>0, NotNoWs DEF OnceInv, WsTypeOK, Live
    <2>4. UNCHANGED <<Quiet, Only("opening"), Only("closing"), Only("connecting")>>
        BY <2>1 DEF Quiet, Only
    <2> QED BY <1>0, <2>1, <2>2, <2>3, <2>4 DEF OnceInv
<1>5. CASE Send
    BY <1>0, <1>5 DEF Send, connVars, OnceInv, Live, Quiet, Only
<1>6. ASSUME NEW w \in Sockets, SocketOpens(w) PROVE OnceInv'
    <2>1. /\ Live' = Live /\ w \in Live /\ Quiet /\ sock[w] = "opening" /\ sock'[w] = "open"
          /\ UNCHANGED <<listening, ws, auths, timer, strays, userClosed, interrupted>>
        BY <1>0, <1>6 DEF SocketOpens, WsTypeOK, Live, Quiet
    <2>2. ws = w /\ w \in listening
        BY <1>0, <2>1 DEF OnceInv, WsTypeOK
    <2>3. CASE state # "connected"
        <3>1. state' = "connected" /\ Only("opening")' /\ UNCHANGED heartbeat
            BY <1>6, <2>2, <2>3 DEF SocketOpens, Only
        <3>2. ~Only("closing")' /\ ~Only("connecting")' /\ ~Quiet'
            BY <1>t, <3>1 DEF Only, Quiet
        <3> QED BY <1>0, <2>1, <2>2, <3>1, <3>2 DEF OnceInv
    <2>4. CASE state = "connected"
        <3>1. state' = "connected" /\ Quiet'
            BY <1>6, <2>1, <2>2, <2>4 DEF SocketOpens, Quiet
        <3>2. ~Only("opening")' /\ ~Only("closing")' /\ ~Only("connecting")'
            BY <1>t, <3>1 DEF Only, Quiet
        <3> QED BY <1>0, <2>1, <2>2, <3>1, <3>2 DEF OnceInv
    <2> QED BY <2>3, <2>4
<1>7. CASE OpenEnds
    <2>1. /\ Return("opening")
          /\ UNCHANGED <<state, sock, listening, ws, auths, timer, strays, userClosed, interrupted>>
        BY <1>7 DEF OpenEnds
    <2>2. ~Quiet /\ \A n : Only(n) => n = "opening" /\ Quiet'
        BY <1>0, <2>1, ReturnFacts
    <2>3. Only("opening") /\ Quiet'
        BY <1>0, <2>2 DEF OnceInv
    <2>4. ~Only("opening")' /\ ~Only("closing")' /\ ~Only("connecting")'
        BY <1>t, <2>3 DEF Only, Quiet
    <2>5. Live' = Live
        BY <2>1 DEF Live
    <2> QED BY <1>0, <2>1, <2>3, <2>4, <2>5 DEF OnceInv
<1>8. ASSUME NEW w \in Sockets, SocketCloses(w) PROVE OnceInv'
    <2>1. /\ w \in Live /\ Live' = Live \ {w} /\ Quiet
          /\ UNCHANGED <<auths, userClosed, interrupted>>
        BY <1>0, <1>8 DEF SocketCloses, WsTypeOK, Live, Quiet
    <2>2. Live' = {} /\ w \in listening /\ auths = 0 /\ ~timer /\ strays = 0
        BY <1>0, <2>1 DEF OnceInv
    <2>3. /\ listening' = {} /\ heartbeat' = FALSE /\ state' \in {"reconnecting", "closed"}
          /\ Retry => ~userClosed
        BY <1>8, <2>2 DEF SocketCloses, HeartbeatAfterClose, StateAfterClose, Retry
    <2>4. CASE ~Retry
        <3>1. ~timer' /\ strays' = 0 /\ Quiet'
            BY <1>8, <2>1, <2>2, <2>4 DEF SocketCloses, Quiet
        <3>2. ~Only("opening")' /\ ~Only("closing")' /\ ~Only("connecting")'
            BY <1>t, <3>1 DEF Only, Quiet
        <3> QED BY <2>1, <2>2, <2>3, <3>1, <3>2 DEF OnceInv
    <2>5. CASE Retry /\ state # "reconnecting"
        <3>1. ~timer' /\ strays' = 0 /\ Only("closing")' /\ ~userClosed'
            BY <1>8, <2>1, <2>2, <2>3, <2>5 DEF SocketCloses, Only
        <3>2. ~Only("opening")' /\ ~Quiet'
            BY <1>t, <3>1 DEF Only, Quiet
        <3> QED BY <2>1, <2>2, <2>3, <3>1, <3>2 DEF OnceInv
    <2>6. CASE Retry /\ state = "reconnecting"
        <3>1. strays' = 0 /\ Quiet' /\ ~userClosed'
            BY <1>8, <2>1, <2>2, <2>3, <2>6 DEF SocketCloses, ScheduleReconnect, Quiet
        <3>2. ~Only("opening")' /\ ~Only("closing")' /\ ~Only("connecting")'
            BY <1>t, <3>1 DEF Only, Quiet
        <3> QED BY <2>1, <2>2, <2>3, <3>1, <3>2 DEF OnceInv
    <2> QED BY <2>4, <2>5, <2>6
<1>9. CASE CloseEnds
    <2>1. /\ Return("closing") /\ ScheduleReconnect
          /\ UNCHANGED <<state, sock, listening, ws, auths, heartbeat, userClosed, interrupted>>
        BY <1>9 DEF CloseEnds
    <2>2. ~Quiet /\ \A n : Only(n) => n = "closing" /\ Quiet'
        BY <1>0, <2>1, ReturnFacts
    <2>3. Only("closing") /\ Quiet' /\ ~Only("opening")
        BY <1>0, <2>2 DEF OnceInv
    <2>4. ~Only("opening")' /\ ~Only("closing")' /\ ~Only("connecting")'
        BY <1>t, <2>3 DEF Only, Quiet
    <2>5. /\ Live = {} /\ Live' = {} /\ auths = 0 /\ ~timer /\ strays = 0 /\ state # "idle"
          /\ userClosed => "closing" \in interrupted
        BY <1>0, <2>1, <2>2, <2>3 DEF OnceInv, Live
    <2>6. strays' = 0
        BY <2>1, <2>5 DEF ScheduleReconnect
    <2> QED BY <1>0, <1>h, <2>1, <2>3, <2>4, <2>5, <2>6 DEF OnceInv
<1>10. CASE TimerFires
    <2>1. /\ OpenSocket /\ UNCHANGED <<state, heartbeat>> /\ Quiet'
          /\ \/ timer /\ timer' = FALSE /\ UNCHANGED strays
             \/ strays > 0 /\ strays' = strays - 1 /\ UNCHANGED timer
        BY <1>10 DEF TimerFires, Quiet
    <2>2. timer /\ ~timer' /\ strays' = 0
        BY <1>0, <2>1 DEF OnceInv
    <2>3. Live = {} /\ auths = 0 /\ listening = {} /\ state # "idle"
        BY <1>0, <2>2 DEF OnceInv
    <2> QED BY <1>2, <1>h, <2>1, <2>2, <2>3
<1>11. CASE HeartbeatTimeout
    <2>1. /\ Live' = Live /\ ws # NoWs /\ sock'[ws] = "closing" /\ Quiet /\ Quiet'
          /\ UNCHANGED <<state, listening, ws, auths, timer, strays, heartbeat, userClosed,
                         interrupted>>
        BY <1>0, <1>11, ClosingFacts DEF HeartbeatTimeout, TimerAfterTimeout, Quiet
    <2>2. ~Only("opening")' /\ ~Only("closing")' /\ ~Only("connecting")'
        BY <1>t, <2>1 DEF Only, Quiet
    <2> QED BY <1>0, <2>1, <2>2 DEF OnceInv
<1>12. CASE AuthResolves
    <2>1. /\ CreateSocket /\ auths > 0 /\ auths' = auths - 1 /\ Quiet'
          /\ UNCHANGED <<state, timer, strays, heartbeat>>
        BY <1>12 DEF AuthResolves, Quiet
    <2>2. auths = 1 /\ Live = {} /\ ~timer /\ state # "idle" /\ listening = {} /\ strays = 0
        BY <1>0, <2>1 DEF OnceInv, WsTypeOK
    <2>3. PICK w \in Sockets : Live' = {w} /\ listening' = {w}
        BY <1>0, <2>1, <2>2, CreateFacts
    <2>4. ~Only("opening")' /\ ~Only("closing")' /\ ~Only("connecting")' /\ auths' = 0
        BY <1>t, <2>1, <2>2 DEF Only, Quiet
    <2> QED BY <1>h, <2>1, <2>2, <2>3, <2>4 DEF OnceInv
<1>13. CASE AuthRejects
    <2>1. /\ auths > 0 /\ auths' = auths - 1
          /\ UNCHANGED <<state, sock, listening, ws, timer, strays, heartbeat, userClosed,
                         within, interrupted>>
        BY <1>13 DEF AuthRejects
    <2>2. auths = 1 /\ auths' = 0
        BY <1>0, <2>1 DEF OnceInv, WsTypeOK
    <2>3. Live' = Live
        BY <2>1 DEF Live
    <2> QED BY <1>0, <2>1, <2>2, <2>3 DEF OnceInv, Quiet, Only
<1>14. CASE UNCHANGED vars
    BY <1>0, <1>14 DEF vars, connVars, OnceInv, Live, Quiet, Only
<1> QED BY <1>1, <1>3, <1>4, <1>5, <1>6, <1>7, <1>8, <1>9, <1>10, <1>11, <1>12, <1>13, <1>14
        DEF Next

\* Every callback keeps it to one attempt.
LEMMA ConnStep == OneAttemptInv /\ [Next]_vars => OneAttemptInv'
<1> SUFFICES ASSUME OneAttemptInv, [Next]_vars PROVE OneAttemptInv'
    OBVIOUS
<1>1. WsTypeOK' /\ HeartbeatInv'
    BY TypeStep, HeartbeatStep DEF OneAttemptInv
<1>2. ConnectedOnce' => OnceInv'
    BY OptsStay, OnceStep
<1> QED BY <1>1, <1>2 DEF OneAttemptInv

\* For any options and any number of sockets: with one connect() per transport, a pending
\* authentication, a pending retry and a live socket exclude each other.  A connection
\* has its heartbeat when its listeners have returned, and one that outlives its connection
\* was started after a listener's disconnect().
THEOREM One_Attempt == Spec => []OneAttempt
<1>1. Init => OneAttemptInv
    BY ConnInit
<1>2. OneAttemptInv /\ [Next]_vars => OneAttemptInv'
    BY ConnStep
<1>3. OneAttemptInv => OneAttempt
    <2> SUFFICES ASSUME OneAttemptInv PROVE OneAttempt
        OBVIOUS
    <2>0. WsTypeOK /\ HeartbeatInv /\ (ConnectedOnce => OnceInv)
        BY DEF OneAttemptInv
    <2>1. ASSUME ConnectedOnce PROVE Attempts <= 1
        <3> DEFINE calls == {i \in DOMAIN within : within[i] # "opening"}
        <3>0. OnceInv
            BY <2>0, <2>1
        <3>1. /\ Quiet \/ Only("opening") => calls = {}
              /\ calls = {} \/ calls = {1}
            <4>1. Quiet => calls = {}
                BY DEF Quiet
            <4>2. ASSUME NEW m, Only(m) PROVE calls = IF m = "opening" THEN {} ELSE {1}
                <5>1. DOMAIN within = {1} /\ within[1] = m
                    BY <4>2, SingleFacts DEF Only
                <5> QED BY <5>1
            <4>3. Only("opening") => calls = {}
                BY <4>2
            <4>4. Only("closing") \/ Only("connecting") => calls = {1}
                BY <4>2
            <4> QED BY <3>0, <4>1, <4>3, <4>4 DEF OnceInv
        <3> HIDE DEF calls
        <3>2. Cardinality(calls) \in {0, 1} /\ (calls = {} => Cardinality(calls) = 0)
            BY <3>1, FS_EmptySet, FS_Singleton
        <3>3. Attempts = Cardinality(Live) + auths + strays + (IF timer THEN 1 ELSE 0)
                         + Cardinality(calls)
            BY DEF Attempts, calls
        <3>4. CASE Live = {}
            <4>1. Cardinality(Live) = 0
                BY <3>4, FS_EmptySet
            <4>2. strays = 0 /\ auths \in {0, 1} /\ (auths = 1 => ~timer /\ Quiet)
                  /\ (timer => auths = 0 /\ Quiet)
                BY <3>0 DEF OnceInv
            <4> QED BY <3>1, <3>2, <3>3, <4>1, <4>2
        <3>5. CASE Live # {}
            <4>1. PICK w \in Live : TRUE
                BY <3>5
            <4>2. Live = {w}
                BY <3>0, <4>1 DEF OnceInv
            <4>3. Cardinality(Live) = 1
                BY <4>2, FS_Singleton
            <4>4. auths = 0 /\ strays = 0 /\ ~timer /\ (Quiet \/ Only("opening"))
                BY <3>0, <3>5 DEF OnceInv
            <4> QED BY <3>1, <3>2, <3>3, <4>3, <4>4
        <3> QED BY <3>4, <3>5
    <2>2. ConnectedOnce /\ heartbeat /\ state # "connected" => sock[ws] = "closing"
        BY <2>0 DEF OnceInv
    <2> QED BY <2>0, <2>1, <2>2 DEF OneAttempt, HeartbeatInv, Quiet
<1> QED BY <1>1, <1>2, <1>3, PTL DEF Spec

\* With one connect(), no retry is ever pending after disconnect(), unless a listener of
\* onClose called it.
THEOREM No_Retry_After_Disconnect == Spec => []NoRetryAfterDisconnect
<1>1. Init => OneAttemptInv
    BY ConnInit
<1>2. OneAttemptInv /\ [Next]_vars => OneAttemptInv'
    BY ConnStep
<1>3. OneAttemptInv => NoRetryAfterDisconnect
    BY DEF OneAttemptInv, OnceInv, NoRetryAfterDisconnect
<1> QED BY <1>1, <1>2, <1>3, PTL DEF Spec

-----------------------------------------------------------------------------
\* Messages.

\* A message is in exactly one of three places.
Kept(written, waiting, gone, n) ==
    /\ waiting \in Seq(Nat) /\ written \in Seq(Nat) /\ gone \subseteq Nat /\ n \in Nat \ {0}
    /\ Distinct(written) /\ Distinct(waiting) /\ Apart(written, waiting)
    /\ gone \cap (Elems(written) \cup Elems(waiting)) = {}
    /\ gone \cup Elems(written) \cup Elems(waiting) = 1..(n - 1)

\* What waits was sent after what is written, but for the hasty; nothing waits on a connection
\* whose listeners have returned.
Ordered(written, waiting, h) ==
    Increasing(written, h) /\ Increasing(waiting, h) /\ Before(written, waiting, h)

MessagesInv ==
    /\ OneAttemptInv
    /\ Kept(wire, queue, lost, next)
    /\ ConnectedOnce => /\ Ordered(wire, queue, hasty)
                        /\ state = "connected" => ws # NoWs /\ (Quiet => queue = <<>>)

\* The same of the next state.
KeptNext ==
    /\ Kept(wire', queue', lost', next')
    /\ ConnectedOnce => /\ Ordered(wire', queue', hasty')
                        /\ state' = "connected" => ws' # NoWs /\ (Quiet' => queue' = <<>>)

\* The two say the same.
LEMMA MessagesPrimed == OneAttemptInv' /\ KeptNext /\ opts' = opts => MessagesInv'
BY DEF KeptNext, MessagesInv, Kept, Ordered, ConnectedOnce,
       Elems, Distinct, Increasing, Apart, Before

\* One message more at the end.
LEMMA OneFacts ==
    ASSUME NEW x \in Nat
    PROVE  /\ <<x>> \in Seq(Nat) /\ Elems(<<x>>) = {x} /\ Distinct(<<x>>)
           /\ <<>> \in Seq(Nat) /\ Elems(<<>>) = {} /\ Distinct(<<>>)
           /\ \A h : Increasing(<<x>>, h) /\ Increasing(<<>>, h)
           /\ \A s \in Seq(Nat) : Append(s, x) = s \o <<x>> /\ s \o <<>> = s
<1>1. DOMAIN <<x>> = {1} /\ <<x>>[1] = x
    OBVIOUS
<1>2. Elems(<<x>>) = {x}
    BY <1>1 DEF Elems
<1>3. Distinct(<<x>>) /\ \A h : Increasing(<<x>>, h)
    BY <1>1 DEF Distinct, Increasing
<1>4. Elems(<<>>) = {} /\ Distinct(<<>>) /\ \A h : Increasing(<<>>, h)
    BY DEF Elems, Distinct, Increasing
<1> QED BY <1>2, <1>3, <1>4

\* A message that is sent is written, waits, or is lost.
LEMMA SendKept == MessagesInv /\ Send => KeptNext
<1> SUFFICES ASSUME MessagesInv, Send PROVE KeptNext
    OBVIOUS
<1>1. /\ queue \in Seq(Nat) /\ wire \in Seq(Nat) /\ lost \subseteq Nat /\ next \in Nat \ {0}
      /\ next' = next + 1 /\ UNCHANGED <<opts, state, ws, sock, within>>
    BY DEF MessagesInv, Kept, Send, connVars
<1>2. 1..(next' - 1) = 1..(next - 1) \cup {next} /\ next \notin 1..(next - 1)
    BY <1>1
<1>3. /\ Distinct(wire) /\ Distinct(queue) /\ Apart(wire, queue)
      /\ lost \cap (Elems(wire) \cup Elems(queue)) = {}
      /\ lost \cup Elems(wire) \cup Elems(queue) = 1..(next - 1)
    BY DEF MessagesInv, Kept
<1>7. /\ \A y \in lost \cup Elems(wire) \cup Elems(queue) : y < next
      /\ next \notin lost /\ next \notin Elems(wire) /\ next \notin Elems(queue)
    BY <1>1, <1>2, <1>3
<1>4. /\ Elems(<<next>>) = {next} /\ Distinct(<<next>>) /\ \A h : Increasing(<<next>>, h)
      /\ <<next>> \in Seq(Nat)
    BY <1>1, OneFacts
<1>5. CASE state = "connected" /\ ws # NoWs
    <2>1. /\ Flush(<<next>>) /\ UNCHANGED queue
          /\ hasty' = IF BeforeFlush THEN hasty \cup {next} ELSE hasty
        BY <1>5 DEF Send
    <2>0. ASSUME ConnectedOnce
          PROVE  /\ Increasing(wire, hasty') /\ Increasing(queue', hasty')
                 /\ Before(wire, queue', hasty') /\ (Quiet' => queue' = <<>>)
                 /\ queue' = <<>> \/ next \in hasty'
        <3>1. /\ Ordered(wire, queue, hasty) /\ (Quiet => queue = <<>>)
              /\ hasty \subseteq hasty' /\ queue' = queue /\ (Quiet' <=> Quiet)
            BY <1>1, <1>5, <2>0, <2>1 DEF MessagesInv, Quiet
        <3>2. ~Quiet => next \in hasty'
            <4>1. HeartbeatInv
                BY DEF MessagesInv, OneAttemptInv
            <4>2. ~Quiet => Only("opening")
                BY <1>5, <4>1 DEF HeartbeatInv
            <4>3. Only("opening") => BeforeFlush
                <5>1. Only("opening") => DOMAIN within = {1} /\ within[1] = "opening"
                    BY SingleFacts DEF Only
                <5> QED BY <5>1 DEF BeforeFlush
            <4> QED BY <2>1, <4>2, <4>3
        <3> QED BY <3>1, <3>2 DEF Ordered, Increasing, Before
    <2>2. CASE sock'[ws] = "open"
        <3>1. wire' = wire \o <<next>> /\ lost' = lost
            BY <2>1, <2>2 DEF Flush
        <3>2. Apart(wire, <<next>>) /\ \A h : Before(wire, <<next>>, h)
            BY <1>4, <1>7 DEF Apart, Before
        <3>3. /\ wire' \in Seq(Nat) /\ Elems(wire') = Elems(wire) \cup {next}
              /\ Distinct(wire')
              /\ \A h : Increasing(wire, h) => Increasing(wire', h)
            BY <1>1, <1>3, <1>4, <3>1, <3>2, ConcatFacts
        <3>4. Kept(wire', queue', lost', next')
            BY <1>1, <1>2, <1>3, <1>7, <2>1, <3>1, <3>3 DEF Kept, Apart
        <3>5. ASSUME ConnectedOnce
              PROVE  /\ Increasing(wire', hasty') /\ Increasing(queue', hasty')
                     /\ Before(wire', queue', hasty') /\ ws' # NoWs /\ (Quiet' => queue' = <<>>)
            <4>1. Increasing(wire', hasty')
                BY <2>0, <3>3, <3>5
            <4>2. Elems(<<>>) = {}
                BY <1>1, OneFacts
            <4>3. Before(wire', queue', hasty')
                BY <2>0, <3>3, <3>5, <4>2 DEF Before
            <4> QED BY <1>1, <1>5, <2>0, <3>5, <4>1, <4>3
        <3> QED BY <3>4, <3>5 DEF KeptNext, Ordered
    <2>3. CASE sock'[ws] # "open"
        <3>1. wire' = wire /\ lost' = lost \cup {next}
            <4>1. {<<next>>[i] : i \in DOMAIN <<next>>} = {next}
                BY <1>4 DEF Elems
            <4>2. Head(<<next>>) = next /\ <<next>> # <<>>
                OBVIOUS
            <4> QED BY <2>1, <2>3, <4>1, <4>2 DEF Flush
        <3>2. Kept(wire', queue', lost', next')
            BY <1>1, <1>2, <1>3, <1>7, <2>1, <3>1 DEF Kept, Apart
        <3> QED BY <1>1, <1>5, <2>0, <3>1, <3>2 DEF KeptNext, Ordered
    <2> QED BY <2>2, <2>3
<1>6. CASE ~(state = "connected" /\ ws # NoWs)
    <2>1. queue' = queue \o <<next>> /\ UNCHANGED <<wire, lost, hasty>>
        BY <1>1, <1>6, OneFacts DEF Send
    <2>2. Apart(queue, <<next>>) /\ \A h : Before(queue, <<next>>, h)
        BY <1>4, <1>7 DEF Apart, Before
    <2>3. /\ queue' \in Seq(Nat) /\ Elems(queue') = Elems(queue) \cup {next}
          /\ Distinct(queue')
          /\ \A h : Increasing(queue, h) => Increasing(queue', h)
        BY <1>1, <1>3, <1>4, <2>1, <2>2, ConcatFacts
    <2>4. Kept(wire', queue', lost', next')
        <3>1. Elems(wire) \cap Elems(queue') = {}
            BY <1>3, <1>7, <2>3 DEF Apart
        <3>2. lost \cap (Elems(wire) \cup Elems(queue')) = {}
            BY <1>3, <1>7, <2>3
        <3>3. lost \cup Elems(wire) \cup Elems(queue') = 1..(next' - 1)
            BY <1>2, <1>3, <2>3
        <3>4. wire' = wire /\ lost' = lost /\ next' \in Nat \ {0}
            BY <1>1, <2>1
        <3>5. Kept(wire, queue', lost, next')
            BY <1>1, <1>3, <2>3, <3>1, <3>2, <3>3, <3>4 DEF Kept, Apart
        <3> QED BY <3>4, <3>5
    <2>5. ASSUME ConnectedOnce
          PROVE  /\ Increasing(wire', hasty') /\ Increasing(queue', hasty')
                 /\ Before(wire', queue', hasty') /\ state' # "connected"
        <3>1. /\ Increasing(wire, hasty) /\ Increasing(queue, hasty) /\ Before(wire, queue, hasty)
              /\ state # "connected"
            BY <1>1, <1>6, <2>5 DEF MessagesInv, Ordered
        <3>2. Before(wire', queue', hasty')
            BY <1>7, <2>1, <2>3, <3>1 DEF Before
        <3> QED BY <1>1, <2>1, <2>3, <3>1, <3>2
    <2> QED BY <2>4, <2>5 DEF KeptNext, Ordered
<1> QED BY <1>5, <1>6

\* Flushing writes all that waits, loses it with a socket that closes, or loses the first.
LEMMA FinishKept ==
    ASSUME MessagesInv, FinishOpen, UNCHANGED <<opts, ws, next, hasty>>,
           sock'[ws] \in {"opening", "open", "closing"}, ws # NoWs,
           ConnectedOnce => sock'[ws] # "opening"
    PROVE  KeptNext
<1>1. queue \in Seq(Nat) /\ wire \in Seq(Nat) /\ lost \subseteq Nat /\ next \in Nat \ {0}
    BY DEF MessagesInv, Kept
<1>2. Flush(queue) /\ queue' = LeftAfterFlush
    BY DEF FinishOpen, QueueAfterOpen
<1>3. /\ Elems(<<>>) = {} /\ Distinct(<<>>) /\ <<>> \in Seq(Nat)
      /\ \A h : Increasing(<<>>, h)
    BY <1>1, OneFacts
<1>4. ConnectedOnce => Ordered(wire, queue, hasty)
    BY DEF MessagesInv
<1>5. CASE sock'[ws] = "open"
    <2>1. wire' = wire \o queue /\ queue' = <<>> /\ lost' = lost
        BY <1>2, <1>5 DEF Flush, LeftAfterFlush
    <2>2. /\ wire' \in Seq(Nat) /\ Elems(wire') = Elems(wire) \cup Elems(queue)
          /\ Distinct(wire')
          /\ Ordered(wire, queue, hasty) => Increasing(wire', hasty)
        BY <1>1, <2>1, ConcatFacts DEF MessagesInv, Kept, Ordered
    <2>3. Kept(wire', queue', lost', next')
        BY <1>1, <1>3, <2>1, <2>2 DEF MessagesInv, Kept, Apart
    <2>4. ConnectedOnce => Ordered(wire', queue', hasty')
        BY <1>3, <1>4, <2>1, <2>2 DEF Ordered, Before
    <2> QED BY <2>1, <2>3, <2>4 DEF KeptNext
<1>6. CASE sock'[ws] # "open" /\ queue = <<>>
    <2>1. wire' = wire /\ queue' = <<>> /\ lost' = lost
        <3>1. {queue[i] : i \in DOMAIN queue} = {}
            BY <1>3, <1>6 DEF Elems
        <3> QED BY <1>2, <1>6, <3>1 DEF Flush, LeftAfterFlush
    <2> QED BY <1>1, <1>4, <1>6, <2>1 DEF MessagesInv, KeptNext
<1>7. CASE queue # <<>> /\ sock'[ws] = "closing"
    <2>1. wire' = wire /\ queue' = <<>> /\ lost' = lost \cup Elems(queue)
        BY <1>2, <1>7 DEF Flush, LeftAfterFlush, Elems
    <2>2. Elems(queue) \subseteq Nat
        BY <1>1 DEF Elems
    <2>3. Kept(wire', queue', lost', next')
        BY <1>1, <1>3, <2>1, <2>2 DEF MessagesInv, Kept, Apart
    <2>4. ConnectedOnce => Ordered(wire', queue', hasty')
        BY <1>3, <1>4, <2>1 DEF Ordered, Before
    <2> QED BY <2>1, <2>3, <2>4 DEF KeptNext
<1>8. CASE queue # <<>> /\ sock'[ws] = "opening"
    <2>1. wire' = wire /\ queue' = Tail(queue) /\ lost' = lost \cup {Head(queue)}
        BY <1>2, <1>8 DEF Flush, LeftAfterFlush
    <2>2. /\ Tail(queue) \in Seq(Nat) /\ Head(queue) \in Nat
          /\ Elems(queue) = {Head(queue)} \cup Elems(Tail(queue))
          /\ Distinct(Tail(queue)) /\ Head(queue) \notin Elems(Tail(queue))
        BY <1>1, <1>8, TailFacts DEF MessagesInv, Kept
    <2>3. Kept(wire', queue', lost', next')
        BY <1>1, <2>1, <2>2 DEF MessagesInv, Kept, Apart
    <2> QED BY <1>8, <2>3 DEF KeptNext
<1> QED BY <1>5, <1>6, <1>7, <1>8

\* Every other step leaves the messages, and a connection, where they are.
LEMMA MessagesStep == MessagesInv /\ [Next]_vars => MessagesInv'
<1> SUFFICES ASSUME MessagesInv, [Next]_vars PROVE MessagesInv'
    OBVIOUS
<1>1. OneAttemptInv /\ OneAttemptInv'
    BY ConnStep DEF MessagesInv
<1>2. opts' = opts /\ WsTypeOK /\ HeartbeatInv
    BY <1>1, OptsStay DEF OneAttemptInv
<1> SUFFICES KeptNext
    BY <1>1, <1>2, MessagesPrimed
<1>3. ASSUME UNCHANGED msgVars,
             state' = "connected" => /\ ws' # NoWs \/ (state = "connected" /\ ws' = ws)
                                     /\ Quiet' => Quiet /\ state = "connected"
      PROVE  KeptNext
    BY <1>3 DEF MessagesInv, KeptNext, msgVars
<1>4. ASSUME CreateSocket PROVE ws' # NoWs
    BY <1>2, <1>4, CreateFacts
<1>o. ASSUME OpenSocket PROVE ws' = ws \/ ws' # NoWs
    <2>1. CASE opts.auth
        BY <1>o, <2>1 DEF OpenSocket
    <2>2. CASE ~opts.auth
        BY <1>o, <1>4, <2>2 DEF OpenSocket
    <2> QED BY <2>1, <2>2
<1>s. ASSUME NEW w \in listening PROVE w # NoWs /\ ws \in listening /\ ws # NoWs /\ ws \in Sockets
    BY <1>2, NotNoWs DEF WsTypeOK, Live
<1>5. CASE Connect
    BY <1>3, <1>5 DEF Connect
<1>6. ASSUME NEW m, Return(m), m # "opening", UNCHANGED state
      PROVE  state' # "connected"
    <2>1. ~Quiet /\ \A n : Only(n) => n = m
        BY <1>2, <1>6, ReturnFacts
    <2> QED BY <1>2, <1>6, <2>1 DEF HeartbeatInv
<1>7. CASE ConnectEnds
    <2>1. state' # "connected" /\ UNCHANGED msgVars
        BY <1>6, <1>7 DEF ConnectEnds
    <2> QED BY <1>3, <2>1
<1>8. CASE Disconnect
    BY <1>3, <1>8 DEF Disconnect
<1>9. CASE Send
    BY <1>9, SendKept
<1>10. ASSUME NEW w \in Sockets, SocketOpens(w) PROVE KeptNext
    <2>1. UNCHANGED <<opts, ws, next, hasty>> /\ sock[w] = "opening"
          /\ sock' = [sock EXCEPT ![w] = "open"]
        BY <1>10 DEF SocketOpens
    <2>2. CASE w \in listening /\ state # "connected"
        <3>1. UNCHANGED msgVars /\ within' = <<"opening">> /\ ws' = ws
            BY <1>10, <2>2 DEF SocketOpens, msgVars
        <3>2. ~Quiet'
            BY <3>1, SingleFacts DEF Quiet
        <3> QED BY <1>3, <1>s, <2>2, <3>1, <3>2
    <2>3. CASE w \in listening /\ state = "connected"
        <3>1. FinishOpen
            BY <1>10, <2>3 DEF SocketOpens
        <3>2. ws \in listening /\ ws # NoWs /\ ws \in Sockets
            BY <1>s, <2>3
        <3>3. sock'[ws] \in {"opening", "open", "closing"}
            BY <1>2, <2>1, <3>2 DEF WsTypeOK, Live
        <3>4. ConnectedOnce => ws = w
            BY <1>1, <2>3, <3>2 DEF OneAttemptInv, OnceInv
        <3>5. ConnectedOnce => sock'[ws] # "opening"
            BY <1>2, <2>1, <3>4 DEF WsTypeOK
        <3> QED BY <2>1, <3>1, <3>2, <3>3, <3>5, FinishKept
    <2>4. CASE w \notin listening
        BY <1>3, <1>10, <2>4 DEF SocketOpens, msgVars, Quiet
    <2> QED BY <2>2, <2>3, <2>4
<1>11. CASE OpenEnds
    <2>1. /\ Return("opening") /\ FinishOpen
          /\ UNCHANGED <<opts, ws, next, hasty, sock, state, listening>>
        BY <1>11 DEF OpenEnds
    <2>2. "opening" \in Below /\ ~Quiet /\ \A n : Only(n) => n = "opening"
        BY <1>2, <2>1, ReturnFacts
    <2>3. listening # {}
        BY <1>2, <2>2 DEF HeartbeatInv
    <2>4. ws \in listening /\ ws # NoWs /\ ws \in Sockets
        BY <1>s, <2>3
    <2>5. sock'[ws] \in {"opening", "open", "closing"}
        BY <1>2, <2>1, <2>4 DEF WsTypeOK, Live
    <2>6. ConnectedOnce => sock'[ws] # "opening"
        BY <1>1, <2>1, <2>2 DEF OneAttemptInv, OnceInv
    <2> QED BY <2>1, <2>4, <2>5, <2>6, FinishKept
<1>12. ASSUME NEW w \in Sockets, SocketCloses(w) PROVE KeptNext
    BY <1>3, <1>12 DEF SocketCloses, StateAfterClose, Quiet
<1>13. CASE CloseEnds
    <2>1. state' # "connected" /\ UNCHANGED msgVars
        BY <1>6, <1>13 DEF CloseEnds
    <2> QED BY <1>3, <2>1
<1>14. CASE TimerFires
    <2>1. UNCHANGED msgVars /\ UNCHANGED state /\ Quiet /\ (ws' = ws \/ ws' # NoWs)
        BY <1>o, <1>14 DEF TimerFires, Quiet
    <2> QED BY <1>3, <2>1
<1>15. CASE HeartbeatTimeout
    BY <1>3, <1>15 DEF HeartbeatTimeout, Quiet
<1>16. CASE AuthResolves \/ AuthRejects
    BY <1>3, <1>4, <1>16 DEF AuthResolves, AuthRejects, Quiet
<1>17. CASE UNCHANGED vars
    BY <1>3, <1>17 DEF vars, connVars, Quiet
<1> QED BY <1>5, <1>7, <1>8, <1>9, <1>10, <1>11, <1>12, <1>13, <1>14, <1>15, <1>16, <1>17 DEF Next

\* For any options and any use of connect(), a message is written once, or waits, or was
\* handed to a socket that could not take it, and never two of these; with one connect(),
\* messages are written in the order they were sent, across reconnects, except that what a
\* listener of "connected" sends may overtake the queue.
THEOREM Each_Message_Once == Spec => []EachMessageOnce
<1>1. Init => MessagesInv
    <2> SUFFICES ASSUME Init PROVE MessagesInv
        OBVIOUS
    <2>1. /\ queue = <<>> /\ wire = <<>> /\ lost = {} /\ next = 1 /\ state = "idle"
          /\ hasty = {}
        BY DEF Init
    <2>2. Elems(<<>>) = {} /\ Distinct(<<>>) /\ Increasing(<<>>, {}) /\ <<>> \in Seq(Nat)
        BY OneFacts
    <2>3. 1..(1 - 1) = {}
        OBVIOUS
    <2> QED BY ConnInit, <2>1, <2>2, <2>3 DEF MessagesInv, Kept, Ordered, Apart, Before
<1>2. MessagesInv /\ [Next]_vars => MessagesInv'
    BY MessagesStep
<1>3. MessagesInv => EachMessageOnce
    <2> SUFFICES ASSUME MessagesInv PROVE EachMessageOnce
        OBVIOUS
    <2>1. /\ queue \in Seq(Nat) /\ wire \in Seq(Nat) /\ lost \subseteq Nat /\ next \in Nat \ {0}
          /\ Distinct(wire) /\ Distinct(queue) /\ Apart(wire, queue)
          /\ lost \cap (Elems(wire) \cup Elems(queue)) = {}
          /\ lost \cup Elems(wire) \cup Elems(queue) = 1..(next - 1)
        BY DEF MessagesInv, Kept
    <2>2. /\ Outgoing \in Seq(Nat)
          /\ Elems(Outgoing) = Elems(wire) \cup Elems(queue)
          /\ Distinct(Outgoing)
          /\ Ordered(wire, queue, hasty) => Increasing(Outgoing, hasty)
        BY <2>1, ConcatFacts DEF Outgoing, Ordered
    <2>3. lost \cup Elems(Outgoing) = 1..(next - 1) /\ lost \cap Elems(Outgoing) = {}
        BY <2>1, <2>2
    <2>4. IsFiniteSet(1..(next - 1)) /\ Cardinality(1..(next - 1)) = next - 1
        <3>1. 1 \in Int /\ next - 1 \in Int
            BY <2>1
        <3>2. /\ IsFiniteSet(1..(next - 1))
              /\ Cardinality(1..(next - 1)) = IF 1 > next - 1 THEN 0 ELSE (next - 1) - 1 + 1
            BY <3>1, FS_Interval
        <3> QED BY <2>1, <3>2
    <2>5. IsFiniteSet(Elems(Outgoing)) /\ Cardinality(Elems(Outgoing)) = Len(Outgoing)
        BY <2>2, DistinctCount
    <2>6. IsFiniteSet(lost)
        BY <2>3, <2>4, FS_Subset
    <2>7. Cardinality(lost) + Len(Outgoing) = next - 1
        <3>1. Cardinality(lost \cup Elems(Outgoing))
                = Cardinality(lost) + Cardinality(Elems(Outgoing))
                    - Cardinality(lost \cap Elems(Outgoing))
            BY <2>5, <2>6, FS_Union
        <3>2. Cardinality(lost \cap Elems(Outgoing)) = 0
            BY <2>3, FS_EmptySet
        <3>3. Cardinality(lost) \in Nat /\ Len(Outgoing) \in Nat
            BY <2>2, <2>6, FS_CardinalityType
        <3>4. Cardinality(lost \cup Elems(Outgoing)) = next - 1
            BY <2>3, <2>4
        <3> QED BY <2>1, <2>5, <3>1, <3>2, <3>3, <3>4
    <2>8. ConnectedOnce => Increasing(Outgoing, hasty)
        BY <2>2 DEF MessagesInv
    <2> QED BY <2>3, <2>7, <2>8 DEF EachMessageOnce, Elems, Increasing
<1> QED BY <1>1, <1>2, <1>3, PTL DEF Spec
=============================================================================

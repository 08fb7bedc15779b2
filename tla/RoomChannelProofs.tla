-------------------------- MODULE RoomChannelProofs -------------------------
(***************************************************************************)
(* A channel and its server agree about presence, about my attribute and   *)
(* about chat, for any peers, values, chats, drops and attempts.           *)
(***************************************************************************)
EXTENDS RoomChannel, TLAPS

-----------------------------------------------------------------------------
\* Types.

JoinMsgs   == [type : {"join"}, replay : BOOLEAN]
UpdateMsgs == [type : {"presence-update"}, value : Values]
ChatMsgs   == [type : {"chat"}, chat : Chats]
LeaveMsgs  == [type : {"leave"}]
OutMsgs    == JoinMsgs \cup UpdateMsgs \cup ChatMsgs \cup LeaveMsgs

SnapshotMsgs == [type : {"presence-snapshot"}, peers : [Peers -> Values]]
StateMsgs    == [type : {"presence-state"}, peer : Peers, value : Values]
LeftMsgs     == [type : {"peer-left"}, peer : Others]
HistoryMsgs  == [type : {"chat-history"}, chats : Seq(Chats)]
InMsgs       == SnapshotMsgs \cup StateMsgs \cup LeftMsgs \cup ChatMsgs \cup HistoryMsgs

Entries == [chat : Chats, copy : BOOLEAN]

TypeOK ==
    /\ opts \in AllOptions
    /\ chan \in {"idle", "connecting", "connected", "reconnecting", "closed"}
    /\ subscribed \in BOOLEAN /\ starting \in BOOLEAN /\ attempting \in BOOLEAN
    /\ retryTimer \in BOOLEAN /\ attempts \in Nat
    /\ own \in BOOLEAN /\ presenceMap \in [Peers -> Values]
    /\ buffer \in Seq(Entries)
    /\ status \in [Chats -> {"none", "pending", "confirmed", "failed"}]
    /\ timers \subseteq Chats
    /\ tstate \in {"idle", "connecting", "connected", "reconnecting", "closed"}
    /\ sock \in {"none", "auth", "opening", "open"}
    /\ out \in Seq(OutMsgs) /\ in \in Seq(InMsgs)
    /\ member \in BOOLEAN /\ srvPresence \in [Peers -> Values] /\ log \in Seq(Chats)
    /\ next \in Nat \ {0} /\ sets \in Nat /\ drops \in Nat
    /\ wanted \in Values /\ unsure \in BOOLEAN

-----------------------------------------------------------------------------
\* Sequences: what stands where after one more, one less, two joined.

\* One more at the end.
LEMMA AppendFacts ==
    ASSUME NEW S, NEW s \in Seq(S), NEW e \in S
    PROVE  LET r == Append(s, e)
           IN  /\ r \in Seq(S) /\ DOMAIN s = 1..Len(s) /\ Len(s) \in Nat
               /\ DOMAIN r = 1..(Len(s) + 1) /\ Len(r) = Len(s) + 1
               /\ \A i \in DOMAIN s : r[i] = s[i]
               /\ r[Len(s) + 1] = e
               /\ \A i \in DOMAIN r : i \in DOMAIN s \/ i = Len(s) + 1
    OBVIOUS

\* The first one gone.
LEMMA TailFacts ==
    ASSUME NEW S, NEW s \in Seq(S), s # <<>>
    PROVE  LET r == Tail(s)
           IN  /\ r \in Seq(S) /\ Head(s) \in S /\ Head(s) = s[1] /\ 1 \in DOMAIN s
               /\ DOMAIN s = 1..Len(s) /\ Len(s) \in Nat \ {0}
               /\ DOMAIN r = 1..(Len(s) - 1) /\ Len(r) = Len(s) - 1
               /\ \A i \in DOMAIN r : i + 1 \in DOMAIN s /\ r[i] = s[i + 1]
               /\ \A i \in DOMAIN s : i # 1 => i - 1 \in DOMAIN r /\ r[i - 1] = s[i]
    OBVIOUS

\* One after the other.
LEMMA ConcatFacts ==
    ASSUME NEW S, NEW s \in Seq(S), NEW t \in Seq(S)
    PROVE  LET r == s \o t
           IN  /\ r \in Seq(S) /\ DOMAIN s = 1..Len(s) /\ Len(s) \in Nat
               /\ DOMAIN t = 1..Len(t) /\ Len(t) \in Nat
               /\ DOMAIN r = 1..(Len(s) + Len(t)) /\ Len(r) = Len(s) + Len(t)
               /\ \A i \in DOMAIN s : i \in DOMAIN r /\ r[i] = s[i]
               /\ \A i \in DOMAIN t : Len(s) + i \in DOMAIN r /\ r[Len(s) + i] = t[i]
               /\ \A i \in DOMAIN r : i \in DOMAIN s \/ i - Len(s) \in DOMAIN t
<1> DEFINE r == s \o t
<1>1. /\ r \in Seq(S) /\ DOMAIN s = 1..Len(s) /\ Len(s) \in Nat
      /\ DOMAIN t = 1..Len(t) /\ Len(t) \in Nat
      /\ DOMAIN r = 1..(Len(s) + Len(t)) /\ Len(r) = Len(s) + Len(t)
    OBVIOUS
<1>2. \A i \in DOMAIN s : i \in DOMAIN r /\ r[i] = s[i]
    BY <1>1
<1>3. \A i \in DOMAIN t : Len(s) + i \in DOMAIN r /\ r[Len(s) + i] = t[i]
    BY <1>1
<1>4. \A i \in DOMAIN r : i \in DOMAIN s \/ i - Len(s) \in DOMAIN t
    BY <1>1
<1> QED BY <1>1, <1>2, <1>3, <1>4

\* The buffer keeps its last entries, in their order.
LEMMA TrimmedFacts ==
    ASSUME ChannelConstants, NEW s \in Seq(Entries)
    PROVE  LET r == Trimmed(s)
               d == Len(s) - Len(r)
           IN  /\ r \in Seq(Entries)
               /\ d \in Nat
               /\ \A i \in DOMAIN r : i + d \in DOMAIN s /\ r[i] = s[i + d]
<1>1. CASE Len(s) <= HistoryLimit
    BY <1>1 DEF Trimmed
<1>2. CASE ~(Len(s) <= HistoryLimit)
    <2> DEFINE m == Len(s) - HistoryLimit + 1
    <2>1. HistoryLimit \in Nat /\ HistoryLimit > 0 /\ Len(s) \in Nat /\ m \in 1..Len(s)
        BY <1>2 DEF ChannelConstants
    <2>2. Trimmed(s) = SubSeq(s, m, Len(s))
        BY <1>2 DEF Trimmed
    <2>3. /\ SubSeq(s, m, Len(s)) \in Seq(Entries)
          /\ Len(SubSeq(s, m, Len(s))) = HistoryLimit
          /\ DOMAIN SubSeq(s, m, Len(s)) = 1..HistoryLimit
        BY <2>1
    <2>4. \A i \in 1..HistoryLimit : SubSeq(s, m, Len(s))[i] = s[i + m - 1]
        BY <2>1
    <2>5. \A i \in 1..HistoryLimit : i + m - 1 \in DOMAIN s /\ i + m - 1 = i + (Len(s) - HistoryLimit)
        BY <2>1
    <2> DEFINE r == Trimmed(s)
    <2>6. /\ r \in Seq(Entries) /\ Len(r) = HistoryLimit /\ DOMAIN r = 1..HistoryLimit
          /\ \A i \in 1..HistoryLimit : r[i] = s[i + m - 1]
        BY <2>2, <2>3, <2>4
    <2> HIDE DEF r, m
    <2>7. \A i \in DOMAIN r : i + (Len(s) - Len(r)) \in DOMAIN s
                              /\ r[i] = s[i + (Len(s) - Len(r))]
        BY <2>5, <2>6
    <2>8. Len(s) - Len(r) \in Nat
        BY <2>1, <2>6, <1>2
    <2> QED BY <2>6, <2>7, <2>8 DEF r
<1> QED BY <1>1, <1>2

-----------------------------------------------------------------------------
\* Types.

\* What the channel and the server send is a message.
LEMMA MessageTypes ==
    ASSUME ChannelConstants, TypeOK
    PROVE  /\ JoinMsg(opts.replay) \in OutMsgs
           /\ Rejoin \in Seq(OutMsgs) /\ Resync \in Seq(OutMsgs)
           /\ \A v \in Values : SetMsg(v) \in OutMsgs
           /\ \A n \in Chats : ChatMsg(n) \in OutMsgs /\ ChatMsg(n) \in InMsgs
           /\ [type |-> "leave"] \in OutMsgs
           /\ Snapshot \in InMsgs
           /\ \A p \in Peers, v \in Values : State(p, v) \in InMsgs
           /\ \A p \in Others : [type |-> "peer-left", peer |-> p] \in InMsgs
           /\ [type |-> "chat-history", chats |-> log] \in InMsgs
           /\ Me \in Peers /\ 0 \in Values
<1>1. /\ JoinMsg(opts.replay) \in OutMsgs /\ JoinMsg(FALSE) \in OutMsgs
      /\ \A v \in Values : SetMsg(v) \in OutMsgs
      /\ \A n \in Chats : ChatMsg(n) \in OutMsgs /\ ChatMsg(n) \in InMsgs
      /\ [type |-> "leave"] \in OutMsgs
    BY DEF TypeOK, AllOptions, OutMsgs, JoinMsgs, UpdateMsgs, ChatMsgs, LeaveMsgs, JoinMsg,
           SetMsg, ChatMsg, InMsgs
<1>2. Me \in Peers /\ 0 \in Values
    BY DEF Peers, Values, ChannelConstants
<1>3. presenceMap[Me] \in Values
    BY <1>2 DEF TypeOK
<1>4. Rejoin \in Seq(OutMsgs) /\ Resync \in Seq(OutMsgs)
    <2>1. <<>> \in Seq(OutMsgs) /\ \A m \in OutMsgs : <<m>> \in Seq(OutMsgs)
        OBVIOUS
    <2>2. SetMsg(presenceMap[Me]) \in OutMsgs /\ JoinMsg(FALSE) \in OutMsgs
        BY <1>1, <1>3
    <2> QED BY <2>1, <2>2 DEF Rejoin, Resync
<1>5. /\ Snapshot \in InMsgs
      /\ [type |-> "chat-history", chats |-> log] \in InMsgs
    BY DEF TypeOK, InMsgs, SnapshotMsgs, HistoryMsgs, Snapshot
<1>6. /\ \A p \in Peers, v \in Values : State(p, v) \in InMsgs
      /\ \A p \in Others : [type |-> "peer-left", peer |-> p] \in InMsgs
    BY DEF InMsgs, StateMsgs, LeftMsgs, State
<1> QED BY <1>1, <1>2, <1>4, <1>5, <1>6

\* What the fields of a message are, by its type.
LEMMA MessageFields ==
    /\ \A m \in OutMsgs :
         /\ m.type \in {"join", "presence-update", "chat", "leave"}
         /\ m.type = "join" => m.replay \in BOOLEAN
         /\ m.type = "presence-update" => m.value \in Values
         /\ m.type = "chat" => m.chat \in Chats /\ m \in InMsgs
    /\ \A m \in InMsgs :
         /\ m.type \in {"presence-snapshot", "presence-state", "peer-left", "chat",
                         "chat-history"}
         /\ m.type = "presence-snapshot" => m.peers \in [Peers -> Values]
         /\ m.type = "presence-state" => m.peer \in Peers /\ m.value \in Values
         /\ m.type = "peer-left" => m.peer \in Others
         /\ m.type = "chat" => m.chat \in Chats
         /\ m.type = "chat-history" => m.chats \in Seq(Chats)
    BY DEF OutMsgs, JoinMsgs, UpdateMsgs, ChatMsgs, LeaveMsgs, InMsgs, SnapshotMsgs, StateMsgs,
           LeftMsgs, HistoryMsgs

\* A history as entries of the buffer.
LEMMA CopiesFacts ==
    ASSUME NEW list \in Seq(Chats)
    PROVE  LET r == [i \in DOMAIN list |-> [chat |-> list[i], copy |-> TRUE]]
           IN  r \in Seq(Entries) /\ DOMAIN r = DOMAIN list /\ Len(r) = Len(list)
<1> DEFINE r == [i \in DOMAIN list |-> [chat |-> list[i], copy |-> TRUE]]
<1>1. Len(list) \in Nat /\ DOMAIN list = 1..Len(list) /\ \A i \in DOMAIN list : list[i] \in Chats
    OBVIOUS
<1>2. \A i \in DOMAIN list : [chat |-> list[i], copy |-> TRUE] \in Entries
    BY <1>1 DEF Entries
<1>3. r = [i \in 1..Len(list) |-> [chat |-> list[i], copy |-> TRUE]]
    BY <1>1
<1>4. r \in [1..Len(list) -> Entries]
    BY <1>1, <1>2
<1>5. r \in Seq(Entries)
    BY <1>1, <1>4
<1> QED BY <1>1, <1>4, <1>5

\* The state has its types (Init, and what every action assigns).
THEOREM ChannelTypes == Spec => []TypeOK
<1>1. Init => TypeOK
    <2> SUFFICES ASSUME Init PROVE TypeOK
        OBVIOUS
    <2>1. opts \in AllOptions /\ 0 \in Values /\ NobodySet \in [Peers -> Values]
        BY ChannelConstants DEF Init, ChannelConstants, Values, NobodySet
    <2>2. [n \in Chats |-> "none"] \in [Chats -> {"none", "pending", "confirmed", "failed"}]
        OBVIOUS
    <2>3. /\ <<>> \in Seq(Entries) /\ <<>> \in Seq(OutMsgs) /\ <<>> \in Seq(InMsgs)
          /\ <<>> \in Seq(Chats) /\ 0 \in Nat /\ 1 \in Nat \ {0} /\ {} \subseteq Chats
        OBVIOUS
    <2> QED BY <2>1, <2>2, <2>3 DEF Init, TypeOK
<1>2. TypeOK /\ [Next]_vars => TypeOK'
    <2> SUFFICES ASSUME TypeOK, [Next]_vars PROVE TypeOK'
        OBVIOUS
    <2> USE ChannelConstants
    <2> DEFINE
         ChatTypes == /\ buffer' \in Seq(Entries)
                      /\ status' \in [Chats -> {"none", "pending", "confirmed", "failed"}]
                      /\ timers' \subseteq Chats
    <2>0. /\ 0 \in Nat /\ attempts + 1 \in Nat /\ Me \in Peers /\ 0 \in Values
          /\ JoinMsg(opts.replay) \in OutMsgs
          /\ Rejoin \in Seq(OutMsgs) /\ Resync \in Seq(OutMsgs)
          /\ out \in Seq(OutMsgs)
        BY MessageTypes DEF TypeOK
    <2>1. Append(out, JoinMsg(opts.replay)) \in Seq(OutMsgs)
          /\ out \o Rejoin \o Resync \in Seq(OutMsgs)
        BY <2>0
    <2>2. SessionFails => /\ chan' \in {"idle", "connecting", "connected", "reconnecting", "closed"}
                          /\ retryTimer' \in BOOLEAN /\ attempts' \in Nat
                          /\ status' \in [Chats -> {"none", "pending", "confirmed", "failed"}]
                          /\ timers' \subseteq Chats
        <3> SUFFICES ASSUME SessionFails
                     PROVE  /\ chan' \in {"idle", "connecting", "connected", "reconnecting", "closed"}
                            /\ retryTimer' \in BOOLEAN /\ attempts' \in Nat
                            /\ status' \in [Chats -> {"none", "pending", "confirmed", "failed"}]
                            /\ timers' \subseteq Chats
            OBVIOUS
        <3>1. CASE chan = "closed"
            BY <3>1 DEF SessionFails, TypeOK
        <3>2. CASE chan # "closed"
            <4>1. PICK retry \in Budget :
                    /\ retryTimer' = TimerAfterFailure(retry)
                    /\ chan' = IF retry THEN "reconnecting" ELSE "closed"
                    /\ attempts' = IF retry THEN attempts + 1 ELSE attempts
                BY <3>2 DEF SessionFails
            <4>2. retry \in BOOLEAN
                BY DEF Budget
            <4>3. PendingFailed \in [Chats -> {"none", "pending", "confirmed", "failed"}]
                BY DEF PendingFailed, TypeOK
            <4>4. status' = PendingFailed /\ timers' \subseteq Chats
                BY <3>2 DEF SessionFails, TypeOK
            <4> QED BY <4>1, <4>2, <4>3, <4>4, <2>0 DEF TimerAfterFailure, TypeOK
        <3> QED BY <3>1, <3>2
    <2>3. CASE Start
        <3>1. /\ chan' \in {"connecting", "connected"} /\ subscribed' = TRUE /\ starting' \in BOOLEAN
              /\ tstate' \in {tstate, "connecting"} /\ sock' \in {sock, "auth"}
            BY <2>3 DEF Start, JoinRoom, TypeOK, linkVars
        <3>2. out' \in Seq(OutMsgs)
            BY <2>0, <2>1, <2>3 DEF Start, JoinRoom
        <3>3. UNCHANGED <<opts, attempting, retryTimer, attempts, own, presenceMap, buffer, status,
                          timers, in, member, srvPresence, log, next, sets, drops, wanted, unsure>>
            BY <2>3 DEF Start, presVars, chatVars, srvVars, histVars
        <3> QED BY <3>1, <3>2, <3>3 DEF TypeOK
    <2>4. CASE Stop
        <3>1. out' \in Seq(OutMsgs)
            BY <2>0, <2>4, MessageTypes DEF Stop
        <3>2. /\ chan' = "closed" /\ subscribed' = FALSE /\ retryTimer' = FALSE /\ timers' = {}
              /\ UNCHANGED <<opts, starting, attempting, attempts, own, presenceMap, buffer, status,
                             tstate, sock, in, member, srvPresence, log, next, sets, drops, wanted,
                             unsure>>
            BY <2>4 DEF Stop, presVars, linkVars, srvVars, histVars
        <3> QED BY <3>1, <3>2 DEF TypeOK
    <2>5. CASE RetryFires
        <3>1. /\ attempting' \in BOOLEAN /\ attempts' \in Nat /\ out' \in Seq(OutMsgs)
              /\ chan' \in {"idle", "connecting", "connected", "reconnecting", "closed"}
              /\ tstate' \in {"idle", "connecting", "connected", "reconnecting", "closed"}
              /\ sock' \in {"none", "auth", "opening", "open"}
            BY <2>0, <2>1, <2>5 DEF RetryFires, Reconnected, TypeOK, linkVars
        <3>2. /\ retryTimer' = FALSE
              /\ UNCHANGED <<opts, subscribed, starting, presVars, chatVars, in, srvVars, histVars>>
            BY <2>5 DEF RetryFires
        <3> QED BY <3>1, <3>2 DEF TypeOK, presVars, chatVars, srvVars, histVars
    <2>6. CASE ConnectResolves
        <3>1. /\ chan' = "connected" /\ starting' = FALSE /\ attempting' = FALSE /\ sock' = "opening"
              /\ UNCHANGED <<opts, subscribed, retryTimer, own, presenceMap, buffer, status, timers,
                             tstate, in, member, srvPresence, log, next, sets, drops, wanted, unsure>>
            BY <2>6 DEF ConnectResolves, Reconnected, JoinRoom, presVars, chatVars, srvVars, histVars
        <3>2. out' \in Seq(OutMsgs) /\ attempts' \in {attempts, 0}
            BY <2>0, <2>1, <2>6 DEF ConnectResolves, Reconnected, JoinRoom
        <3>3. attempts' \in Nat
            BY <2>0, <3>2 DEF TypeOK
        <3> QED BY <3>1, <3>2, <3>3 DEF TypeOK
    <2>7. CASE ConnectRejects
        <3>1. /\ chan' \in {"idle", "connecting", "connected", "reconnecting", "closed"}
              /\ retryTimer' \in BOOLEAN /\ attempts' \in Nat
              /\ status' \in [Chats -> {"none", "pending", "confirmed", "failed"}]
              /\ timers' \subseteq Chats
            BY <2>2, <2>7 DEF ConnectRejects, TypeOK
        <3>2. /\ starting' = FALSE /\ attempting' = FALSE /\ sock' = "none"
              /\ UNCHANGED <<opts, subscribed, own, presenceMap, buffer, tstate, out, in, member,
                             srvPresence, log, next, sets, drops, wanted, unsure>>
            BY <2>7 DEF ConnectRejects, presVars, srvVars, histVars
        <3> QED BY <3>1, <3>2 DEF TypeOK
    <2>8. CASE Opens
        BY <2>8 DEF Opens, TypeOK, chanVars, presVars, chatVars, srvVars, histVars
    <2>9. CASE Closes
        <3>1. /\ chan' \in {"idle", "connecting", "connected", "reconnecting", "closed"}
              /\ retryTimer' \in BOOLEAN /\ attempts' \in Nat
              /\ status' \in [Chats -> {"none", "pending", "confirmed", "failed"}]
              /\ timers' \subseteq Chats
            BY <2>2, <2>9 DEF Closes, TypeOK
        <3>2. srvPresence' \in [Peers -> Values]
            BY <2>0, <2>9 DEF Closes, TypeOK
        <3>3. /\ drops' \in Nat /\ unsure' \in BOOLEAN /\ out' \in Seq(OutMsgs)
              /\ in' \in Seq(InMsgs)
            BY <2>0, <2>9 DEF Closes, TypeOK, OwnInFlight
        <3>4. /\ tstate' \in {"idle", "connecting", "connected", "reconnecting", "closed"}
              /\ sock' = "none" /\ member' = FALSE
            BY <2>9 DEF Closes
        <3> QED BY <2>9, <3>1, <3>2, <3>3, <3>4 DEF Closes, TypeOK, presVars
    <2>10. CASE AutoReconnects
        BY <2>10 DEF AutoReconnects, TypeOK, chanVars, presVars, chatVars, srvVars, histVars
    <2>11. ASSUME NEW v \in Values, SetAttribute(v) PROVE TypeOK'
        <3>1. out' \in Seq(OutMsgs)
            BY <2>0, <2>11, MessageTypes DEF SetAttribute
        <3>2. own' \in BOOLEAN /\ unsure' \in BOOLEAN /\ sets' \in Nat
            BY <2>11 DEF SetAttribute, TypeOK
        <3> QED BY <2>11, <3>1, <3>2 DEF SetAttribute, TypeOK, chanVars, chatVars, linkVars, srvVars
    <2>12. CASE SendChat
        <3>1. next \in Chats /\ next' \in Nat \ {0}
            BY <2>12 DEF SendChat, TypeOK, Chats, ChannelConstants
        <3>2. out' \in Seq(OutMsgs)
            BY <2>0, <2>12, <3>1, MessageTypes DEF SendChat
        <3>3. Append(buffer, [chat |-> next, copy |-> FALSE]) \in Seq(Entries)
            BY <3>1 DEF TypeOK, Entries
        <3>4. buffer' \in Seq(Entries)
            BY <2>12, <3>3, TrimmedFacts DEF SendChat
        <3>5. status' \in [Chats -> {"none", "pending", "confirmed", "failed"}]
              /\ timers' \subseteq Chats
            BY <2>12, <3>1 DEF SendChat, TypeOK
        <3> QED BY <2>12, <3>1, <3>2, <3>4, <3>5
                DEF SendChat, TypeOK, chanVars, presVars, linkVars, srvVars
    <2>13. ASSUME NEW n \in Chats, AckTimeout(n) PROVE TypeOK'
        BY <2>13 DEF AckTimeout, TypeOK, chanVars, presVars, linkVars, srvVars, histVars
    <2>14. CASE ServerReceives
        <3> DEFINE msg == Head(out)
        <3>1. msg \in OutMsgs /\ out' \in Seq(OutMsgs)
            BY <2>0, <2>14, TailFacts DEF ServerReceives
        <3>2. in \in Seq(InMsgs) /\ log \in Seq(Chats) /\ srvPresence \in [Peers -> Values]
            BY DEF TypeOK
        <3>0. UNCHANGED <<opts, chan, subscribed, starting, attempting, retryTimer, attempts, own,
                          presenceMap, buffer, status, timers, tstate, sock, next, sets, drops,
                          wanted, unsure>>
            BY <2>14 DEF ServerReceives, chanVars, presVars, chatVars, linkVars, histVars
        <3>3. \A m \in InMsgs : ToMe(m) => in' \in Seq(InMsgs)
            BY <3>2 DEF ToMe
        <3>4. msg.type \in {"join", "presence-update", "chat", "leave"}
            BY <3>1, MessageFields
        <3>5. CASE msg.type = "join"
            <4>1. /\ <<Snapshot>> \in Seq(InMsgs) /\ <<>> \in Seq(InMsgs)
                  /\ <<[type |-> "chat-history", chats |-> log]>> \in Seq(InMsgs)
                BY MessageTypes
            <4>2. in \o <<Snapshot>> \o (IF msg.replay THEN <<[type |-> "chat-history", chats |-> log]>>
                                         ELSE <<>>) \in Seq(InMsgs)
                BY <4>1, <3>2
            <4>3. in' \in Seq(InMsgs) /\ member' \in BOOLEAN /\ UNCHANGED <<srvPresence, log>>
                BY <2>14, <3>5, <4>2 DEF ServerReceives
            <4> QED BY <3>0, <3>1, <4>3 DEF TypeOK
        <3>6. CASE msg.type = "leave"
            <4>1. srvPresence' \in [Peers -> Values] /\ member' \in BOOLEAN
                  /\ UNCHANGED <<in, log>>
                BY <2>0, <2>14, <3>2, <3>6 DEF ServerReceives
            <4> QED BY <3>0, <3>1, <4>1 DEF TypeOK, chanVars, presVars, chatVars,
                                             linkVars, histVars
        <3>7. CASE msg.type = "presence-update"
            <4>1. msg.value \in Values /\ State(Me, msg.value) \in InMsgs
                BY <2>0, <3>1, <3>7, MessageFields, MessageTypes
            <4>2. /\ srvPresence' = IF member THEN [srvPresence EXCEPT ![Me] = msg.value]
                                    ELSE srvPresence
                  /\ ToMe(State(Me, msg.value)) /\ UNCHANGED <<member, log>>
                BY <2>14, <3>7 DEF ServerReceives
            <4>3. srvPresence' \in [Peers -> Values] /\ in' \in Seq(InMsgs)
                BY <3>2, <3>3, <4>1, <4>2
            <4> QED BY <3>0, <3>1, <4>2, <4>3 DEF TypeOK
        <3>8. CASE msg.type = "chat"
            <4>1. msg.chat \in Chats /\ msg \in InMsgs
                BY <3>1, <3>8, MessageFields
            <4>2. /\ log' = IF member THEN Append(log, msg.chat) ELSE log
                  /\ ToMe(msg) /\ UNCHANGED <<member, srvPresence>>
                BY <2>14, <3>8 DEF ServerReceives
            <4>3. log' \in Seq(Chats) /\ in' \in Seq(InMsgs)
                BY <3>2, <3>3, <4>1, <4>2
            <4> QED BY <3>0, <3>1, <4>2, <4>3 DEF TypeOK
        <3> QED BY <3>4, <3>5, <3>6, <3>7, <3>8
    <2>15. CASE Receive
        <3> DEFINE msg == Head(in)
        <3>1. in \in Seq(InMsgs) /\ presenceMap \in [Peers -> Values] /\ buffer \in Seq(Entries)
            BY DEF TypeOK
        <3>2. msg \in InMsgs /\ in' \in Seq(InMsgs)
            BY <3>1, <2>15, TailFacts DEF Receive
        <3>3. msg.type \in {"presence-snapshot", "presence-state", "peer-left", "chat",
                            "chat-history"}
            BY <3>2, MessageFields
        <3>4. presenceMap' \in [Peers -> Values] /\ ChatTypes
            <4>0. UNCHANGED chatVars => ChatTypes
                BY DEF TypeOK, chatVars
            <4>1. CASE ~subscribed
                <5>1. UNCHANGED <<presenceMap, chatVars>>
                    BY <2>15, <4>1 DEF Receive
                <5> QED BY <3>1, <4>0, <5>1
            <4>2. CASE subscribed /\ msg.type = "presence-snapshot"
                <5>1. presenceMap' = msg.peers /\ UNCHANGED chatVars
                    BY <2>15, <4>2 DEF Receive, Replaced
                <5> QED BY <3>2, <4>0, <4>2, <5>1, MessageFields
            <4>3. CASE subscribed /\ msg.type = "presence-state"
                <5>1. presenceMap' = [presenceMap EXCEPT ![msg.peer] = msg.value] /\ UNCHANGED chatVars
                    BY <2>15, <4>3 DEF Receive
                <5> QED BY <3>1, <3>2, <4>0, <4>3, <5>1, MessageFields
            <4>4. CASE subscribed /\ msg.type = "peer-left"
                <5>1. presenceMap' = [presenceMap EXCEPT ![msg.peer] = 0] /\ UNCHANGED chatVars
                    BY <2>15, <4>4 DEF Receive
                <5> QED BY <2>0, <3>1, <4>0, <5>1
            <4>5. CASE subscribed /\ msg.type = "chat"
                <5>1. msg.chat \in Chats /\ ApplyChat(msg.chat) /\ UNCHANGED presenceMap
                    BY <2>15, <3>2, <4>5, MessageFields DEF Receive
                <5>2. Append(buffer, [chat |-> msg.chat, copy |-> TRUE]) \in Seq(Entries)
                    BY <3>1, <5>1 DEF Entries
                <5>3. buffer' \in Seq(Entries)
                    BY <3>1, <5>1, <5>2, TrimmedFacts DEF ApplyChat
                <5>4. status' \in [Chats -> {"none", "pending", "confirmed", "failed"}]
                      /\ timers' \subseteq Chats
                    BY <5>1 DEF ApplyChat, TypeOK
                <5> QED BY <3>1, <5>1, <5>3, <5>4
            <4>6. CASE subscribed /\ msg.type = "chat-history"
                <5>1. msg.chats \in Seq(Chats) /\ ApplyHistory(msg.chats) /\ UNCHANGED presenceMap
                    BY <2>15, <3>2, <4>6, MessageFields DEF Receive
                <5>2. [i \in DOMAIN msg.chats |-> [chat |-> msg.chats[i], copy |-> TRUE]] \in Seq(Entries)
                    BY <5>1, CopiesFacts
                <5>3. [i \in DOMAIN msg.chats |-> [chat |-> msg.chats[i], copy |-> TRUE]] \o buffer
                        \in Seq(Entries)
                    BY <3>1, <5>2
                <5>4. buffer' \in Seq(Entries)
                    BY <5>1, <5>3, TrimmedFacts DEF ApplyHistory
                <5> QED BY <5>1, <5>4, <3>1 DEF ApplyHistory, TypeOK
            <4> QED BY <3>3, <4>1, <4>2, <4>3, <4>4, <4>5, <4>6
        <3>5. UNCHANGED <<opts, chan, subscribed, starting, attempting, retryTimer, attempts, own,
                          tstate, sock, out, member, srvPresence, log, next, sets, drops, wanted,
                          unsure>>
            BY <2>15 DEF Receive, chanVars, linkVars, srvVars, histVars
        <3> QED BY <3>2, <3>4, <3>5 DEF TypeOK
    <2>16. ASSUME NEW p \in Others, OtherActs(p) PROVE TypeOK'
        <3>1. p \in Peers /\ in \in Seq(InMsgs) /\ log \in Seq(Chats)
              /\ srvPresence \in [Peers -> Values] /\ next \in Nat \ {0}
            BY DEF TypeOK, Peers
        <3>2. \A m \in InMsgs : ToMe(m) => in' \in Seq(InMsgs)
            BY <3>1 DEF ToMe
        <3>3. in' \in Seq(InMsgs) /\ log' \in Seq(Chats)
              /\ srvPresence' \in [Peers -> Values] /\ next' \in Nat \ {0}
            <4>1. ASSUME NEW v \in Values, srvPresence' = [srvPresence EXCEPT ![p] = v],
                         ToMe(State(p, v)), UNCHANGED <<log, next>>
                  PROVE  in' \in Seq(InMsgs) /\ log' \in Seq(Chats)
                         /\ srvPresence' \in [Peers -> Values] /\ next' \in Nat \ {0}
                BY <3>1, <3>2, <4>1, MessageTypes
            <4>2. ASSUME srvPresence' = [srvPresence EXCEPT ![p] = 0],
                         ToMe([type |-> "peer-left", peer |-> p]), UNCHANGED <<log, next>>
                  PROVE  in' \in Seq(InMsgs) /\ log' \in Seq(Chats)
                         /\ srvPresence' \in [Peers -> Values] /\ next' \in Nat \ {0}
                BY <2>0, <3>1, <3>2, <4>2, MessageTypes
            <4>3. ASSUME next <= MaxChats, next' = next + 1, log' = Append(log, next),
                         ToMe(ChatMsg(next)), UNCHANGED srvPresence
                  PROVE  in' \in Seq(InMsgs) /\ log' \in Seq(Chats)
                         /\ srvPresence' \in [Peers -> Values] /\ next' \in Nat \ {0}
                <5>1. next \in Chats
                    BY <3>1, <4>3 DEF Chats, ChannelConstants
                <5> QED BY <3>1, <3>2, <4>3, <5>1, MessageTypes
            <4> QED BY <2>16, <4>1, <4>2, <4>3 DEF OtherActs
        <3>4. UNCHANGED <<opts, chan, subscribed, starting, attempting, retryTimer, attempts, own,
                          presenceMap, buffer, status, timers, tstate, sock, out, member, sets,
                          drops, wanted, unsure>>
            BY <2>16 DEF OtherActs, chanVars, presVars, chatVars, linkVars
        <3> QED BY <3>3, <3>4 DEF TypeOK
    <2>17. CASE UNCHANGED vars
        BY <2>17 DEF TypeOK, vars, chanVars, presVars, chatVars, linkVars, srvVars, histVars
    <2> QED BY <2>3, <2>4, <2>5, <2>6, <2>7, <2>8, <2>9, <2>10, <2>11, <2>12, <2>13, <2>14,
               <2>15, <2>16, <2>17 DEF Next
<1> QED BY <1>1, <1>2, PTL DEF Spec

-----------------------------------------------------------------------------
\* Lifecycle: a channel that is connected has joined, or its join is on the way.

Has(list, type) == \E i \in DOMAIN list : list[i].type = type

\* Nothing came from the server, and nothing asks it to.
NotJoined == ~member /\ in = <<>> /\ ~Has(out, "join")

LifeInv ==
    /\ chan = "idle" => /\ ~subscribed /\ ~attempting /\ sock = "none" /\ tstate = "idle"
                        /\ NotJoined
    /\ subscribed /\ chan = "connecting" =>
         ~attempting /\ sock \in {"none", "auth"} /\ tstate # "reconnecting" /\ NotJoined
    /\ subscribed /\ chan = "reconnecting" =>
         ~opts.auto /\ ~member /\ in = <<>> /\ sock \in {"none", "auth"}
    /\ subscribed /\ (attempting \/ retryTimer) => chan = "reconnecting"
    /\ subscribed /\ sock = "auth" /\ ~attempting => chan = "connecting"
    /\ retryTimer => subscribed /\ ~attempting
    /\ attempting /\ ~subscribed => chan = "closed"
    /\ ~opts.auto => tstate # "reconnecting"
    /\ member => sock = "open"
    /\ ~member => srvPresence[Me] = 0
    /\ InUse /\ ~member => in = <<>>
    /\ InUse => ~Has(out, "leave")
    /\ ~opts.auto /\ subscribed /\ chan = "connected" => member \/ Has(out, "join")

\* The same of the next state.
LEMMA HasPrimed ==
    /\ Has(out, "join")' <=> Has(out', "join")
    /\ Has(out, "leave")' <=> Has(out', "leave")
    /\ Has(out, "presence-update")' <=> Has(out', "presence-update")
    BY DEF Has

\* What one message more, one less, or some more change.
LEMMA HasFacts ==
    ASSUME NEW S, NEW s \in Seq(S), NEW type
    PROVE  /\ \A e \in S : Has(Append(s, e), type) <=> Has(s, type) \/ e.type = type
           /\ s # <<>> => (Has(s, type) <=> Head(s).type = type \/ Has(Tail(s), type))
           /\ \A t \in Seq(S) : Has(s \o t, type) <=> Has(s, type) \/ Has(t, type)
           /\ \A e \in S : Has(<<e>>, type) <=> e.type = type
           /\ ~Has(<<>>, type)
<1>1. ASSUME NEW e \in S PROVE Has(Append(s, e), type) <=> Has(s, type) \/ e.type = type
    <2> DEFINE r == Append(s, e)
    <2>1. /\ DOMAIN s = 1..Len(s) /\ Len(s) \in Nat /\ DOMAIN r = 1..(Len(s) + 1)
          /\ \A i \in DOMAIN s : r[i] = s[i]
          /\ r[Len(s) + 1] = e
          /\ \A i \in DOMAIN r : i \in DOMAIN s \/ i = Len(s) + 1
        BY AppendFacts
    <2> HIDE DEF r
    <2>2. Has(r, type) <=> Has(s, type) \/ e.type = type
        BY <2>1 DEF Has
    <2> QED BY <2>2 DEF r
<1>2. ASSUME s # <<>> PROVE Has(s, type) <=> Head(s).type = type \/ Has(Tail(s), type)
    <2> DEFINE r == Tail(s)
    <2>1. /\ Head(s) = s[1] /\ 1 \in DOMAIN s
          /\ \A i \in DOMAIN r : i + 1 \in DOMAIN s /\ r[i] = s[i + 1]
          /\ \A i \in DOMAIN s : i # 1 => i - 1 \in DOMAIN r /\ r[i - 1] = s[i]
        BY <1>2, TailFacts
    <2> HIDE DEF r
    <2>2. Has(s, type) <=> Head(s).type = type \/ Has(r, type)
        BY <2>1 DEF Has
    <2> QED BY <2>2 DEF r
<1>3. ASSUME NEW t \in Seq(S) PROVE Has(s \o t, type) <=> Has(s, type) \/ Has(t, type)
    <2> DEFINE r == s \o t
    <2>1. /\ \A i \in DOMAIN s : i \in DOMAIN r /\ r[i] = s[i]
          /\ \A i \in DOMAIN t : Len(s) + i \in DOMAIN r /\ r[Len(s) + i] = t[i]
          /\ \A i \in DOMAIN r : i \in DOMAIN s \/ i - Len(s) \in DOMAIN t
          /\ Len(s) \in Nat /\ DOMAIN r \subseteq Int
        BY ConcatFacts
    <2> HIDE DEF r
    <2>2. Has(s, type) \/ Has(t, type) => Has(r, type)
        BY <2>1 DEF Has
    <2>3. ASSUME NEW i \in DOMAIN r, r[i].type = type PROVE Has(s, type) \/ Has(t, type)
        <3>1. CASE i \in DOMAIN s
            BY <2>1, <2>3, <3>1 DEF Has
        <3>2. CASE i - Len(s) \in DOMAIN t
            <4>1. Len(s) + (i - Len(s)) = i
                BY <2>1
            <4>2. t[i - Len(s)] = r[i]
                BY <2>1, <3>2, <4>1
            <4> QED BY <2>3, <3>2, <4>2 DEF Has
        <3> QED BY <2>1, <3>1, <3>2
    <2>4. Has(r, type) <=> Has(s, type) \/ Has(t, type)
        BY <2>2, <2>3 DEF Has
    <2> QED BY <2>4 DEF r
<1>4. ASSUME NEW e \in S PROVE Has(<<e>>, type) <=> e.type = type
    BY DEF Has
<1>5. ~Has(<<>>, type)
    BY DEF Has
<1> QED BY <1>1, <1>2, <1>3, <1>4, <1>5

\* What a join, and a reconnect, put into `out`.
LEMMA JoinFacts ==
    ASSUME ChannelConstants, TypeOK, NEW type
    PROVE  /\ JoinRoom => (Has(out', type) <=> Has(out, type) \/ type = "join")
           /\ Reconnected =>
                (Has(out', type) <=>
                   \/ Has(out, type) \/ type = "join"
                   \/ type = "presence-update" /\ own /\ presenceMap[Me] # 0)
<1>1. /\ JoinMsg(opts.replay) \in OutMsgs /\ JoinMsg(FALSE) \in OutMsgs
      /\ Rejoin \in Seq(OutMsgs) /\ Resync \in Seq(OutMsgs) /\ out \in Seq(OutMsgs)
      /\ SetMsg(presenceMap[Me]) \in OutMsgs
    <2>1. presenceMap[Me] \in Values
        BY MessageTypes DEF TypeOK
    <2> QED BY <2>1, MessageTypes DEF TypeOK, OutMsgs, JoinMsgs, JoinMsg
<1>2. /\ JoinMsg(opts.replay).type = "join" /\ JoinMsg(FALSE).type = "join"
      /\ SetMsg(presenceMap[Me]).type = "presence-update"
    BY DEF JoinMsg, SetMsg
<1>3. JoinRoom => (Has(out', type) <=> Has(out, type) \/ type = "join")
    <2>1. Has(Append(out, JoinMsg(opts.replay)), type)
            <=> Has(out, type) \/ JoinMsg(opts.replay).type = type
        BY <1>1, HasFacts
    <2> QED BY <1>2, <2>1 DEF JoinRoom
<1>4. Has(Rejoin, type) <=> type = "join"
    BY <1>1, <1>2, HasFacts DEF Rejoin
<1>5. Has(Resync, type) <=> type = "presence-update" /\ own /\ presenceMap[Me] # 0
    BY <1>1, <1>2, HasFacts DEF Resync
<1>6. /\ out \o Rejoin \in Seq(OutMsgs)
      /\ Has(out \o Rejoin, type) <=> Has(out, type) \/ Has(Rejoin, type)
    BY <1>1, HasFacts
<1>7. Has((out \o Rejoin) \o Resync, type) <=> Has(out \o Rejoin, type) \/ Has(Resync, type)
    BY <1>1, <1>6, HasFacts
<1>8. Reconnected => (Has(out', type) <=>
                        \/ Has(out, type) \/ type = "join"
                        \/ type = "presence-update" /\ own /\ presenceMap[Me] # 0)
    BY <1>4, <1>5, <1>6, <1>7 DEF Reconnected
<1> QED BY <1>3, <1>8

\* The lifecycle: a step of it.
LEMMA LifeStep ==
    ASSUME ChannelConstants, TypeOK, LifeInv, [Next]_vars
    PROVE  LifeInv'
<1> USE DEF InUse
<1>0. /\ out \in Seq(OutMsgs) /\ in \in Seq(InMsgs) /\ Me \in Peers
      /\ srvPresence \in [Peers -> Values]
      /\ sock \in {"none", "auth", "opening", "open"}
    BY MessageTypes DEF TypeOK
<1>1. SessionFails => /\ chan = "closed" => UNCHANGED <<chan, retryTimer>>
                      /\ chan # "closed" => \/ chan' = "closed" /\ retryTimer' = FALSE
                                            \/ chan' = "reconnecting"
    <2>1. ASSUME NEW retry \in Budget, retryTimer' = TimerAfterFailure(retry),
                 chan' = IF retry THEN "reconnecting" ELSE "closed"
          PROVE  (chan' = "closed" /\ retryTimer' = FALSE) \/ chan' = "reconnecting"
        <3>1. retry \in BOOLEAN
            BY DEF Budget
        <3> QED BY <2>1, <3>1 DEF TimerAfterFailure
    <2> QED BY <2>1 DEF SessionFails
<1>2. CASE Start
    <2>1. /\ chan' = "connecting" /\ sock' = "auth" /\ tstate' = "connecting" /\ subscribed'
          /\ UNCHANGED <<opts, attempting, retryTimer, out, in, member, srvPresence>>
        BY <1>2 DEF Start, LifeInv, Busy, srvVars
    <2>2. /\ ~attempting /\ ~retryTimer /\ ~member /\ in = <<>>
          /\ ~Has(out, "join") /\ ~Has(out, "leave") /\ srvPresence[Me] = 0
        BY <1>2 DEF Start, LifeInv, NotJoined
    <2>3. ~Has(out', "join") /\ ~Has(out', "leave")
        BY <2>1, <2>2
    <2> QED BY <2>1, <2>2, <2>3, HasPrimed DEF LifeInv, NotJoined
<1>3. CASE Stop
    <2>1. /\ chan' = "closed" /\ ~subscribed' /\ ~retryTimer'
          /\ UNCHANGED <<opts, attempting, tstate, sock, in, member, srvPresence>>
        BY <1>3 DEF Stop, linkVars, srvVars
    <2> QED BY <2>1 DEF LifeInv
<1>4. CASE RetryFires
    <2>1. /\ subscribed /\ chan = "reconnecting" /\ retryTimer' = FALSE
          /\ UNCHANGED <<opts, subscribed, in, member, srvPresence>>
        BY <1>4 DEF RetryFires, LifeInv, srvVars
    <2>2. CASE Busy
        <3>1. Reconnected /\ UNCHANGED <<attempting, tstate, sock>>
            BY <1>4, <2>2 DEF RetryFires, linkVars
        <3>2. Has(out', "join") /\ (Has(out', "leave") <=> Has(out, "leave")) /\ chan' = "connected"
            BY <3>1, JoinFacts DEF Reconnected
        <3>3. /\ sock = "none" /\ ~attempting /\ ~opts.auto /\ ~member /\ in = <<>>
              /\ ~Has(out, "leave") /\ srvPresence[Me] = 0 /\ tstate # "reconnecting"
            BY <1>4, <2>1 DEF LifeInv, RetryFires
        <3> QED BY <2>1, <3>1, <3>2, <3>3, HasPrimed DEF LifeInv, NotJoined
    <2>3. CASE ~Busy
        <3>1. /\ attempting' /\ tstate' = "connecting" /\ sock' = "auth"
              /\ UNCHANGED <<out, chan>>
            BY <1>4, <2>3 DEF RetryFires
        <3> QED BY <2>1, <3>1, HasPrimed DEF LifeInv, NotJoined
    <2> QED BY <2>2, <2>3
<1>5. CASE ConnectResolves
    <2>1. /\ sock = "auth" /\ sock' = "opening" /\ attempting' = FALSE /\ chan' = "connected"
          /\ UNCHANGED <<opts, subscribed, retryTimer, tstate, in, member, srvPresence>>
        BY <1>5 DEF ConnectResolves, Reconnected, JoinRoom, srvVars
    <2>2. Has(out', "join") /\ (Has(out', "leave") <=> Has(out, "leave"))
        BY <1>5, JoinFacts DEF ConnectResolves
    <2>3. chan # "idle" /\ (subscribed => chan \in {"connecting", "reconnecting"})
        BY <2>1 DEF LifeInv
    <2> QED BY <2>1, <2>2, <2>3, HasPrimed DEF LifeInv, NotJoined
<1>6. CASE ConnectRejects
    <2>1. /\ sock = "auth" /\ sock' = "none" /\ attempting' = FALSE
          /\ UNCHANGED <<opts, subscribed, tstate, out, in, member, srvPresence>>
        BY <1>6 DEF ConnectRejects, srvVars
    <2>2. CASE attempting
        <3>1. SessionFails
            BY <1>6, <2>2 DEF ConnectRejects
        <3>2. subscribed => chan = "reconnecting"
            BY <2>2 DEF LifeInv
        <3>3. ~subscribed => chan = "closed"
            BY <2>2 DEF LifeInv
        <3> QED BY <1>1, <2>1, <2>2, <3>1, <3>2, <3>3, HasPrimed DEF LifeInv, NotJoined
    <2>3. CASE ~attempting
        <3>1. UNCHANGED <<chan, retryTimer>>
            BY <1>6, <2>3 DEF ConnectRejects
        <3> QED BY <2>1, <2>3, <3>1, HasPrimed DEF LifeInv, NotJoined
    <2> QED BY <2>2, <2>3
<1>7. CASE Opens
    <2>1. /\ sock = "opening" /\ sock' = "open" /\ tstate' = "connected"
          /\ UNCHANGED <<opts, chan, subscribed, attempting, retryTimer, out, in, member,
                         srvPresence>>
        BY <1>7 DEF Opens, chanVars, srvVars
    <2> QED BY <2>1, HasPrimed DEF LifeInv, NotJoined
<1>8. CASE Closes
    <2>1. /\ sock \in {"opening", "open"} /\ sock' = "none" /\ in' = <<>> /\ member' = FALSE
          /\ out' = (IF sock = "open" THEN <<>> ELSE out)
          /\ srvPresence' = [srvPresence EXCEPT ![Me] = 0]
          /\ tstate' = (IF opts.auto THEN "reconnecting" ELSE "closed")
          /\ UNCHANGED <<opts, subscribed, attempting>>
        BY <1>8 DEF Closes
    <2>2. srvPresence'[Me] = 0 /\ (Has(out', "leave") => Has(out, "leave"))
          /\ (Has(out', "join") => Has(out, "join"))
        BY <1>0, <2>1 DEF Has
    <2>3. CASE ~opts.auto /\ subscribed /\ chan = "connected"
        <3>1. SessionFails
            BY <1>8, <2>3 DEF Closes
        <3> QED BY <1>1, <2>1, <2>2, <2>3, <3>1, HasPrimed DEF LifeInv, NotJoined
    <2>4. CASE ~(~opts.auto /\ subscribed /\ chan = "connected")
        <3>1. UNCHANGED <<chan, retryTimer>>
            BY <1>8, <2>4 DEF Closes
        <3> QED BY <2>1, <2>2, <2>4, <3>1, HasPrimed DEF LifeInv, NotJoined
    <2> QED BY <2>3, <2>4
<1>9. CASE AutoReconnects
    <2>1. /\ tstate = "reconnecting" /\ sock = "none" /\ sock' = "opening"
          /\ UNCHANGED <<opts, chan, subscribed, attempting, retryTimer, tstate, out, in, member,
                         srvPresence>>
        BY <1>9 DEF AutoReconnects, chanVars, srvVars
    <2> QED BY <2>1, HasPrimed DEF LifeInv, NotJoined
<1>10. ASSUME NEW v \in Values, SetAttribute(v) PROVE LifeInv'
    <2>1. /\ out' = Append(out, SetMsg(v))
          /\ UNCHANGED <<opts, chan, subscribed, attempting, retryTimer, tstate, sock, in, member,
                         srvPresence>>
        BY <1>10 DEF SetAttribute, chanVars, linkVars, srvVars
    <2>2. SetMsg(v) \in OutMsgs /\ SetMsg(v).type = "presence-update"
        BY MessageTypes DEF SetMsg
    <2>3. (Has(out', "join") <=> Has(out, "join")) /\ (Has(out', "leave") <=> Has(out, "leave"))
        BY <1>0, <2>1, <2>2, HasFacts
    <2> QED BY <2>1, <2>3, HasPrimed DEF LifeInv, NotJoined
<1>11. CASE SendChat
    <2>1. /\ out' = Append(out, ChatMsg(next)) /\ next \in Chats
          /\ UNCHANGED <<opts, chan, subscribed, attempting, retryTimer, tstate, sock, in, member,
                         srvPresence>>
        BY <1>11 DEF SendChat, chanVars, linkVars, srvVars, TypeOK, Chats, ChannelConstants
    <2>2. ChatMsg(next) \in OutMsgs /\ ChatMsg(next).type = "chat"
        BY <2>1, MessageTypes DEF ChatMsg
    <2>3. (Has(out', "join") <=> Has(out, "join")) /\ (Has(out', "leave") <=> Has(out, "leave"))
        BY <1>0, <2>1, <2>2, HasFacts
    <2> QED BY <2>1, <2>3, HasPrimed DEF LifeInv, NotJoined
<1>12. ASSUME NEW n \in Chats, AckTimeout(n) PROVE LifeInv'
    <2>1. UNCHANGED <<opts, chan, subscribed, attempting, retryTimer, tstate, sock, out, in, member,
                      srvPresence>>
        BY <1>12 DEF AckTimeout, chanVars, linkVars, srvVars
    <2> QED BY <2>1, HasPrimed DEF LifeInv, NotJoined
<1>13. CASE ServerReceives
    <2> DEFINE msg == Head(out)
    <2>1. /\ sock = "open" /\ out # <<>> /\ out' = Tail(out)
          /\ UNCHANGED <<opts, chan, subscribed, attempting, retryTimer, tstate, sock>>
        BY <1>13 DEF ServerReceives, chanVars, linkVars
    <2>2. /\ Has(out, "join") <=> msg.type = "join" \/ Has(out', "join")
          /\ Has(out, "leave") <=> msg.type = "leave" \/ Has(out', "leave")
          /\ msg.type \in {"join", "presence-update", "chat", "leave"}
        BY <1>0, <2>1, HasFacts, TailFacts, MessageFields
    <2>3. CASE msg.type = "join"
        <3>1. member' = TRUE /\ UNCHANGED srvPresence
            BY <1>13, <2>3 DEF ServerReceives
        <3>2. chan # "idle" /\ ~(subscribed /\ chan \in {"connecting", "reconnecting"})
            BY <2>1, <2>2, <2>3 DEF LifeInv, NotJoined
        <3> QED BY <2>1, <2>2, <3>1, <3>2, HasPrimed DEF LifeInv, NotJoined
    <2>4. CASE msg.type = "leave"
        <3>1. member' = FALSE /\ srvPresence' = [srvPresence EXCEPT ![Me] = 0] /\ UNCHANGED in
            BY <1>13, <2>4 DEF ServerReceives
        <3>2. srvPresence'[Me] = 0 /\ ~InUse
            BY <1>0, <2>2, <2>4, <3>1 DEF LifeInv
        <3> QED BY <2>1, <2>2, <3>1, <3>2, HasPrimed DEF LifeInv, NotJoined
    <2>5. CASE msg.type = "presence-update"
        <3>1. /\ UNCHANGED member
              /\ srvPresence' = IF member THEN [srvPresence EXCEPT ![Me] = msg.value] ELSE srvPresence
              /\ ~member => in' = in
            BY <1>13, <2>5 DEF ServerReceives, ToMe
        <3> QED BY <2>1, <2>2, <2>5, <3>1, HasPrimed DEF LifeInv, NotJoined
    <2>6. CASE msg.type = "chat"
        <3>1. UNCHANGED <<member, srvPresence>> /\ (~member => in' = in)
            BY <1>13, <2>6 DEF ServerReceives, ToMe
        <3> QED BY <2>1, <2>2, <2>6, <3>1, HasPrimed DEF LifeInv, NotJoined
    <2> QED BY <2>2, <2>3, <2>4, <2>5, <2>6
<1>14. CASE Receive
    <2>1. /\ in # <<>>
          /\ UNCHANGED <<opts, chan, subscribed, attempting, retryTimer, tstate, sock, out, member,
                         srvPresence>>
        BY <1>14 DEF Receive, chanVars, linkVars, srvVars
    <2> QED BY <2>1, HasPrimed DEF LifeInv, NotJoined
<1>15. ASSUME NEW p \in Others, OtherActs(p) PROVE LifeInv'
    <2>1. UNCHANGED <<opts, chan, subscribed, attempting, retryTimer, tstate, sock, out, member>>
        BY <1>15 DEF OtherActs, chanVars, linkVars
    <2>2. p # Me
        BY DEF ChannelConstants
    <2>3. srvPresence'[Me] = srvPresence[Me] /\ (~member => in' = in)
        BY <1>0, <1>15, <2>2 DEF OtherActs, ToMe
    <2> QED BY <2>1, <2>3, HasPrimed DEF LifeInv, NotJoined
<1>16. CASE UNCHANGED vars
    BY <1>16, HasPrimed DEF LifeInv, NotJoined, vars, chanVars, linkVars, srvVars
<1> QED BY <1>2, <1>3, <1>4, <1>5, <1>6, <1>7, <1>8, <1>9, <1>10, <1>11, <1>12, <1>13, <1>14,
           <1>15, <1>16 DEF Next

\* A channel that says it is connected is a member of the room once its messages have
\* arrived, if reconnecting is left to it (start, attemptReconnect, handleSessionFailure).
THEOREM ConnectedIsJoined == Spec => []JoinedUnlessAuto
<1>1. Init => LifeInv
    BY ChannelConstants DEF Init, LifeInv, NotJoined, Has, NobodySet, InUse, ChannelConstants, Peers
<1>2. TypeOK /\ LifeInv /\ [Next]_vars => LifeInv'
    BY LifeStep, ChannelConstants
<1>3. LifeInv => JoinedUnlessAuto
    BY DEF LifeInv, JoinedUnlessAuto, ConnectedMeansJoined, Settled, Has
<1> QED BY <1>1, <1>2, <1>3, ChannelTypes, PTL DEF Spec

-----------------------------------------------------------------------------
\* Presence: what is on its way brings the map to the server's.

\* Is `m` about p, and what does it say p's value is?
Concerns(m, p) ==
    \/ m.type = "presence-snapshot"
    \/ m.type \in {"presence-state", "peer-left"} /\ m.peer = p
Says(m, p) ==
    IF m.type = "presence-snapshot" THEN m.peers[p]
    ELSE IF m.type = "presence-state" THEN m.value ELSE 0

\* The last message of `list` about p says `there`; if there is none, p is there already.
Brings(list, p, here, there) ==
    \/ \E i \in DOMAIN list :
         /\ Concerns(list[i], p) /\ Says(list[i], p) = there
         /\ \A j \in DOMAIN list : j > i => ~Concerns(list[j], p)
    \/ here = there /\ \A j \in DOMAIN list : ~Concerns(list[j], p)

PresenceInv ==
    subscribed /\ member =>
      \A p \in Peers : Brings(in, p, presenceMap[p], srvPresence[p])

\* The same of the next state.
LEMMA PresencePrimed ==
    ASSUME subscribed' /\ member' =>
             \A p \in Peers : Brings(in', p, presenceMap'[p], srvPresence'[p])
    PROVE  PresenceInv'
    BY DEF PresenceInv, Brings, Concerns, Says

\* A message more.
LEMMA BringsAppend ==
    ASSUME NEW list \in Seq(InMsgs), NEW m \in InMsgs, NEW p, NEW here, NEW there
    PROVE  /\ Concerns(m, p) /\ Says(m, p) = there => Brings(Append(list, m), p, here, there)
           /\ ~Concerns(m, p) /\ Brings(list, p, here, there)
                => Brings(Append(list, m), p, here, there)
<1> DEFINE r == Append(list, m)
<1>1. /\ DOMAIN list = 1..Len(list) /\ Len(list) \in Nat /\ DOMAIN r = 1..(Len(list) + 1)
      /\ \A i \in DOMAIN list : r[i] = list[i]
      /\ r[Len(list) + 1] = m
      /\ \A i \in DOMAIN r : i \in DOMAIN list \/ i = Len(list) + 1
    BY AppendFacts
<1> HIDE DEF r
<1>2. ASSUME Concerns(m, p), Says(m, p) = there PROVE Brings(r, p, here, there)
    <2>1. Len(list) + 1 \in DOMAIN r /\ \A j \in DOMAIN r : ~(j > Len(list) + 1)
        BY <1>1
    <2> QED BY <1>1, <1>2, <2>1 DEF Brings
<1>3. ASSUME ~Concerns(m, p), Brings(list, p, here, there) PROVE Brings(r, p, here, there)
    <2>1. \A j \in DOMAIN r : Concerns(r[j], p) => j \in DOMAIN list /\ r[j] = list[j]
        BY <1>1, <1>3
    <2>2. \A i \in DOMAIN list : i \in DOMAIN r
        BY <1>1
    <2> QED BY <1>1, <1>3, <2>1, <2>2 DEF Brings
<1> QED BY <1>2, <1>3 DEF r

\* A message received.
LEMMA BringsTail ==
    ASSUME NEW list \in Seq(InMsgs), list # <<>>, NEW p, NEW here, NEW there,
           Brings(list, p, here, there)
    PROVE  LET m == Head(list)
           IN  Brings(Tail(list), p, IF Concerns(m, p) THEN Says(m, p) ELSE here, there)
<1> DEFINE r == Tail(list)
<1>1. /\ Head(list) = list[1] /\ 1 \in DOMAIN list
      /\ DOMAIN list \subseteq Int /\ DOMAIN r \subseteq Int
      /\ \A i \in DOMAIN r : i >= 1
      /\ \A i \in DOMAIN r : i + 1 \in DOMAIN list /\ r[i] = list[i + 1]
      /\ \A i \in DOMAIN list : i # 1 => i - 1 \in DOMAIN r /\ r[i - 1] = list[i]
    BY TailFacts
<1> HIDE DEF r
<1>2. CASE here = there /\ \A j \in DOMAIN list : ~Concerns(list[j], p)
    <2>1. Brings(r, p, here, there) /\ ~Concerns(Head(list), p)
        BY <1>1, <1>2 DEF Brings
    <2> QED BY <2>1 DEF r
<1>3. CASE \E i \in DOMAIN list :
             /\ Concerns(list[i], p) /\ Says(list[i], p) = there
             /\ \A j \in DOMAIN list : j > i => ~Concerns(list[j], p)
    <2>1. PICK i \in DOMAIN list :
             /\ Concerns(list[i], p) /\ Says(list[i], p) = there
             /\ \A j \in DOMAIN list : j > i => ~Concerns(list[j], p)
        BY <1>3
    <2>2. CASE i = 1
        <3>1. \A j \in DOMAIN r : ~Concerns(r[j], p)
            BY <1>1, <2>1, <2>2
        <3>2. Concerns(Head(list), p) /\ Says(Head(list), p) = there
            BY <1>1, <2>1, <2>2
        <3>3. Brings(r, p, there, there)
            BY <3>1 DEF Brings
        <3> QED BY <3>2, <3>3 DEF r
    <2>3. CASE i # 1
        <3>1. i - 1 \in DOMAIN r /\ r[i - 1] = list[i]
            BY <1>1, <2>3
        <3>2. \A j \in DOMAIN r : j > i - 1 => ~Concerns(r[j], p)
            BY <1>1, <2>1
        <3>3. \A value : Brings(r, p, value, there)
            BY <2>1, <3>1, <3>2 DEF Brings
        <3> QED BY <3>3 DEF r
    <2> QED BY <2>2, <2>3
<1> QED BY <1>2, <1>3 DEF Brings

\* What a message received does to the map.
LEMMA ReceivedPresence ==
    ASSUME TypeOK, subscribed, Receive, NEW p \in Peers
    PROVE  LET m == Head(in)
           IN  presenceMap'[p] = IF Concerns(m, p) THEN Says(m, p) ELSE presenceMap[p]
<1> DEFINE msg == Head(in)
<1>1. in # <<>> /\ in \in Seq(InMsgs) /\ presenceMap \in [Peers -> Values]
    BY DEF Receive, TypeOK
<1>2. msg \in InMsgs
    BY <1>1, TailFacts
<1>3. CASE msg.type = "presence-snapshot"
    BY <1>3 DEF Receive, Concerns, Says, Replaced
<1>4. CASE msg.type = "presence-state"
    BY <1>1, <1>4 DEF Receive, Concerns, Says
<1>5. CASE msg.type = "peer-left"
    BY <1>1, <1>5 DEF Receive, Concerns, Says
<1>6. CASE msg.type \in {"chat", "chat-history"}
    BY <1>1, <1>6 DEF Receive, Concerns
<1> QED BY <1>2, <1>3, <1>4, <1>5, <1>6, MessageFields

\* Presence: a step of it.
LEMMA PresenceStep ==
    ASSUME ChannelConstants, TypeOK, LifeInv, PresenceInv, [Next]_vars
    PROVE  PresenceInv'
<1> SUFFICES ASSUME subscribed', member', NEW p \in Peers
             PROVE  Brings(in', p, presenceMap'[p], srvPresence'[p])
    BY PresencePrimed
<1>0. /\ in \in Seq(InMsgs) /\ out \in Seq(OutMsgs) /\ srvPresence \in [Peers -> Values]
      /\ presenceMap \in [Peers -> Values] /\ log \in Seq(Chats)
    BY DEF TypeOK
<1>1. CASE subscribed /\ member /\ UNCHANGED <<in, presenceMap, srvPresence>>
    BY <1>1 DEF PresenceInv
<1>2. CASE Start
    BY <1>2 DEF Start, LifeInv, srvVars
<1>3. CASE Stop
    BY <1>3 DEF Stop
<1>4. CASE RetryFires
    BY <1>1, <1>4 DEF RetryFires, presVars, srvVars
<1>5. CASE ConnectResolves
    BY <1>1, <1>5 DEF ConnectResolves, presVars, srvVars
<1>6. CASE ConnectRejects
    BY <1>1, <1>6 DEF ConnectRejects, presVars, srvVars
<1>7. CASE Opens
    BY <1>1, <1>7 DEF Opens, chanVars, presVars, srvVars
<1>8. CASE Closes
    BY <1>8 DEF Closes
<1>9. CASE AutoReconnects
    BY <1>1, <1>9 DEF AutoReconnects, chanVars, presVars, srvVars
<1>10. ASSUME NEW v \in Values, SetAttribute(v)
       PROVE  Brings(in', p, presenceMap'[p], srvPresence'[p])
    BY <1>1, <1>10 DEF SetAttribute, chanVars, srvVars
<1>11. CASE SendChat
    BY <1>1, <1>11 DEF SendChat, chanVars, presVars, srvVars
<1>12. ASSUME NEW n \in Chats, AckTimeout(n)
       PROVE  Brings(in', p, presenceMap'[p], srvPresence'[p])
    BY <1>1, <1>12 DEF AckTimeout, chanVars, presVars, srvVars
<1>13. CASE ServerReceives
    <2> DEFINE msg == Head(out)
    <2>1. /\ out # <<>> /\ UNCHANGED <<subscribed, presenceMap>>
          /\ msg \in OutMsgs /\ msg.type \in {"join", "presence-update", "chat", "leave"}
        BY <1>0, <1>13, TailFacts, MessageFields DEF ServerReceives, chanVars, presVars
    <2>2. CASE msg.type = "join"
        <3> DEFINE more == IF msg.replay THEN <<[type |-> "chat-history", chats |-> log]>> ELSE <<>>
        <3>1. in' = in \o <<Snapshot>> \o more /\ UNCHANGED srvPresence
            BY <1>13, <2>2 DEF ServerReceives
        <3>2. /\ Snapshot \in InMsgs /\ [type |-> "chat-history", chats |-> log] \in InMsgs
              /\ Concerns(Snapshot, p) /\ Says(Snapshot, p) = srvPresence[p]
              /\ ~Concerns([type |-> "chat-history", chats |-> log], p)
            BY MessageTypes DEF Snapshot, Concerns, Says
        <3>3. in \o <<Snapshot>> = Append(in, Snapshot) /\ Append(in, Snapshot) \in Seq(InMsgs)
            BY <1>0, <3>2
        <3>4. Brings(Append(in, Snapshot), p, presenceMap[p], srvPresence[p])
            BY <1>0, <3>2, BringsAppend
        <3>5. CASE msg.replay
            <4>1. in' = Append(Append(in, Snapshot), [type |-> "chat-history", chats |-> log])
                BY <3>1, <3>2, <3>3, <3>5
            <4> QED BY <2>1, <3>1, <3>2, <3>3, <3>4, <4>1, BringsAppend
        <3>6. CASE ~msg.replay
            <4>1. in' = Append(in, Snapshot)
                BY <3>1, <3>2, <3>3, <3>6
            <4> QED BY <2>1, <3>1, <3>4, <4>1
        <3> QED BY <3>5, <3>6
    <2>3. CASE msg.type = "leave"
        BY <1>13, <2>3 DEF ServerReceives
    <2>4. CASE msg.type = "presence-update"
        <3>1. /\ UNCHANGED member /\ member
              /\ srvPresence' = [srvPresence EXCEPT ![Me] = msg.value]
              /\ in' = Append(in, State(Me, msg.value))
            BY <1>13, <2>4 DEF ServerReceives, ToMe
        <3>2. Brings(in, p, presenceMap[p], srvPresence[p])
            BY <2>1, <3>1 DEF PresenceInv
        <3>3. State(Me, msg.value) \in InMsgs
            BY <2>1, <2>4, MessageFields, MessageTypes
        <3>4. CASE p = Me
            <4>1. Concerns(State(Me, msg.value), p) /\ Says(State(Me, msg.value), p) = srvPresence'[p]
                BY <1>0, <3>1, <3>4 DEF State, Concerns, Says
            <4> QED BY <1>0, <3>1, <3>3, <4>1, BringsAppend
        <3>5. CASE p # Me
            <4>1. ~Concerns(State(Me, msg.value), p) /\ srvPresence'[p] = srvPresence[p]
                BY <1>0, <3>1, <3>5 DEF State, Concerns
            <4> QED BY <1>0, <2>1, <3>1, <3>2, <3>3, <4>1, BringsAppend
        <3> QED BY <3>4, <3>5
    <2>5. CASE msg.type = "chat"
        <3>1. UNCHANGED <<member, srvPresence>> /\ in' = Append(in, msg)
            BY <1>13, <2>5 DEF ServerReceives, ToMe
        <3>2. Brings(in, p, presenceMap[p], srvPresence[p])
            BY <2>1, <3>1 DEF PresenceInv
        <3>3. msg \in InMsgs /\ ~Concerns(msg, p)
            BY <2>1, <2>5, MessageFields DEF Concerns
        <3> QED BY <1>0, <2>1, <3>1, <3>2, <3>3, BringsAppend
    <2> QED BY <2>1, <2>2, <2>3, <2>4, <2>5
<1>14. CASE Receive
    <2> DEFINE msg == Head(in)
    <2>1. in # <<>> /\ in' = Tail(in) /\ UNCHANGED <<member, subscribed, srvPresence>>
        BY <1>14 DEF Receive, chanVars, srvVars
    <2>2. Brings(in, p, presenceMap[p], srvPresence[p])
        BY <2>1 DEF PresenceInv
    <2>3. msg \in InMsgs
        BY <1>0, <2>1, TailFacts
    <2>4. presenceMap'[p] = IF Concerns(msg, p) THEN Says(msg, p) ELSE presenceMap[p]
        BY <1>14, <2>1, ReceivedPresence
    <2> QED BY <1>0, <2>1, <2>2, <2>4, BringsTail
<1>15. ASSUME NEW q \in Others, OtherActs(q)
       PROVE  Brings(in', p, presenceMap'[p], srvPresence'[p])
    <2>1. member /\ UNCHANGED <<subscribed, presenceMap>> /\ q \in Peers
        BY <1>15 DEF OtherActs, chanVars, presVars, Peers
    <2>2. Brings(in, p, presenceMap[p], srvPresence[p])
        BY <2>1 DEF PresenceInv
    <2>3. ASSUME NEW m \in InMsgs, in' = Append(in, m),
                 Concerns(m, p) => Says(m, p) = srvPresence'[p],
                 ~Concerns(m, p) => srvPresence'[p] = srvPresence[p]
          PROVE  Brings(in', p, presenceMap'[p], srvPresence'[p])
        BY <1>0, <2>1, <2>2, <2>3, BringsAppend
    <2>4. ASSUME NEW v \in Values, srvPresence' = [srvPresence EXCEPT ![q] = v], ToMe(State(q, v))
          PROVE  Brings(in', p, presenceMap'[p], srvPresence'[p])
        <3>1. State(q, v) \in InMsgs /\ in' = Append(in, State(q, v))
            BY <2>1, <2>4, MessageTypes DEF ToMe
        <3>2. /\ Concerns(State(q, v), p) => Says(State(q, v), p) = srvPresence'[p]
              /\ ~Concerns(State(q, v), p) => srvPresence'[p] = srvPresence[p]
            BY <1>0, <2>1, <2>4 DEF State, Concerns, Says
        <3> QED BY <2>3, <3>1, <3>2
    <2>5. ASSUME srvPresence' = [srvPresence EXCEPT ![q] = 0],
                 ToMe([type |-> "peer-left", peer |-> q])
          PROVE  Brings(in', p, presenceMap'[p], srvPresence'[p])
        <3> DEFINE m == [type |-> "peer-left", peer |-> q]
        <3>1. m \in InMsgs /\ in' = Append(in, m)
            BY <2>1, <2>5, MessageTypes DEF ToMe
        <3>2. /\ Concerns(m, p) => Says(m, p) = srvPresence'[p]
              /\ ~Concerns(m, p) => srvPresence'[p] = srvPresence[p]
            BY <1>0, <2>1, <2>5 DEF Concerns, Says
        <3> QED BY <2>3, <3>1, <3>2
    <2>6. ASSUME next <= MaxChats, ToMe(ChatMsg(next)), UNCHANGED srvPresence
          PROVE  Brings(in', p, presenceMap'[p], srvPresence'[p])
        <3>1. next \in Chats
            BY <2>6 DEF TypeOK, Chats, ChannelConstants
        <3>2. ChatMsg(next) \in InMsgs /\ in' = Append(in, ChatMsg(next))
            BY <2>1, <2>6, <3>1, MessageTypes DEF ToMe
        <3>3. ~Concerns(ChatMsg(next), p) /\ srvPresence'[p] = srvPresence[p]
            BY <2>6 DEF ChatMsg, Concerns
        <3> QED BY <2>3, <3>2, <3>3
    <2> QED BY <1>15, <2>4, <2>5, <2>6 DEF OtherActs
<1>16. CASE UNCHANGED vars
    BY <1>1, <1>16 DEF vars, chanVars, presVars, srvVars
<1> QED BY <1>2, <1>3, <1>4, <1>5, <1>6, <1>7, <1>8, <1>9, <1>10, <1>11, <1>12, <1>13, <1>14,
           <1>15, <1>16 DEF Next

\* Once everything has arrived the presence map is the server's, whatever drops, departures
\* and rejoins came in between (applyPresenceSnapshot, applyPresenceState, routeMessage).
THEOREM MapConverges == Spec => []PresenceConverges
<1>1. Init => LifeInv /\ PresenceInv
    BY ChannelConstants DEF Init, LifeInv, PresenceInv, NotJoined, Has, NobodySet, InUse,
                            ChannelConstants, Peers
<1>2. TypeOK /\ LifeInv /\ PresenceInv /\ [Next]_vars => LifeInv' /\ PresenceInv'
    BY LifeStep, PresenceStep, ChannelConstants
<1>3. TypeOK /\ PresenceInv => PresenceConverges
    <2> SUFFICES ASSUME TypeOK, PresenceInv, subscribed, member, in = <<>>
                 PROVE  presenceMap = srvPresence
        BY DEF PresenceConverges, Settled
    <2>1. \A p \in Peers : presenceMap[p] = srvPresence[p]
        BY DEF PresenceInv, Brings
    <2> QED BY <2>1 DEF TypeOK
<1> QED BY <1>1, <1>2, <1>3, ChannelTypes, PTL DEF Spec

-----------------------------------------------------------------------------
\* My attribute: what is written, what is heard of it, what I want.

IsOwn(m) == m.type = "presence-state" /\ m.peer = Me

\* The last update of `list` writes `value`, and reaches a server of which I am a member.
Written(list, joined, value) ==
    \A i \in DOMAIN list :
      (/\ list[i].type = "presence-update"
       /\ \A j \in DOMAIN list : j > i => list[j].type # "presence-update")
      => /\ list[i].value = value
         /\ joined \/ \E j \in DOMAIN list : j < i /\ list[j].type = "join"

\* What `list` says of me before the last echo does not matter; the rest says `value`.  If
\* there is no echo in it, the map says `value` already.
Told(list, here, value) ==
    /\ \A i \in DOMAIN list :
         Concerns(list[i], Me) /\ (\A j \in DOMAIN list : j > i => ~IsOwn(list[j]))
           => Says(list[i], Me) = value
    /\ (\A i \in DOMAIN list : ~IsOwn(list[i])) => here = value

\* The state of my attribute once nothing of it is on its way to the server.
Arrived(list, joined, here, there, told, value) ==
    /\ joined => there = value
    /\ ~joined /\ Has(list, "join") => value = 0
    /\ Told(told, here, value)

AttributeInv ==
    /\ own <=> wanted # 0
    /\ InUse /\ ~unsure =>
        /\ Written(out, member, wanted)
        /\ ~Has(out, "presence-update") =>
             Arrived(out, member, presenceMap[Me], srvPresence[Me], in, wanted)
        /\ chan \in {"idle", "connecting"} => wanted = 0 /\ ~Has(out, "presence-update")
        /\ chan = "reconnecting" => ~Has(out, "presence-update")

\* The same of the next state.
LEMMA AttributePrimed ==
    ASSUME own' <=> wanted' # 0,
           InUse' /\ ~unsure' =>
             /\ Written(out', member', wanted')
             /\ ~Has(out', "presence-update") =>
                  Arrived(out', member', presenceMap'[Me], srvPresence'[Me], in', wanted')
             /\ chan' \in {"idle", "connecting"} => wanted' = 0 /\ ~Has(out', "presence-update")
             /\ chan' = "reconnecting" => ~Has(out', "presence-update")
    PROVE  AttributeInv'
    BY DEF AttributeInv, Written, Has, Arrived, Told, Concerns, Says, IsOwn

\* A list without updates writes nothing wrong.
LEMMA WrittenNothing ==
    ASSUME NEW list, NEW joined, NEW value, ~Has(list, "presence-update")
    PROVE  Written(list, joined, value)
    BY DEF Has, Written

\* One message written.
LEMMA WrittenAppend ==
    ASSUME NEW list \in Seq(OutMsgs), NEW m \in OutMsgs, NEW joined \in BOOLEAN, NEW value
    PROVE  /\ m.type = "presence-update" /\ m.value = value /\ (joined \/ Has(list, "join"))
                => Written(Append(list, m), joined, value)
           /\ m.type # "presence-update" /\ Written(list, joined, value)
                => Written(Append(list, m), joined, value)
<1> DEFINE r == Append(list, m)
<1>1. /\ DOMAIN list = 1..Len(list) /\ Len(list) \in Nat /\ DOMAIN r = 1..(Len(list) + 1)
      /\ \A i \in DOMAIN list : r[i] = list[i]
      /\ r[Len(list) + 1] = m
      /\ \A i \in DOMAIN r : i \in DOMAIN list \/ i = Len(list) + 1
    BY AppendFacts
<1> HIDE DEF r
<1>2. ASSUME m.type = "presence-update", m.value = value, joined \/ Has(list, "join")
      PROVE  Written(r, joined, value)
    <2> SUFFICES ASSUME NEW i \in DOMAIN r, \A j \in DOMAIN r : j > i => r[j].type # "presence-update"
                 PROVE  r[i].value = value /\ (joined \/ \E j \in DOMAIN r : j < i /\ r[j].type = "join")
        BY DEF Written
    <2>1. i = Len(list) + 1
        BY <1>1, <1>2
    <2> QED BY <1>1, <1>2, <2>1 DEF Has
<1>3. ASSUME m.type # "presence-update", Written(list, joined, value)
      PROVE  Written(r, joined, value)
    <2> SUFFICES ASSUME NEW i \in DOMAIN r, r[i].type = "presence-update",
                        \A j \in DOMAIN r : j > i => r[j].type # "presence-update"
                 PROVE  r[i].value = value /\ (joined \/ \E j \in DOMAIN r : j < i /\ r[j].type = "join")
        BY DEF Written
    <2>1. i \in DOMAIN list /\ r[i] = list[i]
        BY <1>1, <1>3
    <2>2. \A j \in DOMAIN list : j \in DOMAIN r /\ r[j] = list[j]
        BY <1>1
    <2> QED BY <1>3, <2>1, <2>2 DEF Written
<1> QED BY <1>2, <1>3 DEF r

\* One message arrived at the server.
LEMMA WrittenTail ==
    ASSUME NEW list \in Seq(OutMsgs), list # <<>>, NEW joined \in BOOLEAN, NEW value,
           Written(list, joined, value)
    PROVE  /\ Head(list).type # "join" => Written(Tail(list), joined, value)
           /\ Head(list).type = "join" => Written(Tail(list), TRUE, value)
           /\ Head(list).type = "presence-update" /\ ~Has(Tail(list), "presence-update")
                => Head(list).value = value /\ joined
<1> DEFINE r == Tail(list)
<1>1. /\ Head(list) = list[1] /\ 1 \in DOMAIN list
      /\ DOMAIN list \subseteq Int /\ DOMAIN r \subseteq Int
      /\ (\A i \in DOMAIN list : i >= 1) /\ (\A i \in DOMAIN r : i >= 1)
      /\ \A i \in DOMAIN r : i + 1 \in DOMAIN list /\ r[i] = list[i + 1]
      /\ \A i \in DOMAIN list : i # 1 => i - 1 \in DOMAIN r /\ r[i - 1] = list[i]
    BY TailFacts
<1> HIDE DEF r
<1>2. ASSUME NEW i \in DOMAIN r, r[i].type = "presence-update",
             \A j \in DOMAIN r : j > i => r[j].type # "presence-update"
      PROVE  /\ r[i].value = value
             /\ \/ joined \/ Head(list).type = "join"
                \/ \E j \in DOMAIN r : j < i /\ r[j].type = "join"
    <2>1. i + 1 \in DOMAIN list /\ r[i] = list[i + 1] /\ i + 1 > 1
        BY <1>1
    <2>2. ASSUME NEW j \in DOMAIN list, j > i + 1 PROVE list[j].type # "presence-update"
        <3>1. j # 1 /\ j \in Int /\ i \in Int
            BY <1>1, <2>2
        <3>2. j - 1 \in DOMAIN r /\ r[j - 1] = list[j] /\ j - 1 > i
            BY <1>1, <2>2, <3>1
        <3> QED BY <1>2, <3>2
    <2>3. list[i + 1].value = value
          /\ (joined \/ \E j \in DOMAIN list : j < i + 1 /\ list[j].type = "join")
        BY <1>2, <2>1, <2>2 DEF Written
    <2>4. ASSUME NEW j \in DOMAIN list, j < i + 1, list[j].type = "join", j # 1
          PROVE  \E k \in DOMAIN r : k < i /\ r[k].type = "join"
        <3>1. j - 1 \in DOMAIN r /\ r[j - 1] = list[j] /\ j - 1 < i
            BY <1>1, <2>4
        <3> QED BY <2>4, <3>1
    <2> QED BY <1>1, <2>1, <2>3, <2>4
<1>3. Head(list).type # "join" => Written(r, joined, value)
    BY <1>2 DEF Written
<1>4. Head(list).type = "join" => Written(r, TRUE, value)
    BY <1>2 DEF Written
<1>5. ASSUME Head(list).type = "presence-update", ~Has(r, "presence-update")
      PROVE  Head(list).value = value /\ joined
    <2>1. ASSUME NEW j \in DOMAIN list, j > 1 PROVE list[j].type # "presence-update"
        <3>1. j - 1 \in DOMAIN r /\ r[j - 1] = list[j]
            BY <1>1, <2>1
        <3> QED BY <1>5, <3>1 DEF Has
    <2>2. \A j \in DOMAIN list : ~(j < 1)
        BY <1>1
    <2> QED BY <1>1, <1>5, <2>1, <2>2 DEF Written
<1> QED BY <1>3, <1>4, <1>5 DEF r

\* One message sent to me.
LEMMA ToldAppend ==
    ASSUME NEW list \in Seq(InMsgs), NEW m \in InMsgs, NEW here, NEW value
    PROVE  /\ IsOwn(m) /\ Says(m, Me) = value => Told(Append(list, m), here, value)
           /\ ~IsOwn(m) /\ (Concerns(m, Me) => Says(m, Me) = value) /\ Told(list, here, value)
                => Told(Append(list, m), here, value)
<1> DEFINE r == Append(list, m)
<1>1. /\ DOMAIN list = 1..Len(list) /\ Len(list) \in Nat /\ DOMAIN r = 1..(Len(list) + 1)
      /\ \A i \in DOMAIN list : r[i] = list[i]
      /\ r[Len(list) + 1] = m
      /\ \A i \in DOMAIN r : i \in DOMAIN list \/ i = Len(list) + 1
    BY AppendFacts
<1> HIDE DEF r
<1>2. ASSUME IsOwn(m), Says(m, Me) = value PROVE Told(r, here, value)
    <2>1. Len(list) + 1 \in DOMAIN r
        BY <1>1
    <2>2. \A i \in DOMAIN list : i < Len(list) + 1
        BY <1>1
    <2> QED BY <1>1, <1>2, <2>1, <2>2 DEF Told
<1>3. ASSUME ~IsOwn(m), Concerns(m, Me) => Says(m, Me) = value, Told(list, here, value)
      PROVE  Told(r, here, value)
    <2>1. \A i \in DOMAIN list : i \in DOMAIN r /\ r[i] = list[i]
        BY <1>1
    <2>2. ASSUME NEW i \in DOMAIN r, Concerns(r[i], Me), \A j \in DOMAIN r : j > i => ~IsOwn(r[j])
          PROVE  Says(r[i], Me) = value
        <3>1. CASE i \in DOMAIN list
            BY <1>3, <2>1, <2>2, <3>1 DEF Told
        <3>2. CASE i = Len(list) + 1
            BY <1>1, <1>3, <2>2, <3>2
        <3> QED BY <1>1, <3>1, <3>2
    <2>3. (\A i \in DOMAIN r : ~IsOwn(r[i])) => here = value
        BY <1>3, <2>1 DEF Told
    <2> QED BY <2>2, <2>3 DEF Told
<1> QED BY <1>2, <1>3 DEF r

\* One message received.
LEMMA ToldTail ==
    ASSUME NEW list \in Seq(InMsgs), list # <<>>, NEW here, NEW value, Told(list, here, value)
    PROVE  LET m == Head(list)
           IN  Told(Tail(list), IF Concerns(m, Me) THEN Says(m, Me) ELSE here, value)
<1> DEFINE r == Tail(list)
<1>1. /\ Head(list) = list[1] /\ 1 \in DOMAIN list
      /\ DOMAIN list \subseteq Int /\ DOMAIN r \subseteq Int
      /\ (\A i \in DOMAIN list : i >= 1) /\ (\A i \in DOMAIN r : i >= 1)
      /\ \A i \in DOMAIN r : i + 1 \in DOMAIN list /\ r[i] = list[i + 1]
      /\ \A i \in DOMAIN list : i # 1 => i - 1 \in DOMAIN r /\ r[i - 1] = list[i]
    BY TailFacts
<1> HIDE DEF r
<1>2. ASSUME NEW i \in DOMAIN r, Concerns(r[i], Me), \A j \in DOMAIN r : j > i => ~IsOwn(r[j])
      PROVE  Says(r[i], Me) = value
    <2>1. i + 1 \in DOMAIN list /\ r[i] = list[i + 1]
        BY <1>1
    <2>2. ASSUME NEW j \in DOMAIN list, j > i + 1 PROVE ~IsOwn(list[j])
        <3>1. j # 1 /\ j \in Int /\ i \in Int
            BY <1>1, <2>2
        <3>2. j - 1 \in DOMAIN r /\ r[j - 1] = list[j] /\ j - 1 > i
            BY <1>1, <2>2, <3>1
        <3> QED BY <1>2, <3>2
    <2> QED BY <1>2, <2>1, <2>2 DEF Told
<1>3. ASSUME \A i \in DOMAIN r : ~IsOwn(r[i])
      PROVE  IF Concerns(Head(list), Me) THEN Says(Head(list), Me) = value ELSE here = value
    <2>1. \A j \in DOMAIN list : j # 1 => ~IsOwn(list[j])
        BY <1>1, <1>3
    <2>2. CASE Concerns(list[1], Me)
        BY <1>1, <2>1, <2>2 DEF Told
    <2>3. CASE ~Concerns(list[1], Me)
        <3>1. ~IsOwn(list[1])
            BY <2>3 DEF IsOwn, Concerns
        <3> QED BY <1>1, <2>1, <2>3, <3>1 DEF Told
    <2> QED BY <1>1, <2>2, <2>3
<1>4. Told(r, IF Concerns(Head(list), Me) THEN Says(Head(list), Me) ELSE here, value)
    BY <1>2, <1>3 DEF Told
<1> QED BY <1>4 DEF r

\* What a reconnect sends, message by message.
LEMMA ReconnectedForm ==
    ASSUME ChannelConstants, TypeOK, Reconnected
    PROVE  /\ JoinMsg(FALSE) \in OutMsgs /\ SetMsg(presenceMap[Me]) \in OutMsgs
           /\ Append(out, JoinMsg(FALSE)) \in Seq(OutMsgs)
           /\ own /\ presenceMap[Me] # 0
                => out' = Append(Append(out, JoinMsg(FALSE)), SetMsg(presenceMap[Me]))
           /\ ~(own /\ presenceMap[Me] # 0) => out' = Append(out, JoinMsg(FALSE))
<1>1. /\ out \in Seq(OutMsgs) /\ JoinMsg(FALSE) \in OutMsgs /\ SetMsg(presenceMap[Me]) \in OutMsgs
    <2>1. presenceMap[Me] \in Values
        BY MessageTypes DEF TypeOK
    <2> QED BY <2>1, MessageTypes DEF TypeOK, OutMsgs, JoinMsgs, JoinMsg
<1>2. \A s \in Seq(OutMsgs), m \in OutMsgs :
         s \o <<m>> = Append(s, m) /\ Append(s, m) \in Seq(OutMsgs) /\ s \o <<>> = s
    OBVIOUS
<1>3. out \o Rejoin = Append(out, JoinMsg(FALSE)) /\ Append(out, JoinMsg(FALSE)) \in Seq(OutMsgs)
    BY <1>1, <1>2 DEF Rejoin
<1>4. out' = Append(out, JoinMsg(FALSE)) \o Resync
    BY <1>3 DEF Reconnected
<1>5. CASE own /\ presenceMap[Me] # 0
    <2>1. Resync = <<SetMsg(presenceMap[Me])>>
        BY <1>5 DEF Resync
    <2> QED BY <1>1, <1>2, <1>3, <1>4, <1>5, <2>1
<1>6. CASE ~(own /\ presenceMap[Me] # 0)
    <2>1. Resync = <<>>
        BY <1>6 DEF Resync
    <2> QED BY <1>1, <1>2, <1>3, <1>4, <1>6, <2>1
<1> QED BY <1>5, <1>6

\* My attribute: a step of it.
LEMMA AttributeStep ==
    ASSUME ChannelConstants, TypeOK, LifeInv, AttributeInv, [Next]_vars
    PROVE  AttributeInv'
<1> DEFINE
     Goal == /\ Written(out', member', wanted')
             /\ ~Has(out', "presence-update") =>
                  Arrived(out', member', presenceMap'[Me], srvPresence'[Me], in', wanted')
             /\ chan' \in {"idle", "connecting"} => wanted' = 0 /\ ~Has(out', "presence-update")
             /\ chan' = "reconnecting" => ~Has(out', "presence-update")
<1>0. /\ in \in Seq(InMsgs) /\ out \in Seq(OutMsgs) /\ srvPresence \in [Peers -> Values]
      /\ presenceMap \in [Peers -> Values] /\ log \in Seq(Chats) /\ member \in BOOLEAN
      /\ Me \in Peers
    BY MessageTypes DEF TypeOK
<1>1. own' <=> wanted' # 0
    <2>1. ASSUME NEW v \in Values, SetAttribute(v) PROVE own' <=> wanted' # 0
        BY <2>1 DEF SetAttribute
    <2>2. (\A v \in Values : ~SetAttribute(v)) => UNCHANGED <<own, wanted>>
        BY DEF Next, Start, Stop, RetryFires, ConnectResolves, ConnectRejects, Opens,
               Closes, AutoReconnects, SendChat, AckTimeout, ServerReceives, Receive,
               OtherActs, presVars, histVars, vars
    <2> QED BY <2>1, <2>2 DEF AttributeInv
<1>2. SUFFICES ASSUME InUse', ~unsure' PROVE Goal
    BY <1>1, AttributePrimed
<1> USE DEF InUse
<1>3. ASSUME InUse, ~unsure, UNCHANGED <<out, member, wanted, presenceMap, srvPresence, in>>,
             chan' \in {chan, "closed"}
      PROVE  Goal
    BY <1>3 DEF AttributeInv
<1> DEFINE Same == InUse /\ ~unsure /\ wanted' = wanted
<1>4. ASSUME InUse, ~unsure
      PROVE  /\ own <=> wanted # 0
             /\ Written(out, member, wanted)
             /\ ~Has(out, "presence-update") =>
                  Arrived(out, member, presenceMap[Me], srvPresence[Me], in, wanted)
             /\ chan \in {"idle", "connecting"} => wanted = 0 /\ ~Has(out, "presence-update")
             /\ chan = "reconnecting" => ~Has(out, "presence-update")
    BY <1>4 DEF AttributeInv
<1>5. ASSUME Same, Reconnected, chan = "reconnecting", subscribed,
             UNCHANGED <<member, presenceMap, srvPresence, in>>
      PROVE  Goal
    <2>1. ~Has(out, "presence-update") /\ in = <<>> /\ ~member
        BY <1>4, <1>5 DEF LifeInv
    <2>2. presenceMap[Me] = wanted /\ Told(in, presenceMap[Me], wanted)
        BY <1>4, <1>5, <2>1 DEF Arrived, Told
    <2>3. JoinMsg(FALSE).type = "join" /\ SetMsg(presenceMap[Me]).type = "presence-update"
          /\ SetMsg(presenceMap[Me]).value = presenceMap[Me]
        BY DEF JoinMsg, SetMsg
    <2>4. /\ Has(Append(out, JoinMsg(FALSE)), "join")
          /\ ~Has(Append(out, JoinMsg(FALSE)), "presence-update")
        BY <1>0, <1>5, <2>1, <2>3, ReconnectedForm, HasFacts
    <2>5. chan' = "connected" /\ wanted' = wanted
        BY <1>5 DEF Reconnected
    <2>6. CASE own /\ presenceMap[Me] # 0
        <3>1. out' = Append(Append(out, JoinMsg(FALSE)), SetMsg(presenceMap[Me]))
            BY <1>5, <2>6, ReconnectedForm
        <3> DEFINE joining == Append(out, JoinMsg(FALSE))
        <3>2. /\ joining \in Seq(OutMsgs) /\ SetMsg(presenceMap[Me]) \in OutMsgs
              /\ Has(joining, "join")
            BY <1>5, <2>4, ReconnectedForm
        <3> HIDE DEF joining
        <3>3. Written(Append(joining, SetMsg(presenceMap[Me])), member, wanted)
            BY <1>0, <2>2, <2>3, <3>2, WrittenAppend
        <3>4. Has(Append(joining, SetMsg(presenceMap[Me])), "presence-update")
            <4> DEFINE m == SetMsg(presenceMap[Me])
            <4>1. m \in OutMsgs /\ m.type = "presence-update"
                BY <2>3, <3>2
            <4> HIDE DEF m
            <4>2. Has(Append(joining, m), "presence-update")
                BY <3>2, <4>1, HasFacts
            <4> QED BY <4>2 DEF m
        <3>5. Written(out', member, wanted) /\ Has(out', "presence-update")
            BY <3>1, <3>3, <3>4 DEF joining
        <3> QED BY <1>5, <2>5, <3>5
    <2>7. CASE ~(own /\ presenceMap[Me] # 0)
        <3>1. wanted = 0
            BY <1>4, <1>5, <2>2, <2>7
        <3>2. out' = Append(out, JoinMsg(FALSE)) /\ out' \in Seq(OutMsgs)
            BY <1>5, <2>7, ReconnectedForm
        <3>3. Written(out', member, wanted)
            BY <2>4, <3>2, WrittenNothing
        <3> QED BY <1>5, <2>1, <2>2, <2>4, <2>5, <3>1, <3>2, <3>3 DEF Arrived
    <2> QED BY <2>6, <2>7
<1>6. CASE Start
    <2>1. /\ Same /\ chan = "idle" /\ chan' = "connecting"
          /\ UNCHANGED <<out, member, wanted, presenceMap, srvPresence, in>>
        BY <1>2, <1>6 DEF Start, LifeInv, Busy, presVars, srvVars, histVars
    <2> QED BY <1>4, <2>1
<1>7. CASE Stop
    BY <1>2, <1>7 DEF Stop
<1>8. CASE RetryFires
    <2>1. /\ subscribed /\ Same /\ chan = "reconnecting"
          /\ UNCHANGED <<member, wanted, presenceMap, srvPresence, in>>
        BY <1>2, <1>8 DEF RetryFires, LifeInv, presVars, srvVars, histVars
    <2>2. CASE Busy
        BY <1>5, <1>8, <2>1, <2>2 DEF RetryFires
    <2>3. CASE ~Busy
        BY <1>3, <1>8, <2>1, <2>3 DEF RetryFires
    <2> QED BY <2>2, <2>3
<1>9. CASE ConnectResolves
    <2>1. /\ sock = "auth" /\ chan' = "connected" /\ ~unsure /\ subscribed' = subscribed
          /\ UNCHANGED <<member, wanted, presenceMap, srvPresence, in>>
        BY <1>2, <1>9 DEF ConnectResolves, Reconnected, JoinRoom, presVars, srvVars, histVars
    <2>2. subscribed /\ Same
        BY <1>2, <2>1
    <2>3. CASE attempting
        <3>1. chan = "reconnecting"
            BY <2>2, <2>3 DEF LifeInv
        <3> QED BY <1>5, <1>9, <2>1, <2>2, <2>3, <3>1 DEF ConnectResolves
    <2>4. CASE ~attempting
        <3>1. chan = "connecting" /\ ~member
            BY <2>1, <2>2, <2>4 DEF LifeInv
        <3>2. JoinRoom
            BY <1>9, <2>4 DEF ConnectResolves
        <3>3. wanted = 0 /\ ~Has(out, "presence-update")
            BY <1>4, <2>2, <3>1
        <3>4. ~Has(out', "presence-update")
            BY <3>2, <3>3, JoinFacts
        <3>5. Written(out', member, wanted)
            BY <3>4, WrittenNothing
        <3> QED BY <1>4, <2>1, <2>2, <3>1, <3>3, <3>4, <3>5 DEF Arrived
    <2> QED BY <2>3, <2>4
<1>10. CASE ConnectRejects
    <2>1. /\ ~unsure /\ sock = "auth"
          /\ UNCHANGED <<subscribed, out, member, wanted, presenceMap, srvPresence, in>>
        BY <1>2, <1>10 DEF ConnectRejects, presVars, srvVars, histVars
    <2>2. InUse
        BY <1>2, <1>10, <2>1 DEF ConnectRejects, SessionFails
    <2>3. CASE attempting
        <3>1. chan = "reconnecting"
            BY <2>1, <2>2, <2>3 DEF LifeInv
        <3>2. chan' \in {"reconnecting", "closed"}
            BY <1>10, <2>3, <3>1 DEF ConnectRejects, SessionFails
        <3> QED BY <1>3, <2>1, <2>2, <3>1, <3>2
    <2>4. CASE ~attempting
        BY <1>3, <1>10, <2>1, <2>2, <2>4 DEF ConnectRejects
    <2> QED BY <2>3, <2>4
<1>11. CASE Opens
    BY <1>2, <1>3, <1>11 DEF Opens, chanVars, presVars, srvVars, histVars
<1>12. CASE Closes
    <2>1. /\ sock \in {"opening", "open"} /\ in' = <<>> /\ member' = FALSE
          /\ out' = (IF sock = "open" THEN <<>> ELSE out)
          /\ UNCHANGED <<subscribed, wanted, presenceMap>>
          /\ ~unsure /\ ~OwnInFlight
        BY <1>2, <1>12 DEF Closes, presVars
    <2>2. InUse /\ chan' \in {chan, "closed", "reconnecting"}
        BY <1>2, <1>12 DEF Closes, SessionFails
    <2>3. ~Has(out, "presence-update") /\ \A i \in DOMAIN in : ~IsOwn(in[i])
        BY <2>1 DEF OwnInFlight, Has, IsOwn
    <2>4. Arrived(out, member, presenceMap[Me], srvPresence[Me], in, wanted)
        BY <1>4, <2>1, <2>2, <2>3
    <2>5. presenceMap[Me] = wanted /\ Told(<<>>, presenceMap[Me], wanted)
        BY <2>3, <2>4 DEF Arrived, Told
    <2>6. ~Has(out', "presence-update") /\ Written(out', member', wanted)
        BY <2>1, <2>3 DEF Has, Written
    <2>7. Has(out', "join") => wanted = 0
        <3>1. CASE sock = "open"
            BY <2>1, <3>1 DEF Has
        <3>2. CASE sock = "opening"
            BY <2>1, <2>4, <3>2 DEF LifeInv, Arrived
        <3> QED BY <2>1, <3>1, <3>2
    <2>8. chan' \in {"idle", "connecting"} => wanted = 0
        BY <1>4, <2>1, <2>2
    <2> QED BY <2>1, <2>5, <2>6, <2>7, <2>8 DEF Arrived
<1>13. CASE AutoReconnects
    BY <1>2, <1>3, <1>13 DEF AutoReconnects, chanVars, presVars, srvVars, histVars
<1>14. ASSUME NEW v \in Values, SetAttribute(v) PROVE Goal
    <2>1. /\ out' = Append(out, SetMsg(v)) /\ wanted' = v /\ member /\ InUse
          /\ UNCHANGED <<chan, subscribed, member>>
        BY <1>2, <1>14 DEF SetAttribute, chanVars, srvVars
    <2>2. SetMsg(v) \in OutMsgs /\ SetMsg(v).type = "presence-update" /\ SetMsg(v).value = v
        BY MessageTypes DEF SetMsg
    <2>3. Written(out', TRUE, v)
        BY <1>0, <2>1, <2>2, WrittenAppend
    <2>4. Has(out', "presence-update")
        BY <1>0, <2>1, <2>2, HasFacts
    <2>5. chan \notin {"idle", "connecting", "reconnecting"}
        BY <2>1 DEF LifeInv, NotJoined
    <2>6. member' = TRUE
        BY <1>0, <2>1
    <2> QED BY <2>1, <2>3, <2>4, <2>5, <2>6
<1>15. CASE SendChat
    <2>1. /\ out' = Append(out, ChatMsg(next)) /\ next \in Chats /\ Same
          /\ UNCHANGED <<chan, wanted, member, presenceMap, srvPresence, in>>
        BY <1>2, <1>15 DEF SendChat, chanVars, presVars, srvVars, TypeOK, Chats, ChannelConstants
    <2>2. ChatMsg(next) \in OutMsgs /\ ChatMsg(next).type = "chat"
        BY <2>1, MessageTypes DEF ChatMsg
    <2>3. /\ Has(out', "join") <=> Has(out, "join")
          /\ Has(out', "presence-update") <=> Has(out, "presence-update")
        BY <1>0, <2>1, <2>2, HasFacts
    <2>4. Written(out, member, wanted) => Written(out', member, wanted)
        BY <1>0, <2>1, <2>2, WrittenAppend
    <2> QED BY <1>4, <2>1, <2>3, <2>4 DEF Arrived
<1>16. ASSUME NEW n \in Chats, AckTimeout(n) PROVE Goal
    BY <1>2, <1>3, <1>16 DEF AckTimeout, chanVars, presVars, srvVars, histVars
<1>17. CASE ServerReceives
    <2> DEFINE msg == Head(out)
    <2>1. /\ out # <<>> /\ out' = Tail(out) /\ Same
          /\ UNCHANGED <<chan, subscribed, presenceMap, wanted>>
        BY <1>2, <1>17 DEF ServerReceives, chanVars, presVars, histVars
    <2>2. /\ msg \in OutMsgs /\ msg.type \in {"join", "presence-update", "chat", "leave"}
          /\ Has(out, "presence-update")
               <=> msg.type = "presence-update" \/ Has(out', "presence-update")
          /\ Has(out, "join") <=> msg.type = "join" \/ Has(out', "join")
          /\ Has(out, "leave") <=> msg.type = "leave" \/ Has(out', "leave")
        BY <1>0, <2>1, TailFacts, HasFacts, MessageFields
    <2>3. Written(out, member, wanted)
        BY <1>4, <2>1
    <2>4. CASE msg.type = "join"
        <3> DEFINE h == [type |-> "chat-history", chats |-> log]
        <3>1. /\ in' = in \o <<Snapshot>> \o (IF msg.replay THEN <<h>> ELSE <<>>)
              /\ member' = TRUE /\ UNCHANGED srvPresence
            BY <1>17, <2>4 DEF ServerReceives
        <3>2. Written(out', TRUE, wanted)
            BY <1>0, <2>1, <2>3, <2>4, WrittenTail
        <3>3. ASSUME ~Has(out', "presence-update")
              PROVE  srvPresence[Me] = wanted /\ Told(in', presenceMap[Me], wanted)
            <4>1. Arrived(out, member, presenceMap[Me], srvPresence[Me], in, wanted)
                BY <1>4, <2>1, <2>2, <2>4, <3>3
            <4>2. srvPresence[Me] = wanted
                BY <2>2, <2>4, <4>1 DEF Arrived, LifeInv
            <4>3. /\ Snapshot \in InMsgs /\ h \in InMsgs
                  /\ ~IsOwn(Snapshot) /\ Says(Snapshot, Me) = srvPresence[Me]
                  /\ ~IsOwn(h) /\ ~Concerns(h, Me)
                BY MessageTypes DEF Snapshot, Concerns, Says, IsOwn
            <4>4. in \o <<Snapshot>> = Append(in, Snapshot) /\ Append(in, Snapshot) \in Seq(InMsgs)
                BY <1>0, <4>3
            <4>5. Told(Append(in, Snapshot), presenceMap[Me], wanted)
                BY <1>0, <4>1, <4>2, <4>3, ToldAppend DEF Arrived
            <4>6. Told(Append(Append(in, Snapshot), h), presenceMap[Me], wanted)
                BY <4>3, <4>4, <4>5, ToldAppend
            <4>7. in' \in {Append(in, Snapshot), Append(Append(in, Snapshot), h)}
                BY <3>1, <4>3, <4>4
            <4> QED BY <4>2, <4>5, <4>6, <4>7
        <3>4. chan \notin {"idle", "connecting"}
            BY <2>1, <2>2, <2>4 DEF LifeInv, NotJoined
        <3>5. chan = "reconnecting" => ~Has(out', "presence-update")
            BY <1>4, <2>1, <2>2
        <3> QED BY <2>1, <3>1, <3>2, <3>3, <3>4, <3>5 DEF Arrived
    <2>5. CASE msg.type = "leave"
        BY <2>1, <2>2, <2>5 DEF LifeInv
    <2>6. CASE msg.type = "presence-update"
        <3>1. /\ srvPresence' = IF member THEN [srvPresence EXCEPT ![Me] = msg.value] ELSE srvPresence
              /\ in' = (IF member THEN Append(in, State(Me, msg.value)) ELSE in)
              /\ UNCHANGED member
            BY <1>17, <2>6 DEF ServerReceives, ToMe
        <3>2. Written(out', member, wanted)
            BY <1>0, <2>1, <2>3, <2>6, WrittenTail
        <3>3. chan \notin {"idle", "connecting", "reconnecting"}
            BY <1>4, <2>1, <2>2, <2>6
        <3>4. ASSUME ~Has(out', "presence-update")
              PROVE  Arrived(out', member, presenceMap[Me], srvPresence'[Me], in', wanted)
            <4>1. msg.value = wanted /\ member
                BY <1>0, <2>1, <2>3, <2>6, <3>4, WrittenTail
            <4>2. srvPresence'[Me] = wanted /\ in' = Append(in, State(Me, wanted))
                BY <1>0, <3>1, <4>1
            <4>3. State(Me, wanted) \in InMsgs /\ IsOwn(State(Me, wanted))
                  /\ Says(State(Me, wanted), Me) = wanted
                BY MessageTypes DEF TypeOK, State, IsOwn, Says
            <4> QED BY <1>0, <4>1, <4>2, <4>3, ToldAppend DEF Arrived
        <3> QED BY <2>1, <3>1, <3>2, <3>3, <3>4
    <2>7. CASE msg.type = "chat"
        <3>1. /\ in' = (IF member THEN Append(in, msg) ELSE in)
              /\ UNCHANGED <<member, srvPresence>>
            BY <1>17, <2>7 DEF ServerReceives, ToMe
        <3>2. Written(out', member, wanted)
            BY <1>0, <2>1, <2>3, <2>7, WrittenTail
        <3>3. msg \in InMsgs /\ ~IsOwn(msg) /\ ~Concerns(msg, Me)
            BY <2>2, <2>7, MessageFields DEF IsOwn, Concerns
        <3>4. Told(in, presenceMap[Me], wanted) => Told(in', presenceMap[Me], wanted)
            BY <1>0, <3>1, <3>3, ToldAppend
        <3> QED BY <1>4, <2>1, <2>2, <2>7, <3>1, <3>2, <3>4 DEF Arrived
    <2> QED BY <2>2, <2>4, <2>5, <2>6, <2>7
<1>18. CASE Receive
    <2> DEFINE msg == Head(in)
    <2>1. /\ in # <<>> /\ in' = Tail(in) /\ Same
          /\ UNCHANGED <<chan, subscribed, wanted, out, member, srvPresence>>
        BY <1>2, <1>18 DEF Receive, chanVars, srvVars, histVars
    <2>2. subscribed
        BY <2>1 DEF LifeInv, NotJoined
    <2>3. presenceMap'[Me] = IF Concerns(msg, Me) THEN Says(msg, Me) ELSE presenceMap[Me]
        BY <1>0, <1>18, <2>2, ReceivedPresence
    <2>4. Told(in, presenceMap[Me], wanted) => Told(in', presenceMap'[Me], wanted)
        BY <1>0, <2>1, <2>3, ToldTail
    <2> QED BY <1>4, <2>1, <2>4 DEF Arrived
<1>19. ASSUME NEW q \in Others, OtherActs(q) PROVE Goal
    <2>1. /\ Same /\ UNCHANGED <<chan, subscribed, wanted, out, member, presenceMap>>
          /\ q \in Peers /\ q # Me
        BY <1>2, <1>19 DEF OtherActs, chanVars, presVars, Peers, ChannelConstants
    <2>2. ASSUME NEW m \in InMsgs, ToMe(m), ~Concerns(m, Me), srvPresence'[Me] = srvPresence[Me]
          PROVE  Goal
        <3>1. ~IsOwn(m)
            BY <2>2 DEF IsOwn, Concerns
        <3>2. Told(in, presenceMap[Me], wanted) => Told(in', presenceMap[Me], wanted)
            BY <1>0, <2>2, <3>1, ToldAppend DEF ToMe
        <3> QED BY <1>4, <2>1, <2>2, <3>2 DEF Arrived
    <2>3. ASSUME NEW v \in Values, srvPresence' = [srvPresence EXCEPT ![q] = v], ToMe(State(q, v))
          PROVE  Goal
        <3>1. State(q, v) \in InMsgs
            BY <2>1, MessageTypes
        <3>2. ~Concerns(State(q, v), Me)
            BY <2>1 DEF State, Concerns
        <3>3. srvPresence'[Me] = srvPresence[Me]
            BY <1>0, <2>1, <2>3
        <3> QED BY <2>2, <2>3, <3>1, <3>2, <3>3
    <2>4. ASSUME srvPresence' = [srvPresence EXCEPT ![q] = 0],
                 ToMe([type |-> "peer-left", peer |-> q])
          PROVE  Goal
        <3>1. [type |-> "peer-left", peer |-> q] \in InMsgs
            BY MessageTypes
        <3>2. ~Concerns([type |-> "peer-left", peer |-> q], Me)
            BY <2>1 DEF Concerns
        <3>3. srvPresence'[Me] = srvPresence[Me]
            BY <1>0, <2>1, <2>4
        <3> QED BY <2>2, <2>4, <3>1, <3>2, <3>3
    <2>5. ASSUME next <= MaxChats, ToMe(ChatMsg(next)), UNCHANGED srvPresence
          PROVE  Goal
        <3>1. next \in Chats
            BY <2>5 DEF TypeOK, Chats, ChannelConstants
        <3>2. ChatMsg(next) \in InMsgs /\ ~Concerns(ChatMsg(next), Me)
            BY <3>1, MessageTypes DEF ChatMsg, Concerns
        <3> QED BY <2>2, <2>5, <3>2
    <2> QED BY <1>19, <2>3, <2>4, <2>5 DEF OtherActs
<1>20. CASE UNCHANGED vars
    BY <1>2, <1>3, <1>20 DEF vars, chanVars, presVars, srvVars, histVars
<1> QED BY <1>6, <1>7, <1>8, <1>9, <1>10, <1>11, <1>12, <1>13, <1>14, <1>15, <1>16, <1>17, <1>18,
           <1>19, <1>20 DEF Next

\* An attribute whose echo came back before the connection was lost is what the others see
\* after the reconnect (resyncPresence).
THEOREM AttributeSurvives == Spec => []EchoedPresenceSurvives
<1>1. Init => LifeInv /\ AttributeInv
    <2> SUFFICES ASSUME Init PROVE LifeInv /\ AttributeInv
        OBVIOUS
    <2>1. Me \in Peers /\ NobodySet[Me] = 0
        BY DEF Peers, NobodySet
    <2>2. ~Has(out, "join") /\ ~Has(out, "leave") /\ ~Has(out, "presence-update")
        BY DEF Init, Has
    <2>3. LifeInv
        BY <2>1, <2>2 DEF Init, LifeInv, NotJoined, InUse
    <2>4. Written(out, member, wanted) /\ Told(in, presenceMap[Me], wanted)
        BY <2>1 DEF Init, Written, Told
    <2>5. AttributeInv
        BY <2>1, <2>2, <2>4 DEF Init, AttributeInv, Arrived
    <2> QED BY <2>3, <2>5
<1>2. TypeOK /\ LifeInv /\ AttributeInv /\ [Next]_vars => LifeInv' /\ AttributeInv'
    BY LifeStep, AttributeStep, ChannelConstants
<1>3. AttributeInv => EchoedPresenceSurvives
    <2> SUFFICES ASSUME AttributeInv, subscribed, member, out = <<>>, ~unsure
                 PROVE  srvPresence[Me] = wanted
        BY DEF EchoedPresenceSurvives, Settled
    <2>1. ~Has(out, "presence-update")
        BY DEF Has
    <2> QED BY <2>1 DEF AttributeInv, Arrived, InUse
<1> QED BY <1>1, <1>2, <1>3, ChannelTypes, PTL DEF Spec

-----------------------------------------------------------------------------
\* Chat: where a chat may be, on its way, in the log and in the buffer.

\* A message of `list` carries chat n; no two carry the same.
Carries(list, n) == \E i \in DOMAIN list : list[i].type = "chat" /\ list[i].chat = n
Once(list) ==
    \A i, j \in DOMAIN list :
      list[i].type = "chat" /\ list[j].type = "chat" /\ list[i].chat = list[j].chat => i = j

NoRepeat(list) == \A i, j \in DOMAIN list : list[i] = list[j] => i = j

\* A history of `list` has chat n; there is only one, without repetition.
Replayed(list, n) ==
    \E i \in DOMAIN list : list[i].type = "chat-history" /\ n \in ToSet(list[i].chats)
OneHistory(list) ==
    \A i \in DOMAIN list : list[i].type = "chat-history" =>
      /\ NoRepeat(list[i].chats)
      /\ \A j \in DOMAIN list : list[j].type = "chat-history" => i = j

\* A join of `list` asks for the history; it is the first join.
Replays(list) == \E i \in DOMAIN list : list[i].type = "join" /\ list[i].replay
ReplayFirst(list) ==
    \A i \in DOMAIN list : list[i].type = "join" /\ list[i].replay =>
      \A j \in DOMAIN list : j < i => list[j].type # "join"

\* An entry of the buffer has chat n, made by me or on receipt; at most one of each.
Shows(entries, n, copy) ==
    \E i \in DOMAIN entries : entries[i].chat = n /\ entries[i].copy = copy
Apart(entries) ==
    \A i, j \in DOMAIN entries :
      i # j /\ entries[i].chat = entries[j].chat => entries[i].copy # entries[j].copy

\* One message more.
LEMMA CarriesAppend ==
    ASSUME NEW S, NEW list \in Seq(S), NEW m \in S
    PROVE  /\ \A n : Carries(Append(list, m), n) <=> Carries(list, n) \/ (m.type = "chat" /\ m.chat = n)
           /\ Once(list) /\ (m.type = "chat" => ~Carries(list, m.chat)) => Once(Append(list, m))
           /\ \A n : Replayed(Append(list, m), n)
                       <=> Replayed(list, n) \/ (m.type = "chat-history" /\ n \in ToSet(m.chats))
           /\ OneHistory(list) /\ (m.type = "chat-history" => NoRepeat(m.chats) /\ ~Has(list, "chat-history"))
                => OneHistory(Append(list, m))
           /\ m.type # "join" \/ ~m.replay =>
                /\ Replays(Append(list, m)) <=> Replays(list)
                /\ ReplayFirst(list) => ReplayFirst(Append(list, m))
           /\ ~Has(list, "join") => ReplayFirst(Append(list, m))
<1> DEFINE r == Append(list, m)
<1>1. /\ DOMAIN list = 1..Len(list) /\ Len(list) \in Nat /\ DOMAIN r = 1..(Len(list) + 1)
      /\ \A i \in DOMAIN list : r[i] = list[i]
      /\ r[Len(list) + 1] = m
      /\ \A i \in DOMAIN r : i \in DOMAIN list \/ i = Len(list) + 1
    BY AppendFacts
<1> HIDE DEF r
<1>2. /\ \A i \in DOMAIN list : i \in DOMAIN r /\ r[i] = list[i] /\ i < Len(list) + 1
      /\ Len(list) + 1 \in DOMAIN r
      /\ \A i \in DOMAIN r : \/ i \in DOMAIN list /\ r[i] = list[i]
                             \/ i = Len(list) + 1 /\ r[i] = m
    BY <1>1
<1>3. \A n : Carries(r, n) <=> Carries(list, n) \/ (m.type = "chat" /\ m.chat = n)
    BY <1>1, <1>2 DEF Carries
<1>4. Once(list) /\ (m.type = "chat" => ~Carries(list, m.chat)) => Once(r)
    BY <1>2 DEF Once, Carries
<1>5. \A n : Replayed(r, n) <=> Replayed(list, n) \/ (m.type = "chat-history" /\ n \in ToSet(m.chats))
    BY <1>1, <1>2 DEF Replayed
<1>6. OneHistory(list) /\ (m.type = "chat-history" => NoRepeat(m.chats) /\ ~Has(list, "chat-history"))
        => OneHistory(r)
    BY <1>2 DEF OneHistory, Has
<1>7. m.type # "join" \/ ~m.replay => (Replays(r) <=> Replays(list))
    BY <1>1, <1>2 DEF Replays
<1>8. ASSUME m.type # "join" \/ ~m.replay, ReplayFirst(list) PROVE ReplayFirst(r)
    <2> SUFFICES ASSUME NEW i \in DOMAIN r, r[i].type = "join", r[i].replay,
                        NEW j \in DOMAIN r, j < i
                 PROVE  r[j].type # "join"
        BY DEF ReplayFirst
    <2>1. i \in DOMAIN list /\ r[i] = list[i]
        BY <1>2, <1>8
    <2>2. j \in DOMAIN list /\ r[j] = list[j]
        BY <1>1, <1>2, <2>1
    <2> QED BY <1>8, <2>1, <2>2 DEF ReplayFirst
<1>9. ASSUME ~Has(list, "join") PROVE ReplayFirst(r)
    <2> SUFFICES ASSUME NEW i \in DOMAIN r, r[i].type = "join", NEW j \in DOMAIN r, j < i
                 PROVE  r[j].type # "join"
        BY DEF ReplayFirst
    <2>1. i = Len(list) + 1
        BY <1>2, <1>9 DEF Has
    <2>2. j \in DOMAIN list /\ r[j] = list[j]
        BY <1>1, <1>2, <2>1
    <2> QED BY <1>9, <2>2 DEF Has
<1> QED BY <1>3, <1>4, <1>5, <1>6, <1>7, <1>8, <1>9 DEF r

\* One message less.
LEMMA CarriesTail ==
    ASSUME NEW S, NEW list \in Seq(S), list # <<>>
    PROVE  LET m == Head(list)
               r == Tail(list)
           IN  /\ \A n : Carries(list, n) <=> Carries(r, n) \/ (m.type = "chat" /\ m.chat = n)
               /\ Once(list) => Once(r) /\ (m.type = "chat" => ~Carries(r, m.chat))
               /\ \A n : Replayed(list, n)
                           <=> Replayed(r, n) \/ (m.type = "chat-history" /\ n \in ToSet(m.chats))
               /\ OneHistory(list) =>
                    /\ OneHistory(r)
                    /\ m.type = "chat-history" => NoRepeat(m.chats) /\ \A n : ~Replayed(r, n)
               /\ Replays(list) <=> Replays(r) \/ (m.type = "join" /\ m.replay)
               /\ ReplayFirst(list) => ReplayFirst(r) /\ (m.type = "join" => ~Replays(r))
<1> DEFINE m == Head(list)
           r == Tail(list)
<1>1. /\ m = list[1] /\ 1 \in DOMAIN list
      /\ DOMAIN list \subseteq Int /\ DOMAIN r \subseteq Int
      /\ \A i \in DOMAIN list : i >= 1
      /\ \A i \in DOMAIN r : i >= 1 /\ i + 1 \in DOMAIN list /\ r[i] = list[i + 1]
      /\ \A i \in DOMAIN list : i # 1 => i - 1 \in DOMAIN r /\ r[i - 1] = list[i]
    BY TailFacts
<1> HIDE DEF m, r
<1>2. \A i \in DOMAIN list : \/ i = 1 /\ list[i] = m
                             \/ \E k \in DOMAIN r : i = k + 1 /\ r[k] = list[i]
    <2> TAKE i \in DOMAIN list
    <2>1. CASE i = 1
        BY <1>1, <2>1
    <2>2. CASE i # 1
        <3>1. i - 1 \in DOMAIN r /\ r[i - 1] = list[i] /\ i = (i - 1) + 1
            BY <1>1, <2>2
        <3> QED BY <3>1
    <2> QED BY <2>1, <2>2
<1>3. \A n : Carries(list, n) <=> Carries(r, n) \/ (m.type = "chat" /\ m.chat = n)
    BY <1>1, <1>2 DEF Carries
<1>4. ASSUME Once(list) PROVE Once(r) /\ (m.type = "chat" => ~Carries(r, m.chat))
    <2>1. ASSUME NEW i \in DOMAIN r, NEW j \in DOMAIN r, r[i].type = "chat", r[j].type = "chat",
                 r[i].chat = r[j].chat
          PROVE  i = j
        <3>1. i + 1 = j + 1
            BY <1>1, <1>4, <2>1 DEF Once
        <3> QED BY <1>1, <3>1
    <2>2. ASSUME NEW i \in DOMAIN r, r[i].type = "chat", m.type = "chat", r[i].chat = m.chat
          PROVE  FALSE
        <3>1. i + 1 = 1
            BY <1>1, <1>4, <2>2 DEF Once
        <3> QED BY <1>1, <3>1
    <2> QED BY <2>1, <2>2 DEF Once, Carries
<1>5. \A n : Replayed(list, n) <=> Replayed(r, n) \/ (m.type = "chat-history" /\ n \in ToSet(m.chats))
    <2> TAKE n
    <2>1. Replayed(list, n) => Replayed(r, n) \/ (m.type = "chat-history" /\ n \in ToSet(m.chats))
        BY <1>2 DEF Replayed
    <2>2. Replayed(r, n) => Replayed(list, n)
        BY <1>1 DEF Replayed
    <2>3. m.type = "chat-history" /\ n \in ToSet(m.chats) => Replayed(list, n)
        BY <1>1 DEF Replayed
    <2> QED BY <2>1, <2>2, <2>3
<1>6. ASSUME OneHistory(list)
      PROVE  /\ OneHistory(r)
             /\ m.type = "chat-history" => NoRepeat(m.chats) /\ \A n : ~Replayed(r, n)
    <2>1. ASSUME NEW i \in DOMAIN r, r[i].type = "chat-history"
          PROVE  /\ NoRepeat(r[i].chats)
                 /\ m.type # "chat-history"
                 /\ \A j \in DOMAIN r : r[j].type = "chat-history" => i = j
        <3>1. i + 1 \in DOMAIN list /\ r[i] = list[i + 1] /\ i + 1 # 1
            BY <1>1
        <3>2. ASSUME NEW j \in DOMAIN r, r[j].type = "chat-history" PROVE i = j
            <4>1. j + 1 \in DOMAIN list /\ list[j + 1].type = "chat-history"
                BY <1>1, <3>2
            <4>2. i + 1 = j + 1
                BY <1>6, <2>1, <3>1, <4>1 DEF OneHistory
            <4> QED BY <1>1, <4>2
        <3> QED BY <1>1, <1>6, <2>1, <3>1, <3>2 DEF OneHistory
    <2>2. m.type = "chat-history" => NoRepeat(m.chats)
        BY <1>1, <1>6 DEF OneHistory
    <2> QED BY <2>1, <2>2 DEF OneHistory, Replayed
<1>7. Replays(list) <=> Replays(r) \/ (m.type = "join" /\ m.replay)
    <2>1. Replays(list) => Replays(r) \/ (m.type = "join" /\ m.replay)
        BY <1>2 DEF Replays
    <2>2. Replays(r) \/ (m.type = "join" /\ m.replay) => Replays(list)
        BY <1>1 DEF Replays
    <2> QED BY <2>1, <2>2
<1>8. ASSUME ReplayFirst(list) PROVE ReplayFirst(r) /\ (m.type = "join" => ~Replays(r))
    <2>1. ASSUME NEW i \in DOMAIN r, r[i].type = "join", r[i].replay
          PROVE  m.type # "join" /\ \A j \in DOMAIN r : j < i => r[j].type # "join"
        <3>1. i + 1 \in DOMAIN list /\ r[i] = list[i + 1] /\ 1 < i + 1
            BY <1>1
        <3>2. ASSUME NEW j \in DOMAIN r, j < i PROVE r[j].type # "join"
            <4>1. j + 1 \in DOMAIN list /\ list[j + 1] = r[j] /\ j + 1 < i + 1
                BY <1>1, <3>2
            <4> QED BY <1>8, <2>1, <3>1, <4>1 DEF ReplayFirst
        <3> QED BY <1>1, <1>8, <2>1, <3>1, <3>2 DEF ReplayFirst
    <2> QED BY <2>1 DEF ReplayFirst, Replays
<1> QED BY <1>3, <1>4, <1>5, <1>6, <1>7, <1>8 DEF m, r

\* One chat more in the log.
LEMMA LogAppend ==
    ASSUME NEW list \in Seq(Chats), NEW n \in Chats
    PROVE  /\ ToSet(Append(list, n)) = ToSet(list) \cup {n}
           /\ NoRepeat(list) /\ n \notin ToSet(list) => NoRepeat(Append(list, n))
<1> DEFINE r == Append(list, n)
<1>1. /\ DOMAIN list = 1..Len(list) /\ Len(list) \in Nat /\ DOMAIN r = 1..(Len(list) + 1)
      /\ \A i \in DOMAIN list : r[i] = list[i]
      /\ r[Len(list) + 1] = n
      /\ \A i \in DOMAIN r : i \in DOMAIN list \/ i = Len(list) + 1
    BY AppendFacts
<1> HIDE DEF r
<1>2. /\ \A i \in DOMAIN list : i \in DOMAIN r /\ r[i] = list[i]
      /\ Len(list) + 1 \in DOMAIN r
      /\ \A i \in DOMAIN r : \/ i \in DOMAIN list /\ r[i] = list[i]
                             \/ i = Len(list) + 1 /\ r[i] = n
    BY <1>1
<1>3. ToSet(r) = ToSet(list) \cup {n}
    BY <1>1, <1>2 DEF ToSet
<1>4. NoRepeat(list) /\ n \notin ToSet(list) => NoRepeat(r)
    BY <1>2 DEF NoRepeat, ToSet
<1> QED BY <1>3, <1>4 DEF r

\* Trimming shows nothing new.
LEMMA TrimmedShows ==
    ASSUME ChannelConstants, NEW b \in Seq(Entries)
    PROVE  /\ \A n, copy : Shows(Trimmed(b), n, copy) => Shows(b, n, copy)
           /\ Apart(b) => Apart(Trimmed(b))
<1> DEFINE r == Trimmed(b)
<1>1. PICK d \in Nat : \A i \in DOMAIN r : i + d \in DOMAIN b /\ r[i] = b[i + d]
    BY TrimmedFacts
<1>2. r \in Seq(Entries) /\ DOMAIN r \subseteq Int
    BY TrimmedFacts
<1> HIDE DEF r
<1>3. \A n, copy : Shows(r, n, copy) => Shows(b, n, copy)
    BY <1>1 DEF Shows
<1>4. ASSUME Apart(b) PROVE Apart(r)
    <2> SUFFICES ASSUME NEW i \in DOMAIN r, NEW j \in DOMAIN r, i # j, r[i].chat = r[j].chat
                 PROVE  r[i].copy # r[j].copy
        BY DEF Apart
    <2>1. i + d \in DOMAIN b /\ j + d \in DOMAIN b /\ r[i] = b[i + d] /\ r[j] = b[j + d]
        BY <1>1
    <2>2. i + d # j + d
        BY <1>1, <1>2
    <2> QED BY <1>4, <2>1, <2>2 DEF Apart
<1> QED BY <1>3, <1>4 DEF r

\* A chat more in the buffer (sendChat, applyChat).
LEMMA EntryAppended ==
    ASSUME ChannelConstants, NEW b \in Seq(Entries), NEW e \in Entries
    PROVE  LET r == Trimmed(Append(b, e))
           IN  /\ \A n, copy : Shows(r, n, copy) => Shows(b, n, copy) \/ (e.chat = n /\ e.copy = copy)
               /\ Apart(b) /\ ~Shows(b, e.chat, e.copy) => Apart(r)
<1> DEFINE a == Append(b, e)
<1>1. /\ a \in Seq(Entries)
      /\ \A i \in DOMAIN a : i \in DOMAIN b \/ i = Len(b) + 1
      /\ \A i \in DOMAIN b : a[i] = b[i]
      /\ a[Len(b) + 1] = e
    BY AppendFacts
<1> HIDE DEF a
<1>2. \A n, copy : Shows(a, n, copy) => Shows(b, n, copy) \/ (e.chat = n /\ e.copy = copy)
    BY <1>1 DEF Shows
<1>3. ASSUME Apart(b), ~Shows(b, e.chat, e.copy) PROVE Apart(a)
    <2> SUFFICES ASSUME NEW i \in DOMAIN a, NEW j \in DOMAIN a, i # j, a[i].chat = a[j].chat
                 PROVE  a[i].copy # a[j].copy
        BY DEF Apart
    <2>1. CASE i \in DOMAIN b /\ j \in DOMAIN b
        BY <1>1, <1>3, <2>1 DEF Apart
    <2>2. CASE i = Len(b) + 1 /\ j \in DOMAIN b
        BY <1>1, <1>3, <2>2 DEF Shows
    <2>3. CASE j = Len(b) + 1 /\ i \in DOMAIN b
        BY <1>1, <1>3, <2>3 DEF Shows
    <2> QED BY <1>1, <2>1, <2>2, <2>3
<1> QED BY <1>1, <1>2, <1>3, TrimmedShows DEF a

\* Copies before the buffer.
LEMMA CopiesBefore ==
    ASSUME NEW list \in Seq(Chats), NEW h \in Seq(Entries), NEW b \in Seq(Entries),
           DOMAIN h = DOMAIN list, \A i \in DOMAIN h : h[i].chat = list[i] /\ h[i].copy = TRUE
    PROVE  /\ h \o b \in Seq(Entries)
           /\ \A n, copy : Shows(h \o b, n, copy)
                            => Shows(b, n, copy) \/ (copy = TRUE /\ n \in ToSet(list))
           /\ Apart(b) /\ NoRepeat(list) /\ (\A n \in ToSet(list) : ~Shows(b, n, TRUE))
                => Apart(h \o b)
<1> DEFINE a == h \o b
<1>1. /\ a \in Seq(Entries) /\ DOMAIN a = 1..(Len(h) + Len(b)) /\ Len(h) \in Nat
      /\ \A i \in DOMAIN h : i \in DOMAIN a /\ a[i] = h[i]
      /\ \A i \in DOMAIN b : Len(h) + i \in DOMAIN a /\ a[Len(h) + i] = b[i]
      /\ \A i \in DOMAIN a : i \in DOMAIN h \/ i - Len(h) \in DOMAIN b
    BY ConcatFacts
<1> HIDE DEF a
<1>2. \A i \in DOMAIN a : \/ i \in DOMAIN h /\ a[i].chat = list[i] /\ a[i].copy = TRUE
                          \/ i - Len(h) \in DOMAIN b /\ a[i] = b[i - Len(h)]
    <2> SUFFICES ASSUME NEW i \in DOMAIN a, i \notin DOMAIN h
                 PROVE  i - Len(h) \in DOMAIN b /\ a[i] = b[i - Len(h)]
        BY <1>1
    <2>1. i - Len(h) \in DOMAIN b /\ Len(h) + (i - Len(h)) = i
        BY <1>1
    <2> QED BY <1>1, <2>1
<1>3. \A n, copy : Shows(a, n, copy) => Shows(b, n, copy) \/ (copy = TRUE /\ n \in ToSet(list))
    BY <1>2 DEF Shows, ToSet
<1>4. ASSUME Apart(b), NoRepeat(list), \A n \in ToSet(list) : ~Shows(b, n, TRUE)
      PROVE  Apart(a)
    <2> SUFFICES ASSUME NEW i \in DOMAIN a, NEW j \in DOMAIN a, i # j, a[i].chat = a[j].chat
                 PROVE  a[i].copy # a[j].copy
        BY DEF Apart
    <2>1. ASSUME NEW k \in DOMAIN a, NEW l \in DOMAIN a, k \in DOMAIN h, a[k].chat = list[k],
                 a[k].copy = TRUE, l - Len(h) \in DOMAIN b, a[l] = b[l - Len(h)],
                 a[k].chat = a[l].chat
          PROVE  a[l].copy # TRUE
        <3>1. list[k] \in ToSet(list)
            BY <2>1 DEF ToSet
        <3> QED BY <1>4, <2>1, <3>1 DEF Shows
    <2>2. CASE i \in DOMAIN h /\ a[i].chat = list[i] /\ j \in DOMAIN h /\ a[j].chat = list[j]
        BY <1>4, <2>2 DEF NoRepeat
    <2>3. CASE /\ i - Len(h) \in DOMAIN b /\ a[i] = b[i - Len(h)]
               /\ j - Len(h) \in DOMAIN b /\ a[j] = b[j - Len(h)]
        <3>1. i - Len(h) # j - Len(h)
            BY <1>1
        <3> QED BY <1>4, <2>3, <3>1 DEF Apart
    <2>4. CASE /\ i \in DOMAIN h /\ a[i].chat = list[i] /\ a[i].copy = TRUE
               /\ j - Len(h) \in DOMAIN b /\ a[j] = b[j - Len(h)]
        BY <2>1, <2>4
    <2>5. CASE /\ j \in DOMAIN h /\ a[j].chat = list[j] /\ a[j].copy = TRUE
               /\ i - Len(h) \in DOMAIN b /\ a[i] = b[i - Len(h)]
        BY <2>1, <2>5
    <2> QED BY <1>2, <2>2, <2>3, <2>4, <2>5
<1> QED BY <1>1, <1>3, <1>4 DEF a

\* A history before the buffer (applyChatHistory).
LEMMA HistoryPrepended ==
    ASSUME ChannelConstants, NEW b \in Seq(Entries), NEW list \in Seq(Chats)
    PROVE  LET r == Trimmed([i \in DOMAIN list |-> [chat |-> list[i], copy |-> TRUE]] \o b)
           IN  /\ \A n, copy : Shows(r, n, copy)
                                => Shows(b, n, copy) \/ (copy = TRUE /\ n \in ToSet(list))
               /\ Apart(b) /\ NoRepeat(list) /\ (\A n \in ToSet(list) : ~Shows(b, n, TRUE))
                    => Apart(r)
<1> DEFINE h == [i \in DOMAIN list |-> [chat |-> list[i], copy |-> TRUE]]
           a == h \o b
<1>1. /\ h \in Seq(Entries) /\ DOMAIN h = DOMAIN list
      /\ \A i \in DOMAIN h : h[i].chat = list[i] /\ h[i].copy = TRUE
    BY CopiesFacts
<1> HIDE DEF h
<1>2. /\ a \in Seq(Entries)
      /\ \A n, copy : Shows(a, n, copy) => Shows(b, n, copy) \/ (copy = TRUE /\ n \in ToSet(list))
      /\ Apart(b) /\ NoRepeat(list) /\ (\A n \in ToSet(list) : ~Shows(b, n, TRUE)) => Apart(a)
    BY <1>1, CopiesBefore
<1> HIDE DEF a
<1>3. /\ \A n, copy : Shows(Trimmed(a), n, copy)
                       => Shows(b, n, copy) \/ (copy = TRUE /\ n \in ToSet(list))
      /\ Apart(b) /\ NoRepeat(list) /\ (\A n \in ToSet(list) : ~Shows(b, n, TRUE))
           => Apart(Trimmed(a))
    BY <1>2, TrimmedShows
<1> QED BY <1>3 DEF a, h

-----------------------------------------------------------------------------
\* What holds of a chat wherever it is; `accepted` are the chats in the server's log.

\* Nobody has said the chats from `from` on.
Unsaid(from, stat, accepted, list) ==
    \A n \in Chats : n >= from => stat[n] = "none" /\ n \notin accepted /\ ~Carries(list, n)

\* What is on its way to the server is mine, and not accepted yet.
Underway(stat, accepted, list) ==
    /\ Once(list)
    /\ \A n \in Chats : Carries(list, n) => stat[n] # "none" /\ n \notin accepted

\* A copy shown is an accepted chat that is not mine, or that I had given up.
Shown(stat, accepted, entries) ==
    /\ Apart(entries)
    /\ \A n \in Chats :
         /\ Shows(entries, n, TRUE) => n \in accepted /\ stat[n] \in {"none", "failed"}
         /\ Shows(entries, n, FALSE) => stat[n] # "none"

\* What comes back is accepted, and neither confirmed nor copied yet.
Coming(stat, accepted, entries, list) ==
    /\ Once(list)
    /\ \A n \in Chats : Carries(list, n) =>
         n \in accepted /\ stat[n] # "confirmed" /\ ~Shows(entries, n, TRUE)

\* A history that comes has chats of others, not shown and not coming besides.
Replaying(stat, accepted, entries, list) ==
    /\ OneHistory(list)
    /\ \A n \in Chats : Replayed(list, n) =>
         /\ n \in accepted /\ stat[n] = "none"
         /\ ~Shows(entries, n, TRUE) /\ ~Carries(list, n)

\* I have not joined yet: nothing came, and none of my chats was accepted.
Blank(stat, accepted, entries, list, joined) ==
    /\ ~joined /\ list = <<>>
    /\ \A n \in Chats : ~Shows(entries, n, TRUE) /\ (n \in accepted => stat[n] = "none")

ChatInv ==
    /\ NoRepeat(log)
    /\ \A n \in Chats : status[n] = "confirmed" => n \in ToSet(log)
    /\ Unsaid(next, status, ToSet(log), out)
    /\ Underway(status, ToSet(log), out)
    /\ Shown(status, ToSet(log), buffer)
    /\ InUse =>
        /\ timers = {n \in Chats : status[n] = "pending"}
        /\ Coming(status, ToSet(log), buffer, in)
        /\ Replaying(status, ToSet(log), buffer, in)
        /\ ReplayFirst(out)
        /\ chan \in {"idle", "connecting"} \/ Replays(out) =>
             Blank(status, ToSet(log), buffer, in, member)

\* The same of the next state.
LEMMA ChatPrimed ==
    ASSUME NoRepeat(log'),
           \A n \in Chats : status'[n] = "confirmed" => n \in ToSet(log'),
           Unsaid(next', status', ToSet(log'), out'),
           Underway(status', ToSet(log'), out'),
           Shown(status', ToSet(log'), buffer'),
           InUse' =>
             /\ timers' = {n \in Chats : status'[n] = "pending"}
             /\ Coming(status', ToSet(log'), buffer', in')
             /\ Replaying(status', ToSet(log'), buffer', in')
             /\ ReplayFirst(out')
             /\ chan' \in {"idle", "connecting"} \/ Replays(out') =>
                  Blank(status', ToSet(log'), buffer', in', member')
    PROVE  ChatInv'
<1>1. NoRepeat(log)' /\ (\A n \in Chats : status[n] = "confirmed" => n \in ToSet(log))'
    BY DEF NoRepeat, ToSet
<1>2. Unsaid(next, status, ToSet(log), out)' /\ Underway(status, ToSet(log), out)'
    BY DEF Unsaid, Underway, ToSet, Carries, Once
<1>3. Shown(status, ToSet(log), buffer)'
    BY DEF Shown, ToSet, Shows, Apart
<1>4. InUse' => (Coming(status, ToSet(log), buffer, in)' /\ Replaying(status, ToSet(log), buffer, in)')
    BY DEF Coming, Replaying, ToSet, Shows, Carries, Once, Replayed, OneHistory, NoRepeat
<1>5. InUse' => ReplayFirst(out)'
    BY DEF ReplayFirst
<1>6. Replays(out)' <=> Replays(out')
    BY DEF Replays
<1>7. InUse' => (chan' \in {"idle", "connecting"} \/ Replays(out') =>
                  Blank(status, ToSet(log), buffer, in, member)')
    BY DEF Blank, ToSet, Shows
<1> QED BY <1>1, <1>2, <1>3, <1>4, <1>5, <1>6, <1>7 DEF ChatInv

\* A pending chat that fails is still where it was.
LEMMA FailsAlone ==
    ASSUME NEW before, NEW after, NEW accepted,
           \A n \in Chats : after[n] = before[n] \/ (before[n] = "pending" /\ after[n] = "failed")
    PROVE  /\ \A from, list : Unsaid(from, before, accepted, list) => Unsaid(from, after, accepted, list)
           /\ \A list : Underway(before, accepted, list) => Underway(after, accepted, list)
           /\ \A entries : Shown(before, accepted, entries) => Shown(after, accepted, entries)
           /\ \A entries, list : Coming(before, accepted, entries, list)
                                 => Coming(after, accepted, entries, list)
           /\ \A entries, list : Replaying(before, accepted, entries, list)
                                 => Replaying(after, accepted, entries, list)
           /\ \A entries, list, joined : Blank(before, accepted, entries, list, joined)
                                         => Blank(after, accepted, entries, list, joined)
<1>1. \A n \in Chats : /\ before[n] = "none" => after[n] = "none"
                       /\ before[n] # "none" => after[n] # "none"
                       /\ before[n] # "confirmed" => after[n] # "confirmed"
                       /\ before[n] \in {"none", "failed"} => after[n] \in {"none", "failed"}
    OBVIOUS
<1>2. /\ \A from, list : Unsaid(from, before, accepted, list) => Unsaid(from, after, accepted, list)
      /\ \A list : Underway(before, accepted, list) => Underway(after, accepted, list)
    BY <1>1 DEF Unsaid, Underway
<1>3. \A entries : Shown(before, accepted, entries) => Shown(after, accepted, entries)
    BY <1>1 DEF Shown
<1>4. \A entries, list : Coming(before, accepted, entries, list) => Coming(after, accepted, entries, list)
    BY <1>1 DEF Coming
<1>5. \A entries, list : Replaying(before, accepted, entries, list)
                         => Replaying(after, accepted, entries, list)
    BY <1>1 DEF Replaying
<1>6. \A entries, list, joined : Blank(before, accepted, entries, list, joined)
                                 => Blank(after, accepted, entries, list, joined)
    BY <1>1 DEF Blank
<1> QED BY <1>2, <1>3, <1>4, <1>5, <1>6

\* handleSessionFailure gives up the pending chats and their timers.
LEMMA SessionFailsChats ==
    ASSUME TypeOK, SessionFails
    PROVE  /\ \A n \in Chats : \/ status'[n] = status[n]
                               \/ status[n] = "pending" /\ status'[n] = "failed"
           /\ timers = {n \in Chats : status[n] = "pending"}
                => timers' = {n \in Chats : status'[n] = "pending"}
<1>1. CASE chan = "closed"
    BY <1>1 DEF SessionFails
<1>2. CASE chan # "closed"
    <2>1. status' = PendingFailed /\ timers' = timers \ {n \in Chats : status[n] = "pending"}
        BY <1>2 DEF SessionFails
    <2>2. \A n \in Chats : status'[n] = IF status[n] = "pending" THEN "failed" ELSE status[n]
        BY <2>1 DEF PendingFailed
    <2> QED BY <2>1, <2>2
<1> QED BY <1>1, <1>2

\* What changes nothing in `out` but what is not a chat.
LEMMA Quiet ==
    ASSUME NEW list, NEW longer, Once(list) => Once(longer),
           \A n : Carries(longer, n) => Carries(list, n)
    PROVE  /\ \A from, stat, accepted : Unsaid(from, stat, accepted, list)
                                        => Unsaid(from, stat, accepted, longer)
           /\ \A stat, accepted : Underway(stat, accepted, list) => Underway(stat, accepted, longer)
    BY DEF Unsaid, Underway

\* A reconnect sends no chat and asks for no history.
LEMMA ReconnectedChats ==
    ASSUME ChannelConstants, TypeOK, Reconnected
    PROVE  /\ Once(out) => Once(out')
           /\ \A n : Carries(out', n) <=> Carries(out, n)
           /\ Replays(out') <=> Replays(out)
           /\ ReplayFirst(out) => ReplayFirst(out')
<1> DEFINE j == JoinMsg(FALSE)
           u == SetMsg(presenceMap[Me])
           joining == Append(out, j)
<1>1. /\ out \in Seq(OutMsgs) /\ j \in OutMsgs /\ u \in OutMsgs
      /\ joining \in Seq(OutMsgs) /\ out' \in {joining, Append(joining, u)}
    BY ReconnectedForm DEF TypeOK
<1>2. j.type = "join" /\ j.replay = FALSE /\ u.type = "presence-update"
    BY DEF JoinMsg, SetMsg
<1> HIDE DEF j, u
<1>3. /\ Once(out) => Once(joining)
      /\ \A n : Carries(joining, n) <=> Carries(out, n)
      /\ Replays(joining) <=> Replays(out)
      /\ ReplayFirst(out) => ReplayFirst(joining)
    BY <1>1, <1>2, CarriesAppend
<1> HIDE DEF joining
<1>4. /\ Once(joining) => Once(Append(joining, u))
      /\ \A n : Carries(Append(joining, u), n) <=> Carries(joining, n)
      /\ Replays(Append(joining, u)) <=> Replays(joining)
      /\ ReplayFirst(joining) => ReplayFirst(Append(joining, u))
    BY <1>1, <1>2, CarriesAppend
<1> QED BY <1>1, <1>3, <1>4

\* A step that sends no chat, hears none and shows none.
LEMMA ChatsStill ==
    ASSUME ChatInv, UNCHANGED <<next, buffer, log>>,
           \A n \in Chats : status'[n] = status[n] \/ (status[n] = "pending" /\ status'[n] = "failed"),
           Once(out) => Once(out'), \A n : Carries(out', n) => Carries(out, n),
           InUse' => /\ InUse
                     /\ timers' = {n \in Chats : status'[n] = "pending"}
                     /\ in' \in {in, <<>>}
                     /\ ReplayFirst(out')
                     /\ chan' \in {"idle", "connecting"} \/ Replays(out') =>
                          ~member' /\ (chan \in {"idle", "connecting"} \/ Replays(out))
    PROVE  ChatInv'
<1>1. /\ NoRepeat(log')
      /\ \A n \in Chats : status'[n] = "confirmed" => n \in ToSet(log')
    BY DEF ChatInv
<1>2. Unsaid(next', status', ToSet(log'), out') /\ Underway(status', ToSet(log'), out')
    <2>1. Unsaid(next, status, ToSet(log), out) /\ Underway(status, ToSet(log), out)
        BY DEF ChatInv
    <2>2. Unsaid(next, status', ToSet(log), out) /\ Underway(status', ToSet(log), out)
        BY <2>1, FailsAlone
    <2>3. Unsaid(next, status', ToSet(log), out') /\ Underway(status', ToSet(log), out')
        BY <2>2, Quiet
    <2> QED BY <2>3
<1>3. Shown(status', ToSet(log'), buffer')
    <2>1. Shown(status', ToSet(log), buffer)
        BY FailsAlone DEF ChatInv
    <2> QED BY <2>1
<1>4. ASSUME InUse'
      PROVE  /\ Coming(status', ToSet(log'), buffer', in')
             /\ Replaying(status', ToSet(log'), buffer', in')
             /\ chan' \in {"idle", "connecting"} \/ Replays(out') =>
                  Blank(status', ToSet(log'), buffer', in', member')
    <2>1. /\ Coming(status', ToSet(log), buffer, in)
          /\ Replaying(status', ToSet(log), buffer, in)
        BY <1>4, FailsAlone DEF ChatInv
    <2>2. /\ Coming(status', ToSet(log), buffer, <<>>)
          /\ Replaying(status', ToSet(log), buffer, <<>>)
        BY DEF Coming, Replaying, Once, Carries, OneHistory, Replayed
    <2>3. ASSUME chan' \in {"idle", "connecting"} \/ Replays(out')
          PROVE  Blank(status', ToSet(log'), buffer', in', member')
        <3>1. Blank(status, ToSet(log), buffer, in, member)
            BY <1>4, <2>3 DEF ChatInv
        <3>2. Blank(status', ToSet(log), buffer, in, member)
            BY <3>1, FailsAlone
        <3> QED BY <1>4, <2>3, <3>2 DEF Blank
    <2> QED BY <1>4, <2>1, <2>2, <2>3
<1> QED BY <1>1, <1>2, <1>3, <1>4, ChatPrimed

\* Chat: sendChat.
LEMMA SendChatStep ==
    ASSUME ChannelConstants, TypeOK, ChatInv, SendChat
    PROVE  ChatInv'
<1> DEFINE e == [chat |-> next, copy |-> FALSE]
<1>1. /\ next \in Chats /\ next' = next + 1 /\ buffer' = Trimmed(Append(buffer, e))
      /\ out' = Append(out, ChatMsg(next))
      /\ UNCHANGED <<chan, subscribed, in, member, log>> /\ InUse /\ InUse'
      /\ e \in Entries /\ e.chat = next /\ e.copy = FALSE
    BY DEF SendChat, TypeOK, Chats, ChannelConstants, chanVars, srvVars, InUse, Entries
<1>2. /\ status' = [status EXCEPT ![next] = "pending"] /\ timers' = timers \cup {next}
      /\ status'[next] = "pending" /\ \A n \in Chats : n # next => status'[n] = status[n]
    BY <1>1 DEF SendChat, TypeOK
<1> HIDE DEF e
<1>3. /\ out \in Seq(OutMsgs) /\ buffer \in Seq(Entries)
      /\ ChatMsg(next) \in OutMsgs /\ ChatMsg(next).type = "chat" /\ ChatMsg(next).chat = next
    BY <1>1, MessageTypes DEF TypeOK, ChatMsg
<1>4. status[next] = "none" /\ next \notin ToSet(log) /\ ~Carries(out, next)
    BY <1>1 DEF ChatInv, Unsaid, Chats
<1>5. /\ Once(out) => Once(out')
      /\ \A n : Carries(out', n) <=> Carries(out, n) \/ n = next
      /\ Replays(out') <=> Replays(out)
      /\ ReplayFirst(out) => ReplayFirst(out')
    BY <1>1, <1>3, <1>4, CarriesAppend
<1>6. ~Shows(buffer, next, FALSE) /\ ~Shows(buffer, next, TRUE)
    BY <1>1, <1>4 DEF ChatInv, Shown
<1>7. /\ \A n, copy : Shows(buffer', n, copy) => Shows(buffer, n, copy) \/ (n = next /\ copy = FALSE)
      /\ Apart(buffer) => Apart(buffer')
    <2> DEFINE r == Trimmed(Append(buffer, e))
    <2>1. /\ \A n, copy : Shows(r, n, copy) => Shows(buffer, n, copy) \/ (e.chat = n /\ e.copy = copy)
          /\ Apart(buffer) /\ ~Shows(buffer, e.chat, e.copy) => Apart(r)
        BY <1>1, <1>3, EntryAppended
    <2> HIDE DEF r
    <2>2. buffer' = r
        BY <1>1 DEF r
    <2> QED BY <1>1, <1>6, <2>1, <2>2
<1>8. /\ NoRepeat(log')
      /\ \A n \in Chats : status'[n] = "confirmed" => n \in ToSet(log')
    BY <1>1, <1>2 DEF ChatInv
<1>9. Unsaid(next', status', ToSet(log'), out')
    <2>1. \A n \in Chats : n >= next + 1 => n >= next /\ n # next
        BY <1>1 DEF Chats
    <2> QED BY <1>1, <1>2, <1>5, <2>1 DEF ChatInv, Unsaid
<1>10. Underway(status', ToSet(log'), out')
    BY <1>1, <1>2, <1>4, <1>5 DEF ChatInv, Underway
<1>11. Shown(status', ToSet(log'), buffer')
    <2> SUFFICES ASSUME NEW n \in Chats
                 PROVE  /\ Shows(buffer', n, TRUE) => n \in ToSet(log) /\ status'[n] \in {"none", "failed"}
                        /\ Shows(buffer', n, FALSE) => status'[n] # "none"
        BY <1>1, <1>7 DEF Shown, ChatInv
    <2>1. n # next => status'[n] = status[n]
        BY <1>2
    <2>2. Shows(buffer', n, TRUE) => Shows(buffer, n, TRUE) /\ n # next
        BY <1>6, <1>7
    <2>3. Shows(buffer', n, FALSE) => Shows(buffer, n, FALSE) \/ n = next
        BY <1>7
    <2> QED BY <1>2, <2>1, <2>2, <2>3 DEF ChatInv, Shown
<1>12. timers' = {n \in Chats : status'[n] = "pending"}
    <2>1. timers = {n \in Chats : status[n] = "pending"}
        BY <1>1 DEF ChatInv
    <2> QED BY <1>1, <1>2, <2>1
<1>13. \A n \in Chats : Shows(buffer', n, TRUE) => Shows(buffer, n, TRUE)
    BY <1>7
<1>14. Coming(status', ToSet(log'), buffer', in')
    <2>1. Coming(status, ToSet(log), buffer, in)
        BY <1>1 DEF ChatInv
    <2> QED BY <1>1, <1>2, <1>13, <2>1 DEF Coming
<1>15. Replaying(status', ToSet(log'), buffer', in')
    <2>1. Replaying(status, ToSet(log), buffer, in)
        BY <1>1 DEF ChatInv
    <2> QED BY <1>1, <1>2, <1>4, <1>13, <2>1 DEF Replaying
<1>16. chan' \in {"idle", "connecting"} \/ Replays(out') =>
         Blank(status', ToSet(log'), buffer', in', member')
    BY <1>1, <1>2, <1>4, <1>5, <1>13 DEF ChatInv, Blank
<1>17. ReplayFirst(out')
    BY <1>1, <1>5 DEF ChatInv
<1> QED BY <1>8, <1>9, <1>10, <1>11, <1>12, <1>14, <1>15, <1>16, <1>17, ChatPrimed

\* Something that is neither a chat nor a history is sent to me, or nothing.
LEMMA ComingStill ==
    ASSUME NEW list \in Seq(InMsgs), NEW m \in InMsgs, m.type \notin {"chat", "chat-history"},
           NEW stat, NEW accepted, NEW entries
    PROVE  /\ Coming(stat, accepted, entries, list) => Coming(stat, accepted, entries, Append(list, m))
           /\ Replaying(stat, accepted, entries, list)
                => Replaying(stat, accepted, entries, Append(list, m))
<1>1. /\ \A n : Carries(Append(list, m), n) <=> Carries(list, n)
      /\ Once(list) => Once(Append(list, m))
      /\ \A n : Replayed(Append(list, m), n) <=> Replayed(list, n)
      /\ OneHistory(list) => OneHistory(Append(list, m))
    BY CarriesAppend
<1> QED BY <1>1 DEF Coming, Replaying

\* A new accepted chat, neither shown nor decided, is sent to me.
LEMMA ComingChat ==
    ASSUME NEW list \in Seq(InMsgs), NEW m \in InMsgs, m.type = "chat",
           NEW stat, NEW accepted, NEW entries,
           m.chat \notin accepted, stat[m.chat] # "confirmed", ~Shows(entries, m.chat, TRUE),
           Coming(stat, accepted, entries, list), Replaying(stat, accepted, entries, list)
    PROVE  /\ Coming(stat, accepted \cup {m.chat}, entries, Append(list, m))
           /\ Replaying(stat, accepted \cup {m.chat}, entries, Append(list, m))
<1>1. m.chat \in Chats /\ ~Carries(list, m.chat)
    BY MessageFields DEF Coming
<1>2. /\ \A n : Carries(Append(list, m), n) <=> Carries(list, n) \/ n = m.chat
      /\ Once(list) => Once(Append(list, m))
      /\ \A n : Replayed(Append(list, m), n) <=> Replayed(list, n)
      /\ OneHistory(list) => OneHistory(Append(list, m))
    BY <1>1, CarriesAppend
<1>3. Coming(stat, accepted \cup {m.chat}, entries, Append(list, m))
    BY <1>2 DEF Coming
<1>4. Replaying(stat, accepted \cup {m.chat}, entries, Append(list, m))
    BY <1>2 DEF Replaying
<1> QED BY <1>3, <1>4

\* Chat: the server receives.
LEMMA ServerStep ==
    ASSUME ChannelConstants, TypeOK, LifeInv, ChatInv, ServerReceives
    PROVE  ChatInv'
<1> DEFINE msg == Head(out)
<1>1. /\ out # <<>> /\ out' = Tail(out) /\ out \in Seq(OutMsgs) /\ in \in Seq(InMsgs)
      /\ log \in Seq(Chats) /\ msg \in OutMsgs
      /\ msg.type \in {"join", "presence-update", "chat", "leave"}
      /\ UNCHANGED <<chan, subscribed, buffer, status, timers, next>> /\ (InUse' <=> InUse)
    BY TailFacts, MessageFields DEF ServerReceives, TypeOK, chanVars, chatVars, histVars, InUse
<1>2. /\ \A n : Carries(out, n) <=> Carries(out', n) \/ (msg.type = "chat" /\ msg.chat = n)
      /\ Once(out) => Once(out') /\ (msg.type = "chat" => ~Carries(out', msg.chat))
      /\ Replays(out) <=> Replays(out') \/ (msg.type = "join" /\ msg.replay)
      /\ ReplayFirst(out) => ReplayFirst(out') /\ (msg.type = "join" => ~Replays(out'))
    BY <1>1, CarriesTail
<1>3. /\ Has(out, "leave") <=> msg.type = "leave" \/ Has(out', "leave")
      /\ Has(out, "join") <=> msg.type = "join" \/ Has(out', "join")
    BY <1>1, HasFacts
<1> HIDE DEF msg
<1>4. /\ Unsaid(next, status, ToSet(log), out') /\ Underway(status, ToSet(log), out')
      /\ Shown(status, ToSet(log), buffer) /\ NoRepeat(log)
      /\ \A n \in Chats : status[n] = "confirmed" => n \in ToSet(log)
    BY <1>2, Quiet DEF ChatInv
<1>5. InUse => /\ timers = {n \in Chats : status[n] = "pending"}
               /\ Coming(status, ToSet(log), buffer, in)
               /\ Replaying(status, ToSet(log), buffer, in)
               /\ ReplayFirst(out) /\ ReplayFirst(out')
               /\ chan \in {"idle", "connecting"} \/ Replays(out) =>
                    Blank(status, ToSet(log), buffer, in, member)
    BY <1>2 DEF ChatInv
<1>6. CASE msg.type = "join"
    <2> DEFINE h == [type |-> "chat-history", chats |-> log]
               s == Snapshot
    <2>1. /\ in' = in \o <<s>> \o (IF msg.replay THEN <<h>> ELSE <<>>)
          /\ UNCHANGED <<srvPresence, log>>
        BY <1>6 DEF ServerReceives, msg
    <2>2. /\ s \in InMsgs /\ h \in InMsgs /\ s.type = "presence-snapshot"
          /\ h.type = "chat-history" /\ h.chats = log
        BY MessageTypes DEF Snapshot
    <2> HIDE DEF s, h
    <2>3. /\ Append(in, s) \in Seq(InMsgs)
          /\ msg.replay => in' = Append(Append(in, s), h)
          /\ ~msg.replay => in' = Append(in, s)
        BY <1>1, <2>1, <2>2
    <2>4. InUse => chan \notin {"idle", "connecting"} /\ ~Replays(out')
        BY <1>2, <1>3, <1>5, <1>6 DEF LifeInv, NotJoined, InUse
    <2>5. ASSUME InUse
          PROVE  Coming(status, ToSet(log), buffer, in') /\ Replaying(status, ToSet(log), buffer, in')
        <3>1. /\ Coming(status, ToSet(log), buffer, Append(in, s))
              /\ Replaying(status, ToSet(log), buffer, Append(in, s))
            BY <1>1, <1>5, <2>2, <2>5, ComingStill
        <3>2. CASE ~msg.replay
            BY <2>3, <3>1, <3>2
        <3>3. CASE msg.replay
            <4>1. Blank(status, ToSet(log), buffer, in, member)
                BY <1>2, <1>5, <1>6, <2>5, <3>3
            <4>2. in = <<>> /\ \A n \in Chats : ~Shows(buffer, n, TRUE)
                                               /\ (n \in ToSet(log) => status[n] = "none")
                BY <4>1 DEF Blank
            <4>3. /\ ~Has(in, "chat-history") /\ \A n : ~Carries(in, n) /\ ~Replayed(in, n)
                  /\ Once(in) /\ OneHistory(in)
                BY <4>2 DEF Has, Carries, Replayed, Once, OneHistory
            <4>4. /\ ~Has(Append(in, s), "chat-history") /\ OneHistory(Append(in, s))
                  /\ Once(Append(in, s))
                  /\ \A n : ~Carries(Append(in, s), n) /\ ~Replayed(Append(in, s), n)
                <5>1. ~Has(Append(in, s), "chat-history")
                    BY <1>1, <2>2, <4>3, HasFacts
                <5>2. /\ OneHistory(Append(in, s)) /\ Once(Append(in, s))
                      /\ \A n : ~Carries(Append(in, s), n) /\ ~Replayed(Append(in, s), n)
                    BY <1>1, <2>2, <4>3, CarriesAppend
                <5> QED BY <5>1, <5>2
            <4> DEFINE list == Append(in, s)
            <4> HIDE DEF list
            <4>5. /\ list \in Seq(InMsgs) /\ in' = Append(list, h)
                  /\ ~Has(list, "chat-history") /\ OneHistory(list) /\ Once(list)
                  /\ \A n : ~Carries(list, n) /\ ~Replayed(list, n)
                BY <2>3, <3>3, <4>4 DEF list
            <4>6. /\ \A n : ~Carries(Append(list, h), n)
                  /\ Once(Append(list, h)) /\ OneHistory(Append(list, h))
                  /\ \A n : Replayed(Append(list, h), n) => n \in ToSet(log)
                BY <1>4, <2>2, <4>5, CarriesAppend
            <4> QED BY <4>2, <4>5, <4>6 DEF Coming, Replaying
        <3> QED BY <3>2, <3>3
    <2> QED BY <1>1, <1>4, <1>5, <2>1, <2>4, <2>5, ChatPrimed
<1>7. CASE msg.type = "leave"
    <2>1. ~InUse /\ UNCHANGED log
        BY <1>3, <1>7 DEF LifeInv, ServerReceives, msg
    <2> QED BY <1>1, <1>4, <2>1, ChatPrimed
<1>8. CASE msg.type = "presence-update"
    <2> DEFINE s == State(Me, msg.value)
    <2>1. /\ in' = (IF member THEN Append(in, s) ELSE in) /\ UNCHANGED <<member, log>>
        BY <1>8 DEF ServerReceives, ToMe, msg
    <2>2. s \in InMsgs /\ s.type = "presence-state"
        BY <1>1, <1>8, MessageFields, MessageTypes DEF State
    <2> HIDE DEF s
    <2>3. InUse => /\ Coming(status, ToSet(log), buffer, in')
                   /\ Replaying(status, ToSet(log), buffer, in')
        BY <1>1, <1>5, <2>1, <2>2, ComingStill
    <2>4. ASSUME InUse, chan \in {"idle", "connecting"} \/ Replays(out')
          PROVE  Blank(status, ToSet(log), buffer, in', member')
        <3>1. Blank(status, ToSet(log), buffer, in, member)
            BY <1>2, <1>5, <2>4
        <3> QED BY <2>1, <3>1 DEF Blank
    <2> QED BY <1>1, <1>4, <1>5, <2>1, <2>3, <2>4, ChatPrimed
<1>9. CASE msg.type = "chat"
    <2>1. /\ log' = (IF member THEN Append(log, msg.chat) ELSE log)
          /\ in' = (IF member THEN Append(in, msg) ELSE in) /\ UNCHANGED member
        BY <1>9 DEF ServerReceives, ToMe, msg
    <2>2. msg.chat \in Chats /\ msg \in InMsgs /\ Carries(out, msg.chat) /\ ~Carries(out', msg.chat)
        BY <1>1, <1>2, <1>9, MessageFields DEF ChatInv, Underway
    <2>3. CASE ~member
        <3>1. ASSUME InUse, chan \in {"idle", "connecting"} \/ Replays(out')
              PROVE  Blank(status, ToSet(log), buffer, in, member)
            BY <1>2, <1>5, <3>1
        <3> QED BY <1>1, <1>4, <1>5, <2>1, <2>3, <3>1, ChatPrimed
    <2>4. CASE member
        <3>1. /\ status[msg.chat] # "none" /\ msg.chat \notin ToSet(log)
              /\ status[msg.chat] # "confirmed" /\ ~Shows(buffer, msg.chat, TRUE)
            BY <1>4, <2>2 DEF ChatInv, Underway, Shown
        <3>2. ToSet(log') = ToSet(log) \cup {msg.chat} /\ NoRepeat(log')
            BY <1>1, <1>4, <2>1, <2>2, <2>4, <3>1, LogAppend
        <3>3. Unsaid(next', status', ToSet(log'), out')
            BY <1>1, <1>4, <3>1, <3>2 DEF Unsaid
        <3>4. Underway(status', ToSet(log'), out')
            BY <1>1, <1>4, <2>2, <3>2 DEF Underway
        <3>5. Shown(status', ToSet(log'), buffer')
            BY <1>1, <1>4, <3>2 DEF Shown
        <3>6. ASSUME InUse
              PROVE  /\ Coming(status, ToSet(log'), buffer, in')
                     /\ Replaying(status, ToSet(log'), buffer, in')
            <4>1. Coming(status, ToSet(log), buffer, in) /\ Replaying(status, ToSet(log), buffer, in)
                BY <1>5, <3>6
            <4>2. /\ Coming(status, ToSet(log) \cup {msg.chat}, buffer, Append(in, msg))
                  /\ Replaying(status, ToSet(log) \cup {msg.chat}, buffer, Append(in, msg))
                BY <1>1, <1>9, <2>2, <3>1, <4>1, ComingChat
            <4> QED BY <2>1, <2>4, <3>2, <4>2
        <3>7. InUse => ~(chan \in {"idle", "connecting"} \/ Replays(out'))
            BY <1>2, <1>5, <2>4 DEF Blank
        <3>8. \A n \in Chats : status'[n] = "confirmed" => n \in ToSet(log')
            BY <1>1, <1>4, <3>2
        <3> QED BY <1>1, <1>5, <3>2, <3>3, <3>4, <3>5, <3>6, <3>7, <3>8, ChatPrimed
    <2> QED BY <2>3, <2>4
<1> QED BY <1>1, <1>6, <1>7, <1>8, <1>9

\* Chat: another member says something.
LEMMA OtherSaysStep ==
    ASSUME ChannelConstants, TypeOK, ChatInv, InUse, next <= MaxChats, next' = next + 1,
           log' = Append(log, next), ToMe(ChatMsg(next)),
           UNCHANGED <<chan, subscribed, chatVars, out, member>>
    PROVE  ChatInv'
<1> DEFINE m == ChatMsg(next)
<1>1. /\ next \in Chats /\ m \in InMsgs /\ m.type = "chat" /\ m.chat = next
      /\ in \in Seq(InMsgs) /\ log \in Seq(Chats)
      /\ in' = IF member THEN Append(in, m) ELSE in
    <2>1. next \in Chats
        BY DEF TypeOK, Chats, ChannelConstants
    <2> QED BY <2>1, MessageTypes DEF TypeOK, ChatMsg, ToMe
<1> HIDE DEF m
<1>2. UNCHANGED <<buffer, status, timers>> /\ InUse'
    BY DEF chatVars, InUse
<1>3. status[next] = "none" /\ next \notin ToSet(log) /\ ~Carries(out, next)
    BY <1>1 DEF ChatInv, Unsaid, Chats
<1>4. ~Shows(buffer, next, TRUE)
    BY <1>1, <1>3 DEF ChatInv, Shown
<1>5. ToSet(log') = ToSet(log) \cup {next} /\ NoRepeat(log')
    BY <1>1, <1>3, LogAppend DEF ChatInv
<1>6. Unsaid(next', status', ToSet(log'), out')
    <2>1. \A n \in Chats : n >= next + 1 => n >= next /\ n # next
        BY <1>1 DEF Chats
    <2> QED BY <1>2, <1>5, <2>1 DEF ChatInv, Unsaid
<1>7. Underway(status', ToSet(log'), out')
    BY <1>2, <1>3, <1>5 DEF ChatInv, Underway
<1>8. Shown(status', ToSet(log'), buffer')
    BY <1>2, <1>5 DEF ChatInv, Shown
<1>9. Coming(status', ToSet(log'), buffer', in') /\ Replaying(status', ToSet(log'), buffer', in')
    <2>1. Coming(status, ToSet(log), buffer, in) /\ Replaying(status, ToSet(log), buffer, in)
        BY DEF ChatInv
    <2>2. CASE member
        <3>1. m.chat \notin ToSet(log) /\ status[m.chat] # "confirmed" /\ ~Shows(buffer, m.chat, TRUE)
            BY <1>1, <1>3, <1>4
        <3>2. /\ Coming(status, ToSet(log) \cup {m.chat}, buffer, Append(in, m))
              /\ Replaying(status, ToSet(log) \cup {m.chat}, buffer, Append(in, m))
            BY <1>1, <2>1, <3>1, ComingChat
        <3> QED BY <1>1, <1>2, <1>5, <2>2, <3>2
    <2>3. CASE ~member
        BY <1>1, <1>2, <1>5, <2>1, <2>3 DEF Coming, Replaying
    <2> QED BY <2>2, <2>3
<1>10. ASSUME chan' \in {"idle", "connecting"} \/ Replays(out')
       PROVE  Blank(status', ToSet(log'), buffer', in', member')
    <2>1. Blank(status, ToSet(log), buffer, in, member)
        BY <1>10 DEF ChatInv
    <2> QED BY <1>1, <1>2, <1>3, <1>5, <2>1 DEF Blank
<1>11. /\ timers' = {n \in Chats : status'[n] = "pending"} /\ ReplayFirst(out')
       /\ \A n \in Chats : status'[n] = "confirmed" => n \in ToSet(log')
    BY <1>2, <1>5 DEF ChatInv
<1> QED BY <1>2, <1>5, <1>6, <1>7, <1>8, <1>9, <1>10, <1>11, ChatPrimed

\* A message received: what is left, and what is known of it.
LEMMA ComingTail ==
    ASSUME NEW list \in Seq(InMsgs), list # <<>>, NEW stat, NEW accepted, NEW entries,
           Coming(stat, accepted, entries, list), Replaying(stat, accepted, entries, list)
    PROVE  LET m == Head(list)
               r == Tail(list)
           IN  /\ Coming(stat, accepted, entries, r) /\ Replaying(stat, accepted, entries, r)
               /\ m.type = "chat" =>
                    /\ m.chat \in Chats /\ m.chat \in accepted /\ stat[m.chat] # "confirmed"
                    /\ ~Shows(entries, m.chat, TRUE)
                    /\ ~Carries(r, m.chat) /\ ~Replayed(r, m.chat)
               /\ m.type = "chat-history" =>
                    /\ m.chats \in Seq(Chats) /\ NoRepeat(m.chats)
                    /\ \A n : ~Replayed(r, n)
                    /\ \A n \in ToSet(m.chats) :
                         /\ n \in accepted /\ stat[n] = "none"
                         /\ ~Shows(entries, n, TRUE) /\ ~Carries(r, n)
<1> DEFINE m == Head(list)
           r == Tail(list)
<1>1. /\ \A n : Carries(list, n) <=> Carries(r, n) \/ (m.type = "chat" /\ m.chat = n)
      /\ Once(list) => Once(r) /\ (m.type = "chat" => ~Carries(r, m.chat))
      /\ \A n : Replayed(list, n)
                  <=> Replayed(r, n) \/ (m.type = "chat-history" /\ n \in ToSet(m.chats))
      /\ OneHistory(list) =>
           /\ OneHistory(r)
           /\ m.type = "chat-history" => NoRepeat(m.chats) /\ \A n : ~Replayed(r, n)
    BY CarriesTail
<1>2. m \in InMsgs
    BY TailFacts
<1> HIDE DEF m, r
<1>3. /\ m.type = "chat" => m.chat \in Chats
      /\ m.type = "chat-history" => m.chats \in Seq(Chats)
    BY <1>2, MessageFields
<1>4. Coming(stat, accepted, entries, r) /\ Replaying(stat, accepted, entries, r)
    BY <1>1 DEF Coming, Replaying
<1>5. ASSUME m.type = "chat"
      PROVE  /\ m.chat \in accepted /\ stat[m.chat] # "confirmed" /\ ~Shows(entries, m.chat, TRUE)
             /\ ~Carries(r, m.chat) /\ ~Replayed(r, m.chat)
    <2>1. Carries(list, m.chat) /\ m.chat \in Chats
        BY <1>1, <1>3, <1>5
    <2> QED BY <1>1, <1>5, <2>1 DEF Coming, Replaying
<1>6. ASSUME m.type = "chat-history"
      PROVE  /\ NoRepeat(m.chats) /\ \A n : ~Replayed(r, n)
             /\ \A n \in ToSet(m.chats) :
                  /\ n \in accepted /\ stat[n] = "none"
                  /\ ~Shows(entries, n, TRUE) /\ ~Carries(r, n)
    <2>1. NoRepeat(m.chats) /\ \A n : ~Replayed(r, n)
        BY <1>1, <1>6 DEF Replaying
    <2>2. ASSUME NEW n \in ToSet(m.chats)
          PROVE  /\ n \in accepted /\ stat[n] = "none"
                 /\ ~Shows(entries, n, TRUE) /\ ~Carries(r, n)
        <3>1. n \in Chats
            BY <1>3, <1>6 DEF ToSet
        <3>2. Replayed(list, n)
            BY <1>1, <1>6
        <3> QED BY <1>1, <3>1, <3>2 DEF Replaying
    <2> QED BY <2>1, <2>2
<1> QED BY <1>3, <1>4, <1>5, <1>6 DEF m, r

\* Chat: the channel receives (routeMessage, applyChat, applyChatHistory).
LEMMA ReceiveStep ==
    ASSUME ChannelConstants, TypeOK, LifeInv, ChatInv, Receive
    PROVE  ChatInv'
<1> DEFINE msg == Head(in)
<1>1. /\ in # <<>> /\ in' = Tail(in) /\ in \in Seq(InMsgs) /\ buffer \in Seq(Entries)
      /\ msg \in InMsgs
      /\ msg.type \in {"presence-snapshot", "presence-state", "peer-left", "chat", "chat-history"}
      /\ UNCHANGED <<chan, subscribed, out, member, log, next>> /\ (InUse' <=> InUse)
      /\ status \in [Chats -> {"none", "pending", "confirmed", "failed"}]
    BY TailFacts, MessageFields DEF Receive, TypeOK, chanVars, srvVars, histVars, InUse
<1>2. /\ Unsaid(next, status, ToSet(log), out) /\ Underway(status, ToSet(log), out)
      /\ Shown(status, ToSet(log), buffer) /\ NoRepeat(log)
      /\ \A n \in Chats : status[n] = "confirmed" => n \in ToSet(log)
    BY DEF ChatInv
<1>3. CASE ~InUse
    <2>1. UNCHANGED <<buffer, status, timers>>
        BY <1>3 DEF Receive, InUse, chatVars
    <2> QED BY <1>1, <1>2, <1>3, <2>1, ChatPrimed
<1>4. CASE InUse
    <2>1. subscribed
        BY <1>1, <1>4 DEF InUse, LifeInv, NotJoined
    <2>2. /\ timers = {n \in Chats : status[n] = "pending"} /\ ReplayFirst(out)
          /\ Coming(status, ToSet(log), buffer, in) /\ Replaying(status, ToSet(log), buffer, in)
          /\ ~(chan \in {"idle", "connecting"} \/ Replays(out))
        BY <1>1, <1>4 DEF ChatInv, Blank
    <2>3. /\ Coming(status, ToSet(log), buffer, in') /\ Replaying(status, ToSet(log), buffer, in')
          /\ msg.type = "chat" =>
               /\ msg.chat \in Chats /\ msg.chat \in ToSet(log) /\ status[msg.chat] # "confirmed"
               /\ ~Shows(buffer, msg.chat, TRUE)
               /\ ~Carries(in', msg.chat) /\ ~Replayed(in', msg.chat)
          /\ msg.type = "chat-history" =>
               /\ msg.chats \in Seq(Chats) /\ NoRepeat(msg.chats)
               /\ \A n : ~Replayed(in', n)
               /\ \A n \in ToSet(msg.chats) :
                    /\ n \in ToSet(log) /\ status[n] = "none"
                    /\ ~Shows(buffer, n, TRUE) /\ ~Carries(in', n)
        <3> DEFINE r == Tail(in)
        <3>1. /\ Coming(status, ToSet(log), buffer, r) /\ Replaying(status, ToSet(log), buffer, r)
              /\ msg.type = "chat" =>
                   /\ msg.chat \in Chats /\ msg.chat \in ToSet(log) /\ status[msg.chat] # "confirmed"
                   /\ ~Shows(buffer, msg.chat, TRUE)
                   /\ ~Carries(r, msg.chat) /\ ~Replayed(r, msg.chat)
              /\ msg.type = "chat-history" =>
                   /\ msg.chats \in Seq(Chats) /\ NoRepeat(msg.chats)
                   /\ \A n : ~Replayed(r, n)
                   /\ \A n \in ToSet(msg.chats) :
                        /\ n \in ToSet(log) /\ status[n] = "none"
                        /\ ~Shows(buffer, n, TRUE) /\ ~Carries(r, n)
            BY <1>1, <2>2, ComingTail
        <3>2. in' = r
            BY <1>1
        <3> HIDE DEF r, msg
        <3> QED BY <3>1, <3>2
    <2> HIDE DEF msg
    <2>4. CASE msg.type \notin {"chat", "chat-history"}
        <3>1. UNCHANGED <<buffer, status, timers>>
            BY <1>1, <2>1, <2>4 DEF Receive, chatVars, msg
        <3> QED BY <1>1, <1>2, <2>2, <2>3, <3>1, ChatPrimed
    <2>5. CASE msg.type = "chat" /\ status[msg.chat] = "pending"
        <3> DEFINE n == msg.chat
        <3>1. n \in Chats /\ n \in ToSet(log) /\ ~Carries(in', n) /\ ~Replayed(in', n)
              /\ ~Shows(buffer, n, TRUE) /\ status[n] = "pending"
            BY <2>3, <2>5
        <3>2. ApplyChat(n)
            BY <1>1, <2>1, <2>5 DEF Receive, msg
        <3> HIDE DEF n
        <3>3. Matching(n) = {n}
            BY <3>1 DEF Matching
        <3>4. /\ status' = [m \in Chats |-> IF m \in {n} THEN "confirmed" ELSE status[m]]
              /\ timers' = timers \ {n} /\ UNCHANGED buffer
            BY <3>2, <3>3 DEF ApplyChat
        <3>5. status'[n] = "confirmed" /\ \A m \in Chats : m # n => status'[m] = status[m]
            BY <3>1, <3>4
        <3>6. Unsaid(next', status', ToSet(log'), out') /\ Underway(status', ToSet(log'), out')
            BY <1>1, <1>2, <3>1, <3>5 DEF Unsaid, Underway
        <3>7. Shown(status', ToSet(log'), buffer')
            BY <1>1, <1>2, <3>1, <3>4, <3>5 DEF Shown
        <3>8. Coming(status', ToSet(log'), buffer', in') /\ Replaying(status', ToSet(log'), buffer', in')
            BY <1>1, <2>3, <3>1, <3>4, <3>5 DEF Coming, Replaying
        <3>9. /\ timers' = {m \in Chats : status'[m] = "pending"}
              /\ \A m \in Chats : status'[m] = "confirmed" => m \in ToSet(log')
            BY <1>1, <1>2, <2>2, <3>1, <3>4, <3>5
        <3> QED BY <1>1, <1>2, <2>2, <3>6, <3>7, <3>8, <3>9, ChatPrimed
    <2>6. CASE msg.type = "chat" /\ status[msg.chat] # "pending"
        <3> DEFINE n == msg.chat
                   e == [chat |-> n, copy |-> TRUE]
        <3>1. n \in Chats /\ n \in ToSet(log) /\ ~Carries(in', n) /\ ~Replayed(in', n)
              /\ ~Shows(buffer, n, TRUE) /\ status[n] \in {"none", "failed"}
            BY <1>1, <2>3, <2>6
        <3>2. ApplyChat(n)
            BY <1>1, <2>1, <2>6 DEF Receive, msg
        <3>3. status[n] # "pending"
            BY <2>6
        <3> HIDE DEF n
        <3>4. Matching(n) = {}
            BY <3>3 DEF Matching
        <3>5. buffer' = Trimmed(Append(buffer, e)) /\ UNCHANGED <<status, timers>>
            BY <3>2, <3>4 DEF ApplyChat
        <3>6. e \in Entries /\ e.chat = n /\ e.copy = TRUE
            BY <3>1 DEF Entries
        <3> HIDE DEF e
        <3>7. /\ \A k, copy : Shows(buffer', k, copy) => Shows(buffer, k, copy) \/ (n = k /\ TRUE = copy)
              /\ Apart(buffer) => Apart(buffer')
            <4> DEFINE r == Trimmed(Append(buffer, e))
            <4>1. /\ \A k, copy : Shows(r, k, copy) => Shows(buffer, k, copy) \/ (e.chat = k /\ e.copy = copy)
                  /\ Apart(buffer) /\ ~Shows(buffer, e.chat, e.copy) => Apart(r)
                BY <1>1, <3>6, EntryAppended
            <4> HIDE DEF r
            <4>2. buffer' = r
                BY <3>5 DEF r
            <4> QED BY <3>1, <3>6, <4>1, <4>2
        <3>8. /\ \A k : Shows(buffer', k, TRUE) => Shows(buffer, k, TRUE) \/ k = n
              /\ \A k : Shows(buffer', k, FALSE) => Shows(buffer, k, FALSE)
              /\ \A k : Carries(in', k) \/ Replayed(in', k) => k # n
            BY <3>1, <3>7
        <3>9. Shown(status, ToSet(log), buffer')
            BY <1>2, <3>1, <3>7, <3>8 DEF Shown
        <3>10. Coming(status, ToSet(log), buffer', in') /\ Replaying(status, ToSet(log), buffer', in')
            BY <2>3, <3>8 DEF Coming, Replaying
        <3> QED BY <1>1, <1>2, <2>2, <3>5, <3>9, <3>10, ChatPrimed
    <2>7. CASE msg.type = "chat-history"
        <3> DEFINE list == msg.chats
        <3>1. /\ list \in Seq(Chats) /\ NoRepeat(list) /\ \A n : ~Replayed(in', n)
              /\ \A n \in ToSet(list) : /\ n \in ToSet(log) /\ status[n] = "none"
                                        /\ ~Shows(buffer, n, TRUE) /\ ~Carries(in', n)
            BY <2>3, <2>7
        <3>2. ApplyHistory(list)
            BY <1>1, <2>1, <2>7 DEF Receive, msg
        <3> HIDE DEF list
        <3> DEFINE r == Trimmed([i \in DOMAIN list |-> [chat |-> list[i], copy |-> TRUE]] \o buffer)
        <3>3. buffer' = r /\ UNCHANGED <<status, timers>>
            BY <3>2 DEF ApplyHistory
        <3>4. /\ \A n, copy : Shows(r, n, copy)
                               => Shows(buffer, n, copy) \/ (copy = TRUE /\ n \in ToSet(list))
              /\ Apart(buffer) /\ NoRepeat(list) /\ (\A n \in ToSet(list) : ~Shows(buffer, n, TRUE))
                   => Apart(r)
            BY <1>1, <3>1, HistoryPrepended
        <3> HIDE DEF r
        <3>5. /\ \A n, copy : Shows(buffer', n, copy)
                               => Shows(buffer, n, copy) \/ (copy = TRUE /\ n \in ToSet(list))
              /\ Apart(buffer')
            BY <1>2, <3>1, <3>3, <3>4 DEF Shown
        <3>6. Shown(status', ToSet(log'), buffer')
            <4> SUFFICES ASSUME NEW n \in Chats
                         PROVE  /\ Shows(buffer', n, TRUE) => n \in ToSet(log) /\ status[n] \in {"none", "failed"}
                                /\ Shows(buffer', n, FALSE) => status[n] # "none"
                BY <1>1, <3>3, <3>5 DEF Shown
            <4>1. Shows(buffer', n, FALSE) => Shows(buffer, n, FALSE)
                BY <3>5
            <4>2. Shows(buffer', n, TRUE) => Shows(buffer, n, TRUE) \/ n \in ToSet(list)
                BY <3>5
            <4> QED BY <1>2, <3>1, <4>1, <4>2 DEF Shown
        <3>7. \A n : Carries(in', n) /\ Shows(buffer', n, TRUE) => Shows(buffer, n, TRUE)
            BY <3>1, <3>5
        <3>8. Coming(status', ToSet(log'), buffer', in')
            BY <1>1, <2>3, <3>3, <3>7 DEF Coming
        <3>9. Replaying(status', ToSet(log'), buffer', in')
            BY <2>3, <3>1 DEF Replaying
        <3> QED BY <1>1, <1>2, <2>2, <3>3, <3>6, <3>8, <3>9, ChatPrimed
    <2> QED BY <1>1, <2>4, <2>5, <2>6, <2>7
<1> QED BY <1>3, <1>4

\* Chat: another member does something.
LEMMA OtherChats ==
    ASSUME ChannelConstants, TypeOK, ChatInv, NEW p \in Others, OtherActs(p)
    PROVE  ChatInv'
<1>1. /\ InUse /\ (InUse' <=> InUse) /\ in \in Seq(InMsgs)
      /\ UNCHANGED <<chan, subscribed, chatVars, buffer, status, timers, out, member>>
    BY DEF OtherActs, InUse, TypeOK, chanVars, chatVars
<1>2. /\ NoRepeat(log) /\ ReplayFirst(out) /\ timers = {n \in Chats : status[n] = "pending"}
      /\ \A n \in Chats : status[n] = "confirmed" => n \in ToSet(log)
      /\ Unsaid(next, status, ToSet(log), out) /\ Underway(status, ToSet(log), out)
      /\ Shown(status, ToSet(log), buffer)
      /\ Coming(status, ToSet(log), buffer, in) /\ Replaying(status, ToSet(log), buffer, in)
      /\ chan \in {"idle", "connecting"} \/ Replays(out) =>
           Blank(status, ToSet(log), buffer, in, member)
    BY <1>1 DEF ChatInv
<1>3. ASSUME NEW m \in InMsgs, m.type \notin {"chat", "chat-history"}, ToMe(m),
             UNCHANGED <<log, next>>
      PROVE  ChatInv'
    <2>1. in' = IF member THEN Append(in, m) ELSE in
        BY <1>3 DEF ToMe
    <2>2. /\ Coming(status, ToSet(log), buffer, Append(in, m))
          /\ Replaying(status, ToSet(log), buffer, Append(in, m))
        BY <1>1, <1>2, <1>3, ComingStill
    <2>3. Coming(status, ToSet(log), buffer, in') /\ Replaying(status, ToSet(log), buffer, in')
        BY <1>2, <2>1, <2>2
    <2>4. ASSUME chan \in {"idle", "connecting"} \/ Replays(out)
          PROVE  Blank(status, ToSet(log), buffer, in', member)
        <3>1. Blank(status, ToSet(log), buffer, in, member)
            BY <1>2, <2>4
        <3> QED BY <2>1, <3>1 DEF Blank
    <2> QED BY <1>1, <1>2, <1>3, <2>3, <2>4, ChatPrimed
<1>4. ASSUME NEW v \in Values, ToMe(State(p, v)), UNCHANGED <<log, next>> PROVE ChatInv'
    <2>1. State(p, v) \in InMsgs /\ State(p, v).type = "presence-state"
        BY MessageTypes DEF State, Peers
    <2> QED BY <1>3, <1>4, <2>1
<1>5. ASSUME ToMe([type |-> "peer-left", peer |-> p]), UNCHANGED <<log, next>> PROVE ChatInv'
    <2> DEFINE m == [type |-> "peer-left", peer |-> p]
    <2>1. m \in InMsgs /\ m.type = "peer-left" /\ ToMe(m)
        BY <1>5, MessageTypes
    <2> HIDE DEF m
    <2> QED BY <1>3, <1>5, <2>1
<1>6. ASSUME next <= MaxChats, next' = next + 1, log' = Append(log, next), ToMe(ChatMsg(next))
      PROVE  ChatInv'
    BY <1>1, <1>6, OtherSaysStep
<1> QED BY <1>4, <1>5, <1>6 DEF OtherActs

\* Chat: a step of it.
LEMMA ChatStep ==
    ASSUME ChannelConstants, TypeOK, LifeInv, ChatInv, [Next]_vars
    PROVE  ChatInv'
<1> DEFINE Idling == chan \in {"idle", "connecting"} \/ Replays(out)
<1>0. /\ out \in Seq(OutMsgs) /\ status \in [Chats -> {"none", "pending", "confirmed", "failed"}]
      /\ InUse => /\ timers = {n \in Chats : status[n] = "pending"}
                  /\ ReplayFirst(out) /\ (Idling => ~member)
    BY DEF TypeOK, ChatInv, Blank
<1>1. CASE Start
    <2>1. /\ chan = "idle" /\ InUse
          /\ UNCHANGED <<next, buffer, log, status, timers, out, in, member>>
        BY <1>1 DEF Start, LifeInv, Busy, InUse, chatVars, histVars, srvVars
    <2> QED BY <1>0, <2>1, ChatsStill
<1>2. CASE Stop
    <2> DEFINE m == [type |-> "leave"]
    <2>1. /\ ~InUse' /\ out' = Append(out, m) /\ m \in OutMsgs /\ m.type = "leave"
          /\ UNCHANGED <<next, buffer, log, status>>
        BY <1>2, MessageTypes DEF Stop, InUse, histVars, srvVars
    <2> HIDE DEF m
    <2>2. (Once(out) => Once(out')) /\ \A n : Carries(out', n) => Carries(out, n)
        BY <1>0, <2>1, CarriesAppend
    <2> QED BY <2>1, <2>2, ChatsStill
<1>3. CASE RetryFires
    <2>1. /\ subscribed /\ subscribed' /\ InUse /\ InUse'
          /\ UNCHANGED <<next, buffer, log, status, timers, in, member>>
        BY <1>3 DEF RetryFires, LifeInv, InUse, chatVars, histVars, srvVars
    <2>2. CASE Busy
        <3>1. Reconnected /\ chan' = "connected"
            BY <1>3, <2>2 DEF RetryFires, Reconnected
        <3>2. /\ Once(out) => Once(out')
              /\ \A n : Carries(out', n) <=> Carries(out, n)
              /\ Replays(out') <=> Replays(out)
              /\ ReplayFirst(out) => ReplayFirst(out')
            BY <3>1, ReconnectedChats
        <3> QED BY <1>0, <2>1, <3>1, <3>2, ChatsStill
    <2>3. CASE ~Busy
        <3>1. UNCHANGED <<out, chan>>
            BY <1>3, <2>3 DEF RetryFires
        <3> QED BY <1>0, <2>1, <3>1, ChatsStill
    <2> QED BY <2>2, <2>3
<1>4. CASE ConnectResolves
    <2>1. /\ sock = "auth" /\ chan' = "connected"
          /\ UNCHANGED <<subscribed, next, buffer, log, status, timers, in, member>>
        BY <1>4 DEF ConnectResolves, Reconnected, JoinRoom, chatVars, histVars, srvVars
    <2>2. InUse' => subscribed /\ InUse
        BY <2>1 DEF InUse
    <2>3. CASE attempting
        <3>1. Reconnected
            BY <1>4, <2>3 DEF ConnectResolves
        <3>2. /\ Once(out) => Once(out')
              /\ \A n : Carries(out', n) <=> Carries(out, n)
              /\ Replays(out') <=> Replays(out)
              /\ ReplayFirst(out) => ReplayFirst(out')
            BY <3>1, ReconnectedChats
        <3> QED BY <1>0, <2>1, <2>2, <3>2, ChatsStill
    <2>4. CASE ~attempting
        <3> DEFINE j == JoinMsg(opts.replay)
        <3>1. out' = Append(out, j) /\ j \in OutMsgs /\ j.type = "join"
            BY <1>4, <2>4, MessageTypes DEF ConnectResolves, JoinRoom, JoinMsg
        <3> HIDE DEF j
        <3>2. subscribed => chan = "connecting" /\ ~member /\ ~Has(out, "join")
            BY <2>1, <2>4 DEF LifeInv, NotJoined
        <3>3. /\ Once(out) => Once(out')
              /\ \A n : Carries(out', n) <=> Carries(out, n)
              /\ ~Has(out, "join") => ReplayFirst(out')
            BY <1>0, <3>1, CarriesAppend
        <3> QED BY <1>0, <2>1, <2>2, <3>2, <3>3, ChatsStill
    <2> QED BY <2>3, <2>4
<1>5. SessionFails => (chan' = "idle" => chan = "idle") /\ (chan' = "connecting" => chan = "connecting")
    BY DEF SessionFails
<1>6. CASE ConnectRejects
    <2>1. UNCHANGED <<subscribed, next, buffer, log, out, in, member>>
        BY <1>6 DEF ConnectRejects, histVars, srvVars
    <2>2. CASE attempting
        <3>1. SessionFails
            BY <1>6, <2>2 DEF ConnectRejects
        <3>2. InUse' => InUse
            BY <1>5, <2>1, <3>1 DEF InUse
        <3> QED BY <1>0, <1>5, <2>1, <3>1, <3>2, SessionFailsChats, ChatsStill
    <2>3. CASE ~attempting
        <3>1. UNCHANGED <<chan, status, timers>> /\ (InUse' => InUse)
            BY <1>6, <2>1, <2>3 DEF ConnectRejects, InUse
        <3> QED BY <1>0, <2>1, <3>1, ChatsStill
    <2> QED BY <2>2, <2>3
<1>7. CASE Opens
    <2>1. UNCHANGED <<chan, subscribed, next, buffer, log, status, timers, out, in, member>>
        BY <1>7 DEF Opens, chanVars, chatVars, histVars, srvVars
    <2> QED BY <1>0, <2>1, ChatsStill DEF InUse
<1>8. CASE Closes
    <2>1. /\ in' = <<>> /\ member' = FALSE /\ out' \in {out, <<>>}
          /\ UNCHANGED <<subscribed, next, buffer, log>>
        BY <1>8 DEF Closes
    <2>2. /\ Once(<<>>) /\ (\A n : ~Carries(<<>>, n)) /\ ReplayFirst(<<>>) /\ ~Replays(<<>>)
        BY DEF Once, Carries, ReplayFirst, Replays
    <2>3. /\ Once(out) => Once(out')
          /\ \A n : Carries(out', n) => Carries(out, n)
          /\ ReplayFirst(out) => ReplayFirst(out')
          /\ Replays(out') => Replays(out)
        BY <2>1, <2>2
    <2>4. CASE ~opts.auto /\ subscribed /\ chan = "connected"
        <3>1. SessionFails
            BY <1>8, <2>4 DEF Closes
        <3>2. InUse' => InUse
            BY <1>5, <2>1, <3>1 DEF InUse
        <3> QED BY <1>0, <1>5, <2>1, <2>3, <3>1, <3>2, SessionFailsChats, ChatsStill
    <2>5. CASE ~(~opts.auto /\ subscribed /\ chan = "connected")
        <3>1. UNCHANGED <<chan, status, timers>> /\ (InUse' => InUse)
            BY <1>8, <2>1, <2>5 DEF Closes, InUse
        <3> QED BY <1>0, <2>1, <2>3, <3>1, ChatsStill
    <2> QED BY <2>4, <2>5
<1>9. CASE AutoReconnects
    <2>1. UNCHANGED <<chan, subscribed, next, buffer, log, status, timers, out, in, member>>
        BY <1>9 DEF AutoReconnects, chanVars, chatVars, histVars, srvVars
    <2> QED BY <1>0, <2>1, ChatsStill DEF InUse
<1>10. ASSUME NEW v \in Values, SetAttribute(v) PROVE ChatInv'
    <2> DEFINE m == SetMsg(v)
    <2>1. /\ out' = Append(out, m) /\ InUse /\ InUse'
          /\ UNCHANGED <<chan, next, buffer, log, status, timers, in, member>>
        BY <1>10 DEF SetAttribute, chanVars, chatVars, srvVars, InUse
    <2>2. m \in OutMsgs /\ m.type = "presence-update"
        BY MessageTypes DEF SetMsg
    <2> HIDE DEF m
    <2>3. /\ Once(out) => Once(out')
          /\ \A n : Carries(out', n) => Carries(out, n)
          /\ Replays(out') <=> Replays(out)
          /\ ReplayFirst(out) => ReplayFirst(out')
        BY <1>0, <2>1, <2>2, CarriesAppend
    <2> QED BY <1>0, <2>1, <2>3, ChatsStill
<1>11. ASSUME NEW n \in Chats, AckTimeout(n) PROVE ChatInv'
    <2>1. /\ timers' = timers \ {n}
          /\ UNCHANGED <<chan, subscribed, next, buffer, log, out, in, member>>
        BY <1>11 DEF AckTimeout, chanVars, histVars, srvVars
    <2>2. \A k \in Chats : status'[k] = IF k = n /\ status[k] = "pending" THEN "failed" ELSE status[k]
        BY <1>0, <1>11 DEF AckTimeout
    <2>3. /\ \A k \in Chats : status'[k] = status[k] \/ (status[k] = "pending" /\ status'[k] = "failed")
          /\ InUse => timers' = {k \in Chats : status'[k] = "pending"}
        BY <1>0, <2>1, <2>2
    <2> QED BY <1>0, <2>1, <2>3, ChatsStill DEF InUse
<1>12. CASE UNCHANGED vars
    <2>1. UNCHANGED <<chan, subscribed, next, buffer, log, status, timers, out, in, member>>
        BY <1>12 DEF vars, chanVars, chatVars, histVars, srvVars
    <2> QED BY <1>0, <2>1, ChatsStill DEF InUse
<1> QED BY <1>1, <1>2, <1>3, <1>4, <1>6, <1>7, <1>8, <1>9, <1>10, <1>11, <1>12, SendChatStep,
           ServerStep, ReceiveStep, OtherChats DEF Next

-----------------------------------------------------------------------------
\* The chat invariant holds from the start.
LEMMA ChatBegins ==
    ASSUME ChannelConstants, Init
    PROVE  LifeInv /\ ChatInv
<1>1. LifeInv
    BY DEF Init, LifeInv, NotJoined, Has, NobodySet, InUse, ChannelConstants, Peers
<1>2. /\ log = <<>> /\ buffer = <<>> /\ in = <<>> /\ out = <<>> /\ timers = {} /\ ~member
      /\ \A n \in Chats : status[n] = "none"
    BY DEF Init
<1>3. /\ NoRepeat(<<>>) /\ Once(<<>>) /\ OneHistory(<<>>) /\ ReplayFirst(<<>>) /\ Apart(<<>>)
      /\ \A n : ~Carries(<<>>, n) /\ ~Replayed(<<>>, n)
      /\ \A n, copy : ~Shows(<<>>, n, copy)
    BY DEF NoRepeat, Once, OneHistory, ReplayFirst, Apart, Carries, Replayed, Shows
<1>4. ToSet(<<>>) = {}
    BY DEF ToSet
<1>5. /\ Unsaid(next, status, ToSet(log), out) /\ Underway(status, ToSet(log), out)
      /\ Shown(status, ToSet(log), buffer)
    BY <1>2, <1>3, <1>4 DEF Unsaid, Underway, Shown
<1>6. /\ Coming(status, ToSet(log), buffer, in) /\ Replaying(status, ToSet(log), buffer, in)
      /\ Blank(status, ToSet(log), buffer, in, member)
    BY <1>2, <1>3, <1>4 DEF Coming, Replaying, Blank
<1> QED BY <1>1, <1>2, <1>3, <1>5, <1>6 DEF ChatInv

\* A chat is confirmed only if the server accepted that very chat, and while the channel runs
\* exactly the pending chats have a timer (sendChat, markChatFailed, applyChat).
THEOREM ConfirmedIsAccepted == Spec => []ConfirmedMeansAccepted
<1>1. Init => LifeInv /\ ChatInv
    BY ChatBegins, ChannelConstants
<1>2. TypeOK /\ LifeInv /\ ChatInv /\ [Next]_vars => LifeInv' /\ ChatInv'
    BY LifeStep, ChatStep, ChannelConstants
<1>3. ChatInv => ConfirmedMeansAccepted
    BY DEF ChatInv, ConfirmedMeansAccepted, InUse
<1> QED BY <1>1, <1>2, <1>3, ChannelTypes, PTL DEF Spec

\* The history shows a chat twice only if it had been given up as failed: neither the echo,
\* nor the replay, nor a reconnect doubles another (applyChat, applyChatHistory).
THEOREM NothingDoubled == Spec => []NoDoubles
<1>1. Init => LifeInv /\ ChatInv
    BY ChatBegins, ChannelConstants
<1>2. TypeOK /\ LifeInv /\ ChatInv /\ [Next]_vars => LifeInv' /\ ChatInv'
    BY LifeStep, ChatStep, ChannelConstants
<1>3. TypeOK /\ ChatInv => NoDoubles
    <2> SUFFICES ASSUME TypeOK, ChatInv, NEW i \in DOMAIN buffer, NEW j \in DOMAIN buffer,
                        i # j, buffer[i].chat = buffer[j].chat
                 PROVE  status[buffer[i].chat] = "failed"
        BY DEF NoDoubles
    <2> DEFINE n == buffer[i].chat
    <2>1. buffer[i] \in Entries /\ buffer[j] \in Entries
        BY DEF TypeOK
    <2>2. n \in Chats /\ buffer[i].copy \in BOOLEAN /\ buffer[j].copy \in BOOLEAN
        BY <2>1 DEF Entries
    <2>3. Shown(status, ToSet(log), buffer)
        BY DEF ChatInv
    <2>4. buffer[i].copy # buffer[j].copy
        BY <2>3 DEF Shown, Apart
    <2>5. Shows(buffer, n, TRUE) /\ Shows(buffer, n, FALSE)
        <3>1. CASE buffer[i].copy = TRUE /\ buffer[j].copy = FALSE
            BY <3>1 DEF Shows
        <3>2. CASE buffer[i].copy = FALSE /\ buffer[j].copy = TRUE
            BY <3>2 DEF Shows
        <3> QED BY <2>2, <2>4, <3>1, <3>2
    <2> QED BY <2>2, <2>3, <2>5 DEF Shown
<1> QED BY <1>1, <1>2, <1>3, ChannelTypes, PTL DEF Spec

============================================================================

----------------------------- MODULE RoomViews -----------------------------
(***************************************************************************)
(* What a component renders of the RoomChannel it is given: usePresence,   *)
(* useChat and useRaiseHand of React and Vue.  The channel keeps its maps  *)
(* and raises events; the hooks listen to some of them and copy the maps.  *)
(* A component may be given another channel at any time.                   *)
(*                                                                         *)
(* Channels are reduced to presenceMap, chatBuffer and the events of       *)
(* routeMessage and sendChat (RoomChannel has them in full); the server    *)
(* answers a join with its snapshot and an update with its echo, in order, *)
(* and others do anything at any time.                                     *)
(* Presence and chat are rendered by components of their own, which have   *)
(* nothing in common but the channel: a behaviour is about one of them.    *)
(***************************************************************************)
EXTENDS Naturals, Sequences, SequencesExt, Functions

CONSTANTS
    MaxGiven,           \* bound: times the component is given a channel, or none
    MaxMessages,        \* bound: messages of others, chats, and joins
    MaxWrites           \* bound: updates of my attributes

Channels == 1..2
People   == {"me", "bob"}
Attrs    == {"hand-raised", "name"}
Values   == {1, 2}      \* for the hand, 1 is true
Cleared  == 0           \* null, which deletes

VARIABLES
    host,               \* environment: [lib, hook]
    given, nth,         \* the channel of the component, or 0; how many it was given
    peers,              \* presenceMap of each channel
    buffer,             \* chatBuffer: [id, status]
    own,                \* ownAttributeKeys
    asked,              \* my joins and updates on their way
    shownPeers, shownChat,  \* rendered
    messages, writes,
    wish, hasty,        \* history: how my hand should end; toggle() was called before an
                        \* echo, or what was asked was lost
    replayed            \* history: a replay has come since chat was rendered

vars == <<host, given, nth, peers, buffer, own, asked, shownPeers, shownChat, messages, writes, wish,
          hasty, replayed>>

Nobody == <<>>          \* the empty map: nobody has an attribute
Join   == <<>>          \* the message that sets nothing, answered with a snapshot
Hand   == "hand-raised"

Init ==
    /\ host \in [lib : {"react", "vue"}, hook : {"presence", "chat"}] /\ given = 0 /\ nth = 0
    /\ peers = [c \in Channels |-> Nobody] /\ buffer = [c \in Channels |-> <<>>]
    /\ own = [c \in Channels |-> {}] /\ asked = [c \in Channels |-> <<>>]
    /\ shownPeers = Nobody /\ shownChat = <<>>
    /\ messages = 0 /\ writes = 0 /\ wish = FALSE /\ hasty = FALSE /\ replayed = FALSE

-----------------------------------------------------------------------------
\* Objects of attributes and maps of peers: one entry, and some entries over others.
Attr(name, v) == [a \in {name} |-> v]
Over(f, g) == [x \in DOMAIN f \cup DOMAIN g |-> IF x \in DOMAIN f THEN f[x] ELSE g[x]]

-----------------------------------------------------------------------------
\* The hooks.

\* snapshot(channel)
Snapshot(c, maps) == IF c = 0 THEN Nobody ELSE maps[c]

WithoutLeft == {"presence", "presence-snapshot"}    \* bug: leaves are not listened to
PresenceEvents == {"presence", "presence-snapshot", "peer-left"}
ChatEvents == {"chat"}

\* A channel's presence has changed: rendered if it is the component's, by its event.
PresenceChanges(c, event, map) ==
    /\ peers' = [peers EXCEPT ![c] = map]
    /\ shownPeers' = IF c = given /\ event \in PresenceEvents THEN Snapshot(c, peers') ELSE shownPeers

ChatChanges(c, event, entries) ==
    /\ buffer' = [buffer EXCEPT ![c] = entries]
    /\ LET rendered == c = given /\ event \in ChatEvents IN
       /\ shownChat' = IF rendered THEN entries ELSE shownChat
       /\ replayed' = (~rendered /\ (replayed \/ (c = given /\ event = "chat-history")))

Has(map, p, a, v) == p \in DOMAIN map /\ a \in DOMAIN map[p] /\ map[p][a] = v

ChatShown(c) == IF c = 0 THEN <<>> ELSE buffer[c]

\* The effect on [channel], the watcher of the channel: off with the old, on with the new.
Given(c) ==
    /\ c # given /\ nth < MaxGiven /\ nth' = nth + 1
    /\ given' = c /\ shownPeers' = Snapshot(c, peers)
    /\ shownChat' = ChatShown(c)
    /\ replayed' = FALSE
    /\ wish' = Has(Snapshot(c, peers), "me", Hand, 1)
    /\ hasty' = (c # 0 /\ asked[c] # <<>>)
    /\ UNCHANGED <<host, peers, buffer, own, asked, messages, writes>>

ReactGiven(c) == host.lib = "react" /\ Given(c)
VueGiven(c)   == host.lib = "vue" /\ Given(c)

-----------------------------------------------------------------------------
\* Writes: setAttribute, removeAttribute and clearAttributes send, the echo renders.

Writes(update, keys) ==
    /\ given # 0 /\ writes < MaxWrites /\ writes' = writes + 1
    /\ asked' = [asked EXCEPT ![given] = Append(@, update)]
    /\ own' = [own EXCEPT ![given] = keys]
    /\ UNCHANGED <<host, given, nth, peers, buffer, shownPeers, shownChat, messages, replayed>>

Sets(a, v) == Writes(Attr(a, v), IF v = Cleared THEN own[given] \ {a} ELSE own[given] \cup {a})

\* Of an attribute that is not the hand.
SetsOther(a, v) == a # Hand /\ Sets(a, v) /\ UNCHANGED <<wish, hasty>>

Clears ==
    /\ given # 0 /\ own[given] # {} /\ Writes([a \in own[given] |-> Cleared], {})
    /\ wish' = FALSE /\ hasty' = FALSE

ReactWrites(a, v) == host.lib = "react" /\ SetsOther(a, v)
VueWrites(a, v)   == host.lib = "vue" /\ SetsOther(a, v)
ReactClears == host.lib = "react" /\ Clears
VueClears   == host.lib = "vue" /\ Clears

\* `raised` is of what is rendered, toggle() looks into the channel; raise() and lower()
\* look at nothing.
Raised == given # 0 /\ Has(shownPeers, "me", Hand, 1)
IsRaised == Has(peers[given], "me", Hand, 1)

Raises(up) == Sets(Hand, IF up THEN 1 ELSE Cleared) /\ wish' = up /\ hasty' = FALSE

Toggles ==
    /\ given # 0 /\ Sets(Hand, IF IsRaised THEN Cleared ELSE 1)
    /\ wish' = ~wish /\ hasty' = (hasty \/ asked[given] # <<>>)

ReactRaises(up) == host.lib = "react" /\ Raises(up)
VueRaises(up)   == host.lib = "vue" /\ Raises(up)
ReactToggles == host.lib = "react" /\ Toggles
VueToggles   == host.lib = "vue" /\ Toggles

-----------------------------------------------------------------------------
\* The channels.

\* What an update makes of attributes: null deletes.
Updated(attrs, update) ==
    LET all == Over(update, attrs) IN [a \in {b \in DOMAIN all : all[b] # Cleared} |-> all[a]]

\* applyPresenceState: a peer without attributes goes.
Entered(map, p, attrs) ==
    IF attrs = <<>> THEN Restrict(map, DOMAIN map \ {p}) ELSE Over(Attr(p, attrs), map)

AttrsOf(map, p) == IF p \in DOMAIN map THEN map[p] ELSE <<>>

OfOthers == messages < MaxMessages /\ messages' = messages + 1

\* start(), or attemptReconnect() after a drop, with which what was asked is lost: join, and
\* resyncPresence() of the attributes that are mine.
Resync(c) == Restrict(AttrsOf(peers[c], "me"), own[c] \cap DOMAIN AttrsOf(peers[c], "me"))

Joins(c) ==
    /\ OfOthers
    /\ asked' = [asked EXCEPT ![c] = IF Resync(c) = <<>> THEN <<Join>> ELSE <<Join, Resync(c)>>]
    /\ hasty' = (hasty \/ (c = given /\ asked[c] # <<>>))
    /\ UNCHANGED <<host, given, nth, peers, buffer, own, shownPeers, shownChat, writes, wish,
                   replayed>>

\* What a snapshot may say of the others.
Maps == {Nobody} \cup {Attr("bob", Attr(a, 2)) : a \in Attrs}

\* applyPresenceSnapshot: the map is replaced; I am not in it, having just joined.
SnapshotArrives(c, others) ==
    /\ asked[c] # <<>> /\ Head(asked[c]) = Join /\ asked' = [asked EXCEPT ![c] = Tail(@)]
    /\ PresenceChanges(c, "presence-snapshot", others)
    /\ UNCHANGED <<host, given, nth, buffer, own, shownChat, messages, writes, wish, hasty,
                   replayed>>

EchoArrives(c) ==
    /\ asked[c] # <<>> /\ Head(asked[c]) # Join /\ asked' = [asked EXCEPT ![c] = Tail(@)]
    /\ PresenceChanges(c, "presence",
         Entered(peers[c], "me", Updated(AttrsOf(peers[c], "me"), Head(asked[c]))))
    /\ UNCHANGED <<host, given, nth, buffer, own, shownChat, messages, writes, wish, hasty,
                   replayed>>

BobUpdates(c, a, v) ==
    /\ OfOthers
    /\ PresenceChanges(c, "presence", Entered(peers[c], "bob", Updated(AttrsOf(peers[c], "bob"), Attr(a, v))))
    /\ UNCHANGED <<host, given, nth, buffer, own, asked, shownChat, writes, wish, hasty,
                   replayed>>

BobLeaves(c) ==
    /\ OfOthers
    /\ PresenceChanges(c, "peer-left", Restrict(peers[c], DOMAIN peers[c] \ {"bob"}))
    /\ UNCHANGED <<host, given, nth, buffer, own, asked, shownChat, writes, wish, hasty,
                   replayed>>

Entry(status) == [id |-> messages + 1, status |-> status]

\* send() of useChat: a pending entry and "chat".
Sends(c) ==
    /\ c = given /\ c # 0 /\ OfOthers
    /\ ChatChanges(c, "chat", Append(buffer[c], Entry("pending")))
    /\ UNCHANGED <<host, given, nth, peers, own, asked, shownPeers, writes, wish, hasty>>

ReactSends(c) == host.lib = "react" /\ Sends(c)
VueSends(c)   == host.lib = "vue" /\ Sends(c)

\* applyChat of another's chat.
BobSays(c) ==
    /\ OfOthers
    /\ ChatChanges(c, "chat", Append(buffer[c], Entry("confirmed")))
    /\ UNCHANGED <<host, given, nth, peers, own, asked, shownPeers, writes, wish, hasty>>

\* applyChat of the echo, markChatFailed: the entry is changed in place, "chat-status".
Decided(c, i, status) ==
    /\ i \in DOMAIN buffer[c] /\ buffer[c][i].status = "pending"
    /\ ChatChanges(c, "chat-status", [buffer[c] EXCEPT ![i].status = status])
    /\ UNCHANGED <<host, given, nth, peers, own, asked, shownPeers, messages, writes, wish, hasty>>

\* applyChatHistory: before what is there, "chat-history".  Once per channel; the entries
\* are confirmed ones, marked to be told apart.
HistoryArrives(c) ==
    /\ OfOthers
    /\ \A i \in DOMAIN buffer[c] : buffer[c][i].status # "replayed"
    /\ ChatChanges(c, "chat-history", <<Entry("replayed")>> \o buffer[c])
    /\ UNCHANGED <<host, given, nth, peers, own, asked, shownPeers, writes, wish, hasty>>

OfPresence ==
    \/ \E a \in Attrs, v \in Values \cup {Cleared} : ReactWrites(a, v) \/ VueWrites(a, v)
    \/ ReactClears \/ VueClears \/ ReactToggles \/ VueToggles
    \/ \E up \in BOOLEAN : ReactRaises(up) \/ VueRaises(up)
    \/ \E c \in Channels :
         \/ Joins(c) \/ EchoArrives(c) \/ BobLeaves(c)
         \/ \E others \in Maps : SnapshotArrives(c, others)
         \/ \E a \in Attrs, v \in Values \cup {Cleared} : BobUpdates(c, a, v)

OfChat ==
    \E c \in Channels :
      \/ ReactSends(c) \/ VueSends(c) \/ BobSays(c) \/ HistoryArrives(c)
      \/ \E i \in 1..MaxMessages, status \in {"confirmed", "failed"} : Decided(c, i, status)

Next ==
    \/ \E c \in Channels \cup {0} : ReactGiven(c) \/ VueGiven(c)
    \/ host.hook = "presence" /\ OfPresence
    \/ host.hook = "chat" /\ OfChat

Spec == Init /\ [][Next]_vars

-----------------------------------------------------------------------------
\* definePresenceDiff(prev, next): what an application makes of two snapshots.

NothingGone(prev, next) == {}       \* bug: attributes that are gone are not reported
Gone(prev, next) == DOMAIN prev \ DOMAIN next
Set(prev, next) == {a \in DOMAIN next : a \notin DOMAIN prev \/ prev[a] # next[a]}

Delta(prev, next) ==
    [a \in Set(prev, next) \cup Gone(prev, next) |-> IF a \in DOMAIN next THEN next[a] ELSE Cleared]

PresenceDiff(prev, next) ==
    [added   |-> Restrict(next, DOMAIN next \ DOMAIN prev),
     removed |-> DOMAIN prev \ DOMAIN next,
     changed |-> [p \in {q \in DOMAIN prev \cap DOMAIN next : Delta(prev[q], next[q]) # <<>>} |->
                    Delta(prev[p], next[p])]]

-----------------------------------------------------------------------------
\* Whatever channels a component is given, its presence is that of the present one; its
\* chats are that channel's, unless a history was replayed since the last chat, and their
\* statuses lag by nothing but being pending.
ViewsAreTrue ==
    /\ shownPeers = Snapshot(given, peers)
    /\ given # 0 /\ ~replayed =>
         /\ Len(shownChat) = Len(buffer[given])
         /\ \A i \in DOMAIN shownChat :
              /\ shownChat[i].id = buffer[given][i].id
              /\ shownChat[i].status \in {buffer[given][i].status, "pending"}

\* The hand ends as raise(), lower(), toggle() and clear() asked, also when the channel
\* rejoins; unless toggle() was called before an echo, or what was asked was lost.
TogglesAlternate == given # 0 /\ ~hasty /\ asked[given] = <<>> => (Raised <=> wish)

\* A snapshot and the difference to the next one make the next one: nothing an application
\* is told by definePresenceDiff is missing, and nothing is told without a change.
Patched(map, diff) ==
    [p \in (DOMAIN map \ diff.removed) \cup DOMAIN diff.added |->
       IF p \in DOMAIN diff.added THEN diff.added[p]
       ELSE IF p \in DOMAIN diff.changed THEN Updated(map[p], diff.changed[p]) ELSE map[p]]

DiffPatches ==
    LET diff == PresenceDiff(shownPeers, shownPeers') IN
      /\ Patched(shownPeers, diff) = shownPeers'
      /\ \A p \in DOMAIN diff.changed : \A a \in DOMAIN diff.changed[p] :
           diff.changed[p][a] # (IF a \in DOMAIN shownPeers[p] THEN shownPeers[p][a] ELSE Cleared)

DiffsPatch == [][DiffPatches]_vars
=============================================================================

--------------------------- MODULE BindingProofs ----------------------------
(***************************************************************************)
(* Proofs about the hooks and elements of a page: SessionHost, RoomViews,  *)
(* Capture and DeviceLists.  What they render is the state of the object   *)
(* they hold, and one that is unmounted leaves no member in the room and   *)
(* no track running.  Each part X has its inductive invariant XInv and the *)
(* lemmas XInit, XStep and XSays: it holds at first, a step of the part    *)
(* keeps it, and it implies the part's properties; for every number of     *)
(* mounts, calls and requests.                                             *)
(***************************************************************************)
EXTENDS MCPage, FiniteSets, FiniteSetTheorems, SequenceTheorems, WellFoundedInduction, TLAPS

-----------------------------------------------------------------------------
(***************************************************************************)
(* Sequences.                                                              *)
(***************************************************************************)

\* A sequence that is taken apart: its head, and a rest that is there unless it had one.
LEMMA Queued ==
    ASSUME NEW S, NEW s \in Seq(S), s # <<>>
    PROVE  /\ Head(s) \in S /\ Tail(s) \in Seq(S)
           /\ Len(s) \in Nat \ {0} /\ Len(Tail(s)) = Len(s) - 1
           /\ Len(s) # 1 => Tail(s) # <<>>
<1>1. Len(s) \in Nat /\ Len(s) # 0
    BY EmptySeq
<1>2. Head(s) \in S /\ Tail(s) \in Seq(S) /\ Len(Tail(s)) = Len(s) - 1
    BY <1>1
<1>3. Len(<<>>) = 0
    OBVIOUS
<1> QED BY <1>1, <1>2, <1>3

\* A sequence from its second element on.
LEMMA TailAt ==
    ASSUME NEW S, NEW s \in Seq(S), s # <<>>
    PROVE  /\ 1 \in 1..Len(s) /\ Head(s) = s[1] /\ Tail(s) \in Seq(S)
           /\ \A i \in 1..Len(Tail(s)) : i + 1 \in 1..Len(s) /\ Tail(s)[i] = s[i + 1]
           /\ \A i \in 1..Len(s) : i # 1 => \E k \in 1..Len(Tail(s)) : i = k + 1 /\ Tail(s)[k] = s[i]
<1>1. /\ Len(s) \in Nat \ {0} /\ Tail(s) \in Seq(S) /\ Len(Tail(s)) = Len(s) - 1
      /\ Head(s) = s[1]
    BY Queued
<1>2. \A i \in 1..Len(Tail(s)) : i + 1 \in 1..Len(s) /\ Tail(s)[i] = s[i + 1]
    BY <1>1
<1>3. ASSUME NEW i \in 1..Len(s), i # 1 PROVE \E k \in 1..Len(Tail(s)) : i = k + 1 /\ Tail(s)[k] = s[i]
    <2>1. PICK k : k = i - 1
        OBVIOUS
    <2>2. k \in 1..Len(Tail(s)) /\ i = k + 1
        BY <1>1, <1>3, <2>1
    <2> QED BY <1>2, <2>2
<1> QED BY <1>1, <1>2, <1>3

-----------------------------------------------------------------------------
(***************************************************************************)
(* Hooks and elements that mount sessions.                                 *)
(***************************************************************************)

Msg == [type : {"join", "leave"}, who : Host!Objects]

HostTypes ==
    /\ last \in Nat /\ cur \in Nat /\ cur <= last /\ last <= MaxMounts
    /\ state = [n \in Host!Objects |-> state[n]] /\ at = [n \in Host!Objects |-> at[n]]
    /\ stopping \in [Host!Objects -> BOOLEAN] /\ leaving \in [Host!Objects -> BOOLEAN]
    /\ timer \in [Host!Objects -> BOOLEAN]
    /\ tstate = [l \in Host!Objects |-> tstate[l]] /\ sock = [l \in Host!Objects |-> sock[l]]
    /\ old \in [Host!Objects -> BOOLEAN]
    /\ out \in [Host!Objects -> Seq(Msg)] /\ wire \in [Host!Objects -> Seq(Msg)]
    /\ members \subseteq Host!Objects /\ bound = [l \in Host!Objects |-> bound[l]]

\* The binding listens to the object it holds; the objects to come are untouched.
HostShows ==
    /\ subs = {cur} \ {0} /\ Host!ShownIsCurrent
    /\ \A n \in Host!Objects : n > last =>
         state[n] = "idle" /\ at[n] = "none" /\ ~timer[n] /\ ~stopping[n] /\ ~leaving[n]

\* Whoever was started is mounted or was stopped, and who was stopped does nothing more.
HostLife ==
    \A n \in Host!Objects :
      /\ stopping[n] => at[n] = "none" /\ ~timer[n]
      /\ state[n] = "closed" \/ leaving[n] => stopping[n]
      /\ at[n] # "none" \/ timer[n] => state[n] # "idle"
      /\ state[n] # "idle" => n = cur \/ stopping[n]

\* A transport is connected while its socket is open; the server knows of a connection, and
\* reads from it, until its close event.
HostLinks ==
    \A l \in Host!Objects :
      /\ tstate[l] = "connected" <=> sock[l] = "open"
      /\ sock[l] = "open" => out[l] = <<>> /\ ~old[l]
      /\ bound[l] # 0 \/ wire[l] # <<>> => sock[l] = "open" \/ old[l]

\* Messages in a row are such that a join is followed by none of another peer, and so is a
\* peer that is there; and whom they leave there in the end.
Chain(b, s) ==
    /\ b # 0 /\ s # <<>> => s[1].who = b
    /\ \A i, j \in 1..Len(s) : j = i + 1 /\ s[i].type = "join" => s[j].who = s[i].who

Tip(b, s) == IF s = <<>> THEN b ELSE IF s[Len(s)].type = "join" THEN s[Len(s)].who ELSE 0

\* Messages of transport l after peer b, and the peer they leave there: one that started.
Row(l, b, s, st) ==
    /\ Chain(b, s) /\ \A i \in 1..Len(s) : Host!LinkOf(s[i].who) = l
    /\ Tip(b, s) # 0 => /\ Tip(b, s) \in Host!Objects /\ Host!LinkOf(Tip(b, s)) = l
                        /\ st[Tip(b, s)] # "idle"

\* Only the last peer of a connection is in the room; it was not stopped, unless the
\* connection is closing, and none that was stopped joins later.
HostRoom ==
    /\ \A l \in Host!Objects :
         /\ Row(l, bound[l], wire[l], state) /\ Row(l, 0, out[l], state)
         /\ Tip(bound[l], wire[l]) # 0 /\ stopping[Tip(bound[l], wire[l])] => old[l]
         /\ Tip(0, out[l]) # 0 => ~stopping[Tip(0, out[l])]
    /\ \A m \in members : bound[Host!LinkOf(m)] = m

HostInv == HostTypes /\ HostShows /\ (raced = {} => HostLife /\ HostLinks /\ HostRoom)

\* The objects are numbers but not 0.
LEMMA HostSets ==
    ASSUME HostTypes
    PROVE  /\ \A n \in Host!Objects : n \in Nat /\ n # 0
           /\ cur # 0 => cur \in Host!Objects
           /\ cur \notin Host!Objects => cur = 0
           /\ \A n \in Host!Objects : Host!LinkOf(n) \in Host!Objects
<1>1. MaxMounts \in Nat /\ cur \in Nat /\ last \in Nat /\ cur <= last /\ last <= MaxMounts
    BY PageBounds DEF HostTypes
<1> QED BY <1>1 DEF Host!Objects, Host!LinkOf

\* A message is sent after those whose tip is its peer or nobody.
LEMMA ChainSent ==
    ASSUME NEW s \in Seq(Msg), NEW e \in Msg, NEW b, Chain(b, s), Tip(b, s) \in {0, e.who}, e.who # 0,
           \A x \in Msg : x.who # 0
    PROVE  /\ s \o <<e>> \in Seq(Msg) /\ s \o <<e>> # <<>>
           /\ Chain(b, s \o <<e>>) /\ Tip(b, s \o <<e>>) = IF e.type = "join" THEN e.who ELSE 0
           /\ \A i \in 1..Len(s \o <<e>>) :
                (s \o <<e>>)[i] = e \/ \E j \in 1..Len(s) : (s \o <<e>>)[i] = s[j]
<1> DEFINE t == s \o <<e>>
           n == Len(s)
<1>1. /\ t \in Seq(Msg) /\ n \in Nat /\ Len(t) = n + 1 /\ t[n + 1] = e
      /\ \A i \in 1..n : t[i] = s[i]
    OBVIOUS
<1>2. \A i \in 1..n : s[i] \in Msg /\ i \in Nat \ {0}
    OBVIOUS
<1>3. n = 0 <=> s = <<>>
    BY EmptySeq
<1> HIDE DEF t
<1>4. \A i \in 1..Len(t) : i \in 1..n \/ i = n + 1
    BY <1>1
<1>5. t # <<>>
    <2>1. Len(<<>>) = 0
        OBVIOUS
    <2> QED BY <1>1, <2>1
<1>6. Tip(b, t) = IF e.type = "join" THEN e.who ELSE 0
    BY <1>1, <1>5 DEF Tip
<1>7. s # <<>> => n \in 1..n /\ 1 \in 1..n
    BY <1>1, <1>3
<1>8. b # 0 => t[1].who = b
    <2>1. CASE s = <<>>
        BY <1>1, <1>3, <2>1 DEF Tip
    <2>2. CASE s # <<>>
        BY <1>1, <1>7, <2>2 DEF Chain
    <2> QED BY <2>1, <2>2
<1>9. ASSUME NEW i \in 1..Len(t), NEW j \in 1..Len(t), j = i + 1, t[i].type = "join"
      PROVE  t[j].who = t[i].who
    <2>1. i \in 1..n
        BY <1>1, <1>9
    <2>2. CASE j \in 1..n
        BY <1>1, <1>9, <2>1, <2>2 DEF Chain
    <2>3. CASE j = n + 1
        <3>1. i = n /\ s # <<>>
            BY <1>1, <1>3, <1>9, <2>1, <2>3
        <3>2. Tip(b, s) = s[n].who /\ s[n].who # 0
            BY <1>1, <1>2, <1>9, <2>1, <3>1 DEF Tip
        <3>3. t[j].who = e.who /\ t[i].who = s[n].who
            BY <1>1, <2>1, <2>3, <3>1
        <3> QED BY <3>2, <3>3
    <2> QED BY <1>4, <2>2, <2>3
<1>10. Chain(b, t)
    BY <1>8, <1>9 DEF Chain
<1>11. \A i \in 1..Len(t) : t[i] = e \/ \E j \in 1..n : t[i] = s[j]
    BY <1>1, <1>4
<1> QED BY <1>1, <1>5, <1>6, <1>10, <1>11 DEF t

\* The first message is read: its peer is the one that is there, if one is.
LEMMA ChainRead ==
    ASSUME NEW s \in Seq(Msg), s # <<>>, NEW b, Chain(b, s), \A x \in Msg : x.who # 0,
           NEW c, c = IF s[1].type = "join" THEN s[1].who ELSE 0
    PROVE  /\ s[1] \in Msg /\ Tail(s) \in Seq(Msg) /\ Chain(c, Tail(s)) /\ Tip(c, Tail(s)) = Tip(b, s)
           /\ b # 0 => b = s[1].who
           /\ \A i \in 1..Len(Tail(s)) : \E j \in 1..Len(s) : Tail(s)[i] = s[j]
           /\ 1 \in 1..Len(s)
<1> DEFINE t == Tail(s)
<1>1. /\ 1 \in 1..Len(s) /\ t \in Seq(Msg) /\ Len(s) \in Nat \ {0} /\ Len(t) = Len(s) - 1
      /\ \A i \in 1..Len(t) : i + 1 \in 1..Len(s) /\ t[i] = s[i + 1] /\ i \in Nat
    <2>1. /\ 1 \in 1..Len(s) /\ t \in Seq(Msg)
          /\ \A i \in 1..Len(t) : i + 1 \in 1..Len(s) /\ t[i] = s[i + 1]
        BY TailAt
    <2>2. Len(s) \in Nat \ {0} /\ Len(t) = Len(s) - 1
        BY Queued
    <2> QED BY <2>1, <2>2
<1>2. s[1] \in Msg
    BY <1>1
<1>3. Len(t) = 0 <=> t = <<>>
    BY <1>1, EmptySeq
<1> HIDE DEF t
<1>4. b # 0 => b = s[1].who
    BY DEF Chain
<1>5. Tip(c, t) = Tip(b, s)
    <2>1. CASE t = <<>>
        <3>1. Len(s) = 1
            BY <1>1, <1>3, <2>1
        <3> QED BY <2>1, <3>1 DEF Tip
    <2>2. CASE t # <<>>
        <3>1. Len(t) \in 1..Len(t) /\ Len(t) + 1 = Len(s)
            BY <1>1, <1>3, <2>2
        <3>2. t[Len(t)] = s[Len(s)]
            BY <1>1, <3>1
        <3> QED BY <2>2, <3>2 DEF Tip
    <2> QED BY <2>1, <2>2
<1>6. c # 0 /\ t # <<>> => t[1].who = c
    <2> SUFFICES ASSUME c # 0, t # <<>> PROVE t[1].who = c
        OBVIOUS
    <2>1. 1 \in 1..Len(t) /\ 2 \in 1..Len(s) /\ 2 = 1 + 1
        BY <1>1, <1>3
    <2>2. t[1] = s[2] /\ s[1].type = "join"
        BY <1>1, <2>1
    <2> QED BY <1>1, <2>1, <2>2 DEF Chain
<1>7. ASSUME NEW i \in 1..Len(t), NEW j \in 1..Len(t), j = i + 1, t[i].type = "join"
      PROVE  t[j].who = t[i].who
    <2>1. /\ i + 1 \in 1..Len(s) /\ j + 1 \in 1..Len(s) /\ j + 1 = (i + 1) + 1
          /\ t[i] = s[i + 1] /\ t[j] = s[j + 1]
        BY <1>1, <1>7
    <2> QED BY <1>7, <2>1 DEF Chain
<1>8. Chain(c, t)
    BY <1>6, <1>7 DEF Chain
<1>9. \A i \in 1..Len(t) : \E j \in 1..Len(s) : t[i] = s[j]
    BY <1>1
<1> QED BY <1>1, <1>2, <1>4, <1>5, <1>8, <1>9 DEF t

\* Messages name objects.
LEMMA MsgIs ==
    ASSUME HostTypes
    PROVE  /\ \A x \in Msg : x.who # 0 /\ x.who \in Host!Objects /\ x.type \in {"join", "leave"}
           /\ \A m \in Host!Objects : /\ [type |-> "join", who |-> m] \in Msg
                                      /\ [type |-> "leave", who |-> m] \in Msg
BY HostSets DEF Msg

\* connect(): no transport that was open is not, and none that was not is, if no second
\* socket was opened.
LEMMA HostConnects ==
    ASSUME HostTypes, NEW l \in Host!Objects, Host!Connect(l)
    PROVE  /\ tstate' = [k \in Host!Objects |-> tstate'[k]] /\ sock' = [k \in Host!Objects |-> sock'[k]]
           /\ raced' = {} => raced = {}
           /\ raced' = {} /\ HostLinks =>
                \A k \in Host!Objects : /\ tstate'[k] = "connected" <=> sock'[k] = "open"
                                        /\ sock'[k] = "open" <=> sock[k] = "open"
<1>1. /\ tstate = [k \in Host!Objects |-> tstate[k]] /\ sock = [k \in Host!Objects |-> sock[k]]
    BY DEF HostTypes
<1>2. CASE UNCHANGED <<tstate, sock, raced>>
    BY <1>1, <1>2 DEF HostLinks
<1>3. CASE /\ tstate' = [tstate EXCEPT ![l] = "connecting"] /\ sock' = [sock EXCEPT ![l] = "opening"]
           /\ raced' = IF sock[l] = "none" THEN raced ELSE Host!Objects
    <2>1. /\ tstate' = [k \in Host!Objects |-> tstate'[k]] /\ sock' = [k \in Host!Objects |-> sock'[k]]
          /\ tstate'[l] = "connecting" /\ sock'[l] = "opening"
          /\ \A k \in Host!Objects : k # l => tstate'[k] = tstate[k] /\ sock'[k] = sock[k]
        BY <1>1, <1>3
    <2>2. raced' = {} => raced = {} /\ sock[l] = "none"
        BY <1>3
    <2> QED BY <2>1, <2>2 DEF HostLinks
<1> QED BY <1>2, <1>3 DEF Host!Connect, Host!OpenSocket

\* disconnect(): a connection that was there is, or is closing.
LEMMA HostDisconnects ==
    ASSUME HostTypes, NEW l \in Host!Objects, Host!Disconnect(l)
    PROVE  /\ tstate' = [k \in Host!Objects |-> tstate'[k]] /\ sock' = [k \in Host!Objects |-> sock'[k]]
           /\ old' \in [Host!Objects -> BOOLEAN]
           /\ HostLinks =>
                \A k \in Host!Objects : /\ tstate'[k] = "connected" <=> sock'[k] = "open"
                                        /\ sock'[k] = "open" => sock[k] = "open" /\ ~old'[k]
                                        /\ sock[k] = "open" \/ old[k] => sock'[k] = "open" \/ old'[k]
                                        /\ old[k] => old'[k]
<1>1. /\ tstate = [k \in Host!Objects |-> tstate[k]] /\ sock = [k \in Host!Objects |-> sock[k]]
      /\ old \in [Host!Objects -> BOOLEAN]
    BY DEF HostTypes
<1>2. CASE UNCHANGED <<tstate, sock, old>>
    BY <1>1, <1>2 DEF HostLinks
<1>3. CASE /\ tstate' = [tstate EXCEPT ![l] = "closed"] /\ sock' = [sock EXCEPT ![l] = "none"]
           /\ old' = [old EXCEPT ![l] = @ \/ sock[l] # "none"]
    <2>1. /\ tstate' = [k \in Host!Objects |-> tstate'[k]] /\ sock' = [k \in Host!Objects |-> sock'[k]]
          /\ tstate'[l] = "closed" /\ sock'[l] = "none"
          /\ \A k \in Host!Objects : k # l => tstate'[k] = tstate[k] /\ sock'[k] = sock[k]
        BY <1>1, <1>3
    <2>2. /\ old' \in [Host!Objects -> BOOLEAN] /\ old'[l] = (old[l] \/ sock[l] # "none")
          /\ \A k \in Host!Objects : k # l => old'[k] = old[k]
        BY <1>1, <1>3
    <2> QED BY <2>1, <2>2 DEF HostLinks
<1> QED BY <1>2, <1>3 DEF Host!Disconnect

\* What the mounted object sends, unless it was stopped before.
LEMMA HostSends ==
    ASSUME HostTypes, cur # 0, NEW l, l = Host!LinkOf(cur), NEW t \in {"join", "leave"},
           Host!Send(l, <<[type |-> t, who |-> cur]>>)
    PROVE  /\ wire' \in [Host!Objects -> Seq(Msg)] /\ out' \in [Host!Objects -> Seq(Msg)]
           /\ HostLife /\ HostLinks /\ HostRoom /\ ~stopping[cur] =>
                \A k \in Host!Objects :
                  /\ Chain(bound[k], wire'[k]) /\ Chain(0, out'[k])
                  /\ \A i \in 1..Len(wire'[k]) : Host!LinkOf(wire'[k][i].who) = k
                  /\ \A i \in 1..Len(out'[k]) : Host!LinkOf(out'[k][i].who) = k
                  /\ sock[k] = "open" => out'[k] = <<>>
                  /\ bound[k] # 0 \/ wire'[k] # <<>> => sock[k] = "open" \/ old[k]
                  /\ \/ Tip(bound[k], wire'[k]) = Tip(bound[k], wire[k])
                     \/ k = l /\ Tip(bound[k], wire'[k]) = IF t = "join" THEN cur ELSE 0
                  /\ \/ Tip(0, out'[k]) = Tip(0, out[k])
                     \/ k = l /\ Tip(0, out'[k]) = IF t = "join" THEN cur ELSE 0
                  /\ t = "leave" => /\ Tip(bound[k], wire'[k]) = cur => old[k]
                                    /\ Tip(0, out'[k]) # cur
<1> DEFINE e == [type |-> t, who |-> cur]
<1>1. /\ wire \in [Host!Objects -> Seq(Msg)] /\ out \in [Host!Objects -> Seq(Msg)]
    BY DEF HostTypes
<1>2. cur \in Host!Objects /\ l \in Host!Objects
    BY HostSets
<1>3. e \in Msg /\ e.who = cur /\ e.type = t
    BY <1>2 DEF Msg
<1>4. \A x \in Msg : x.who # 0
    BY MsgIs
<1> HIDE DEF e
<1>5. \/ tstate[l] = "connected" /\ wire' = [wire EXCEPT ![l] = wire[l] \o <<e>>] /\ out' = out
      \/ tstate[l] # "connected" /\ out' = [out EXCEPT ![l] = out[l] \o <<e>>] /\ wire' = wire
    BY DEF Host!Send, e
<1>6. wire[l] \in Seq(Msg) /\ out[l] \in Seq(Msg)
    BY <1>1, <1>2
<1>7. wire[l] \o <<e>> \in Seq(Msg) /\ out[l] \o <<e>> \in Seq(Msg)
    BY <1>3, <1>6
<1>8. wire' \in [Host!Objects -> Seq(Msg)] /\ out' \in [Host!Objects -> Seq(Msg)]
    BY <1>1, <1>5, <1>7
<1>9. ASSUME HostLife, HostLinks, HostRoom, ~stopping[cur], NEW k \in Host!Objects
      PROVE  /\ Chain(bound[k], wire'[k]) /\ Chain(0, out'[k])
             /\ \A i \in 1..Len(wire'[k]) : Host!LinkOf(wire'[k][i].who) = k
             /\ \A i \in 1..Len(out'[k]) : Host!LinkOf(out'[k][i].who) = k
             /\ sock[k] = "open" => out'[k] = <<>>
             /\ bound[k] # 0 \/ wire'[k] # <<>> => sock[k] = "open" \/ old[k]
             /\ \/ Tip(bound[k], wire'[k]) = Tip(bound[k], wire[k])
                \/ k = l /\ Tip(bound[k], wire'[k]) = IF t = "join" THEN cur ELSE 0
             /\ \/ Tip(0, out'[k]) = Tip(0, out[k])
                \/ k = l /\ Tip(0, out'[k]) = IF t = "join" THEN cur ELSE 0
             /\ t = "leave" => /\ Tip(bound[k], wire'[k]) = cur => old[k]
                               /\ Tip(0, out'[k]) # cur
    <2>1. /\ Row(k, bound[k], wire[k], state) /\ Row(k, 0, out[k], state)
          /\ Tip(bound[k], wire[k]) # 0 /\ stopping[Tip(bound[k], wire[k])] => old[k]
          /\ Tip(0, out[k]) # 0 => ~stopping[Tip(0, out[k])]
        BY <1>9 DEF HostRoom
    <2>2. /\ tstate[k] = "connected" <=> sock[k] = "open"
          /\ sock[k] = "open" => out[k] = <<>> /\ ~old[k]
          /\ bound[k] # 0 \/ wire[k] # <<>> => sock[k] = "open" \/ old[k]
        BY <1>9 DEF HostLinks
    <2>3. /\ Chain(bound[k], wire[k]) /\ Chain(0, out[k])
          /\ \A i \in 1..Len(wire[k]) : Host!LinkOf(wire[k][i].who) = k
          /\ \A i \in 1..Len(out[k]) : Host!LinkOf(out[k][i].who) = k
        BY <2>1 DEF Row
    <2>4. /\ Tip(bound[k], wire[k]) # 0 => Tip(bound[k], wire[k]) = cur \/ old[k]
          /\ Tip(0, out[k]) # 0 => Tip(0, out[k]) = cur
          /\ Tip(bound[k], wire[k]) # 0 => Host!LinkOf(Tip(bound[k], wire[k])) = k
          /\ Tip(0, out[k]) # 0 => Host!LinkOf(Tip(0, out[k])) = k
        BY <1>9, <2>1 DEF Row, HostLife
    <2>5. CASE k # l
        <3>1. wire'[k] = wire[k] /\ out'[k] = out[k]
            BY <1>1, <1>5, <2>5
        <3>2. Tip(bound[k], wire[k]) # cur /\ Tip(0, out[k]) # cur
            BY <2>4, <2>5
        <3> QED BY <2>2, <2>3, <3>1, <3>2
    <2>6. CASE k = l /\ tstate[l] = "connected"
        <3>1. wire'[l] = wire[l] \o <<e>> /\ out'[l] = out[l]
            BY <1>1, <1>2, <1>5, <2>6
        <3>2. sock[l] = "open" /\ out[l] = <<>> /\ ~old[l]
            BY <2>2, <2>6
        <3>3. Tip(bound[l], wire[l]) \in {0, e.who} /\ Chain(bound[l], wire[l]) /\ e.who # 0
            BY <1>3, <2>3, <2>4, <2>6, <3>2
        <3>4. /\ Chain(bound[l], wire[l] \o <<e>>)
              /\ Tip(bound[l], wire[l] \o <<e>>) = IF e.type = "join" THEN e.who ELSE 0
              /\ \A i \in 1..Len(wire[l] \o <<e>>) :
                   (wire[l] \o <<e>>)[i] = e \/ \E j \in 1..Len(wire[l]) : (wire[l] \o <<e>>)[i] = wire[l][j]
            BY <1>3, <1>4, <1>6, <3>3, ChainSent
        <3>5. Tip(0, out[l]) = 0
            BY <3>2 DEF Tip
        <3>6. \A i \in 1..Len(wire'[l]) : Host!LinkOf(wire'[l][i].who) = l
            BY <1>3, <2>3, <2>6, <3>1, <3>4
        <3>7. t = "leave" => t # "join"
            OBVIOUS
        <3> QED BY <1>3, <2>3, <2>6, <3>1, <3>2, <3>4, <3>5, <3>6, <3>7
    <2>7. CASE k = l /\ tstate[l] # "connected"
        <3>1. out'[l] = out[l] \o <<e>> /\ wire'[l] = wire[l]
            BY <1>1, <1>2, <1>5, <2>7
        <3>2. sock[l] # "open"
            BY <2>2, <2>7
        <3>3. Tip(0, out[l]) \in {0, e.who} /\ Chain(0, out[l]) /\ e.who # 0
            BY <1>3, <2>3, <2>4, <2>7
        <3>4. /\ Chain(0, out[l] \o <<e>>)
              /\ Tip(0, out[l] \o <<e>>) = IF e.type = "join" THEN e.who ELSE 0
              /\ \A i \in 1..Len(out[l] \o <<e>>) :
                   (out[l] \o <<e>>)[i] = e \/ \E j \in 1..Len(out[l]) : (out[l] \o <<e>>)[i] = out[l][j]
            BY <1>3, <1>4, <1>6, <3>3, ChainSent
        <3>5. Tip(bound[l], wire[l]) # 0 => old[l]
            BY <2>2, <2>7, <3>2 DEF Tip
        <3>6. \A i \in 1..Len(out'[l]) : Host!LinkOf(out'[l][i].who) = l
            BY <1>3, <2>3, <2>7, <3>1, <3>4
        <3>7. t = "leave" => t # "join"
            OBVIOUS
        <3> QED BY <1>3, <2>2, <2>3, <2>7, <3>1, <3>2, <3>4, <3>5, <3>6, <3>7
    <2> QED BY <2>5, <2>6, <2>7
<1> QED BY <1>8, <1>9

\* Render follows the object the binding holds.
LEMMA HostRenders ==
    ASSUME HostTypes, HostShows, Host!Render, UNCHANGED <<opts, cur, subs>>
    PROVE  subs' = {cur'} \ {0} /\ Host!ShownIsCurrent'
<1>1. subs = {cur} \ {0} /\ Host!ShownIsCurrent /\ cur \in Nat
    BY DEF HostShows, HostTypes
<1> DEFINE moved == {n \in subs : tstate'[Host!LinkOf(n)] # tstate[Host!LinkOf(n)]}
           heeds == {n \in subs : state'[n] # state[n]}
<1>2. shown' = IF Host!Channel
               THEN IF moved = {} THEN shown ELSE tstate'[Host!LinkOf(Host!Max(moved))]
               ELSE IF heeds = {} THEN shown ELSE state'[Host!Max(heeds)]
    BY DEF Host!Render
<1>3. Host!Channel' = Host!Channel /\ \A n : Host!LinkOf(n)' = Host!LinkOf(n)
    BY DEF Host!Channel, Host!LinkOf
<1>4. CASE cur = 0
    <2>1. moved = {} /\ heeds = {}
        BY <1>1, <1>4
    <2>2. shown' = shown
        BY <1>2, <2>1
    <2> QED BY <1>1, <1>4, <2>2 DEF Host!ShownIsCurrent
<1>5. CASE cur # 0
    <2>1. Host!Max({cur}) = cur
        BY <1>1 DEF Host!Max
    <2>2. /\ moved = IF tstate'[Host!LinkOf(cur)] # tstate[Host!LinkOf(cur)] THEN {cur} ELSE {}
          /\ heeds = IF state'[cur] # state[cur] THEN {cur} ELSE {}
        BY <1>1, <1>5
    <2> HIDE DEF moved, heeds
    <2>3. shown = IF Host!Channel THEN tstate[Host!LinkOf(cur)] ELSE state[cur]
        BY <1>1, <1>5 DEF Host!ShownIsCurrent
    <2>4. shown' = IF Host!Channel THEN tstate'[Host!LinkOf(cur)] ELSE state'[cur]
        <3>1. CASE Host!Channel
            BY <1>2, <2>1, <2>2, <2>3, <3>1
        <3>2. CASE ~Host!Channel
            BY <1>2, <2>1, <2>2, <2>3, <3>2
        <3> QED BY <3>1, <3>2
    <2>5. Host!LinkOf(cur)' = Host!LinkOf(cur)
        BY DEF Host!LinkOf
    <2> QED BY <1>1, <1>3, <1>5, <2>4, <2>5 DEF Host!ShownIsCurrent
<1> QED BY <1>4, <1>5

\* What a transport's new state does to the objects: those that were never started and those
\* that were stopped do not hear of it, and it closes none.
LEMMA HostHears ==
    ASSUME HostTypes, NEW l, NEW s
    PROVE  \A n \in Host!Objects :
             /\ \/ Host!Told(l, s)[n] = state[n]
                \/ /\ state[n] # "idle" /\ ~stopping[n]
                   /\ Host!Told(l, s)[n] \notin {"idle", "closed"}
             /\ Host!Retrying(l, s)[n] =>
                  timer[n] \/ (state[n] # "idle" /\ ~stopping[n])
<1> SUFFICES ASSUME NEW n \in Host!Objects
             PROVE  /\ \/ Host!Told(l, s)[n] = state[n]
                       \/ /\ state[n] # "idle" /\ ~stopping[n]
                          /\ Host!Told(l, s)[n] \notin {"idle", "closed"}
                    /\ Host!Retrying(l, s)[n] =>
                         timer[n] \/ (state[n] # "idle" /\ ~stopping[n])
    OBVIOUS
<1>1. Host!Told(l, s)[n] = IF Host!LinkOf(n) = l /\ s # tstate[l] /\ Host!Listening(n)
                           THEN Host!Heard(n, s) ELSE state[n]
    BY DEF Host!Told
<1>2. Host!Heard(n, s) = state[n] \/ Host!Heard(n, s) \in {"reconnecting", "connected", "failed"}
    <2>1. CASE Host!Channel
        BY <2>1 DEF Host!Heard
    <2>2. CASE ~Host!Channel /\ s = "connected"
        BY <2>2 DEF Host!Heard
    <2>3. CASE ~Host!Channel /\ s = "reconnecting"
        BY <2>3 DEF Host!Heard
    <2>4. CASE ~Host!Channel /\ s = "closed"
        BY <2>4 DEF Host!Heard
    <2>5. CASE ~Host!Channel /\ s \notin {"connected", "reconnecting", "closed"}
        BY <2>5 DEF Host!Heard
    <2> QED BY <2>1, <2>2, <2>3, <2>4, <2>5
<1>3. Host!Retrying(l, s)[n] <=> timer[n] \/ (s = "closed" /\ Host!Told(l, s)[n] # state[n])
    BY DEF Host!Retrying
<1>4. \/ Host!Told(l, s)[n] = state[n]
      \/ /\ state[n] # "idle" /\ ~stopping[n]
         /\ Host!Told(l, s)[n] \in {"reconnecting", "connected", "failed"}
    BY <1>1, <1>2 DEF Host!Listening
<1> QED BY <1>3, <1>4

\* Objects that go on as the code lets them.
LEMMA HostGoesOn ==
    ASSUME HostTypes, HostLife, UNCHANGED <<cur, at, stopping>>,
           \A n \in Host!Objects :
             /\ state'[n] = "idle" => state[n] = "idle"
             /\ state'[n] # state[n] => state[n] # "idle" \/ stopping[n]
             /\ state'[n] = "closed" => state[n] = "closed" \/ stopping[n]
             /\ timer'[n] => timer[n] \/ (state[n] # "idle" /\ ~stopping[n])
             /\ leaving'[n] => leaving[n]
    PROVE  HostLife'
BY DEF HostLife

\* What is said and read is left alone: the room stays as it is.
LEMMA HostStays ==
    ASSUME HostTypes, HostRoom, UNCHANGED <<opts, stopping, out, wire, members, bound>>,
           \A n \in Host!Objects : /\ state'[n] = "idle" => state[n] = "idle"
                                   /\ old[n] => old'[n]
    PROVE  HostRoom'
<1>1. \A n : Host!LinkOf(n)' = Host!LinkOf(n)
    BY DEF Host!LinkOf
<1>2. ASSUME NEW l \in Host!Objects
      PROVE  /\ Row(l, bound[l], wire[l], state') /\ Row(l, 0, out[l], state')
             /\ Tip(bound[l], wire[l]) # 0 /\ stopping[Tip(bound[l], wire[l])] => old'[l]
             /\ Tip(0, out[l]) # 0 => ~stopping[Tip(0, out[l])]
    <2>1. /\ Row(l, bound[l], wire[l], state) /\ Row(l, 0, out[l], state)
          /\ Tip(bound[l], wire[l]) # 0 /\ stopping[Tip(bound[l], wire[l])] => old[l]
          /\ Tip(0, out[l]) # 0 => ~stopping[Tip(0, out[l])]
        BY DEF HostRoom
    <2>2. Row(l, bound[l], wire[l], state')
        BY <2>1 DEF Row
    <2>3. Row(l, 0, out[l], state')
        BY <2>1 DEF Row
    <2> QED BY <2>1, <2>2, <2>3
<1>3. \A m \in members : bound[Host!LinkOf(m)] = m
    BY DEF HostRoom
<1>4. \A l \in Host!Objects : /\ Row(l, bound[l], wire[l], state)' = Row(l, bound[l], wire[l], state')
                              /\ Row(l, 0, out[l], state)' = Row(l, 0, out[l], state')
    BY <1>1 DEF Row
<1> QED BY <1>1, <1>2, <1>3, <1>4 DEF HostRoom

\* At first nothing is mounted.
LEMMA HostInit == Host!Init => HostInv
<1> SUFFICES ASSUME Host!Init PROVE HostInv
    OBVIOUS
<1>1. /\ cur = 0 /\ last = 0 /\ subs = {} /\ shown = "idle"
      /\ state = [n \in Host!Objects |-> "idle"] /\ at = [n \in Host!Objects |-> "none"]
      /\ stopping = [n \in Host!Objects |-> FALSE] /\ leaving = [n \in Host!Objects |-> FALSE]
      /\ timer = [n \in Host!Objects |-> FALSE]
      /\ tstate = [l \in Host!Objects |-> "idle"] /\ sock = [l \in Host!Objects |-> "none"]
      /\ old = [l \in Host!Objects |-> FALSE]
      /\ out = [l \in Host!Objects |-> <<>>] /\ wire = [l \in Host!Objects |-> <<>>]
      /\ members = {} /\ bound = [l \in Host!Objects |-> 0]
    BY DEF Host!Init
<1>2. <<>> \in Seq(Msg) /\ Len(<<>>) = 0
    OBVIOUS
<1>3. HostTypes
    BY <1>1, <1>2, PageBounds DEF HostTypes
<1>4. HostShows
    BY <1>1 DEF HostShows, Host!ShownIsCurrent
<1>5. HostLife /\ HostLinks
    BY <1>1 DEF HostLife, HostLinks
<1>6. Tip(0, <<>>) = 0 /\ Chain(0, <<>>)
    BY <1>2 DEF Tip, Chain
<1>7. HostRoom
    BY <1>1, <1>2, <1>6 DEF HostRoom, Row
<1> QED BY <1>3, <1>4, <1>5, <1>7 DEF HostInv

\* stop() of the mounted object, up to its leave.
LEMMA HostStop ==
    ASSUME HostTypes, cur # 0, Host!Stop(cur)
    PROVE  /\ stopping' \in [Host!Objects -> BOOLEAN] /\ leaving' \in [Host!Objects -> BOOLEAN]
           /\ timer' \in [Host!Objects -> BOOLEAN]
           /\ wire' \in [Host!Objects -> Seq(Msg)] /\ out' \in [Host!Objects -> Seq(Msg)]
           /\ raced' = {} => raced = {}
           /\ \A n \in Host!Objects : n # cur => /\ stopping'[n] = stopping[n] /\ timer'[n] = timer[n]
                                                 /\ leaving'[n] = leaving[n]
           /\ HostLife /\ HostLinks /\ HostRoom /\ raced' = {} =>
                /\ state[cur] # "idle" \/ leaving'[cur] => stopping'[cur]
                /\ stopping'[cur] => at[cur] = "none" /\ ~timer'[cur]
                /\ timer'[cur] => timer[cur]
                /\ \A k \in Host!Objects :
                     /\ Chain(bound[k], wire'[k]) /\ Chain(0, out'[k])
                     /\ \A i \in 1..Len(wire'[k]) : Host!LinkOf(wire'[k][i].who) = k
                     /\ \A i \in 1..Len(out'[k]) : Host!LinkOf(out'[k][i].who) = k
                     /\ sock[k] = "open" => out'[k] = <<>>
                     /\ bound[k] # 0 \/ wire'[k] # <<>> => sock[k] = "open" \/ old[k]
                     /\ Tip(bound[k], wire'[k]) \in {0, Tip(bound[k], wire[k])}
                     /\ Tip(0, out'[k]) \in {0, Tip(0, out[k])}
                     /\ stopping'[cur] => /\ Tip(bound[k], wire'[k]) = cur => old[k]
                                          /\ Tip(0, out'[k]) # cur
<1>1. /\ stopping \in [Host!Objects -> BOOLEAN] /\ leaving \in [Host!Objects -> BOOLEAN]
      /\ timer \in [Host!Objects -> BOOLEAN]
      /\ wire \in [Host!Objects -> Seq(Msg)] /\ out \in [Host!Objects -> Seq(Msg)]
    BY DEF HostTypes
<1>2. cur \in Host!Objects
    BY HostSets
<1>3. CASE /\ state[cur] = "closed" \/ (Host!Channel /\ state[cur] = "idle") \/ stopping[cur]
           /\ UNCHANGED <<stopping, leaving, timer, out, wire, raced>>
    <2>1. ASSUME HostLife, HostLinks, HostRoom
          PROVE  /\ state[cur] # "idle" \/ leaving[cur] => stopping[cur]
                 /\ stopping[cur] => at[cur] = "none" /\ ~timer[cur]
        BY <1>2, <1>3, <2>1 DEF HostLife
    <2>2. ASSUME HostLife, HostLinks, HostRoom, NEW k \in Host!Objects
          PROVE  /\ Chain(bound[k], wire[k]) /\ Chain(0, out[k])
                 /\ \A i \in 1..Len(wire[k]) : Host!LinkOf(wire[k][i].who) = k
                 /\ \A i \in 1..Len(out[k]) : Host!LinkOf(out[k][i].who) = k
                 /\ sock[k] = "open" => out[k] = <<>>
                 /\ bound[k] # 0 \/ wire[k] # <<>> => sock[k] = "open" \/ old[k]
                 /\ stopping[cur] => /\ Tip(bound[k], wire[k]) = cur => old[k]
                                     /\ Tip(0, out[k]) # cur
        <3>1. /\ Row(k, bound[k], wire[k], state) /\ Row(k, 0, out[k], state)
              /\ Tip(bound[k], wire[k]) # 0 /\ stopping[Tip(bound[k], wire[k])] => old[k]
              /\ Tip(0, out[k]) # 0 => ~stopping[Tip(0, out[k])]
            BY <2>2 DEF HostRoom
        <3>2. /\ sock[k] = "open" => out[k] = <<>>
              /\ bound[k] # 0 \/ wire[k] # <<>> => sock[k] = "open" \/ old[k]
            BY <2>2 DEF HostLinks
        <3>3. /\ Chain(bound[k], wire[k]) /\ Chain(0, out[k])
              /\ \A i \in 1..Len(wire[k]) : Host!LinkOf(wire[k][i].who) = k
              /\ \A i \in 1..Len(out[k]) : Host!LinkOf(out[k][i].who) = k
            BY <3>1 DEF Row
        <3>4. stopping[cur] => /\ Tip(bound[k], wire[k]) = cur => old[k]
                               /\ Tip(0, out[k]) # cur
            BY <3>1
        <3> QED BY <3>2, <3>3, <3>4
    <2>3. /\ stopping' = stopping /\ leaving' = leaving /\ timer' = timer /\ out' = out
          /\ wire' = wire /\ raced' = raced
        BY <1>3
    <2> QED BY <1>1, <2>1, <2>2, <2>3
<1>4. CASE /\ ~stopping[cur]
           /\ stopping' = [stopping EXCEPT ![cur] = TRUE]
           /\ leaving' = [leaving EXCEPT ![cur] = TRUE]
           /\ timer' = [timer EXCEPT ![cur] = FALSE]
           /\ Host!Send(Host!LinkOf(cur), <<[type |-> "leave", who |-> cur]>>)
           /\ raced' = IF at[cur] # "none" THEN raced \cup {cur} ELSE raced
    <2>1. /\ stopping' \in [Host!Objects -> BOOLEAN] /\ leaving' \in [Host!Objects -> BOOLEAN]
          /\ timer' \in [Host!Objects -> BOOLEAN]
          /\ stopping'[cur] /\ ~timer'[cur]
          /\ \A n \in Host!Objects : n # cur => /\ stopping'[n] = stopping[n] /\ timer'[n] = timer[n]
                                                /\ leaving'[n] = leaving[n]
        BY <1>1, <1>2, <1>4
    <2>2. raced' = {} => raced = {} /\ at[cur] = "none"
        BY <1>4
    <2>3. PICK t : t = "leave"
        OBVIOUS
    <2>4. PICK l : l = Host!LinkOf(cur)
        OBVIOUS
    <2>5. t \in {"join", "leave"} /\ Host!Send(l, <<[type |-> t, who |-> cur]>>)
        BY <1>4, <2>3, <2>4
    <2>6. /\ wire' \in [Host!Objects -> Seq(Msg)] /\ out' \in [Host!Objects -> Seq(Msg)]
          /\ HostLife /\ HostLinks /\ HostRoom /\ ~stopping[cur] =>
               \A k \in Host!Objects :
                 /\ Chain(bound[k], wire'[k]) /\ Chain(0, out'[k])
                 /\ \A i \in 1..Len(wire'[k]) : Host!LinkOf(wire'[k][i].who) = k
                 /\ \A i \in 1..Len(out'[k]) : Host!LinkOf(out'[k][i].who) = k
                 /\ sock[k] = "open" => out'[k] = <<>>
                 /\ bound[k] # 0 \/ wire'[k] # <<>> => sock[k] = "open" \/ old[k]
                 /\ \/ Tip(bound[k], wire'[k]) = Tip(bound[k], wire[k])
                    \/ k = l /\ Tip(bound[k], wire'[k]) = IF t = "join" THEN cur ELSE 0
                 /\ \/ Tip(0, out'[k]) = Tip(0, out[k])
                    \/ k = l /\ Tip(0, out'[k]) = IF t = "join" THEN cur ELSE 0
                 /\ t = "leave" => /\ Tip(bound[k], wire'[k]) = cur => old[k]
                                   /\ Tip(0, out'[k]) # cur
        BY <2>4, <2>5, HostSends
    <2>7. t # "join" /\ t = "leave"
        BY <2>3
    <2> QED BY <1>4, <2>1, <2>2, <2>6, <2>7
<1> QED BY <1>3, <1>4 DEF Host!Stop, Host!Goodbye

\* ... and whatever becomes of its transport: the object says goodbye to the room, or its
\* connection is closing.
LEMMA HostStops ==
    ASSUME HostInv, cur # 0, Host!Stop(cur), cur' \in {0, cur},
           UNCHANGED <<opts, last, state, at, members, bound>>,
           UNCHANGED <<tstate, sock, old>> \/ Host!Disconnect(Host!LinkOf(cur))
    PROVE  /\ HostTypes' /\ (raced' = {} => HostLife' /\ HostLinks' /\ HostRoom')
           /\ \A n \in Host!Objects : n > last =>
                state[n] = "idle" /\ at[n] = "none" /\ ~timer'[n] /\ ~stopping'[n] /\ ~leaving'[n]
<1>0. HostTypes /\ HostShows /\ (raced = {} => HostLife /\ HostLinks /\ HostRoom)
    BY DEF HostInv
<1>1. cur \in Host!Objects /\ Host!LinkOf(cur) \in Host!Objects /\ cur \in Nat /\ cur <= last /\ last \in Nat
    BY <1>0, HostSets DEF HostTypes
<1>2. /\ stopping' \in [Host!Objects -> BOOLEAN] /\ leaving' \in [Host!Objects -> BOOLEAN]
      /\ timer' \in [Host!Objects -> BOOLEAN]
      /\ wire' \in [Host!Objects -> Seq(Msg)] /\ out' \in [Host!Objects -> Seq(Msg)]
      /\ raced' = {} => raced = {}
      /\ \A n \in Host!Objects : n # cur => /\ stopping'[n] = stopping[n] /\ timer'[n] = timer[n]
                                            /\ leaving'[n] = leaving[n]
      /\ HostLife /\ HostLinks /\ HostRoom /\ raced' = {} =>
           /\ state[cur] # "idle" \/ leaving'[cur] => stopping'[cur]
           /\ stopping'[cur] => at[cur] = "none" /\ ~timer'[cur]
           /\ timer'[cur] => timer[cur]
           /\ \A k \in Host!Objects :
                /\ Chain(bound[k], wire'[k]) /\ Chain(0, out'[k])
                /\ \A i \in 1..Len(wire'[k]) : Host!LinkOf(wire'[k][i].who) = k
                /\ \A i \in 1..Len(out'[k]) : Host!LinkOf(out'[k][i].who) = k
                /\ sock[k] = "open" => out'[k] = <<>>
                /\ bound[k] # 0 \/ wire'[k] # <<>> => sock[k] = "open" \/ old[k]
                /\ Tip(bound[k], wire'[k]) \in {0, Tip(bound[k], wire[k])}
                /\ Tip(0, out'[k]) \in {0, Tip(0, out[k])}
                /\ stopping'[cur] => /\ Tip(bound[k], wire'[k]) = cur => old[k]
                                     /\ Tip(0, out'[k]) # cur
    BY <1>0, HostStop
<1>3. /\ tstate' = [k \in Host!Objects |-> tstate'[k]] /\ sock' = [k \in Host!Objects |-> sock'[k]]
      /\ old' \in [Host!Objects -> BOOLEAN]
      /\ HostLinks =>
           \A k \in Host!Objects : /\ tstate'[k] = "connected" <=> sock'[k] = "open"
                                   /\ sock'[k] = "open" => sock[k] = "open" /\ ~old'[k]
                                   /\ sock[k] = "open" \/ old[k] => sock'[k] = "open" \/ old'[k]
                                   /\ old[k] => old'[k]
    <2>1. CASE UNCHANGED <<tstate, sock, old>>
        BY <1>0, <2>1 DEF HostTypes, HostLinks
    <2>2. CASE Host!Disconnect(Host!LinkOf(cur))
        BY <1>0, <1>1, <2>2, HostDisconnects
    <2> QED BY <2>1, <2>2
<1>4. HostTypes'
    <2>1. cur' \in Nat /\ cur' <= last
        BY <1>1
    <2> QED BY <1>0, <1>2, <1>3, <2>1 DEF HostTypes
<1>5. \A n \in Host!Objects : n > last =>
        state[n] = "idle" /\ at[n] = "none" /\ ~timer'[n] /\ ~stopping'[n] /\ ~leaving'[n]
    <2>1. \A n \in Host!Objects : n > last => n # cur
        BY <1>0, <1>1, HostSets
    <2> QED BY <1>0, <1>2, <2>1 DEF HostShows
<1>6. ASSUME raced' = {} PROVE HostLife' /\ HostLinks' /\ HostRoom'
    <2>0. HostLife /\ HostLinks /\ HostRoom
        BY <1>0, <1>2, <1>6
    <2>1. HostLife'
        <3>1. ASSUME NEW n \in Host!Objects
              PROVE  /\ stopping'[n] => at[n] = "none" /\ ~timer'[n]
                     /\ state[n] = "closed" \/ leaving'[n] => stopping'[n]
                     /\ at[n] # "none" \/ timer'[n] => state[n] # "idle"
                     /\ state[n] # "idle" => n = cur' \/ stopping'[n]
            <4>1. CASE n = cur
                BY <1>2, <1>6, <2>0, <4>1 DEF HostLife
            <4>2. CASE n # cur
                BY <1>2, <2>0, <4>2 DEF HostLife
            <4> QED BY <4>1, <4>2
        <3> QED BY <3>1 DEF HostLife
    <2>2. HostLinks'
        BY <1>2, <1>3, <1>6, <2>0 DEF HostLinks
    <2>3. HostRoom'
        <3>1. \A n : Host!LinkOf(n)' = Host!LinkOf(n)
            BY DEF Host!LinkOf
        <3>2. \A m \in members : bound[Host!LinkOf(m)] = m
            BY <2>0 DEF HostRoom
        <3>3. ASSUME NEW l \in Host!Objects
              PROVE  /\ Row(l, bound[l], wire'[l], state) /\ Row(l, 0, out'[l], state)
                     /\ Tip(bound[l], wire'[l]) # 0 /\ stopping'[Tip(bound[l], wire'[l])] => old'[l]
                     /\ Tip(0, out'[l]) # 0 => ~stopping'[Tip(0, out'[l])]
            <4>1. /\ Row(l, bound[l], wire[l], state) /\ Row(l, 0, out[l], state)
                  /\ Tip(bound[l], wire[l]) # 0 /\ stopping[Tip(bound[l], wire[l])] => old[l]
                  /\ Tip(0, out[l]) # 0 => ~stopping[Tip(0, out[l])]
                BY <2>0 DEF HostRoom
            <4>2. /\ Tip(bound[l], wire'[l]) \in {0, Tip(bound[l], wire[l])}
                  /\ Tip(0, out'[l]) \in {0, Tip(0, out[l])}
                  /\ stopping'[cur] => /\ Tip(bound[l], wire'[l]) = cur => old[l]
                                       /\ Tip(0, out'[l]) # cur
                BY <1>2, <1>6, <2>0
            <4>3. /\ Chain(bound[l], wire'[l]) /\ Chain(0, out'[l])
                  /\ \A i \in 1..Len(wire'[l]) : Host!LinkOf(wire'[l][i].who) = l
                  /\ \A i \in 1..Len(out'[l]) : Host!LinkOf(out'[l][i].who) = l
                BY <1>2, <1>6, <2>0
            <4>4. Row(l, bound[l], wire'[l], state)
                BY <4>1, <4>2, <4>3 DEF Row
            <4>5. Row(l, 0, out'[l], state)
                BY <4>1, <4>2, <4>3 DEF Row
            <4>6. ASSUME Tip(bound[l], wire'[l]) # 0, stopping'[Tip(bound[l], wire'[l])]
                  PROVE  old'[l]
                <5>1. Tip(bound[l], wire'[l]) \in Host!Objects
                    BY <4>4, <4>6 DEF Row
                <5>2. old[l]
                    BY <1>2, <4>1, <4>2, <4>6, <5>1
                <5> QED BY <1>3, <2>0, <5>2
            <4>7. ASSUME Tip(0, out'[l]) # 0 PROVE ~stopping'[Tip(0, out'[l])]
                <5>1. Tip(0, out'[l]) \in Host!Objects
                    BY <4>5, <4>7 DEF Row
                <5> QED BY <1>2, <4>1, <4>2, <4>7, <5>1
            <4> QED BY <4>4, <4>5, <4>6, <4>7
        <3>4. \A l \in Host!Objects :
                /\ Row(l, bound[l], wire[l], state)' = Row(l, bound[l], wire'[l], state)
                /\ Row(l, 0, out[l], state)' = Row(l, 0, out'[l], state)
            BY <3>1 DEF Row
        <3> QED BY <3>1, <3>2, <3>3, <3>4 DEF HostRoom
    <2> QED BY <2>1, <2>2, <2>3
<1> QED BY <1>4, <1>5, <1>6

\* The mounted object starts.
LEMMA HostStarts ==
    ASSUME HostInv, NEW n \in Host!Objects, n = cur', cur \in {0, n}, state[n] = "idle", ~stopping[n],
           Host!Start(n), last' \in Nat, n <= last', last' <= MaxMounts,
           UNCHANGED <<opts, stopping, leaving, timer, old, out, wire, members, bound>>
    PROVE  /\ HostTypes' /\ (raced' = {} => HostLife' /\ HostLinks' /\ HostRoom')
           /\ state'[n] = "connecting"
           /\ \A m \in Host!Objects : m # n => state'[m] = state[m] /\ at'[m] = at[m]
<1>0. HostTypes /\ (raced = {} => HostLife /\ HostLinks /\ HostRoom)
    BY DEF HostInv
<1>1. Host!LinkOf(n) \in Host!Objects /\ n \in Nat /\ n # 0 /\ \A m \in Host!Objects : m # 0
    BY <1>0, HostSets
<1>2. /\ state' = [state EXCEPT ![n] = "connecting"] /\ at' = [at EXCEPT ![n] = "start"]
      /\ Host!Connect(Host!LinkOf(n))
    BY DEF Host!Start
<1>3. /\ state' = [m \in Host!Objects |-> state'[m]] /\ at' = [m \in Host!Objects |-> at'[m]]
      /\ state'[n] = "connecting"
      /\ \A m \in Host!Objects : m # n => state'[m] = state[m] /\ at'[m] = at[m]
    BY <1>0, <1>2 DEF HostTypes
<1>4. /\ tstate' = [k \in Host!Objects |-> tstate'[k]] /\ sock' = [k \in Host!Objects |-> sock'[k]]
      /\ raced' = {} => raced = {}
      /\ raced' = {} /\ HostLinks =>
           \A k \in Host!Objects : /\ tstate'[k] = "connected" <=> sock'[k] = "open"
                                   /\ sock'[k] = "open" <=> sock[k] = "open"
    BY <1>0, <1>1, <1>2, HostConnects
<1>5. HostTypes'
    BY <1>0, <1>1, <1>3, <1>4 DEF HostTypes
<1>6. ASSUME raced' = {} PROVE HostLife' /\ HostLinks' /\ HostRoom'
    <2>0. HostLife /\ HostLinks /\ HostRoom
        BY <1>0, <1>4, <1>6
    <2>1. HostLinks'
        BY <1>4, <1>6, <2>0 DEF HostLinks
    <2>2. \A m \in Host!Objects : state'[m] = "idle" => state[m] = "idle"
        BY <1>3
    <2>3. HostRoom'
        BY <1>0, <2>0, <2>2, HostStays
    <2>4. HostLife'
        <3>1. ASSUME NEW m \in Host!Objects
              PROVE  /\ stopping[m] => at'[m] = "none" /\ ~timer[m]
                     /\ state'[m] = "closed" \/ leaving[m] => stopping[m]
                     /\ at'[m] # "none" \/ timer[m] => state'[m] # "idle"
                     /\ state'[m] # "idle" => m = n \/ stopping[m]
            <4>1. CASE m = n
                BY <1>3, <2>0, <4>1 DEF HostLife
            <4>2. CASE m # n
                BY <1>1, <1>3, <2>0, <4>2 DEF HostLife
            <4> QED BY <4>1, <4>2
        <3> QED BY <3>1 DEF HostLife
    <2> QED BY <2>1, <2>3, <2>4
<1> QED BY <1>3, <1>5, <1>6

\* A component mounts.
LEMMA HostMounts ==
    ASSUME HostInv, Host!Mounted
    PROVE  HostInv'
<1>0. HostTypes /\ HostShows /\ (raced = {} => HostLife /\ HostLinks /\ HostRoom)
    BY DEF HostInv
<1>1. PICK n : n = last + 1
    OBVIOUS
<1>2. PICK autoStart \in BOOLEAN :
        /\ cur' = n /\ last' = n /\ subs' = subs \cup {n}
        /\ IF autoStart THEN Host!Start(n) ELSE UNCHANGED <<state, at, tstate, sock, userClosed, raced>>
        /\ shown' = IF Host!Channel THEN tstate'[Host!LinkOf(n)]
                    ELSE IF autoStart THEN "connecting" ELSE shown
        /\ opts.host = "element" => autoStart
    BY <1>1 DEF Host!Mounted
<1>3. /\ cur = 0 /\ last < MaxMounts
      /\ UNCHANGED <<opts, stopping, leaving, timer, old, reopen, out, wire, members, bound>>
    BY DEF Host!Mounted
<1>4. /\ last \in Nat /\ n \in Nat /\ n # 0 /\ n \in Host!Objects /\ n <= MaxMounts /\ n > last
      /\ \A m \in Host!Objects : m # 0 /\ (m > n => m > last /\ m # n)
    <2>1. last \in Nat /\ MaxMounts \in Nat
        BY <1>0, PageBounds DEF HostTypes
    <2>2. n \in Nat /\ n # 0 /\ n <= MaxMounts /\ n > last
        BY <1>1, <1>3, <2>1
    <2>3. n \in Host!Objects
        BY <2>1, <2>2 DEF Host!Objects
    <2>4. ASSUME NEW m \in Host!Objects PROVE m # 0 /\ (m > n => m > last /\ m # n)
        <3>1. m \in Nat /\ m # 0
            BY <1>0, HostSets
        <3> QED BY <2>1, <2>2, <3>1
    <2> QED BY <2>1, <2>2, <2>3, <2>4
<1>5. state[n] = "idle" /\ at[n] = "none" /\ ~timer[n] /\ ~stopping[n] /\ ~leaving[n]
    BY <1>0, <1>4 DEF HostShows
<1>6. subs' = {cur'} \ {0}
    BY <1>0, <1>2, <1>3, <1>4 DEF HostShows
<1>7. CASE autoStart
    <2>1. Host!Start(n)
        BY <1>2, <1>7
    <2>2. /\ HostTypes' /\ (raced' = {} => HostLife' /\ HostLinks' /\ HostRoom')
          /\ state'[n] = "connecting"
          /\ \A m \in Host!Objects : m # n => state'[m] = state[m] /\ at'[m] = at[m]
        BY <1>2, <1>3, <1>4, <1>5, <2>1, HostStarts
    <2>3. Host!ShownIsCurrent'
        BY <1>2, <1>3, <1>4, <1>7, <2>2 DEF Host!ShownIsCurrent, Host!Channel, Host!LinkOf
    <2>4. HostShows'
        BY <1>0, <1>2, <1>3, <1>4, <1>6, <2>2, <2>3 DEF HostShows
    <2> QED BY <2>2, <2>4 DEF HostInv
<1>8. CASE ~autoStart
    <2>1. UNCHANGED <<state, at, tstate, sock, raced>>
        BY <1>2, <1>8
    <2>2. HostTypes'
        BY <1>0, <1>2, <1>3, <1>4, <2>1 DEF HostTypes
    <2>3. shown = "idle"
        BY <1>0, <1>2, <1>3, <1>8 DEF HostShows, Host!ShownIsCurrent
    <2>4. Host!ShownIsCurrent'
        BY <1>2, <1>3, <1>4, <1>5, <1>8, <2>1, <2>3 DEF Host!ShownIsCurrent, Host!Channel, Host!LinkOf
    <2>5. HostShows'
        BY <1>0, <1>2, <1>3, <1>4, <1>6, <2>1, <2>4 DEF HostShows
    <2>6. ASSUME raced = {} PROVE HostLife' /\ HostLinks' /\ HostRoom'
        <3>1. HostRoom'
            BY <1>0, <1>3, <2>1, <2>6, HostStays
        <3>2. HostLinks'
            BY <1>0, <1>3, <2>1, <2>6 DEF HostLinks
        <3>3. HostLife'
            BY <1>0, <1>3, <1>4, <2>1, <2>6 DEF HostLife
        <3> QED BY <3>1, <3>2, <3>3
    <2> QED BY <2>1, <2>2, <2>5, <2>6 DEF HostInv
<1> QED BY <1>7, <1>8

\* A component unmounts.
LEMMA HostUnmounts ==
    ASSUME HostInv, Host!Unmounted \/ Host!ElementDisconnected
    PROVE  HostInv'
<1>0. HostTypes /\ HostShows
    BY DEF HostInv
<1>1. /\ cur # 0 /\ cur' = 0 /\ Host!Stop(cur) /\ subs' = subs \ {cur}
      /\ UNCHANGED <<opts, last, state, at, members, bound>>
      /\ UNCHANGED <<tstate, sock, old>> \/ Host!Disconnect(Host!LinkOf(cur))
      /\ shown' = "idle" \/ opts.host = "element"
    BY DEF Host!Unmounted, Host!ElementDisconnected, Host!Unsubscribed, Host!Is
<1>2. /\ HostTypes' /\ (raced' = {} => HostLife' /\ HostLinks' /\ HostRoom')
      /\ \A n \in Host!Objects : n > last =>
           state[n] = "idle" /\ at[n] = "none" /\ ~timer'[n] /\ ~stopping'[n] /\ ~leaving'[n]
    BY <1>1, HostStops
<1>3. Host!ShownIsCurrent'
    BY <1>1 DEF Host!ShownIsCurrent
<1>4. HostShows'
    BY <1>0, <1>1, <1>2, <1>3 DEF HostShows
<1> QED BY <1>2, <1>4 DEF HostInv

\* stop() by the user.
LEMMA HostUserStops ==
    ASSUME HostInv, Host!UserStops
    PROVE  HostInv'
<1>0. HostTypes /\ HostShows
    BY DEF HostInv
<1>1. /\ cur # 0 /\ Host!Stop(cur)
      /\ UNCHANGED <<opts, cur, last, subs, shown, state, at, tstate, sock, old, members, bound>>
    BY DEF Host!UserStops, Host!hostVars
<1>2. /\ HostTypes' /\ (raced' = {} => HostLife' /\ HostLinks' /\ HostRoom')
      /\ \A n \in Host!Objects : n > last =>
           state[n] = "idle" /\ at[n] = "none" /\ ~timer'[n] /\ ~stopping'[n] /\ ~leaving'[n]
    BY <1>1, HostStops
<1>3. Host!ShownIsCurrent'
    BY <1>0, <1>1 DEF HostShows, Host!ShownIsCurrent, Host!Channel, Host!LinkOf
<1>4. HostShows'
    BY <1>0, <1>1, <1>2, <1>3 DEF HostShows
<1> QED BY <1>2, <1>4 DEF HostInv

\* start() by the user.
LEMMA HostUserStarts ==
    ASSUME HostInv, Host!UserStarts
    PROVE  HostInv'
<1>0. HostTypes /\ HostShows
    BY DEF HostInv
<1>1. /\ cur # 0 /\ state[cur] = "idle" /\ ~stopping[cur] /\ Host!Start(cur) /\ Host!Render
      /\ UNCHANGED <<opts, cur, last, subs, stopping, leaving, timer, old, reopen, out, wire,
                     members, bound>>
    BY DEF Host!UserStarts
<1>2. cur \in Host!Objects /\ cur <= last /\ last \in Nat /\ last <= MaxMounts /\ cur \in Nat
    BY <1>0, <1>1, HostSets DEF HostTypes
<1>3. /\ HostTypes' /\ (raced' = {} => HostLife' /\ HostLinks' /\ HostRoom')
      /\ \A m \in Host!Objects : m # cur => state'[m] = state[m] /\ at'[m] = at[m]
    <2>1. PICK n \in Host!Objects : n = cur
        BY <1>2
    <2>2. /\ n = cur' /\ cur \in {0, n} /\ state[n] = "idle" /\ ~stopping[n] /\ Host!Start(n)
          /\ last' \in Nat /\ n <= last' /\ last' <= MaxMounts
          /\ UNCHANGED <<opts, stopping, leaving, timer, old, out, wire, members, bound>>
        BY <1>1, <1>2, <2>1
    <2>3. /\ HostTypes' /\ (raced' = {} => HostLife' /\ HostLinks' /\ HostRoom')
          /\ \A m \in Host!Objects : m # n => state'[m] = state[m] /\ at'[m] = at[m]
        BY <2>2, HostStarts
    <2> QED BY <2>1, <2>3
<1>4. subs' = {cur'} \ {0} /\ Host!ShownIsCurrent'
    BY <1>0, <1>1, HostRenders
<1>5. \A n \in Host!Objects : n > last => n # cur
    BY <1>2, <1>0, HostSets
<1>6. HostShows'
    BY <1>0, <1>1, <1>3, <1>4, <1>5 DEF HostShows
<1> QED BY <1>3, <1>6 DEF HostInv

\* connect() has resolved: the mounted object joins, the only one that may be there.
LEMMA HostJoins ==
    ASSUME HostInv, NEW n \in Host!Objects, Host!Joins(n)
    PROVE  HostInv'
<1>0. HostTypes /\ HostShows /\ (raced = {} => HostLife /\ HostLinks /\ HostRoom)
    BY DEF HostInv
<1>1. /\ at[n] # "none" /\ at' = [at EXCEPT ![n] = "none"]
      /\ Host!Send(Host!LinkOf(n), <<[type |-> "join", who |-> n]>>)
      /\ state' = IF Host!Channel THEN [state EXCEPT ![n] = "connected"] ELSE state
      /\ UNCHANGED <<opts, cur, last, subs, shown, stopping, leaving, timer, tstate, sock, old,
                     reopen, members, bound, raced>>
    BY DEF Host!Joins, Host!hostVars
<1>2. /\ state' = [m \in Host!Objects |-> state'[m]] /\ at' = [m \in Host!Objects |-> at'[m]]
      /\ at'[n] = "none" /\ \A m \in Host!Objects : m # n => at'[m] = at[m]
      /\ \A m \in Host!Objects : m # n => state'[m] = state[m]
      /\ state'[n] = IF Host!Channel THEN "connected" ELSE state[n]
    BY <1>0, <1>1 DEF HostTypes
<1>3. Host!Channel' = Host!Channel /\ \A m : Host!LinkOf(m)' = Host!LinkOf(m)
    BY <1>1 DEF Host!Channel, Host!LinkOf
<1>4. HostShows'
    <2>1. Host!ShownIsCurrent'
        <3>1. ~Host!Channel => state' = state
            BY <1>1
        <3> QED BY <1>0, <1>1, <1>3, <3>1 DEF HostShows, Host!ShownIsCurrent
    <2>2. \A m \in Host!Objects : m > last => m # n
        BY <1>0, <1>1 DEF HostShows
    <2> QED BY <1>0, <1>1, <1>2, <2>1, <2>2 DEF HostShows
<1>5. wire' \in [Host!Objects -> Seq(Msg)] /\ out' \in [Host!Objects -> Seq(Msg)]
    <2>1. wire \in [Host!Objects -> Seq(Msg)] /\ out \in [Host!Objects -> Seq(Msg)]
        BY <1>0 DEF HostTypes
    <2>2. [type |-> "join", who |-> n] \in Msg /\ Host!LinkOf(n) \in Host!Objects
        BY <1>0, MsgIs, HostSets
    <2>3. /\ wire[Host!LinkOf(n)] \o <<[type |-> "join", who |-> n]>> \in Seq(Msg)
          /\ out[Host!LinkOf(n)] \o <<[type |-> "join", who |-> n]>> \in Seq(Msg)
        <3>1. wire[Host!LinkOf(n)] \in Seq(Msg) /\ out[Host!LinkOf(n)] \in Seq(Msg)
            BY <2>1, <2>2
        <3> QED BY <2>2, <3>1
    <2> QED BY <1>1, <2>1, <2>2, <2>3 DEF Host!Send
<1>6. HostTypes'
    BY <1>0, <1>1, <1>2, <1>5 DEF HostTypes
<1>7. ASSUME raced = {} PROVE HostLife' /\ HostLinks' /\ HostRoom'
    <2>0. HostLife /\ HostLinks /\ HostRoom
        BY <1>0, <1>7
    <2>1. state[n] # "idle" /\ ~stopping[n] /\ n = cur /\ n # 0
        BY <1>0, <1>1, <2>0, HostSets DEF HostLife
    <2>2. HostLife'
        <3>1. ASSUME NEW m \in Host!Objects
              PROVE  /\ stopping[m] => at'[m] = "none" /\ ~timer[m]
                     /\ state'[m] = "closed" \/ leaving[m] => stopping[m]
                     /\ at'[m] # "none" \/ timer[m] => state'[m] # "idle"
                     /\ state'[m] # "idle" => m = cur \/ stopping[m]
            BY <1>2, <2>0, <2>1 DEF HostLife
        <3> QED BY <1>1, <3>1 DEF HostLife
    <2>3. PICK t : t = "join"
        OBVIOUS
    <2>4. PICK l : l = Host!LinkOf(cur)
        OBVIOUS
    <2>5. t \in {"join", "leave"} /\ Host!Send(l, <<[type |-> t, who |-> cur]>>)
        BY <1>1, <2>1, <2>3, <2>4
    <2>6. \A k \in Host!Objects :
            /\ Chain(bound[k], wire'[k]) /\ Chain(0, out'[k])
            /\ \A i \in 1..Len(wire'[k]) : Host!LinkOf(wire'[k][i].who) = k
            /\ \A i \in 1..Len(out'[k]) : Host!LinkOf(out'[k][i].who) = k
            /\ sock[k] = "open" => out'[k] = <<>>
            /\ bound[k] # 0 \/ wire'[k] # <<>> => sock[k] = "open" \/ old[k]
            /\ \/ Tip(bound[k], wire'[k]) = Tip(bound[k], wire[k])
               \/ k = l /\ Tip(bound[k], wire'[k]) = IF t = "join" THEN cur ELSE 0
            /\ \/ Tip(0, out'[k]) = Tip(0, out[k])
               \/ k = l /\ Tip(0, out'[k]) = IF t = "join" THEN cur ELSE 0
        BY <1>0, <2>0, <2>1, <2>4, <2>5, HostSends
    <2>7. HostLinks'
        BY <1>1, <2>0, <2>6 DEF HostLinks
    <2>8. \A m \in Host!Objects : state'[m] = "idle" => state[m] = "idle"
        BY <1>2
    <2>9. state'[cur] # "idle"
        BY <1>2, <2>1
    <2>10. HostRoom'
        <3>1. \A m \in members : bound[Host!LinkOf(m)] = m
            BY <2>0 DEF HostRoom
        <3>2. ASSUME NEW k \in Host!Objects
              PROVE  /\ Row(k, bound[k], wire'[k], state') /\ Row(k, 0, out'[k], state')
                     /\ Tip(bound[k], wire'[k]) # 0 /\ stopping[Tip(bound[k], wire'[k])] => old[k]
                     /\ Tip(0, out'[k]) # 0 => ~stopping[Tip(0, out'[k])]
            <4>1. /\ Row(k, bound[k], wire[k], state) /\ Row(k, 0, out[k], state)
                  /\ Tip(bound[k], wire[k]) # 0 /\ stopping[Tip(bound[k], wire[k])] => old[k]
                  /\ Tip(0, out[k]) # 0 => ~stopping[Tip(0, out[k])]
                BY <2>0 DEF HostRoom
            <4>2. /\ \/ Tip(bound[k], wire'[k]) = Tip(bound[k], wire[k])
                     \/ k = l /\ Tip(bound[k], wire'[k]) = cur
                  /\ \/ Tip(0, out'[k]) = Tip(0, out[k])
                     \/ k = l /\ Tip(0, out'[k]) = cur
                BY <2>3, <2>6
            <4>3. /\ Chain(bound[k], wire'[k]) /\ Chain(0, out'[k])
                  /\ \A i \in 1..Len(wire'[k]) : Host!LinkOf(wire'[k][i].who) = k
                  /\ \A i \in 1..Len(out'[k]) : Host!LinkOf(out'[k][i].who) = k
                BY <2>6
            <4>4. cur \in Host!Objects
                BY <2>1
            <4>5. Row(k, bound[k], wire'[k], state')
                BY <2>4, <2>8, <2>9, <4>1, <4>2, <4>3, <4>4 DEF Row
            <4>6. Row(k, 0, out'[k], state')
                BY <2>4, <2>8, <2>9, <4>1, <4>2, <4>3, <4>4 DEF Row
            <4> QED BY <2>1, <4>1, <4>2, <4>5, <4>6
        <3>3. \A k \in Host!Objects :
                /\ Row(k, bound[k], wire[k], state)' = Row(k, bound[k], wire'[k], state')
                /\ Row(k, 0, out[k], state)' = Row(k, 0, out'[k], state')
            BY <1>1, <1>3 DEF Row
        <3> QED BY <1>1, <1>3, <3>1, <3>2, <3>3 DEF HostRoom
    <2> QED BY <2>2, <2>7, <2>10
<1> QED BY <1>1, <1>4, <1>6, <1>7 DEF HostInv

\* A retry.
LEMMA HostRetries ==
    ASSUME HostInv, NEW n \in Host!Objects, Host!RetryFires(n)
    PROVE  HostInv'
<1>0. HostTypes /\ HostShows /\ (raced = {} => HostLife /\ HostLinks /\ HostRoom)
    BY DEF HostInv
<1>1. /\ timer[n] /\ timer' = [timer EXCEPT ![n] = FALSE] /\ Host!Connect(Host!LinkOf(n))
      /\ at' = [at EXCEPT ![n] = "retry"]
      /\ state' = IF Host!Channel THEN state ELSE [state EXCEPT ![n] = "reconnecting"]
      /\ Host!Render
      /\ UNCHANGED <<opts, cur, last, subs, stopping, leaving, old, reopen, out, wire, members, bound>>
    BY DEF Host!RetryFires
<1>2. /\ state' = [m \in Host!Objects |-> state'[m]] /\ at' = [m \in Host!Objects |-> at'[m]]
      /\ timer' \in [Host!Objects -> BOOLEAN] /\ ~timer'[n]
      /\ at'[n] = "retry"
      /\ \A m \in Host!Objects : m # n => /\ at'[m] = at[m] /\ state'[m] = state[m]
                                          /\ timer'[m] = timer[m]
      /\ state'[n] \in {state[n], "reconnecting"}
    BY <1>0, <1>1 DEF HostTypes
<1>3. Host!LinkOf(n) \in Host!Objects
    BY <1>0, HostSets
<1>4. /\ tstate' = [k \in Host!Objects |-> tstate'[k]] /\ sock' = [k \in Host!Objects |-> sock'[k]]
      /\ raced' = {} => raced = {}
      /\ raced' = {} /\ HostLinks =>
           \A k \in Host!Objects : /\ tstate'[k] = "connected" <=> sock'[k] = "open"
                                   /\ sock'[k] = "open" <=> sock[k] = "open"
    BY <1>0, <1>1, <1>3, HostConnects
<1>5. HostTypes'
    BY <1>0, <1>1, <1>2, <1>4 DEF HostTypes
<1>6. HostShows'
    <2>1. subs' = {cur'} \ {0} /\ Host!ShownIsCurrent'
        BY <1>0, <1>1, HostRenders
    <2>2. \A m \in Host!Objects : m > last => m # n
        BY <1>0, <1>1 DEF HostShows
    <2> QED BY <1>0, <1>1, <1>2, <2>1, <2>2 DEF HostShows
<1>7. ASSUME raced' = {} PROVE HostLife' /\ HostLinks' /\ HostRoom'
    <2>0. HostLife /\ HostLinks /\ HostRoom
        BY <1>0, <1>4, <1>7
    <2>1. state[n] # "idle" /\ ~stopping[n]
        BY <1>1, <2>0 DEF HostLife
    <2>2. HostLinks'
        BY <1>1, <1>4, <1>7, <2>0 DEF HostLinks
    <2>3. \A m \in Host!Objects : /\ state'[m] = "idle" => state[m] = "idle"
                                  /\ old[m] => old'[m]
        BY <1>1, <1>2
    <2>4. HostRoom'
        BY <1>0, <1>1, <2>0, <2>3, HostStays
    <2>5. ASSUME NEW m \in Host!Objects
          PROVE  /\ stopping[m] => at'[m] = "none" /\ ~timer'[m]
                 /\ state'[m] = "closed" \/ leaving[m] => stopping[m]
                 /\ at'[m] # "none" \/ timer'[m] => state'[m] # "idle"
                 /\ state'[m] # "idle" => m = cur \/ stopping[m]
        <3>1. CASE m = n
            BY <1>2, <2>0, <2>1, <3>1 DEF HostLife
        <3>2. CASE m # n
            BY <1>2, <2>0, <3>2 DEF HostLife
        <3> QED BY <3>1, <3>2
    <2>6. HostLife'
        BY <1>1, <2>5 DEF HostLife
    <2> QED BY <2>2, <2>4, <2>6
<1> QED BY <1>5, <1>6, <1>7 DEF HostInv

\* stop() ends: it closes the transport, also under another object.
LEMMA HostStopEnds ==
    ASSUME HostInv, NEW n \in Host!Objects, Host!Stopped(n)
    PROVE  HostInv'
<1>0. HostTypes /\ HostShows /\ (raced = {} => HostLife /\ HostLinks /\ HostRoom)
    BY DEF HostInv
<1>1. /\ leaving[n] /\ leaving' = [leaving EXCEPT ![n] = FALSE]
      /\ UNCHANGED <<opts, cur, last, subs, at, stopping, out, wire, members, bound, raced>>
    BY DEF Host!Stopped
<1>2. leaving' \in [Host!Objects -> BOOLEAN] /\ \A m \in Host!Objects : leaving'[m] => leaving[m]
    BY <1>0, <1>1 DEF HostTypes
<1>3. Host!LinkOf(n) \in Host!Objects
    BY <1>0, HostSets
<1>4. /\ state' = [m \in Host!Objects |-> state'[m]] /\ state'[n] = "closed"
      /\ timer' \in [Host!Objects -> BOOLEAN]
      /\ \A m \in Host!Objects : m # n =>
           \/ state'[m] = state[m]
           \/ state[m] # "idle" /\ ~stopping[m] /\ state'[m] \notin {"idle", "closed"}
      /\ \A m \in Host!Objects : timer'[m] => timer[m] \/ (state[m] # "idle" /\ ~stopping[m])
      /\ UNCHANGED <<tstate, sock, old>> \/ Host!Disconnect(Host!LinkOf(n))
    <2>1. CASE Host!Channel
        <3>1. /\ state' = [state EXCEPT ![n] = "closed"]
              /\ UNCHANGED <<timer, tstate, sock, old>>
            BY <2>1 DEF Host!Stopped
        <3> QED BY <1>0, <3>1 DEF HostTypes
    <2>2. CASE ~Host!Channel
        <3> DEFINE T == Host!Told(Host!LinkOf(n), "closed")
                   R == Host!Retrying(Host!LinkOf(n), "closed")
        <3>1. /\ state' = [T EXCEPT ![n] = "closed"] /\ timer' = R
              /\ Host!Disconnect(Host!LinkOf(n))
            BY <2>2 DEF Host!Stopped
        <3>2. /\ T = [m \in Host!Objects |-> T[m]]
              /\ R \in [Host!Objects -> BOOLEAN]
            BY <1>0 DEF Host!Told, Host!Retrying, HostTypes
        <3>3. \A m \in Host!Objects :
                /\ \/ T[m] = state[m]
                   \/ state[m] # "idle" /\ ~stopping[m] /\ T[m] \notin {"idle", "closed"}
                /\ R[m] => timer[m] \/ (state[m] # "idle" /\ ~stopping[m])
            BY <1>0, HostHears
        <3> HIDE DEF T, R
        <3> QED BY <3>1, <3>2, <3>3
    <2> QED BY <2>1, <2>2
<1>5. /\ tstate' = [k \in Host!Objects |-> tstate'[k]] /\ sock' = [k \in Host!Objects |-> sock'[k]]
      /\ old' \in [Host!Objects -> BOOLEAN]
      /\ HostLinks =>
           \A k \in Host!Objects : /\ tstate'[k] = "connected" <=> sock'[k] = "open"
                                   /\ sock'[k] = "open" => sock[k] = "open" /\ ~old'[k]
                                   /\ sock[k] = "open" \/ old[k] => sock'[k] = "open" \/ old'[k]
                                   /\ old[k] => old'[k]
    <2>1. CASE UNCHANGED <<tstate, sock, old>>
        BY <1>0, <2>1 DEF HostTypes, HostLinks
    <2>2. CASE Host!Disconnect(Host!LinkOf(n))
        BY <1>0, <1>3, <2>2, HostDisconnects
    <2> QED BY <1>4, <2>1, <2>2
<1>6. HostTypes'
    BY <1>0, <1>1, <1>2, <1>4, <1>5 DEF HostTypes
<1>7. HostShows'
    <2>1. subs' = {cur'} \ {0} /\ Host!ShownIsCurrent'
        <3>1. CASE n \in subs /\ ~Host!Channel
            <4>1. shown' = "closed"
                BY <3>1 DEF Host!Stopped
            <4>2. n = cur
                BY <1>0, <3>1 DEF HostShows
            <4>3. cur # 0
                BY <1>0, <4>2, HostSets
            <4> QED BY <1>0, <1>1, <1>4, <3>1, <4>1, <4>2, <4>3
                    DEF HostShows, Host!ShownIsCurrent, Host!Channel
        <3>2. CASE ~(n \in subs /\ ~Host!Channel)
            <4>1. Host!Render
                BY <3>2 DEF Host!Stopped
            <4> QED BY <1>0, <1>1, <4>1, HostRenders
        <3> QED BY <3>1, <3>2
    <2>2. \A m \in Host!Objects : m > last => m # n
        BY <1>0, <1>1 DEF HostShows
    <2>3. ASSUME NEW m \in Host!Objects, m > last
          PROVE  state'[m] = "idle" /\ at[m] = "none" /\ ~timer'[m] /\ ~stopping[m] /\ ~leaving'[m]
        BY <1>0, <1>2, <1>4, <2>2, <2>3 DEF HostShows
    <2> QED BY <1>1, <2>1, <2>3 DEF HostShows
<1>8. ASSUME raced = {} PROVE HostLife' /\ HostLinks' /\ HostRoom'
    <2>0. HostLife /\ HostLinks /\ HostRoom
        BY <1>0, <1>8
    <2>1. stopping[n]
        BY <1>1, <2>0 DEF HostLife
    <2>2. HostLinks'
        BY <1>1, <1>5, <2>0 DEF HostLinks
    <2>3. ASSUME NEW m \in Host!Objects
          PROVE  /\ state'[m] = "idle" => state[m] = "idle"
                 /\ state'[m] # state[m] => state[m] # "idle" \/ stopping[m]
                 /\ state'[m] = "closed" => state[m] = "closed" \/ stopping[m]
                 /\ timer'[m] => timer[m] \/ (state[m] # "idle" /\ ~stopping[m])
                 /\ leaving'[m] => leaving[m]
                 /\ old[m] => old'[m]
        <3>1. CASE m = n
            BY <1>2, <1>4, <1>5, <2>0, <2>1, <3>1
        <3>2. CASE m # n
            BY <1>2, <1>4, <1>5, <2>0, <3>2
        <3> QED BY <3>1, <3>2
    <2>4. HostLife'
        BY <1>0, <1>1, <2>0, <2>3, HostGoesOn
    <2>5. HostRoom'
        BY <1>0, <1>1, <2>0, <2>3, HostStays
    <2> QED BY <2>2, <2>4, <2>5
<1> QED BY <1>1, <1>6, <1>7, <1>8 DEF HostInv

\* What the objects that hear of a transport do, if the rest is left alone.
LEMMA HostHeard ==
    ASSUME HostInv, NEW l, NEW s, state' = Host!Told(l, s),
           timer' = Host!Retrying(l, s) \/ timer' = timer,
           Host!Render, UNCHANGED <<opts, cur, last, subs, at, stopping, leaving>>
    PROVE  /\ state' = [n \in Host!Objects |-> state'[n]] /\ timer' \in [Host!Objects -> BOOLEAN]
           /\ \A n \in Host!Objects : state'[n] = "idle" => state[n] = "idle"
           /\ HostShows' /\ (HostLife => HostLife')
<1>0. HostTypes /\ HostShows
    BY DEF HostInv
<1>1. \A n \in Host!Objects :
        /\ \/ state'[n] = state[n]
           \/ state[n] # "idle" /\ ~stopping[n] /\ state'[n] \notin {"idle", "closed"}
        /\ timer'[n] => timer[n] \/ (state[n] # "idle" /\ ~stopping[n])
    BY <1>0, HostHears
<1>2. state' = [n \in Host!Objects |-> state'[n]] /\ timer' \in [Host!Objects -> BOOLEAN]
    <2>1. Host!Told(l, s) = [n \in Host!Objects |-> Host!Told(l, s)[n]]
        BY <1>0 DEF Host!Told
    <2>2. Host!Retrying(l, s) \in [Host!Objects -> BOOLEAN]
        BY <1>0 DEF Host!Retrying, HostTypes
    <2> QED BY <1>0, <2>1, <2>2 DEF HostTypes
<1>3. subs' = {cur'} \ {0} /\ Host!ShownIsCurrent'
    BY <1>0, HostRenders
<1>4. \A n \in Host!Objects : n > last =>
        state'[n] = "idle" /\ at[n] = "none" /\ ~timer'[n] /\ ~stopping[n] /\ ~leaving[n]
    BY <1>0, <1>1 DEF HostShows
<1>5. HostShows'
    BY <1>3, <1>4 DEF HostShows
<1>6. HostLife => HostLife'
    BY <1>0, <1>1, HostGoesOn
<1> QED BY <1>1, <1>2, <1>5, <1>6

\* A transport opens: what was queued is what comes first on its connection.
LEMMA HostOpens ==
    ASSUME HostInv, NEW l \in Host!Objects, Host!Opens(l)
    PROVE  HostInv'
<1>0. HostTypes /\ (raced = {} => HostLife /\ HostLinks /\ HostRoom)
    BY DEF HostInv
<1>1. /\ sock[l] = "opening" /\ ~old[l]
      /\ sock' = [sock EXCEPT ![l] = "open"] /\ tstate' = [tstate EXCEPT ![l] = "connected"]
      /\ wire' = [wire EXCEPT ![l] = out[l]] /\ out' = [out EXCEPT ![l] = <<>>]
      /\ state' = Host!Told(l, "connected") /\ Host!Render
      /\ UNCHANGED <<opts, cur, last, subs, at, stopping, leaving, timer, old, members, bound, raced>>
    BY DEF Host!Opens
<1>2. /\ state' = [n \in Host!Objects |-> state'[n]]
      /\ \A n \in Host!Objects : state'[n] = "idle" => state[n] = "idle"
      /\ HostShows' /\ (HostLife => HostLife')
    BY <1>1, HostHeard
<1>3. <<>> \in Seq(Msg)
    OBVIOUS
<1>4. wire' \in [Host!Objects -> Seq(Msg)] /\ out' \in [Host!Objects -> Seq(Msg)]
    <2>1. wire \in [Host!Objects -> Seq(Msg)] /\ out \in [Host!Objects -> Seq(Msg)]
        BY <1>0 DEF HostTypes
    <2>2. out[l] \in Seq(Msg)
        BY <2>1
    <2> QED BY <1>1, <1>3, <2>1, <2>2
<1>5. /\ sock' = [k \in Host!Objects |-> sock'[k]] /\ tstate' = [k \in Host!Objects |-> tstate'[k]]
      /\ sock'[l] = "open" /\ tstate'[l] = "connected" /\ wire'[l] = out[l] /\ out'[l] = <<>>
      /\ \A k \in Host!Objects : k # l => /\ sock'[k] = sock[k] /\ tstate'[k] = tstate[k]
                                          /\ wire'[k] = wire[k] /\ out'[k] = out[k]
    BY <1>0, <1>1 DEF HostTypes
<1>6. HostTypes'
    BY <1>0, <1>1, <1>2, <1>4, <1>5 DEF HostTypes
<1>7. ASSUME raced = {} PROVE HostLife' /\ HostLinks' /\ HostRoom'
    <2>0. HostLife /\ HostLinks /\ HostRoom
        BY <1>0, <1>7
    <2>1. bound[l] = 0
        BY <1>1, <2>0 DEF HostLinks
    <2>2. HostLinks'
        BY <1>1, <1>5, <2>0 DEF HostLinks
    <2>3. Tip(0, <<>>) = 0 /\ Chain(0, <<>>) /\ Len(<<>>) = 0
        BY DEF Tip, Chain
    <2>4. ASSUME NEW k \in Host!Objects
          PROVE  /\ Row(k, bound[k], wire'[k], state') /\ Row(k, 0, out'[k], state')
                 /\ Tip(bound[k], wire'[k]) # 0 /\ stopping[Tip(bound[k], wire'[k])] => old[k]
                 /\ Tip(0, out'[k]) # 0 => ~stopping[Tip(0, out'[k])]
        <3>1. /\ Row(k, bound[k], wire[k], state) /\ Row(k, 0, out[k], state)
              /\ Tip(bound[k], wire[k]) # 0 /\ stopping[Tip(bound[k], wire[k])] => old[k]
              /\ Tip(0, out[k]) # 0 => ~stopping[Tip(0, out[k])]
            BY <2>0 DEF HostRoom
        <3>2. Row(k, bound[k], wire[k], state') /\ Row(k, 0, out[k], state')
            BY <1>2, <3>1 DEF Row
        <3>3. CASE k # l
            BY <1>5, <3>1, <3>2, <3>3
        <3>4. CASE k = l
            <4>1. Row(l, 0, out'[l], state')
                BY <1>5, <2>3 DEF Row
            <4>2. Row(l, bound[l], wire'[l], state')
                BY <1>5, <2>1, <3>2, <3>4
            <4>3. Tip(bound[l], wire'[l]) = Tip(0, out[l]) /\ Tip(0, out'[l]) = 0
                BY <1>5, <2>1, <2>3
            <4> QED BY <3>1, <3>4, <4>1, <4>2, <4>3
        <3> QED BY <3>3, <3>4
    <2>5. \A n : Host!LinkOf(n)' = Host!LinkOf(n)
        BY <1>1 DEF Host!LinkOf
    <2>6. \A k \in Host!Objects :
            /\ Row(k, bound[k], wire[k], state)' = Row(k, bound[k], wire'[k], state')
            /\ Row(k, 0, out[k], state)' = Row(k, 0, out'[k], state')
        BY <1>1, <2>5 DEF Row
    <2>7. \A m \in members : bound[Host!LinkOf(m)] = m
        BY <2>0 DEF HostRoom
    <2>8. HostRoom'
        BY <1>1, <2>4, <2>5, <2>6, <2>7 DEF HostRoom
    <2> QED BY <1>2, <2>0, <2>2, <2>8
<1> QED BY <1>1, <1>2, <1>6, <1>7 DEF HostInv

\* A close event: the connection's peer leaves the room.
LEMMA HostCloses ==
    ASSUME HostInv, NEW l \in Host!Objects, Host!CloseEvent(l)
    PROVE  HostInv'
<1>0. HostTypes /\ (raced = {} => HostLife /\ HostLinks /\ HostRoom)
    BY DEF HostInv
<1>1. PICK s \in {"closed", "reconnecting"} :
        /\ old[l] /\ wire[l] = <<>> /\ old' = [old EXCEPT ![l] = FALSE]
        /\ sock' = [sock EXCEPT ![l] = "none"] /\ tstate' = [tstate EXCEPT ![l] = s]
        /\ state' = Host!Told(l, s) /\ timer' = Host!Retrying(l, s) /\ Host!Render
        /\ members' = members \ {bound[l]} /\ bound' = [bound EXCEPT ![l] = 0]
        /\ UNCHANGED <<opts, cur, last, subs, at, stopping, leaving, out, wire, raced>>
    BY DEF Host!CloseEvent
<1>2. /\ state' = [n \in Host!Objects |-> state'[n]] /\ timer' \in [Host!Objects -> BOOLEAN]
      /\ \A n \in Host!Objects : state'[n] = "idle" => state[n] = "idle"
      /\ HostShows' /\ (HostLife => HostLife')
    BY <1>1, HostHeard
<1>3. /\ sock' = [k \in Host!Objects |-> sock'[k]] /\ tstate' = [k \in Host!Objects |-> tstate'[k]]
      /\ bound' = [k \in Host!Objects |-> bound'[k]] /\ old' \in [Host!Objects -> BOOLEAN]
      /\ sock'[l] = "none" /\ tstate'[l] # "connected" /\ bound'[l] = 0 /\ ~old'[l]
      /\ \A k \in Host!Objects : k # l => /\ sock'[k] = sock[k] /\ tstate'[k] = tstate[k]
                                          /\ bound'[k] = bound[k] /\ old'[k] = old[k]
    BY <1>0, <1>1 DEF HostTypes
<1>4. HostTypes'
    BY <1>0, <1>1, <1>2, <1>3 DEF HostTypes
<1>5. ASSUME raced = {} PROVE HostLife' /\ HostLinks' /\ HostRoom'
    <2>0. HostLife /\ HostLinks /\ HostRoom
        BY <1>0, <1>5
    <2>1. HostLinks'
        BY <1>1, <1>3, <2>0 DEF HostLinks
    <2>2. Tip(0, <<>>) = 0 /\ Chain(0, <<>>) /\ Len(<<>>) = 0
        BY DEF Tip, Chain
    <2>3. ASSUME NEW k \in Host!Objects
          PROVE  /\ Row(k, bound'[k], wire[k], state') /\ Row(k, 0, out[k], state')
                 /\ Tip(bound'[k], wire[k]) # 0 /\ stopping[Tip(bound'[k], wire[k])] => old'[k]
                 /\ Tip(0, out[k]) # 0 => ~stopping[Tip(0, out[k])]
        <3>1. /\ Row(k, bound[k], wire[k], state) /\ Row(k, 0, out[k], state)
              /\ Tip(bound[k], wire[k]) # 0 /\ stopping[Tip(bound[k], wire[k])] => old[k]
              /\ Tip(0, out[k]) # 0 => ~stopping[Tip(0, out[k])]
            BY <2>0 DEF HostRoom
        <3>2. Row(k, bound[k], wire[k], state') /\ Row(k, 0, out[k], state')
            BY <1>2, <3>1 DEF Row
        <3>3. CASE k # l
            BY <1>3, <3>1, <3>2, <3>3
        <3>4. CASE k = l
            <4>1. Row(l, bound'[l], wire[l], state') /\ Tip(bound'[l], wire[l]) = 0
                BY <1>1, <1>3, <2>2 DEF Row
            <4> QED BY <3>1, <3>2, <3>4, <4>1
        <3> QED BY <3>3, <3>4
    <2>4. \A n : Host!LinkOf(n)' = Host!LinkOf(n)
        BY <1>1 DEF Host!LinkOf
    <2>5. \A k \in Host!Objects :
            /\ Row(k, bound[k], wire[k], state)' = Row(k, bound'[k], wire[k], state')
            /\ Row(k, 0, out[k], state)' = Row(k, 0, out[k], state')
        BY <1>1, <2>4 DEF Row
    <2>6. ASSUME NEW m \in members' PROVE bound'[Host!LinkOf(m)] = m
        <3>1. m \in members /\ m # bound[l] /\ bound[Host!LinkOf(m)] = m
            BY <1>1, <2>0 DEF HostRoom
        <3>2. Host!LinkOf(m) \in Host!Objects
            BY <1>0, <3>1, HostSets DEF HostTypes
        <3> QED BY <1>3, <3>1, <3>2
    <2>7. HostRoom'
        BY <1>1, <2>3, <2>4, <2>5, <2>6 DEF HostRoom
    <2> QED BY <1>2, <2>0, <2>1, <2>7
<1> QED BY <1>1, <1>2, <1>4, <1>5 DEF HostInv

\* The reconnect timer.
LEMMA HostReopens ==
    ASSUME HostInv, NEW l \in Host!Objects, Host!Reopens(l)
    PROVE  HostInv'
<1>0. HostTypes /\ HostShows /\ (raced = {} => HostLife /\ HostLinks /\ HostRoom)
    BY DEF HostInv
<1>1. /\ sock' = [sock EXCEPT ![l] = "opening"]
      /\ raced' = IF sock[l] = "none" THEN raced ELSE Host!Objects
      /\ UNCHANGED <<opts, cur, last, subs, shown, state, at, stopping, leaving, timer, tstate, old,
                     out, wire, members, bound>>
    BY DEF Host!Reopens, Host!OpenSocket, Host!hostVars, Host!objVars
<1>2. /\ sock' = [k \in Host!Objects |-> sock'[k]] /\ sock'[l] = "opening"
      /\ \A k \in Host!Objects : k # l => sock'[k] = sock[k]
    BY <1>0, <1>1 DEF HostTypes
<1>3. HostTypes'
    BY <1>0, <1>1, <1>2 DEF HostTypes
<1>4. HostShows'
    BY <1>0, <1>1 DEF HostShows, Host!ShownIsCurrent, Host!Channel, Host!LinkOf
<1>5. ASSUME raced' = {} PROVE HostLife' /\ HostLinks' /\ HostRoom'
    <2>0. sock[l] = "none" /\ HostLife /\ HostLinks /\ HostRoom
        BY <1>0, <1>1, <1>5
    <2>1. HostLife'
        BY <1>1, <2>0 DEF HostLife
    <2>2. HostLinks'
        BY <1>1, <1>2, <2>0 DEF HostLinks
    <2>3. HostRoom'
        BY <1>0, <1>1, <2>0, HostStays
    <2> QED BY <2>1, <2>2, <2>3
<1> QED BY <1>3, <1>4, <1>5 DEF HostInv

\* The server reads a message: whoever is there on that connection sent it.
LEMMA HostServer ==
    ASSUME HostInv, NEW l \in Host!Objects, Host!ServerReceives(l)
    PROVE  HostInv'
<1>0. HostTypes /\ HostShows /\ (raced = {} => HostLife /\ HostLinks /\ HostRoom)
    BY DEF HostInv
<1>1. /\ wire[l] # <<>> /\ wire' = [wire EXCEPT ![l] = Tail(wire[l])]
      /\ UNCHANGED <<opts, cur, last, subs, shown, state, at, stopping, leaving, timer, tstate, sock,
                     old, out, raced>>
    BY DEF Host!ServerReceives, Host!hostVars, Host!objVars
<1>2. wire \in [Host!Objects -> Seq(Msg)] /\ wire[l] \in Seq(Msg)
    BY <1>0 DEF HostTypes
<1>3. PICK who : who = wire[l][1].who
    OBVIOUS
<1>4. /\ Head(wire[l]) = wire[l][1] /\ Tail(wire[l]) \in Seq(Msg) /\ wire[l][1] \in Msg
      /\ 1 \in 1..Len(wire[l])
    BY <1>1, <1>2, TailAt
<1>5. who \in Host!Objects /\ who # 0
    BY <1>0, <1>3, <1>4, MsgIs
<1>6. /\ wire' \in [Host!Objects -> Seq(Msg)] /\ wire'[l] = Tail(wire[l])
      /\ \A k \in Host!Objects : k # l => wire'[k] = wire[k]
    BY <1>1, <1>2, <1>4
<1>7. IF wire[l][1].type = "join"
      THEN members' = members \cup {who} /\ bound' = [bound EXCEPT ![l] = who]
      ELSE /\ members' = members \ {who}
           /\ bound' = IF bound[l] = who THEN [bound EXCEPT ![l] = 0] ELSE bound
    BY <1>3, <1>4 DEF Host!ServerReceives
<1>8. /\ bound' = [k \in Host!Objects |-> bound'[k]] /\ members' \subseteq Host!Objects
      /\ \A k \in Host!Objects : k # l => bound'[k] = bound[k]
    BY <1>0, <1>5, <1>7 DEF HostTypes
<1>9. HostTypes'
    BY <1>0, <1>1, <1>6, <1>8 DEF HostTypes
<1>10. HostShows'
    BY <1>0, <1>1 DEF HostShows, Host!ShownIsCurrent, Host!Channel, Host!LinkOf
<1>11. ASSUME raced = {} PROVE HostLife' /\ HostLinks' /\ HostRoom'
    <2>0. HostLife /\ HostLinks /\ HostRoom
        BY <1>0, <1>11
    <2>1. HostLife'
        BY <1>1, <2>0 DEF HostLife
    <2>2. sock[l] = "open" \/ old[l]
        BY <1>1, <2>0 DEF HostLinks
    <2>3. HostLinks'
        <3>1. ASSUME NEW k \in Host!Objects, bound'[k] # 0 \/ wire'[k] # <<>>
              PROVE  sock[k] = "open" \/ old[k]
            BY <1>6, <1>8, <2>0, <2>2, <3>1 DEF HostLinks
        <3> QED BY <1>1, <2>0, <3>1 DEF HostLinks
    <2>4. /\ Row(l, bound[l], wire[l], state)
          /\ Tip(bound[l], wire[l]) # 0 /\ stopping[Tip(bound[l], wire[l])] => old[l]
        BY <2>0 DEF HostRoom
    <2>5. PICK c : c = IF wire[l][1].type = "join" THEN wire[l][1].who ELSE 0
        OBVIOUS
    <2>6. /\ Chain(c, Tail(wire[l])) /\ Tip(c, Tail(wire[l])) = Tip(bound[l], wire[l])
          /\ bound[l] # 0 => bound[l] = who
          /\ \A i \in 1..Len(Tail(wire[l])) : \E j \in 1..Len(wire[l]) : Tail(wire[l])[i] = wire[l][j]
        <3>1. Chain(bound[l], wire[l]) /\ \A x \in Msg : x.who # 0
            BY <1>0, <2>4, MsgIs DEF Row
        <3> QED BY <1>1, <1>2, <1>3, <2>5, <3>1, ChainRead
    <2>7. bound'[l] = c
        BY <1>0, <1>3, <1>7, <2>5, <2>6 DEF HostTypes
    <2>8. Row(l, c, wire'[l], state)
        <3>1. \A i \in 1..Len(wire'[l]) : Host!LinkOf(wire'[l][i].who) = l
            BY <1>6, <2>4, <2>6 DEF Row
        <3> QED BY <1>6, <2>4, <2>6, <3>1 DEF Row
    <2>9. Host!LinkOf(who) = l
        BY <1>3, <1>4, <2>4 DEF Row
    <2>10. ASSUME NEW k \in Host!Objects
           PROVE  /\ Row(k, bound'[k], wire'[k], state) /\ Row(k, 0, out[k], state)
                  /\ Tip(bound'[k], wire'[k]) # 0 /\ stopping[Tip(bound'[k], wire'[k])] => old[k]
                  /\ Tip(0, out[k]) # 0 => ~stopping[Tip(0, out[k])]
        <3>1. /\ Row(k, bound[k], wire[k], state) /\ Row(k, 0, out[k], state)
              /\ Tip(bound[k], wire[k]) # 0 /\ stopping[Tip(bound[k], wire[k])] => old[k]
              /\ Tip(0, out[k]) # 0 => ~stopping[Tip(0, out[k])]
            BY <2>0 DEF HostRoom
        <3>2. CASE k # l
            BY <1>6, <1>8, <3>1, <3>2
        <3>3. CASE k = l
            BY <1>6, <2>4, <2>6, <2>7, <2>8, <3>1, <3>3
        <3> QED BY <3>2, <3>3
    <2>11. ASSUME NEW m \in members' PROVE bound'[Host!LinkOf(m)] = m
        <3>1. CASE m = who /\ wire[l][1].type = "join"
            BY <1>3, <2>5, <2>7, <2>9, <3>1
        <3>2. CASE m # who
            <4>0. m \in members
                BY <1>7, <3>2
            <4>5. m \in Host!Objects /\ m # 0
                BY <1>0, <4>0, HostSets DEF HostTypes
            <4>1. m \in members /\ bound[Host!LinkOf(m)] = m /\ m # 0
                BY <2>0, <4>0, <4>5 DEF HostRoom
            <4>2. Host!LinkOf(m) # l
                BY <2>6, <3>2, <4>1
            <4>3. Host!LinkOf(m) \in Host!Objects
                BY <1>0, <4>1, HostSets DEF HostTypes
            <4> QED BY <1>8, <4>1, <4>2, <4>3
        <3> QED BY <1>7, <3>1, <3>2
    <2>12. \A n : Host!LinkOf(n)' = Host!LinkOf(n)
        BY <1>1 DEF Host!LinkOf
    <2>13. \A k \in Host!Objects :
             /\ Row(k, bound[k], wire[k], state)' = Row(k, bound'[k], wire'[k], state)
             /\ Row(k, 0, out[k], state)' = Row(k, 0, out[k], state)
        BY <1>1, <2>12 DEF Row
    <2>14. HostRoom'
        BY <1>1, <2>10, <2>11, <2>12, <2>13 DEF HostRoom
    <2> QED BY <2>1, <2>3, <2>14
<1> QED BY <1>1, <1>9, <1>10, <1>11 DEF HostInv

\* Every step of the page keeps the invariant of the hosts.
LEMMA HostStep ==
    ASSUME part = "host", HostInv, [Next]_pageVars
    PROVE  HostInv'
<1>1. CASE UNCHANGED pageVars
    <2>0. HostTypes /\ HostShows /\ (raced = {} => HostLife /\ HostLinks /\ HostRoom)
        BY DEF HostInv
    <2>1. UNCHANGED <<opts, cur, last, subs, shown, state, at, stopping, leaving, timer, tstate, sock,
                      old, out, wire, members, bound, raced>>
        BY <1>1 DEF pageVars, Host!vars, Host!hostVars, Host!objVars, Host!linkVars
    <2>2. HostTypes'
        BY <2>0, <2>1 DEF HostTypes
    <2>3. HostShows'
        BY <2>0, <2>1 DEF HostShows, Host!ShownIsCurrent, Host!Channel, Host!LinkOf
    <2>4. ASSUME raced = {} PROVE HostLife' /\ HostLinks' /\ HostRoom'
        <3>1. HostLife' /\ HostLinks'
            BY <2>0, <2>1, <2>4 DEF HostLife, HostLinks
        <3>2. HostRoom'
            BY <2>0, <2>1, <2>4, HostStays
        <3> QED BY <3>1, <3>2
    <2> QED BY <2>1, <2>2, <2>3, <2>4 DEF HostInv
<1>2. CASE Next
    <2>1. Host!Next
        BY <1>2 DEF Next
    <2>2. \/ Host!Mounted \/ Host!Unmounted \/ Host!ElementDisconnected
          \/ Host!UserStarts \/ Host!UserStops
          \/ \E n \in Host!Objects : Host!Joins(n) \/ Host!RetryFires(n) \/ Host!Stopped(n)
          \/ \E l \in Host!Objects : \/ Host!Opens(l) \/ Host!CloseEvent(l) \/ Host!Reopens(l)
                                     \/ Host!ServerReceives(l)
        BY <2>1, Zenon DEF Host!Next, Host!ReactPublisherMounts, Host!ReactPublisherUnmounts,
           Host!VuePublisherMounts, Host!VuePublisherUnmounts, Host!ReactViewerMounts,
           Host!ReactViewerUnmounts, Host!VueViewerMounts, Host!VueViewerUnmounts,
           Host!ReactChannelMounts, Host!ReactChannelUnmounts, Host!VueChannelMounts,
           Host!VueChannelUnmounts, Host!ElementConnected
    <2> QED BY <2>2, HostMounts, HostUnmounts, HostUserStarts, HostUserStops, HostJoins, HostRetries,
               HostStopEnds, HostOpens, HostCloses, HostReopens, HostServer
<1> QED BY <1>1, <1>2

\* The invariant says what the runs check.
LEMMA HostSays == HostInv => Host!ShownIsCurrent /\ Host!UnmountLeaves
<1> SUFFICES ASSUME HostInv PROVE Host!ShownIsCurrent /\ Host!UnmountLeaves
    OBVIOUS
<1>0. HostTypes /\ HostShows /\ (raced = {} => HostLife /\ HostLinks /\ HostRoom)
    BY DEF HostInv
<1>1. ASSUME Host!Quiet, raced = {}, NEW m \in members PROVE m = cur
    <2>1. m \in Host!Objects /\ m # 0 /\ Host!LinkOf(m) \in Host!Objects
        BY <1>0, HostSets DEF HostTypes
    <2>2. bound[Host!LinkOf(m)] = m /\ wire[Host!LinkOf(m)] = <<>> /\ ~old[Host!LinkOf(m)]
        BY <1>0, <1>1, <2>1 DEF HostRoom, Host!Quiet
    <2>3. Tip(bound[Host!LinkOf(m)], wire[Host!LinkOf(m)]) = m
        BY <2>2 DEF Tip
    <2>4. /\ Row(Host!LinkOf(m), bound[Host!LinkOf(m)], wire[Host!LinkOf(m)], state)
          /\ ~stopping[m]
        BY <1>0, <1>1, <2>1, <2>2, <2>3 DEF HostRoom
    <2>5. state[m] # "idle"
        BY <2>1, <2>3, <2>4 DEF Row
    <2> QED BY <1>0, <1>1, <2>1, <2>4, <2>5 DEF HostLife
<1> QED BY <1>0, <1>1 DEF HostShows, Host!UnmountLeaves

-----------------------------------------------------------------------------
(***************************************************************************)
(* Sequences.                                                              *)
(***************************************************************************)

\* Numbers that increase, and what a sequence holds.
Increasing(s) == \A i, j \in 1..Len(s) : i < j => s[i] < s[j]
Members(s) == {s[i] : i \in 1..Len(s)}

\* The numbers up to the next one.
LEMMA IntervalNext ==
    ASSUME NEW n \in Nat
    PROVE  1..(n + 1) = 1..n \cup {n + 1}
OBVIOUS

\* A greater number may be appended.
LEMMA IncreasingAppend ==
    ASSUME NEW s \in Seq(Nat), NEW n \in Nat, Increasing(s), \A m \in Members(s) : m < n
    PROVE  /\ Append(s, n) \in Seq(Nat) /\ Increasing(Append(s, n))
           /\ Members(Append(s, n)) = Members(s) \cup {n}
<1> DEFINE t == Append(s, n)
<1>1. Len(s) \in Nat /\ Len(t) = Len(s) + 1 /\ t[Len(s) + 1] = n /\ t \in Seq(Nat)
    OBVIOUS
<1>2. \A i \in 1..Len(s) : t[i] = s[i]
    OBVIOUS
<1> HIDE DEF t
<1>3. Increasing(t)
    <2> SUFFICES ASSUME NEW i \in 1..Len(t), NEW j \in 1..Len(t), i < j PROVE t[i] < t[j]
        BY DEF Increasing
    <2>1. i \in 1..Len(s)
        BY <1>1
    <2>2. CASE j \in 1..Len(s)
        BY <1>2, <2>1, <2>2 DEF Increasing
    <2>3. CASE j = Len(s) + 1
        <3>1. s[i] \in Members(s)
            BY <2>1 DEF Members
        <3>2. s[i] < n
            BY <3>1
        <3>3. t[j] = n /\ t[i] = s[i]
            BY <1>1, <1>2, <2>1, <2>3
        <3> QED BY <3>2, <3>3
    <2>4. j \in 1..Len(s) \/ j = Len(s) + 1
        BY <1>1, IntervalNext
    <2> QED BY <2>2, <2>3, <2>4
<1>4. Members(t) = Members(s) \cup {n}
    <2>1. ASSUME NEW i \in 1..Len(t) PROVE t[i] \in Members(s) \cup {n}
        <3>1. CASE i \in 1..Len(s)
            BY <1>2, <3>1 DEF Members
        <3> QED BY <1>1, <3>1
    <2>2. ASSUME NEW i \in 1..Len(s) PROVE s[i] \in Members(t)
        BY <1>1, <1>2 DEF Members
    <2>3. n \in Members(t)
        BY <1>1 DEF Members
    <2> QED BY <2>1, <2>2, <2>3 DEF Members
<1> QED BY <1>1, <1>3, <1>4 DEF t

\* The first of them is the least; the others are left when it is taken.
LEMMA IncreasingTail ==
    ASSUME NEW s \in Seq(Nat), s # <<>>, Increasing(s)
    PROVE  /\ Tail(s) \in Seq(Nat) /\ Increasing(Tail(s))
           /\ Head(s) \in Members(s) /\ \A m \in Members(s) : Head(s) <= m
           /\ Members(Tail(s)) = Members(s) \ {Head(s)}
<1> DEFINE t == Tail(s)
<1>1. Len(s) \in Nat \ {0} /\ t \in Seq(Nat) /\ Len(t) = Len(s) - 1 /\ Head(s) = s[1]
    BY Queued
<1>2. \A i \in 1..Len(t) : t[i] = s[i + 1]
    OBVIOUS
<1>3. \A i \in 1..Len(s) : s[i] \in Nat
    OBVIOUS
<1> HIDE DEF t
<1>4. \A i \in 1..Len(t) : i + 1 \in 1..Len(s)
    BY <1>1
<1>5. Increasing(t)
    <2> SUFFICES ASSUME NEW i \in 1..Len(t), NEW j \in 1..Len(t), i < j PROVE t[i] < t[j]
        BY DEF Increasing
    <2>1. i + 1 \in 1..Len(s) /\ j + 1 \in 1..Len(s) /\ i + 1 < j + 1
        BY <1>1
    <2>2. s[i + 1] < s[j + 1]
        BY <2>1 DEF Increasing
    <2> QED BY <1>2, <2>2
<1>7. 1 \in 1..Len(s)
    BY <1>1
<1>6. ASSUME NEW i \in 2..Len(s) PROVE s[1] < s[i]
    <2>1. i \in 1..Len(s) /\ 1 < i
        BY <1>1
    <2> QED BY <1>7, <2>1 DEF Increasing
<1>8. \A i \in 1..Len(s) : i = 1 \/ i \in 2..Len(s)
    BY <1>1
<1>9. Head(s) \in Members(s) /\ \A m \in Members(s) : Head(s) <= m
    <2>1. Head(s) \in Members(s)
        BY <1>1, <1>7 DEF Members
    <2>2. ASSUME NEW i \in 1..Len(s) PROVE s[1] <= s[i]
        BY <1>3, <1>6, <1>7, <1>8
    <2> QED BY <1>1, <2>1, <2>2 DEF Members
<1>10. Members(t) = Members(s) \ {Head(s)}
    <2>1. ASSUME NEW i \in 1..Len(t) PROVE t[i] \in Members(s) /\ t[i] # s[1]
        <3>1. i + 1 \in 2..Len(s) /\ i + 1 \in 1..Len(s)
            BY <1>1
        <3>2. s[1] < s[i + 1] /\ s[1] \in Nat /\ s[i + 1] \in Nat
            BY <1>3, <1>6, <1>7, <3>1
        <3> QED BY <1>2, <3>1, <3>2 DEF Members
    <2>2. ASSUME NEW i \in 1..Len(s), s[i] # s[1] PROVE s[i] \in Members(t)
        <3>1. i - 1 \in 1..Len(t) /\ (i - 1) + 1 = i
            BY <1>1, <2>2
        <3> QED BY <1>2, <3>1 DEF Members
    <2> QED BY <1>1, <2>1, <2>2 DEF Members
<1> QED BY <1>1, <1>5, <1>9, <1>10 DEF t

\* A set of numbers has a least one.
LEMMA Least ==
    ASSUME NEW T, T \subseteq Nat, T # {}
    PROVE  \E x \in T : \A y \in T : x <= y
<1> DEFINE R == OpToRel(<, Nat)
<1>1. IsWellFoundedOn(R, Nat)
    BY NatLessThanWellFounded
<1>2. \A x, y \in Nat : y < x => <<y, x>> \in R
    BY DEF OpToRel
<1> HIDE DEF R
<1>3. PICK x \in T : \A y \in T : ~ (<<y, x>> \in R)
    BY <1>1, WFMin
<1>4. \A y \in T : ~ (y < x)
    BY <1>2, <1>3
<1> QED BY <1>4

\* A sequence after another.
LEMMA ConcatAt ==
    ASSUME NEW S, NEW s \in Seq(S), NEW t \in Seq(S)
    PROVE  /\ s \o t \in Seq(S) /\ Len(s) \in Nat /\ Len(s \o t) = Len(s) + Len(t)
           /\ \A i \in 1..Len(s) : i \in 1..Len(s \o t) /\ (s \o t)[i] = s[i]
           /\ \A k \in 1..Len(t) : Len(s) + k \in 1..Len(s \o t) /\ (s \o t)[Len(s) + k] = t[k]
           /\ \A i \in 1..Len(s \o t) : i \in 1..Len(s) \/ \E k \in 1..Len(t) : i = Len(s) + k
<1>1. Len(s) \in Nat /\ Len(t) \in Nat /\ s \o t \in Seq(S) /\ Len(s \o t) = Len(s) + Len(t)
    OBVIOUS
<1>2. \A i \in 1..Len(s) : i \in 1..Len(s \o t) /\ (s \o t)[i] = s[i]
    BY <1>1
<1>3. \A k \in 1..Len(t) : Len(s) + k \in 1..Len(s \o t) /\ (s \o t)[Len(s) + k] = t[k]
    BY <1>1
<1>4. ASSUME NEW i \in 1..Len(s \o t), ~ (i \in 1..Len(s)) PROVE \E k \in 1..Len(t) : i = Len(s) + k
    <2>1. PICK k : k = i - Len(s)
        OBVIOUS
    <2> QED BY <1>1, <1>4, <2>1
<1> QED BY <1>1, <1>2, <1>3, <1>4

-----------------------------------------------------------------------------
(***************************************************************************)
(* Captured media.                                                         *)
(***************************************************************************)

MediaTypes ==
    /\ opts.host \in {"react", "vue", "element"}
    /\ mounted \in {"no", "yes", "gone"}
    /\ used \in Nat /\ pending \subseteq 1..used /\ aborted \subseteq 1..used /\ ctrl \in 0..used
    /\ raced \in BOOLEAN

\* Unless a request that nobody can abort was overtaken: the one live stream is rendered;
\* of the requests that are waited for there is one, the controller's where there is only
\* one controller, and nothing live besides; and without an owner there are neither.
MediaOwned ==
    /\ live \subseteq {shown}
    /\ \A r, s \in pending \ aborted : r = s
    /\ pending \ aborted # {} => shown = 0 /\ live = {}
    /\ mounted # "yes" => pending \subseteq aborted /\ live = {}
    /\ opts.host # "react" => pending \ aborted \subseteq {ctrl}

MediaInv ==
    /\ MediaTypes
    /\ used = 0 => status = "idle" /\ live = {}
    /\ mounted # "yes" => shown = 0
    /\ ~raced => MediaOwned
    /\ Media!GrantedMeansShown

\* Media!Next with what the hooks do alike taken together.
MediaNext ==
    \/ Media!Starts /\ mounted = "no"
    \/ Media!Waits \/ Media!UserStops \/ Media!ElementDisconnected
    \/ opts.host = "react" /\ (Media!Vanishes \/ Media!ReactUnmounts \/ Media!ReactRefreshes)
    \/ opts.host = "vue" /\ (Media!VueRefreshes \/ Media!VueDisposes)
    \/ \E r \in Media!Requests : Media!Granted(r) \/ Media!Rejected(r) \/ Media!SharingEnds(r)

\* The hooks' actions are those.
LEMMA MediaNextIs == Media!Next => MediaNext
BY DEF MediaNext, Media!Next, Media!Is, Media!StrictMode, Media!ReactMounts,
       Media!ReactUserMediaMounts, Media!ReactUserMediaUnmounts, Media!ReactUserMediaRefreshes,
       Media!ReactDisplayMediaMounts, Media!ReactDisplayMediaUnmounts,
       Media!ReactDisplayMediaRefreshes, Media!VueUserMediaSetup, Media!VueUserMediaDisposes,
       Media!VueUserMediaRefreshes, Media!VueDisplayMediaSetup, Media!VueDisplayMediaDisposes,
       Media!VueDisplayMediaRefreshes, Media!ElementConnected, Media!Refused, Media!SharingRefused

\* Nothing is asked for before the mount.
LEMMA MediaInit == Media!Init => MediaInv
<1> SUFFICES ASSUME Media!Init PROVE MediaInv
    OBVIOUS
<1>1. opts.host \in {"react", "vue", "element"}
    BY DEF Media!Init, Media!Options
<1>2. /\ mounted = "no" /\ used = 0 /\ pending = {} /\ aborted = {} /\ ctrl = 0
      /\ live = {} /\ shown = 0 /\ status = "idle" /\ raced = FALSE
    BY DEF Media!Init
<1>3. MediaTypes
    <2>1. used \in Nat /\ pending \subseteq 1..used /\ aborted \subseteq 1..used /\ ctrl \in 0..used
        BY <1>2
    <2>2. mounted \in {"no", "yes", "gone"} /\ raced \in BOOLEAN
        BY <1>2
    <2> QED BY <1>1, <2>1, <2>2, Zenon DEF MediaTypes
<1>4. MediaOwned /\ Media!GrantedMeansShown
    BY <1>2 DEF MediaOwned, Media!GrantedMeansShown
<1> QED BY <1>2, <1>3, <1>4 DEF MediaInv

\* Every step keeps the numbers of the requests.
LEMMA MediaTypesStep ==
    ASSUME MediaTypes, MediaNext
    PROVE  MediaTypes'
<1> USE DEF MediaTypes
<1>1. CASE Media!Starts
    BY <1>1 DEF Media!Starts, Media!Ask
<1>2. CASE Media!Waits
    BY <1>2 DEF Media!Waits
<1>3. CASE Media!UserStops
    BY <1>3 DEF Media!UserStops, Media!Stop, Media!Release
<1>4. CASE Media!ElementDisconnected
    BY <1>4 DEF Media!ElementDisconnected, Media!Abort, Media!Release
<1>5. CASE Media!Vanishes
    BY <1>5 DEF Media!Vanishes
<1>6. CASE Media!ReactUnmounts
    BY <1>6 DEF Media!ReactUnmounts, Media!Abort, Media!Release
<1>7. CASE Media!ReactRefreshes
    BY <1>7 DEF Media!ReactRefreshes, Media!Release, Media!Ask
<1>8. CASE Media!VueRefreshes
    BY <1>8 DEF Media!VueRefreshes, Media!LastAborted, Media!Release, Media!Ask
<1>9. CASE Media!VueDisposes
    BY <1>9 DEF Media!VueDisposes, Media!Abort, Media!Stop, Media!Release
<1>10. ASSUME NEW r \in Media!Requests, Media!Granted(r) PROVE MediaTypes'
    BY <1>10 DEF Media!Granted
<1>11. ASSUME NEW r \in Media!Requests, Media!Rejected(r) PROVE MediaTypes'
    BY <1>11 DEF Media!Rejected
<1>12. ASSUME NEW r \in Media!Requests, Media!SharingEnds(r) PROVE MediaTypes'
    BY <1>12 DEF Media!SharingEnds
<1> QED BY <1>1, <1>2, <1>3, <1>4, <1>5, <1>6, <1>7, <1>8, <1>9, <1>10, <1>11, <1>12 DEF MediaNext

\* Every step keeps live what is rendered, and one request waited for.
LEMMA MediaOwnedStep ==
    ASSUME MediaTypes, mounted # "yes" => shown = 0, ~raced => MediaOwned, MediaNext
    PROVE  ~raced' => MediaOwned'
<1> USE DEF MediaTypes, MediaOwned
<1>1. CASE Media!Starts /\ mounted = "no"
    BY <1>1 DEF Media!Starts, Media!Ask
<1>2. CASE Media!Waits
    BY <1>2 DEF Media!Waits
<1>3. CASE Media!UserStops
    BY <1>3 DEF Media!UserStops, Media!Stop, Media!Release
<1>4. CASE Media!ElementDisconnected
    BY <1>4 DEF Media!ElementDisconnected, Media!Abort, Media!Release
<1>5. CASE opts.host = "react" /\ Media!Vanishes
    BY <1>5 DEF Media!Vanishes
<1>6. CASE opts.host = "react" /\ Media!ReactUnmounts
    <2> SUFFICES ASSUME ~raced' PROVE MediaOwned'
        OBVIOUS
    <2>1. /\ ~raced /\ pending \subseteq aborted \cup {ctrl} /\ aborted' = aborted \cup ({ctrl} \ {0})
          /\ live' = live \ {shown} /\ shown' = 0 /\ UNCHANGED <<opts, pending, ctrl>>
        BY <1>6 DEF Media!ReactUnmounts, Media!Abort, Media!Release
    <2>2. pending' \subseteq aborted'
        BY <2>1
    <2>3. live' = {}
        BY <2>1
    <2> QED BY <2>1, <2>2, <2>3
<1>7. CASE opts.host = "react" /\ Media!ReactRefreshes
    BY <1>7 DEF Media!ReactRefreshes, Media!Release, Media!Ask
<1>8. CASE opts.host = "vue" /\ Media!VueRefreshes
    BY <1>8 DEF Media!VueRefreshes, Media!LastAborted, Media!Release, Media!Ask
<1>9. CASE opts.host = "vue" /\ Media!VueDisposes
    BY <1>9 DEF Media!VueDisposes, Media!Abort, Media!Stop, Media!Release
<1>10. ASSUME NEW r \in Media!Requests, Media!Granted(r), ~raced' PROVE MediaOwned'
    <2>1. /\ r \in pending /\ pending' = pending \ {r} /\ ~raced
          /\ UNCHANGED <<opts, mounted, used, aborted, ctrl, raced>>
        BY <1>10 DEF Media!Granted
    <2>2. CASE r \in aborted
        <3>1. UNCHANGED <<live, shown>> /\ pending' \ aborted' = pending \ aborted
            BY <1>10, <2>1, <2>2 DEF Media!Granted, Media!Discarded
        <3> QED BY <2>1, <3>1
    <2>3. CASE r \notin aborted
        <3>1. mounted = "yes" /\ live = {} /\ pending \ aborted = {r}
            BY <2>1, <2>3
        <3>2. live' = {r} /\ shown' = r /\ pending' \ aborted' = {}
            BY <1>10, <2>1, <2>3, <3>1 DEF Media!Granted, Media!Discarded
        <3> QED BY <2>1, <3>1, <3>2
    <2> QED BY <2>2, <2>3
<1>11. ASSUME NEW r \in Media!Requests, Media!Rejected(r), ~raced' PROVE MediaOwned'
    BY <1>11 DEF Media!Rejected
<1>12. ASSUME NEW r \in Media!Requests, Media!SharingEnds(r), ~raced' PROVE MediaOwned'
    BY <1>12 DEF Media!SharingEnds
<1> QED BY <1>1, <1>2, <1>3, <1>4, <1>5, <1>6, <1>7, <1>8, <1>9, <1>10, <1>11, <1>12 DEF MediaNext

\* Every step keeps "granted" what comes with a stream.
LEMMA MediaShownStep ==
    ASSUME MediaInv, MediaNext
    PROVE  /\ (used = 0 => status = "idle" /\ live = {})' /\ (mounted # "yes" => shown = 0)'
           /\ Media!GrantedMeansShown'
<1> USE DEF MediaInv, MediaTypes, Media!GrantedMeansShown
<1>1. CASE Media!Starts /\ mounted = "no"
    BY <1>1 DEF Media!Starts, Media!Ask
<1>2. CASE Media!Waits
    BY <1>2 DEF Media!Waits
<1>3. CASE Media!UserStops
    BY <1>3 DEF Media!UserStops, Media!Stop, Media!Release
<1>4. CASE Media!ElementDisconnected
    BY <1>4 DEF Media!ElementDisconnected, Media!Abort, Media!Release
<1>5. CASE Media!Vanishes
    BY <1>5 DEF Media!Vanishes
<1>6. CASE Media!ReactUnmounts
    BY <1>6 DEF Media!ReactUnmounts, Media!Abort, Media!Release
<1>7. CASE Media!ReactRefreshes
    BY <1>7 DEF Media!ReactRefreshes, Media!Release, Media!Ask
<1>8. CASE Media!VueRefreshes
    BY <1>8 DEF Media!VueRefreshes, Media!Release, Media!Ask
<1>9. CASE Media!VueDisposes
    BY <1>9 DEF Media!VueDisposes, Media!Abort, Media!Stop, Media!Release
<1>10. ASSUME NEW r \in Media!Requests, Media!Granted(r)
       PROVE  /\ (used = 0 => status = "idle" /\ live = {})' /\ (mounted # "yes" => shown = 0)'
              /\ Media!GrantedMeansShown'
    <2>1. r \in Nat \ {0} /\ used # 0
        BY <1>10, PageBounds DEF Media!Requests, Media!Granted
    <2> QED BY <1>10, <2>1 DEF Media!Granted
<1>11. ASSUME NEW r \in Media!Requests, Media!Rejected(r)
       PROVE  /\ (used = 0 => status = "idle" /\ live = {})' /\ (mounted # "yes" => shown = 0)'
              /\ Media!GrantedMeansShown'
    <2>1. used # 0
        BY <1>11 DEF Media!Rejected
    <2>2. ~raced /\ r \notin aborted => shown = 0
        BY <1>11 DEF Media!Rejected, MediaOwned
    <2> QED BY <1>11, <2>1, <2>2 DEF Media!Rejected, Media!Discarded
<1>12. ASSUME NEW r \in Media!Requests, Media!SharingEnds(r)
       PROVE  /\ (used = 0 => status = "idle" /\ live = {})' /\ (mounted # "yes" => shown = 0)'
              /\ Media!GrantedMeansShown'
    <2>1. ~raced => live \subseteq {shown}
        BY DEF MediaOwned
    <2>2. used # 0
        BY <1>12 DEF Media!SharingEnds
    <2> QED BY <1>12, <2>1, <2>2 DEF Media!SharingEnds
<1> QED BY <1>1, <1>2, <1>3, <1>4, <1>5, <1>6, <1>7, <1>8, <1>9, <1>10, <1>11, <1>12 DEF MediaNext

\* Every step of the page keeps the invariant of captured media.
LEMMA MediaStep ==
    ASSUME part = "media", MediaInv, [Next]_pageVars
    PROVE  MediaInv'
<1>1. CASE UNCHANGED pageVars
    BY <1>1 DEF pageVars, Media!vars, MediaInv, MediaTypes, MediaOwned, Media!GrantedMeansShown
<1>2. CASE Next
    <2>1. MediaNext
        BY <1>2, MediaNextIs DEF Next
    <2> QED BY <2>1, MediaTypesStep, MediaOwnedStep, MediaShownStep DEF MediaInv
<1> QED BY <1>1, <1>2

\* The invariant says what the runs check.
LEMMA MediaSays == MediaInv => Media!LiveIsShown /\ Media!GrantedMeansShown
BY DEF MediaInv, MediaOwned, Media!LiveIsShown

-----------------------------------------------------------------------------
(***************************************************************************)
(* Lists of devices.                                                       *)
(***************************************************************************)

\* The greater of two numbers, and the least of some.
LEMMA ListsMax ==
    ASSUME NEW a \in Nat, NEW b \in Nat
    PROVE  Lists!Max({a, b}) = IF a < b THEN b ELSE a
<1> DEFINE m == IF a < b THEN b ELSE a
<1>1. m \in {a, b} /\ \A y \in {a, b} : m >= y
    OBVIOUS
<1>2. \A x \in {a, b} : (\A y \in {a, b} : x >= y) => x = m
    OBVIOUS
<1> HIDE DEF m
<1>3. (CHOOSE x \in {a, b} : \A y \in {a, b} : x >= y) = m
    BY <1>1, <1>2
<1> QED BY <1>3 DEF Lists!Max, m

\* The least of some numbers is one of them.
LEMMA ListsMin ==
    ASSUME NEW T, T \subseteq Nat, T # {}
    PROVE  Lists!Min(T) \in T
BY Least DEF Lists!Min

ListsCalls ==
    /\ call \in [Lists!Asks -> [at : {"none", "asked", "read"}, watcher : Nat, list : SUBSET Lists!Devices]]
    /\ \A n \in Lists!Asks : call[n].at = "none" <=> call[n] = Lists!NoCall
    /\ \A n \in Lists!Asks : n > asked => call[n].at = "none"

ListsTypes ==
    /\ asked \in Nat /\ asked <= MaxAsks /\ newest \in Nat /\ newest <= asked
    /\ watcher \in Nat /\ (mounted = "yes" => watcher # 0)
    /\ plugged \subseteq Lists!Devices /\ ListsCalls

\* Since the devices last changed under a watcher it has asked, by call n: whoever asked
\* then or later has read what is there now, and the watcher still waits for n or has been
\* answered n or a later call.
AskedSince(n) ==
    /\ \A m \in Lists!Asks : m >= n /\ call[m].at = "read" => call[m].list = plugged
    /\ \/ call[n].at # "none" /\ call[n].watcher = watcher
       \/ newest >= n
    /\ newest >= n /\ ~overtaken => list = Lists!Grouped(plugged)

ListsInv ==
    /\ ListsTypes
    /\ mounted = "yes" => \E n \in 1..asked : AskedSince(n)
    /\ Lists!SelectionStays

\* Lists!Next with the watchers taken together.
ListsNext ==
    \/ Lists!Watches \/ (\E next \in {"no", "gone"} : Lists!Cancels(next))
    \/ Lists!ReactRefreshes \/ Lists!VueRefreshes
    \/ \E d \in Lists!Devices : Lists!Plugs(d) \/ Lists!Picks(d)
    \/ Lists!SetsUnlisted
    \/ \E n \in Lists!Asks : Lists!Reads(n) \/ Lists!Answered(n) \/ Lists!Rejected(n)

\* The watchers' actions are those.
LEMMA ListsNextIs == Lists!Next => ListsNext
BY DEF ListsNext, Lists!Next, Lists!ReactMounts, Lists!VueSetup, Lists!PickerAttached,
       Lists!ReactUnmounts, Lists!VueDisposes, Lists!PickerDetached

\* Nothing is asked for before the mount.
LEMMA ListsInit == Lists!Init => ListsInv
<1> SUFFICES ASSUME Lists!Init PROVE ListsInv
    OBVIOUS
<1>1. asked = 0 /\ newest = 0 /\ watcher = 0 /\ mounted = "no" /\ plugged \subseteq Lists!Devices
    BY DEF Lists!Init
<1>2. \A n \in Lists!Asks : call[n] = Lists!NoCall
    BY DEF Lists!Init
<1>3. call \in [Lists!Asks -> [at : {"none", "asked", "read"}, watcher : Nat, list : SUBSET Lists!Devices]]
    BY DEF Lists!Init, Lists!NoCall
<1>4. 0 <= MaxAsks
    BY PageBounds
<1>5. ListsTypes
    BY <1>1, <1>2, <1>3, <1>4 DEF ListsTypes, ListsCalls, Lists!NoCall
<1>6. Lists!SelectionStays
    BY DEF Lists!Init, Lists!SelectionStays, Lists!PickList, Lists!Grouped
<1> QED BY <1>1, <1>5, <1>6 DEF ListsInv

\* What asking does to the calls.
LEMMA ListsAsk ==
    ASSUME ListsTypes, NEW w \in Nat, Lists!Ask(w)
    PROVE  /\ asked' = asked + 1 /\ asked + 1 <= MaxAsks /\ asked + 1 \in Lists!Asks
           /\ call' \in [Lists!Asks -> [at : {"none", "asked", "read"}, watcher : Nat,
                                        list : SUBSET Lists!Devices]]
           /\ call'[asked + 1] = [at |-> "asked", watcher |-> w, list |-> {}]
           /\ \A n \in Lists!Asks : n # asked + 1 => call'[n] = call[n]
           /\ \A n \in Lists!Asks : call'[n].at = "none" <=> call'[n] = Lists!NoCall
           /\ \A n \in Lists!Asks : n > asked' => call'[n].at = "none"
<1>1. /\ asked < MaxAsks /\ asked' = asked + 1
      /\ call' = [call EXCEPT ![asked + 1] = [at |-> "asked", watcher |-> w, list |-> {}]]
    BY DEF Lists!Ask
<1>2. asked + 1 \in Lists!Asks /\ asked + 1 <= MaxAsks
    BY <1>1, PageBounds DEF ListsTypes, ListsCalls, Lists!Asks
<1>3. /\ call'[asked + 1] = [at |-> "asked", watcher |-> w, list |-> {}]
      /\ \A n \in Lists!Asks : n # asked + 1 => call'[n] = call[n]
    BY <1>1, <1>2 DEF ListsTypes, ListsCalls
<1>4. call' \in [Lists!Asks -> [at : {"none", "asked", "read"}, watcher : Nat,
                                list : SUBSET Lists!Devices]]
    BY <1>1, <1>2 DEF ListsTypes, ListsCalls
<1>5. \A n \in Lists!Asks : call'[n].at = "none" <=> call'[n] = Lists!NoCall
    <2> SUFFICES ASSUME NEW n \in Lists!Asks
                 PROVE  call'[n].at = "none" <=> call'[n] = Lists!NoCall
        OBVIOUS
    <2>1. CASE n = asked + 1
        BY <1>3, <2>1 DEF Lists!NoCall
    <2> QED BY <1>3, <2>1 DEF ListsTypes, ListsCalls
<1>6. \A n \in Lists!Asks : n > asked' => call'[n].at = "none"
    BY <1>1, <1>3 DEF ListsTypes, ListsCalls, Lists!Asks
<1> QED BY <1>1, <1>2, <1>3, <1>4, <1>5, <1>6

\* The watcher asks: since then, or since the change that made it ask, nothing has changed.
LEMMA ListsAskedSince ==
    ASSUME ListsTypes, watcher' \in Nat, Lists!Ask(watcher'), newest' = newest
    PROVE  \E n \in 1..asked' : AskedSince(n)'
<1>1. /\ asked' = asked + 1 /\ asked + 1 \in Lists!Asks
      /\ call'[asked + 1] = [at |-> "asked", watcher |-> watcher', list |-> {}]
      /\ \A n \in Lists!Asks : n > asked' => call'[n].at = "none"
    BY ListsAsk
<1>2. \A m \in Lists!Asks : m >= asked + 1 => call'[m].at # "read"
    <2> SUFFICES ASSUME NEW m \in Lists!Asks, m >= asked + 1 PROVE call'[m].at # "read"
        OBVIOUS
    <2>1. CASE m = asked + 1
        BY <1>1, <2>1
    <2>2. CASE m # asked + 1
        BY <1>1, <2>2 DEF Lists!Asks, ListsTypes
    <2> QED BY <2>1, <2>2
<1>3. PICK k \in 1..asked' : k = asked + 1
    BY <1>1 DEF ListsTypes, ListsCalls
<1>4. ~(newest' >= k)
    BY <1>3 DEF ListsTypes, ListsCalls
<1>5. AskedSince(k)'
    BY <1>1, <1>2, <1>3, <1>4 DEF AskedSince
<1> QED BY <1>5

\* Mounting.
LEMMA ListsWatches ==
    ASSUME ListsInv, Lists!Watches
    PROVE  ListsInv'
<1>1. /\ mounted = "no" /\ mounted' = "yes" /\ watcher' = watcher + 1 /\ Lists!Ask(watcher')
      /\ UNCHANGED <<host, plugged, list, value, picked, unset, newest, overtaken>>
    BY DEF Lists!Watches
<1>2. watcher' \in Nat /\ watcher' # 0
    BY <1>1 DEF ListsInv, ListsTypes
<1>3. \E n \in 1..asked' : AskedSince(n)'
    BY <1>1, <1>2, ListsAskedSince DEF ListsInv
<1>4. ListsTypes'
    <2>1. ListsTypes
        BY DEF ListsInv
    <2>2. /\ asked' = asked + 1 /\ asked + 1 <= MaxAsks
          /\ call' \in [Lists!Asks -> [at : {"none", "asked", "read"}, watcher : Nat,
                                       list : SUBSET Lists!Devices]]
          /\ \A n \in Lists!Asks : call'[n].at = "none" <=> call'[n] = Lists!NoCall
          /\ \A n \in Lists!Asks : n > asked' => call'[n].at = "none"
        BY <1>1, <1>2, <2>1, ListsAsk
    <2>3. asked' \in Nat /\ newest' <= asked'
        BY <1>1, <2>1, <2>2 DEF ListsTypes, ListsCalls
    <2> QED BY <1>1, <1>2, <2>1, <2>2, <2>3 DEF ListsTypes, ListsCalls
<1>5. Lists!SelectionStays'
    BY <1>1 DEF ListsInv, Lists!SelectionStays, Lists!PickList
<1> QED BY <1>3, <1>4, <1>5 DEF ListsInv

\* Plugging, which the watcher hears of.
LEMMA ListsPlugs ==
    ASSUME ListsInv, NEW d \in Lists!Devices, Lists!Plugs(d)
    PROVE  ListsInv'
<1>0. ListsTypes
    BY DEF ListsInv
<1>1. /\ plugged' = (plugged \ {d}) \cup ({d} \ plugged)
      /\ IF mounted = "yes" THEN Lists!Ask(watcher) ELSE UNCHANGED <<asked, call>>
      /\ UNCHANGED <<host, mounted, watcher, list, value, picked, unset, newest, overtaken>>
    BY DEF Lists!Plugs
<1>2. plugged' \subseteq Lists!Devices
    BY <1>0, <1>1 DEF ListsTypes, ListsCalls
<1>3. Lists!SelectionStays'
    BY <1>1 DEF ListsInv, Lists!SelectionStays, Lists!PickList
<1>4. CASE mounted = "yes"
    <2>1. Lists!Ask(watcher) /\ watcher' = watcher /\ watcher \in Nat
        BY <1>0, <1>1, <1>4 DEF ListsTypes, ListsCalls
    <2>2. \E n \in 1..asked' : AskedSince(n)'
        BY <1>0, <1>1, <2>1, ListsAskedSince
    <2>3. /\ asked' = asked + 1 /\ asked + 1 <= MaxAsks
          /\ call' \in [Lists!Asks -> [at : {"none", "asked", "read"}, watcher : Nat,
                                       list : SUBSET Lists!Devices]]
          /\ \A n \in Lists!Asks : call'[n].at = "none" <=> call'[n] = Lists!NoCall
          /\ \A n \in Lists!Asks : n > asked' => call'[n].at = "none"
        BY <1>0, <2>1, ListsAsk
    <2>4. asked' \in Nat /\ newest' <= asked'
        BY <1>0, <1>1, <2>3 DEF ListsTypes, ListsCalls
    <2>5. ListsTypes'
        BY <1>0, <1>1, <1>2, <2>3, <2>4 DEF ListsTypes, ListsCalls
    <2> QED BY <1>3, <2>2, <2>5 DEF ListsInv
<1>5. CASE mounted # "yes"
    <2>1. ListsTypes' /\ mounted' # "yes"
        BY <1>0, <1>1, <1>2, <1>5 DEF ListsTypes, ListsCalls
    <2> QED BY <1>3, <2>1 DEF ListsInv
<1> QED BY <1>4, <1>5

\* refresh() asks besides.
LEMMA ListsRefreshes ==
    ASSUME ListsInv, Lists!ReactRefreshes \/ Lists!VueRefreshes
    PROVE  ListsInv'
<1>0. ListsTypes
    BY DEF ListsInv
<1>1. /\ mounted = "yes" /\ Lists!Ask(0)
      /\ UNCHANGED <<host, plugged, mounted, watcher, list, value, picked, unset, newest, overtaken>>
    BY DEF Lists!ReactRefreshes, Lists!VueRefreshes
<1>2. /\ asked' = asked + 1 /\ asked + 1 <= MaxAsks /\ asked + 1 \in Lists!Asks
      /\ call'[asked + 1] = [at |-> "asked", watcher |-> 0, list |-> {}]
      /\ \A n \in Lists!Asks : n # asked + 1 => call'[n] = call[n]
      /\ call' \in [Lists!Asks -> [at : {"none", "asked", "read"}, watcher : Nat,
                                   list : SUBSET Lists!Devices]]
      /\ \A n \in Lists!Asks : call'[n].at = "none" <=> call'[n] = Lists!NoCall
      /\ \A n \in Lists!Asks : n > asked' => call'[n].at = "none"
    BY <1>0, <1>1, ListsAsk
<1>3. ListsTypes'
    <2>1. asked' \in Nat /\ newest' <= asked'
        BY <1>0, <1>1, <1>2 DEF ListsTypes, ListsCalls
    <2> QED BY <1>0, <1>1, <1>2, <2>1 DEF ListsTypes, ListsCalls
<1>4. PICK n \in 1..asked : AskedSince(n)
    BY <1>1 DEF ListsInv
<1>5. n \in 1..asked' /\ n \in Lists!Asks /\ n # asked + 1
    BY <1>0, <1>2, PageBounds DEF ListsTypes, ListsCalls, Lists!Asks
<1>6. AskedSince(n)'
    <2>1. \A m \in Lists!Asks : m >= n /\ call'[m].at = "read" => call'[m].list = plugged'
        <3> SUFFICES ASSUME NEW m \in Lists!Asks, m >= n, call'[m].at = "read"
                     PROVE  call'[m].list = plugged'
            OBVIOUS
        <3>1. m # asked + 1
            BY <1>2
        <3> QED BY <1>1, <1>2, <1>4, <3>1 DEF AskedSince
    <2> QED BY <1>1, <1>2, <1>4, <1>5, <2>1 DEF AskedSince
<1>7. Lists!SelectionStays'
    BY <1>1 DEF ListsInv, Lists!SelectionStays, Lists!PickList
<1> QED BY <1>3, <1>5, <1>6, <1>7 DEF ListsInv

\* The browser reads what is there.
LEMMA ListsReads ==
    ASSUME ListsInv, NEW n \in Lists!Asks, Lists!Reads(n)
    PROVE  ListsInv'
<1>0. ListsTypes
    BY DEF ListsInv
<1>1. /\ call[n].at = "asked" /\ call' = [call EXCEPT ![n].at = "read", ![n].list = plugged]
      /\ UNCHANGED <<host, plugged, mounted, watcher, asked, list, value, picked, unset, newest,
                     overtaken>>
    BY DEF Lists!Reads
<1>2. /\ call'[n].at = "read" /\ call'[n].list = plugged /\ call'[n].watcher = call[n].watcher
      /\ \A m \in Lists!Asks : m # n => call'[m] = call[m]
    BY <1>0, <1>1 DEF ListsTypes, ListsCalls
<1>3. ListsTypes'
    <2>1. call' \in [Lists!Asks -> [at : {"none", "asked", "read"}, watcher : Nat,
                                    list : SUBSET Lists!Devices]]
        BY <1>0, <1>1 DEF ListsTypes, ListsCalls
    <2>2. call'[n] # Lists!NoCall
        BY <1>2 DEF Lists!NoCall
    <2>3. \A m \in Lists!Asks : call'[m].at = "none" <=> call'[m] = Lists!NoCall
        BY <1>0, <1>2, <2>2 DEF ListsTypes, ListsCalls
    <2>4. \A m \in Lists!Asks : m > asked' => call'[m].at = "none"
        BY <1>0, <1>1, <1>2 DEF ListsTypes, ListsCalls
    <2> QED BY <1>0, <1>1, <2>1, <2>3, <2>4 DEF ListsTypes, ListsCalls
<1>4. ASSUME NEW k \in 1..asked, AskedSince(k) PROVE AskedSince(k)'
    <2>1. k \in Lists!Asks
        BY <1>0, PageBounds DEF ListsTypes, ListsCalls, Lists!Asks
    <2>2. \A m \in Lists!Asks : m >= k /\ call'[m].at = "read" => call'[m].list = plugged'
        BY <1>1, <1>2, <1>4 DEF AskedSince
    <2>3. call[k].at # "none" /\ call[k].watcher = watcher
             => call'[k].at # "none" /\ call'[k].watcher = watcher'
        BY <1>1, <1>2, <2>1
    <2> QED BY <1>1, <1>4, <2>2, <2>3 DEF AskedSince
<1>5. Lists!SelectionStays'
    BY <1>1 DEF ListsInv, Lists!SelectionStays, Lists!PickList
<1> QED BY <1>1, <1>3, <1>4, <1>5 DEF ListsInv

\* An answer renders what its call has read; of the newest call, what is there.
LEMMA ListsAnswered ==
    ASSUME ListsInv, NEW n \in Lists!Asks, Lists!Answered(n)
    PROVE  ListsInv'
<1> DEFINE devices == Lists!PickList(Lists!Grouped(call[n].list))
<1>0. ListsTypes
    BY DEF ListsInv
<1>1. /\ call[n].at = "read" /\ call' = [call EXCEPT ![n] = Lists!NoCall]
      /\ UNCHANGED <<host, plugged, mounted, watcher, asked>>
    BY DEF Lists!Answered
<1>2. call'[n] = Lists!NoCall /\ \A m \in Lists!Asks : m # n => call'[m] = call[m]
    BY <1>0, <1>1 DEF ListsTypes, ListsCalls
<1>3. n \in Nat /\ n <= asked
    BY <1>0, <1>1 DEF ListsTypes, ListsCalls, Lists!Asks
<1>4. ListsCalls'
    <2>1. call' \in [Lists!Asks -> [at : {"none", "asked", "read"}, watcher : Nat,
                                    list : SUBSET Lists!Devices]]
        BY <1>0, <1>1 DEF ListsTypes, ListsCalls, Lists!NoCall
    <2>2. \A m \in Lists!Asks : call'[m].at = "none" <=> call'[m] = Lists!NoCall
        BY <1>0, <1>2 DEF ListsTypes, ListsCalls, Lists!NoCall
    <2>3. \A m \in Lists!Asks : m > asked' => call'[m].at = "none"
        BY <1>0, <1>1, <1>2 DEF ListsTypes, ListsCalls, Lists!NoCall
    <2> QED BY <2>1, <2>2, <2>3 DEF ListsCalls
<1>5. CASE Lists!Cancelled(n)
    <2>1. UNCHANGED <<list, value, picked, unset, newest, overtaken>>
        BY <1>5 DEF Lists!Answered
    <2>2. ListsTypes'
        BY <1>0, <1>1, <1>4, <2>1 DEF ListsTypes, ListsCalls
    <2>3. Lists!SelectionStays'
        BY <1>1, <2>1 DEF ListsInv, Lists!SelectionStays, Lists!PickList
    <2>4. ASSUME mounted = "yes", NEW k \in 1..asked, AskedSince(k) PROVE AskedSince(k)'
        <3>1. k \in Lists!Asks
            BY <1>0, PageBounds DEF ListsTypes, ListsCalls, Lists!Asks
        <3>2. \A m \in Lists!Asks : m >= k /\ call'[m].at = "read" => call'[m].list = plugged'
            BY <1>1, <1>2, <2>4 DEF AskedSince, Lists!NoCall
        <3>3. call[n].watcher # watcher
            BY <1>0, <1>5, <2>4 DEF Lists!Cancelled, ListsTypes
        <3>4. call[k].at # "none" /\ call[k].watcher = watcher
                 => call'[k].at # "none" /\ call'[k].watcher = watcher'
            BY <1>1, <1>2, <3>1, <3>3
        <3> QED BY <1>1, <2>1, <2>4, <3>2, <3>4 DEF AskedSince
    <2> QED BY <1>1, <2>2, <2>3, <2>4 DEF ListsInv
<1>6. CASE ~Lists!Cancelled(n)
    <2>1. /\ list' = Lists!Grouped(call[n].list)
          /\ value' = IF host = "element" THEN Lists!Selected(devices) ELSE 0
          /\ picked' = IF picked \in devices THEN picked ELSE 0
          /\ unset' = FALSE
          /\ newest' = Lists!Max({newest, n}) /\ overtaken' = (n < newest)
        BY <1>6 DEF Lists!Answered
    <2>2. newest' = IF newest < n THEN n ELSE newest
        BY <1>0, <1>3, <2>1, ListsMax DEF ListsTypes, ListsCalls
    <2>3. ListsTypes'
        <3>1. newest' \in Nat /\ newest' <= asked'
            BY <1>0, <1>1, <1>3, <2>2 DEF ListsTypes, ListsCalls
        <3> QED BY <1>0, <1>1, <1>4, <3>1 DEF ListsTypes, ListsCalls
    <2>4. devices = call[n].list \cap Cameras /\ devices \subseteq Nat
        BY PageBounds DEF Lists!PickList, Lists!Grouped
    <2>5. Lists!PickList(list') = devices
        BY <2>1
    <2>6. Lists!SelectionStays'
        <3> SUFFICES ASSUME host = "element" PROVE Lists!SelectionStays'
            BY <1>1 DEF Lists!SelectionStays
        <3> HIDE DEF devices
        <3>1. value' = Lists!Selected(devices)
            BY <2>1
        <3>2. /\ value' # 0 => value' \in devices
              /\ value' = 0 => devices = {}
            <4>1. 0 \notin devices
                BY <2>4, PageBounds
            <4>2. IF devices = {} THEN value' = 0 ELSE value' \in devices
                BY <2>4, <3>1, <4>1, ListsMin DEF Lists!Selected
            <4> QED BY <4>1, <4>2
        <3>3. picked' # 0 => value' = picked'
            <4> SUFFICES ASSUME picked' # 0 PROVE value' = picked'
                OBVIOUS
            <4>1. picked' = picked /\ picked \in devices
                BY <2>1
            <4>2. value = picked
                BY <4>1 DEF ListsInv, Lists!SelectionStays
            <4> QED BY <3>1, <4>1, <4>2 DEF Lists!Selected
        <3> QED BY <2>5, <3>2, <3>3 DEF Lists!SelectionStays, Lists!PickList
    <2>7. ASSUME NEW k \in 1..asked, AskedSince(k) PROVE AskedSince(k)'
        <3>1. k \in Lists!Asks /\ k \in Nat
            BY <1>0, PageBounds DEF ListsTypes, ListsCalls, Lists!Asks
        <3>2. \A m \in Lists!Asks : m >= k /\ call'[m].at = "read" => call'[m].list = plugged'
            BY <1>1, <1>2, <2>7 DEF AskedSince, Lists!NoCall
        <3>3. \/ call'[k].at # "none" /\ call'[k].watcher = watcher'
              \/ newest' >= k
            <4>1. newest' >= newest /\ newest' >= n
                BY <1>0, <1>3, <2>2 DEF ListsTypes, ListsCalls
            <4>2. newest >= k => newest' >= k
                BY <1>0, <1>3, <2>2, <3>1 DEF ListsTypes, ListsCalls
            <4>3. CASE k = n
                BY <4>1, <4>3
            <4>4. CASE k # n
                BY <1>1, <1>2, <2>7, <3>1, <4>2, <4>4 DEF AskedSince
            <4> QED BY <4>3, <4>4
        <3>4. newest' >= k /\ ~overtaken' => list' = Lists!Grouped(plugged')
            <4> SUFFICES ASSUME newest' >= k, ~overtaken' PROVE list' = Lists!Grouped(plugged')
                OBVIOUS
            <4>1. n >= k
                <5>1. ~(n < newest)
                    BY <2>1
                <5>2. newest \in Nat
                    BY <1>0 DEF ListsTypes
                <5> QED BY <1>3, <2>2, <3>1, <5>1, <5>2
            <4>2. call[n].list = plugged
                BY <1>1, <2>7, <4>1 DEF AskedSince
            <4> QED BY <1>1, <2>1, <4>2 DEF Lists!Grouped
        <3> QED BY <3>2, <3>3, <3>4 DEF AskedSince
    <2> QED BY <1>1, <2>3, <2>6, <2>7 DEF ListsInv
<1> QED BY <1>5, <1>6

\* A failed call is one fewer to wait for; the list is not its.
LEMMA ListsRejected ==
    ASSUME ListsInv, NEW n \in Lists!Asks, Lists!Rejected(n)
    PROVE  ListsInv'
<1>0. ListsTypes
    BY DEF ListsInv
<1>1. /\ call[n].at # "none" /\ call' = [call EXCEPT ![n] = Lists!NoCall]
      /\ UNCHANGED <<host, plugged, mounted, watcher, asked, list, value, picked, unset>>
    BY DEF Lists!Rejected
<1>2. call'[n] = Lists!NoCall /\ \A m \in Lists!Asks : m # n => call'[m] = call[m]
    BY <1>0, <1>1 DEF ListsTypes, ListsCalls
<1>3. n \in Nat /\ n <= asked
    BY <1>0, <1>1 DEF ListsTypes, ListsCalls, Lists!Asks
<1>4. ListsCalls'
    <2>1. call' \in [Lists!Asks -> [at : {"none", "asked", "read"}, watcher : Nat,
                                    list : SUBSET Lists!Devices]]
        BY <1>0, <1>1 DEF ListsTypes, ListsCalls, Lists!NoCall
    <2>2. \A m \in Lists!Asks : call'[m].at = "none" <=> call'[m] = Lists!NoCall
        BY <1>0, <1>2 DEF ListsTypes, ListsCalls, Lists!NoCall
    <2>3. \A m \in Lists!Asks : m > asked' => call'[m].at = "none"
        BY <1>0, <1>1, <1>2 DEF ListsTypes, ListsCalls, Lists!NoCall
    <2> QED BY <2>1, <2>2, <2>3 DEF ListsCalls
<1>5. Lists!SelectionStays'
    BY <1>1 DEF ListsInv, Lists!SelectionStays, Lists!PickList
<1>6. ASSUME NEW k \in 1..asked, AskedSince(k)
      PROVE  /\ k \in Lists!Asks /\ k \in Nat
             /\ \A m \in Lists!Asks : m >= k /\ call'[m].at = "read" => call'[m].list = plugged'
    BY <1>0, <1>1, <1>2, <1>6, PageBounds
    DEF ListsTypes, ListsCalls, Lists!Asks, AskedSince, Lists!NoCall
<1>7. CASE Lists!Cancelled(n)
    <2>1. UNCHANGED <<newest, overtaken>>
        BY <1>7 DEF Lists!Rejected
    <2>2. ListsTypes'
        BY <1>0, <1>1, <1>4, <2>1 DEF ListsTypes, ListsCalls
    <2>3. ASSUME mounted = "yes", NEW k \in 1..asked, AskedSince(k) PROVE AskedSince(k)'
        <3>1. call[n].watcher # watcher
            BY <1>0, <1>7, <2>3 DEF Lists!Cancelled, ListsTypes
        <3>2. call[k].at # "none" /\ call[k].watcher = watcher
                 => call'[k].at # "none" /\ call'[k].watcher = watcher'
            BY <1>1, <1>2, <1>6, <2>3, <3>1
        <3> QED BY <1>1, <1>6, <2>1, <2>3, <3>2 DEF AskedSince
    <2> QED BY <1>1, <1>5, <2>2, <2>3 DEF ListsInv
<1>8. CASE ~Lists!Cancelled(n)
    <2>1. newest' = Lists!Max({newest, n}) /\ overtaken' = (overtaken \/ n > newest)
        BY <1>8 DEF Lists!Rejected
    <2>2. newest \in Nat /\ newest' = IF newest < n THEN n ELSE newest
        BY <1>0, <1>3, <2>1, ListsMax DEF ListsTypes, ListsCalls
    <2>3. ListsTypes'
        <3>1. newest' \in Nat /\ newest' <= asked'
            BY <1>0, <1>1, <1>3, <2>2 DEF ListsTypes, ListsCalls
        <3> QED BY <1>0, <1>1, <1>4, <3>1 DEF ListsTypes, ListsCalls
    <2>4. ASSUME NEW k \in 1..asked, AskedSince(k) PROVE AskedSince(k)'
        <3>1. k \in Lists!Asks /\ k \in Nat
            BY <1>6, <2>4
        <3>2. newest' >= n /\ (newest >= k => newest' >= k)
            BY <1>3, <2>2, <3>1
        <3>3. \/ call'[k].at # "none" /\ call'[k].watcher = watcher'
              \/ newest' >= k
            <4>1. CASE k = n
                BY <3>2, <4>1
            <4>2. CASE k # n
                BY <1>1, <1>2, <2>4, <3>1, <3>2, <4>2 DEF AskedSince
            <4> QED BY <4>1, <4>2
        <3>4. ~overtaken' => newest' = newest /\ ~overtaken
            BY <1>3, <2>1, <2>2
        <3>5. newest' >= k /\ ~overtaken' => list' = Lists!Grouped(plugged')
            BY <1>1, <2>4, <3>4 DEF AskedSince, Lists!Grouped
        <3> QED BY <1>6, <2>4, <3>3, <3>5 DEF AskedSince
    <2> QED BY <1>1, <1>5, <2>3, <2>4 DEF ListsInv
<1> QED BY <1>7, <1>8

\* Every step of the page keeps the lists' invariant.
LEMMA ListsStep ==
    ASSUME part = "lists", ListsInv, [Next]_pageVars
    PROVE  ListsInv'
<1>1. CASE UNCHANGED pageVars
    BY <1>1 DEF pageVars, Lists!vars, ListsInv, ListsTypes, ListsCalls, AskedSince, Lists!SelectionStays,
       Lists!PickList, Lists!Grouped
<1>2. CASE ListsNext
    <2>1. CASE Lists!Watches
        BY <2>1, ListsWatches
    <2>2. ASSUME NEW next \in {"no", "gone"}, Lists!Cancels(next) PROVE ListsInv'
        <3>1. /\ mounted' # "yes"
              /\ UNCHANGED <<host, plugged, watcher, asked, call, list, value, picked, unset, newest,
                             overtaken>>
            BY <2>2 DEF Lists!Cancels
        <3> QED BY <3>1 DEF ListsInv, ListsTypes, ListsCalls, Lists!SelectionStays, Lists!PickList
    <2>3. CASE Lists!ReactRefreshes \/ Lists!VueRefreshes
        BY <2>3, ListsRefreshes
    <2>4. ASSUME NEW d \in Lists!Devices, Lists!Plugs(d) PROVE ListsInv'
        BY <2>4, ListsPlugs
    <2>5. ASSUME NEW d \in Lists!Devices, Lists!Picks(d) PROVE ListsInv'
        <3>1. /\ d \in Lists!PickList(list) /\ value' = d /\ picked' = d /\ unset' = FALSE
              /\ d # 0
              /\ UNCHANGED <<host, plugged, mounted, watcher, asked, call, list, newest, overtaken>>
            BY <2>5, PageBounds DEF Lists!Picks, Lists!Devices
        <3>2. Lists!SelectionStays'
            BY <3>1 DEF Lists!SelectionStays, Lists!PickList
        <3>3. \A n : AskedSince(n) => AskedSince(n)'
            BY <3>1 DEF AskedSince, Lists!Grouped
        <3>4. ListsTypes'
            BY <3>1 DEF ListsInv, ListsTypes, ListsCalls
        <3> QED BY <3>1, <3>2, <3>3, <3>4 DEF ListsInv
    <2>6. ASSUME NEW n \in Lists!Asks, Lists!Reads(n) PROVE ListsInv'
        BY <2>6, ListsReads
    <2>7. ASSUME NEW n \in Lists!Asks, Lists!Answered(n) PROVE ListsInv'
        BY <2>7, ListsAnswered
    <2>8. ASSUME NEW n \in Lists!Asks, Lists!Rejected(n) PROVE ListsInv'
        BY <2>8, ListsRejected
    <2>9. CASE Lists!SetsUnlisted
        <3>1. /\ value' = 0 /\ picked' = 0 /\ unset' = TRUE
              /\ UNCHANGED <<host, plugged, mounted, watcher, asked, call, list, newest, overtaken>>
            BY <2>9 DEF Lists!SetsUnlisted
        <3>2. Lists!SelectionStays'
            BY <3>1 DEF Lists!SelectionStays, Lists!PickList
        <3>3. \A n : AskedSince(n) => AskedSince(n)'
            BY <3>1 DEF AskedSince, Lists!Grouped
        <3>4. ListsTypes'
            BY <3>1 DEF ListsInv, ListsTypes, ListsCalls
        <3> QED BY <3>1, <3>2, <3>3, <3>4 DEF ListsInv
    <2> QED BY <1>2, <2>1, <2>2, <2>3, <2>4, <2>5, <2>6, <2>7, <2>8, <2>9 DEF ListsNext
<1> QED BY <1>1, <1>2, ListsNextIs DEF Next

\* The invariant says what the runs check.
LEMMA ListsSays == ListsInv => Lists!ListIsTrue /\ Lists!SelectionStays
<1> SUFFICES ASSUME ListsInv, mounted = "yes", ~overtaken, \A n \in Lists!Asks : call[n] = Lists!NoCall
             PROVE  list = Lists!Grouped(plugged)
    BY DEF Lists!ListIsTrue, ListsInv
<1>1. PICK n \in 1..asked : AskedSince(n)
    BY DEF ListsInv
<1>2. n \in Lists!Asks
    BY PageBounds DEF ListsInv, ListsTypes, ListsCalls, Lists!Asks
<1>3. call[n].at = "none"
    BY <1>2 DEF Lists!NoCall
<1> QED BY <1>1, <1>3 DEF AskedSince

-----------------------------------------------------------------------------
(***************************************************************************)
(* What components render of a channel.                                    *)
(***************************************************************************)

\* A function of no arguments is the empty map.
LEMMA EmptyMap ==
    ASSUME NEW f, f = [x \in DOMAIN f |-> f[x]], DOMAIN f = {}
    PROVE  f = <<>>
<1>1. f \in [1..0 -> {}]
    OBVIOUS
<1>2. f \in Seq({})
    BY <1>1, SeqDef
<1>3. Len(f) = 0
    BY <1>1, <1>2
<1> QED BY <1>2, <1>3, EmptySeq

\* Attributes that are set, and maps of peers to them.
IsAttrs(f) == f = [a \in DOMAIN f |-> f[a]] /\ \A a \in DOMAIN f : f[a] # Views!Cleared
IsMap(m) == m = [p \in DOMAIN m |-> m[p]] /\ \A p \in DOMAIN m : IsAttrs(m[p])

\* The empty map, and nobody's attributes.
LEMMA NobodyIsMap == DOMAIN <<>> = {} /\ IsAttrs(<<>>) /\ IsMap(<<>>)
<1>1. DOMAIN <<>> = {}
    OBVIOUS
<1>2. DOMAIN [x \in {} |-> <<>>[x]] = {} /\ DOMAIN <<>> = {}
    BY <1>1
<1>3. [x \in {} |-> <<>>[x]] = <<>>
    BY <1>2, EmptyMap
<1> QED BY <1>1, <1>3 DEF IsAttrs, IsMap

\* An update leaves attributes that are set.
LEMMA UpdatedIsAttrs == \A f, u : IsAttrs(Views!Updated(f, u))
BY DEF Views!Updated, IsAttrs

\* An attribute that has a value.
LEMMA AttrIsAttrs == \A a, v : v # Views!Cleared => IsAttrs(Views!Attr(a, v))
BY DEF Views!Attr, IsAttrs

\* The attributes a map has of a peer, none if it is not there.
LEMMA AttrsOfIsAttrs ==
    ASSUME NEW m, IsMap(m), NEW p
    PROVE  IsAttrs(Views!AttrsOf(m, p))
BY NobodyIsMap DEF IsMap, Views!AttrsOf

\* Entering and leaving keep a map one.
LEMMA RestrictIsMap ==
    ASSUME NEW m, IsMap(m), NEW D, D \subseteq DOMAIN m
    PROVE  IsMap(Views!Restrict(m, D)) /\ DOMAIN Views!Restrict(m, D) = D
BY DEF IsMap, Views!Restrict

\* A peer's attributes entered, or the peer removed, leave a map.
LEMMA EnteredIsMap ==
    ASSUME NEW m, IsMap(m), NEW p, NEW attrs, IsAttrs(attrs)
    PROVE  IsMap(Views!Entered(m, p, attrs))
<1>1. CASE attrs = <<>>
    BY <1>1, RestrictIsMap DEF Views!Entered
<1>2. CASE attrs # <<>>
    BY <1>2 DEF Views!Entered, Views!Over, Views!Attr, IsMap
<1> QED BY <1>1, <1>2

\* My hand, as a map has it, and as an update leaves it.
HandUp(m) == Views!Has(m, "me", "hand-raised", 1)
OfHand(u) == "hand-raised" \in DOMAIN u

\* An entry raises or lowers the hand of the one it is about only.
LEMMA HandEntered ==
    ASSUME NEW m, NEW attrs
    PROVE  /\ HandUp(Views!Entered(m, "me", attrs)) <=>
                "hand-raised" \in DOMAIN attrs /\ attrs["hand-raised"] = 1
           /\ HandUp(Views!Entered(m, "bob", attrs)) <=> HandUp(m)
<1>1. CASE attrs = <<>>
    BY <1>1, NobodyIsMap DEF Views!Entered, Views!Restrict, HandUp, Views!Has
<1>2. CASE attrs # <<>>
    BY <1>2 DEF Views!Entered, Views!Over, Views!Attr, HandUp, Views!Has
<1> QED BY <1>1, <1>2

\* An update of mine decides whether my hand is up when it is of the hand.
LEMMA HandUpdated ==
    ASSUME NEW m, NEW u
    PROVE  HandUp(Views!Entered(m, "me", Views!Updated(Views!AttrsOf(m, "me"), u))) <=>
             IF OfHand(u) THEN u["hand-raised"] = 1 ELSE HandUp(m)
<1> DEFINE f == Views!AttrsOf(m, "me")
           g == Views!Updated(f, u)
<1>1. HandUp(Views!Entered(m, "me", g)) <=> "hand-raised" \in DOMAIN g /\ g["hand-raised"] = 1
    BY HandEntered
<1>2. "hand-raised" \in DOMAIN g /\ g["hand-raised"] = 1 <=>
        IF OfHand(u) THEN u["hand-raised"] = 1
        ELSE "hand-raised" \in DOMAIN f /\ f["hand-raised"] = 1
    BY DEF Views!Updated, Views!Over, Views!Cleared, OfHand
<1>3. "hand-raised" \in DOMAIN f /\ f["hand-raised"] = 1 <=> HandUp(m)
    BY NobodyIsMap DEF HandUp, Views!Has, Views!AttrsOf
<1> QED BY <1>1, <1>2, <1>3

\* My hand in the map of those who stayed.
LEMMA HandRestricted ==
    ASSUME NEW m, NEW D
    PROVE  HandUp(Views!Restrict(m, D)) <=> "me" \in D /\ "hand-raised" \in DOMAIN m["me"] /\ m["me"]["hand-raised"] = 1
BY DEF HandUp, Views!Has, Views!Restrict

-----------------------------------------------------------------------------
\* definePresenceDiff

\* A delta leads from the old attributes to the new ones, is empty only between equal
\* ones, and holds changes only.
LEMMA DeltaPatches ==
    ASSUME NEW f, NEW g, IsAttrs(f), IsAttrs(g)
    PROVE  /\ Views!Updated(f, Views!Delta(f, g)) = g
           /\ Views!Delta(f, g) = <<>> => f = g
           /\ \A a \in DOMAIN Views!Delta(f, g) :
                Views!Delta(f, g)[a] # (IF a \in DOMAIN f THEN f[a] ELSE Views!Cleared)
<1> DEFINE d == Views!Delta(f, g)
           all == Views!Over(d, f)
<1>1. /\ DOMAIN d = Views!Set(f, g) \cup Views!Gone(f, g)
      /\ \A a \in DOMAIN d : d[a] = IF a \in DOMAIN g THEN g[a] ELSE Views!Cleared
    BY DEF Views!Delta
<1> HIDE DEF d
<1>2. Views!Updated(f, d) = g
    <2>1. /\ DOMAIN all = DOMAIN d \cup DOMAIN f
          /\ \A a \in DOMAIN all : all[a] = IF a \in DOMAIN d THEN d[a] ELSE f[a]
        BY DEF Views!Over
    <2>2. Views!Updated(f, d) = [a \in {b \in DOMAIN all : all[b] # Views!Cleared} |-> all[a]]
        BY DEF Views!Updated
    <2> HIDE DEF all
    <2>3. {b \in DOMAIN all : all[b] # Views!Cleared} = DOMAIN g
        BY <1>1, <2>1 DEF Views!Set, Views!Gone, IsAttrs
    <2>4. \A a \in DOMAIN g : all[a] = g[a]
        BY <1>1, <2>1, <2>3 DEF Views!Set, Views!Gone
    <2>5. Views!Updated(f, d) = [a \in DOMAIN g |-> g[a]]
        BY <2>2, <2>3, <2>4
    <2> QED BY <2>5 DEF IsAttrs
<1>3. d = <<>> => f = g
    <2> SUFFICES ASSUME d = <<>> PROVE f = g
        OBVIOUS
    <2>1. Views!Set(f, g) = {} /\ Views!Gone(f, g) = {}
        BY <1>1, NobodyIsMap
    <2>2. DOMAIN f = DOMAIN g /\ \A a \in DOMAIN g : f[a] = g[a]
        BY <2>1 DEF Views!Set, Views!Gone
    <2>3. [a \in DOMAIN f |-> f[a]] = [a \in DOMAIN g |-> g[a]]
        BY <2>2
    <2> QED BY <2>3 DEF IsAttrs
<1>4. \A a \in DOMAIN d : d[a] # (IF a \in DOMAIN f THEN f[a] ELSE Views!Cleared)
    BY <1>1 DEF Views!Set, Views!Gone, IsAttrs
<1> QED BY <1>2, <1>3, <1>4 DEF d

\* A presence diff leads from the previous map to the next, and holds changes only.
LEMMA DiffOf ==
    ASSUME NEW prev, NEW next, IsMap(prev), IsMap(next)
    PROVE  LET diff == Views!PresenceDiff(prev, next) IN
             /\ Views!Patched(prev, diff) = next
             /\ \A p \in DOMAIN diff.changed : \A a \in DOMAIN diff.changed[p] :
                  diff.changed[p][a] # (IF a \in DOMAIN prev[p] THEN prev[p][a] ELSE Views!Cleared)
<1> DEFINE diff == Views!PresenceDiff(prev, next)
           both == {q \in DOMAIN prev \cap DOMAIN next : Views!Delta(prev[q], next[q]) # <<>>}
<1>1. /\ DOMAIN diff.added = DOMAIN next \ DOMAIN prev
      /\ \A p \in DOMAIN diff.added : diff.added[p] = next[p]
      /\ diff.removed = DOMAIN prev \ DOMAIN next
      /\ DOMAIN diff.changed = both
      /\ \A p \in both : diff.changed[p] = Views!Delta(prev[p], next[p])
    BY DEF Views!PresenceDiff, Views!Restrict
<1> HIDE DEF diff
<1>2. \A p \in DOMAIN prev \cap DOMAIN next : IsAttrs(prev[p]) /\ IsAttrs(next[p])
    BY DEF IsMap
<1>3. Views!Patched(prev, diff) = [p \in DOMAIN next |-> next[p]]
    <2>1. (DOMAIN prev \ diff.removed) \cup DOMAIN diff.added = DOMAIN next
        BY <1>1
    <2>2. ASSUME NEW p \in DOMAIN next
          PROVE  (IF p \in DOMAIN diff.added THEN diff.added[p]
                  ELSE IF p \in DOMAIN diff.changed THEN Views!Updated(prev[p], diff.changed[p])
                  ELSE prev[p]) = next[p]
        <3>1. CASE p \notin DOMAIN prev
            BY <1>1, <3>1
        <3>2. CASE p \in both
            <4>1. Views!Updated(prev[p], Views!Delta(prev[p], next[p])) = next[p]
                BY <1>2, <3>2, DeltaPatches
            <4> QED BY <1>1, <3>2, <4>1
        <3>3. CASE p \in DOMAIN prev /\ p \notin both
            <4>1. prev[p] = next[p]
                BY <1>2, <3>3, DeltaPatches
            <4> QED BY <1>1, <3>3, <4>1
        <3> QED BY <3>1, <3>2, <3>3
    <2> QED BY <2>1, <2>2 DEF Views!Patched
<1>4. \A p \in both : \A a \in DOMAIN Views!Delta(prev[p], next[p]) :
         Views!Delta(prev[p], next[p])[a] # (IF a \in DOMAIN prev[p] THEN prev[p][a] ELSE Views!Cleared)
    BY <1>2, DeltaPatches
<1> QED BY <1>1, <1>3, <1>4 DEF IsMap, diff

-----------------------------------------------------------------------------
\* How my hand is once a queue of mine has been answered: as the last message left it that
\* decides it.  A join does, since the snapshot is without me.
Decides(u) == u = Views!Join \/ OfHand(u)
HandOf(u) == OfHand(u) /\ u["hand-raised"] = 1
Decided(q) == {i \in 1..Len(q) : Decides(q[i])}
HandEnds(q, m) ==
    \/ Decided(q) = {} /\ HandUp(m)
    \/ \E i \in Decided(q) : HandOf(q[i]) /\ \A j \in Decided(q) : j <= i

\* A join and an update that clears leave it down.
LEMMA JoinDecides == Decides(Views!Join) /\ ~HandOf(Views!Join)
BY NobodyIsMap DEF Decides, HandOf, OfHand, Views!Join

\* A sequence, of whatever.
IsQueue(q) == \E S : q \in Seq(S)

\* What sequences have in common.
LEMMA QueueAppends ==
    ASSUME NEW q, IsQueue(q), NEW u
    PROVE  /\ IsQueue(Append(q, u)) /\ Len(q) \in Nat /\ Len(Append(q, u)) = Len(q) + 1
           /\ Append(q, u)[Len(q) + 1] = u /\ \A i \in 1..Len(q) : Append(q, u)[i] = q[i]
<1>1. PICK S : q \in Seq(S)
    BY DEF IsQueue
<1>2. q \in Seq(S \cup {u})
    BY <1>1, SeqDef
<1> QED BY <1>2 DEF IsQueue

\* Its tail is one, too.
LEMMA QueueTail ==
    ASSUME NEW q, IsQueue(q), q # <<>>
    PROVE  /\ IsQueue(Tail(q)) /\ Len(q) \in Nat \ {0} /\ Len(Tail(q)) = Len(q) - 1 /\ Head(q) = q[1]
           /\ \A i \in 1..Len(Tail(q)) : Tail(q)[i] = q[i + 1]
<1>1. PICK S : q \in Seq(S)
    BY DEF IsQueue
<1> QED BY <1>1, Queued DEF IsQueue

\* The empty queue leaves the hand as the map has it.
LEMMA HandUnasked ==
    IsQueue(<<>>) /\ \A m : HandEnds(<<>>, m) <=> HandUp(m)
<1>1. <<>> \in Seq({}) /\ 1..Len(<<>>) = {}
    OBVIOUS
<1> QED BY <1>1 DEF IsQueue, HandEnds, Decided

\* A message behind the others decides, or leaves it to them.
LEMMA HandAsked ==
    ASSUME NEW q, IsQueue(q), NEW u, NEW m
    PROVE  HandEnds(Append(q, u), m) <=> IF Decides(u) THEN HandOf(u) ELSE HandEnds(q, m)
<1> DEFINE r == Append(q, u)
<1>1. /\ Len(q) \in Nat /\ Len(r) = Len(q) + 1 /\ r[Len(q) + 1] = u
      /\ \A i \in 1..Len(q) : r[i] = q[i]
    BY QueueAppends
<1> HIDE DEF r
<1>2. \A i \in 1..Len(q) : i \in Decided(r) <=> i \in Decided(q)
    BY <1>1 DEF Decided
<1>3. CASE Decides(u)
    <2>1. Len(q) + 1 \in Decided(r) /\ \A j \in Decided(r) : j <= Len(q) + 1
        BY <1>1, <1>3 DEF Decided
    <2>2. \A i \in Decided(r) : (\A j \in Decided(r) : j <= i) => i = Len(q) + 1
        BY <1>1, <2>1 DEF Decided
    <2> QED BY <1>1, <1>3, <2>1, <2>2 DEF HandEnds, r
<1>4. CASE ~Decides(u)
    <2>1. Decided(r) = Decided(q)
        BY <1>1, <1>2, <1>4 DEF Decided
    <2>2. \A i \in Decided(q) : r[i] = q[i]
        BY <1>1 DEF Decided
    <2> QED BY <1>4, <2>1, <2>2 DEF HandEnds, r
<1> QED BY <1>3, <1>4

\* Answered, the first message of a queue leaves the hand to end as it did.
LEMMA HandAnswered ==
    ASSUME NEW q, IsQueue(q), q # <<>>, NEW m, NEW n,
           HandUp(n) <=> IF Decides(Head(q)) THEN HandOf(Head(q)) ELSE HandUp(m)
    PROVE  HandEnds(Tail(q), n) <=> HandEnds(q, m)
<1> DEFINE r == Tail(q)
<1>1. /\ Len(q) \in Nat \ {0} /\ Len(r) = Len(q) - 1 /\ Head(q) = q[1]
      /\ \A i \in 1..Len(r) : r[i] = q[i + 1]
    BY QueueTail
<1> HIDE DEF r
<1>2. \A i \in 1..Len(r) : i \in Decided(r) <=> i + 1 \in Decided(q)
    BY <1>1 DEF Decided
<1>3. \A i \in Decided(q) : i = 1 \/ (i - 1 \in 1..Len(r) /\ i - 1 \in Decided(r) /\ q[i] = r[i - 1])
    BY <1>1 DEF Decided
<1>4. \A i \in Decided(r) : i \in Nat \ {0} /\ i + 1 \in Decided(q) /\ q[i + 1] = r[i]
    BY <1>1, <1>2 DEF Decided
<1>5. 1 \in Decided(q) <=> Decides(Head(q))
    BY <1>1 DEF Decided
<1>6. CASE Decided(r) = {}
    <2>1. CASE Decides(Head(q))
        <3>1. Decided(q) = {1}
            BY <1>3, <1>5, <1>6, <2>1
        <3>2. HandEnds(q, m) <=> HandOf(q[1])
            BY <3>1 DEF HandEnds
        <3> QED BY <1>1, <1>6, <2>1, <3>2 DEF HandEnds, r
    <2>2. CASE ~Decides(Head(q))
        <3>1. Decided(q) = {}
            BY <1>3, <1>5, <1>6, <2>2
        <3> QED BY <1>6, <2>2, <3>1 DEF HandEnds, r
    <2> QED BY <2>1, <2>2
<1>7. CASE Decided(r) # {}
    <2>1. Decided(q) # {}
        BY <1>4, <1>7
    <2>2. ASSUME NEW i \in Decided(r), HandOf(r[i]), \A j \in Decided(r) : j <= i
          PROVE  HandEnds(q, m)
        <3>1. i + 1 \in Decided(q) /\ HandOf(q[i + 1]) /\ i \in Nat \ {0}
            BY <1>4, <2>2
        <3>2. \A j \in Decided(q) : j <= i + 1
            <4> SUFFICES ASSUME NEW j \in Decided(q) PROVE j <= i + 1
                OBVIOUS
            <4>1. j \in Nat
                BY DEF Decided
            <4>2. j = 1 \/ j - 1 \in Decided(r)
                BY <1>3
            <4>3. j = 1 \/ j - 1 <= i
                BY <2>2, <4>2
            <4> QED BY <3>1, <4>1, <4>3
        <3> QED BY <3>1, <3>2 DEF HandEnds
    <2>3. ASSUME NEW i \in Decided(q), HandOf(q[i]), \A j \in Decided(q) : j <= i
          PROVE  HandEnds(r, n)
        <3>1. i # 1
            BY <1>4, <1>7, <2>3
        <3>2. i - 1 \in Decided(r) /\ HandOf(r[i - 1]) /\ i \in Nat
            BY <1>3, <2>3, <3>1 DEF Decided
        <3>3. \A j \in Decided(r) : j <= i - 1
            <4> SUFFICES ASSUME NEW j \in Decided(r) PROVE j <= i - 1
                OBVIOUS
            <4>1. j \in Nat /\ j + 1 \in Decided(q)
                BY <1>4
            <4>2. j + 1 <= i
                BY <2>3, <4>1
            <4> QED BY <3>2, <4>1, <4>2
        <3> QED BY <3>2, <3>3 DEF HandEnds
    <2> QED BY <1>7, <2>1, <2>2, <2>3 DEF HandEnds, r
<1> QED BY <1>6, <1>7

-----------------------------------------------------------------------------
Statuses == {"pending", "confirmed", "replayed", "failed"}
Entries == [id : Nat, status : Statuses]

ViewsTypes ==
    /\ given \in Views!Channels \cup {0} /\ messages \in Nat
    /\ peers = [c \in Views!Channels |-> peers[c]] /\ \A c \in Views!Channels : IsMap(peers[c])
    /\ asked = [c \in Views!Channels |-> asked[c]] /\ \A c \in Views!Channels : IsQueue(asked[c])
    /\ own = [c \in Views!Channels |-> own[c]]
    /\ buffer \in [Views!Channels -> Seq(Entries)] /\ shownChat \in Seq(Entries)

\* A hand that ends up is an attribute of mine, which resyncPresence() will send again.
HandIsOwn ==
    \A c \in Views!Channels : HandEnds(asked[c], peers[c]) => "hand-raised" \in own[c]

\* My hand in the component's channel ends as wished, unless toggle() was hasty.
HandAwaited == wish <=> HandEnds(asked[given], peers[given])

ViewsInv ==
    /\ ViewsTypes
    /\ Views!ViewsAreTrue
    /\ HandIsOwn
    /\ given # 0 /\ ~hasty => HandAwaited

\* A channel is a number.
LEMMA ChannelsAre == 0 \notin Views!Channels
BY DEF Views!Channels

\* Nothing is given, and nothing rendered.
LEMMA ViewsInit == Views!Init => ViewsInv
<1> SUFFICES ASSUME Views!Init PROVE ViewsInv
    OBVIOUS
<1>1. given = 0 /\ messages = 0 /\ shownPeers = <<>> /\ shownChat = <<>>
    BY DEF Views!Init, Views!Nobody
<1>2. /\ peers = [c \in Views!Channels |-> <<>>] /\ asked = [c \in Views!Channels |-> <<>>]
      /\ own = [c \in Views!Channels |-> {}]
      /\ buffer = [c \in Views!Channels |-> <<>>]
    BY DEF Views!Init, Views!Nobody
<1>3. peers = [c \in Views!Channels |-> peers[c]] /\ \A c \in Views!Channels : IsMap(peers[c])
    BY <1>2, NobodyIsMap
<1>4. buffer \in [Views!Channels -> Seq(Entries)] /\ shownChat \in Seq(Entries)
    <2>1. <<>> \in Seq(Entries)
        OBVIOUS
    <2> QED BY <1>1, <1>2, <2>1
<1>5. ViewsTypes
    BY <1>1, <1>2, <1>3, <1>4, HandUnasked DEF ViewsTypes
<1>6. Views!ViewsAreTrue
    BY <1>1 DEF Views!ViewsAreTrue, Views!Snapshot, Views!Nobody
<1>7. HandIsOwn
    BY <1>2, NobodyIsMap, HandUnasked DEF HandIsOwn, HandUp, Views!Has
<1> QED BY <1>1, <1>5, <1>6, <1>7 DEF ViewsInv

\* A channel's map changes: what is rendered follows, and the types stay.
LEMMA PresenceStep ==
    ASSUME ViewsTypes, shownPeers = Views!Snapshot(given, peers), NEW c \in Views!Channels,
           NEW event \in Views!PresenceEvents, NEW map, IsMap(map),
           Views!PresenceChanges(c, event, map), given' = given
    PROVE  /\ peers' = [d \in Views!Channels |-> peers'[d]]
           /\ \A d \in Views!Channels : IsMap(peers'[d])
           /\ peers'[c] = map /\ \A d \in Views!Channels : d # c => peers'[d] = peers[d]
           /\ shownPeers' = Views!Snapshot(given', peers')
<1>1. /\ peers' = [peers EXCEPT ![c] = map]
      /\ shownPeers' = IF c = given THEN Views!Snapshot(c, peers') ELSE shownPeers
    BY DEF Views!PresenceChanges
<1>2. /\ peers = [d \in Views!Channels |-> peers[d]] /\ \A d \in Views!Channels : IsMap(peers[d])
      /\ given \in Views!Channels \cup {0}
    BY DEF ViewsTypes
<1>3. DOMAIN peers = Views!Channels
    BY <1>2
<1>4. /\ peers' = [d \in Views!Channels |-> IF d = c THEN map ELSE peers[d]]
    BY <1>1, <1>3
<1>5. /\ peers' = [d \in Views!Channels |-> peers'[d]]
      /\ peers'[c] = map /\ \A d \in Views!Channels : d # c => peers'[d] = peers[d]
    BY <1>4
<1>6. \A d \in Views!Channels : IsMap(peers'[d])
    BY <1>2, <1>5
<1>7. shownPeers' = Views!Snapshot(given', peers')
    <2>1. CASE c = given
        BY <1>1, <2>1
    <2>2. CASE c # given /\ given # 0
        BY <1>1, <1>2, <1>5, <2>2 DEF Views!Snapshot
    <2>3. CASE given = 0 /\ c # given
        BY <1>1, <2>3 DEF Views!Snapshot
    <2> QED BY <2>1, <2>2, <2>3
<1> QED BY <1>5, <1>6, <1>7

\* What chat renders is the channel's, or lags by what was decided since.
ChatIsTrue ==
    given # 0 /\ ~replayed =>
      /\ Len(shownChat) = Len(buffer[given])
      /\ \A i \in DOMAIN shownChat :
           /\ shownChat[i].id = buffer[given][i].id
           /\ shownChat[i].status \in {buffer[given][i].status, "pending"}

\* A "chat" event hands the component the whole list; history and a status change the buffer,
\* and the component hears of neither.
LEMMA ChatStep ==
    ASSUME ViewsTypes, ChatIsTrue, NEW c \in Views!Channels, NEW event, NEW list2 \in Seq(Entries),
           Views!ChatChanges(c, event, list2), given' = given,
           \/ event = "chat" \/ event = "chat-history"
           \/ /\ event = "chat-status" /\ Len(list2) = Len(buffer[c])
              /\ \A i \in 1..Len(list2) : /\ list2[i].id = buffer[c][i].id
                                          /\ \/ list2[i].status = buffer[c][i].status
                                             \/ buffer[c][i].status = "pending"
    PROVE  /\ buffer' \in [Views!Channels -> Seq(Entries)] /\ shownChat' \in Seq(Entries)
           /\ ChatIsTrue'
<1>1. /\ buffer' = [buffer EXCEPT ![c] = list2]
      /\ shownChat' = IF c = given /\ event = "chat" THEN list2 ELSE shownChat
      /\ replayed' = (~(c = given /\ event = "chat") /\ (replayed \/ (c = given /\ event = "chat-history")))
    BY DEF Views!ChatChanges, Views!ChatEvents
<1>2. buffer' \in [Views!Channels -> Seq(Entries)] /\ shownChat' \in Seq(Entries)
    BY <1>1 DEF ViewsTypes
<1>3. buffer'[c] = list2 /\ \A d \in Views!Channels : d # c => buffer'[d] = buffer[d]
    BY <1>1 DEF ViewsTypes
<1>4. ChatIsTrue'
    <2> SUFFICES ASSUME given # 0, ~replayed'
                 PROVE  /\ Len(shownChat') = Len(buffer'[given])
                        /\ \A i \in DOMAIN shownChat' :
                             /\ shownChat'[i].id = buffer'[given][i].id
                             /\ shownChat'[i].status \in {buffer'[given][i].status, "pending"}
        BY DEF ChatIsTrue
    <2>1. CASE c = given /\ event = "chat"
        BY <1>1, <1>3, <2>1
    <2>2. CASE c # given
        <3>1. given \in Views!Channels /\ ~replayed /\ shownChat' = shownChat
            BY <1>1, <2>2 DEF ViewsTypes
        <3> QED BY <1>3, <2>2, <3>1 DEF ChatIsTrue
    <2>3. CASE c = given /\ event = "chat-status"
        <3>1. ~replayed /\ shownChat' = shownChat
            BY <1>1, <2>3
        <3>2. /\ Len(shownChat) = Len(buffer[given])
              /\ \A i \in DOMAIN shownChat :
                   /\ shownChat[i].id = buffer[given][i].id
                   /\ shownChat[i].status \in {buffer[given][i].status, "pending"}
            BY <3>1 DEF ChatIsTrue
        <3>3. /\ Len(list2) = Len(buffer[given])
              /\ \A i \in 1..Len(list2) : /\ list2[i].id = buffer[given][i].id
                                          /\ \/ list2[i].status = buffer[given][i].status
                                             \/ buffer[given][i].status = "pending"
            BY <2>3
        <3>4. DOMAIN shownChat = 1..Len(shownChat)
            BY DEF ViewsTypes
        <3> QED BY <1>3, <2>3, <3>1, <3>2, <3>3, <3>4
    <2> QED BY <1>1, <2>1, <2>2, <2>3
<1> QED BY <1>2, <1>4

-----------------------------------------------------------------------------
\* The component is given another channel.
LEMMA ViewsGiven ==
    ASSUME ViewsInv, NEW c \in Views!Channels \cup {0}, Views!Given(c)
    PROVE  ViewsInv'
<1>0. ViewsTypes
    BY DEF ViewsInv
<1>1. /\ given' = c /\ shownPeers' = Views!Snapshot(c, peers) /\ shownChat' = Views!ChatShown(c)
      /\ wish' = HandUp(Views!Snapshot(c, peers)) /\ hasty' = (c # 0 /\ asked[c] # <<>>)
      /\ UNCHANGED <<peers, buffer, own, asked, messages>>
    BY DEF Views!Given, Views!Hand, HandUp
<1>2. shownChat' \in Seq(Entries)
    <2>1. <<>> \in Seq(Entries)
        OBVIOUS
    <2> QED BY <1>0, <1>1, <2>1 DEF ViewsTypes, Views!ChatShown
<1>3. ViewsTypes'
    BY <1>0, <1>1, <1>2 DEF ViewsTypes
<1>4. Views!ViewsAreTrue'
    <2>1. shownPeers' = Views!Snapshot(given', peers')
        BY <1>1 DEF Views!Snapshot
    <2>2. ASSUME c # 0 PROVE shownChat' = buffer'[given']
        BY <1>1, <2>2 DEF Views!ChatShown
    <2> QED BY <1>1, <2>1, <2>2 DEF Views!ViewsAreTrue
<1>5. ASSUME c # 0, ~hasty' PROVE HandAwaited'
    <2>1. asked'[given'] = <<>>
        BY <1>1, <1>5
    <2>2. wish' <=> HandUp(peers'[given'])
        BY <1>1, <1>5 DEF Views!Snapshot
    <2> QED BY <2>1, <2>2, HandUnasked DEF HandAwaited
<1>6. HandIsOwn'
    BY <1>1 DEF ViewsInv, HandIsOwn
<1> QED BY <1>1, <1>3, <1>4, <1>5, <1>6 DEF ViewsInv

\* An update of mine is sent behind what is on its way.
LEMMA ViewsWrites ==
    ASSUME ViewsInv, NEW u, NEW keys, Views!Writes(u, keys),
           (IF Decides(u) THEN HandOf(u) ELSE HandEnds(asked[given], peers[given])) =>
             "hand-raised" \in keys,
           ~hasty' => (wish' <=> IF Decides(u) THEN HandOf(u) ELSE HandEnds(asked[given], peers[given]))
    PROVE  ViewsInv'
<1> DEFINE q == asked[given]
<1>0. ViewsTypes
    BY DEF ViewsInv
<1>1. /\ given # 0 /\ asked' = [asked EXCEPT ![given] = Append(@, u)]
      /\ own' = [own EXCEPT ![given] = keys]
      /\ UNCHANGED <<given, peers, buffer, shownPeers, shownChat, messages, replayed>>
    BY DEF Views!Writes
<1>2. given \in Views!Channels
    BY <1>0, <1>1 DEF ViewsTypes
<1>3. /\ asked'[given] = Append(q, u) /\ own'[given] = keys
      /\ \A c \in Views!Channels : c # given => asked'[c] = asked[c] /\ own'[c] = own[c]
      /\ asked' = [c \in Views!Channels |-> asked'[c]] /\ own' = [c \in Views!Channels |-> own'[c]]
    BY <1>0, <1>1, <1>2 DEF ViewsTypes
<1>4. IsQueue(q)
    BY <1>0, <1>2 DEF ViewsTypes
<1>5. \A c \in Views!Channels : IsQueue(asked'[c])
    <2>1. IsQueue(Append(q, u))
        BY <1>4, QueueAppends
    <2> QED BY <1>0, <1>3, <2>1 DEF ViewsTypes
<1>6. ViewsTypes'
    BY <1>0, <1>1, <1>3, <1>5 DEF ViewsTypes
<1>7. Views!ViewsAreTrue'
    BY <1>1 DEF ViewsInv, Views!ViewsAreTrue, Views!Snapshot
<1>8. HandEnds(asked'[given], peers'[given]) <=> IF Decides(u) THEN HandOf(u) ELSE HandEnds(q, peers[given])
    BY <1>1, <1>3, <1>4, HandAsked
<1>9. HandIsOwn'
    BY <1>1, <1>3, <1>8 DEF ViewsInv, HandIsOwn
<1>10. ~hasty' => HandAwaited'
    BY <1>1, <1>8 DEF HandAwaited
<1> QED BY <1>6, <1>7, <1>9, <1>10 DEF ViewsInv

\* What an attribute that is set says of the hand.
LEMMA AttrDecides ==
    ASSUME NEW a, NEW v
    PROVE  /\ Decides(Views!Attr(a, v)) <=> a = "hand-raised"
           /\ HandOf(Views!Attr(a, v)) <=> a = "hand-raised" /\ v = 1
<1>1. DOMAIN Views!Attr(a, v) = {a} /\ Views!Attr(a, v)[a] = v
    BY DEF Views!Attr
<1>2. Views!Attr(a, v) # Views!Join
    BY <1>1, NobodyIsMap DEF Views!Join
<1> QED BY <1>1, <1>2 DEF Decides, HandOf, OfHand

\* An attribute that is not the hand is set or removed.
LEMMA ViewsSetsOther ==
    ASSUME ViewsInv, NEW a, NEW v, Views!SetsOther(a, v)
    PROVE  ViewsInv'
<1> DEFINE keys == IF v = Views!Cleared THEN own[given] \ {a} ELSE own[given] \cup {a}
<1>1. a # "hand-raised" /\ Views!Writes(Views!Attr(a, v), keys) /\ given # 0 /\ UNCHANGED <<wish, hasty>>
    BY DEF Views!SetsOther, Views!Sets, Views!Hand, Views!Writes
<1>2. given \in Views!Channels
    BY <1>1 DEF ViewsInv, ViewsTypes
<1>3. HandEnds(asked[given], peers[given]) => "hand-raised" \in keys
    BY <1>1, <1>2 DEF ViewsInv, HandIsOwn
<1>4. ~hasty' => (wish' <=> HandEnds(asked[given], peers[given]))
    BY <1>1 DEF ViewsInv, HandAwaited
<1>5. ~Decides(Views!Attr(a, v))
    BY <1>1, AttrDecides
<1> HIDE DEF keys
<1> QED BY <1>1, <1>3, <1>4, <1>5, ViewsWrites

\* raise() and lower() say how it ends.
LEMMA ViewsRaises ==
    ASSUME ViewsInv, NEW up \in BOOLEAN, Views!Raises(up)
    PROVE  ViewsInv'
<1> DEFINE v == IF up THEN 1 ELSE Views!Cleared
           keys == IF v = Views!Cleared THEN own[given] \ {"hand-raised"} ELSE own[given] \cup {"hand-raised"}
<1>1. Views!Writes(Views!Attr("hand-raised", v), keys) /\ wish' = up
    BY DEF Views!Raises, Views!Sets, Views!Hand
<1>2. (v = 1 <=> up) /\ (v = 1 => "hand-raised" \in keys)
    BY DEF Views!Cleared
<1>3. /\ Decides(Views!Attr("hand-raised", v))
      /\ HandOf(Views!Attr("hand-raised", v)) <=> v = 1
    BY AttrDecides
<1> HIDE DEF v, keys
<1> QED BY <1>1, <1>2, <1>3, ViewsWrites

\* toggle() asks for the opposite of what the channel has.
LEMMA ViewsToggles ==
    ASSUME ViewsInv, Views!Toggles
    PROVE  ViewsInv'
<1> DEFINE v == IF Views!IsRaised THEN Views!Cleared ELSE 1
           keys == IF v = Views!Cleared THEN own[given] \ {"hand-raised"} ELSE own[given] \cup {"hand-raised"}
<1>1. /\ Views!Writes(Views!Attr("hand-raised", v), keys) /\ given # 0
      /\ wish' = ~wish /\ hasty' = (hasty \/ asked[given] # <<>>)
    BY DEF Views!Toggles, Views!Sets, Views!Hand
<1>2. (v = 1 <=> ~HandUp(peers[given])) /\ (v = 1 => "hand-raised" \in keys)
    BY DEF Views!Cleared, Views!IsRaised, Views!Hand, HandUp
<1>3. /\ Decides(Views!Attr("hand-raised", v))
      /\ HandOf(Views!Attr("hand-raised", v)) <=> v = 1
    BY AttrDecides
<1>4. ~hasty' => (wish <=> HandUp(peers[given]))
    BY <1>1, HandUnasked DEF ViewsInv, HandAwaited
<1>5. ~hasty' => (wish' <=> v = 1)
    BY <1>1, <1>2, <1>4
<1> HIDE DEF v, keys
<1> QED BY <1>1, <1>2, <1>3, <1>5, ViewsWrites

\* clearAttributes() removes what is mine; a hand that is not has ended down.
LEMMA ViewsClears ==
    ASSUME ViewsInv, Views!Clears
    PROVE  ViewsInv'
<1> DEFINE u == [a \in own[given] |-> Views!Cleared]
<1>1. given # 0 /\ own[given] # {} /\ Views!Writes(u, {}) /\ ~wish'
    BY DEF Views!Clears
<1>2. given \in Views!Channels
    BY <1>1 DEF ViewsInv, ViewsTypes
<1>3. u # Views!Join /\ ~HandOf(u) /\ (OfHand(u) <=> "hand-raised" \in own[given])
    BY <1>1, NobodyIsMap DEF Views!Join, HandOf, OfHand, Views!Cleared
<1>4. ~Decides(u) => ~HandEnds(asked[given], peers[given])
    BY <1>2, <1>3 DEF ViewsInv, HandIsOwn, Decides
<1> HIDE DEF u
<1> QED BY <1>1, <1>3, <1>4, ViewsWrites

\* What is sent again of the hand.
LEMMA ResyncIs ==
    ASSUME NEW c
    PROVE  HandOf(Views!Resync(c)) <=> HandUp(peers[c]) /\ "hand-raised" \in own[c]
<1> DEFINE f == Views!AttrsOf(peers[c], "me")
<1>1. "hand-raised" \in DOMAIN f /\ f["hand-raised"] = 1 <=> HandUp(peers[c])
    BY NobodyIsMap DEF HandUp, Views!Has, Views!AttrsOf
<1> HIDE DEF f
<1>2. /\ DOMAIN Views!Resync(c) = own[c] \cap DOMAIN f
      /\ \A a \in own[c] \cap DOMAIN f : Views!Resync(c)[a] = f[a]
    BY DEF Views!Resync, Views!Restrict, f
<1> QED BY <1>1, <1>2 DEF HandOf, OfHand

\* A join, with what is mine; what was asked is lost.
LEMMA ViewsJoins ==
    ASSUME ViewsInv, NEW c \in Views!Channels, Views!Joins(c)
    PROVE  ViewsInv'
<1> DEFINE r == Views!Resync(c)
<1>0. ViewsTypes
    BY DEF ViewsInv
<1>1. /\ messages' = messages + 1 /\ hasty' = (hasty \/ (c = given /\ asked[c] # <<>>))
      /\ asked' = [asked EXCEPT ![c] = IF r = <<>> THEN <<Views!Join>> ELSE <<Views!Join, r>>]
      /\ UNCHANGED <<given, peers, buffer, own, shownPeers, shownChat, wish, replayed>>
    BY DEF Views!Joins, Views!OfOthers
<1>2. HandOf(r) <=> HandUp(peers[c]) /\ "hand-raised" \in own[c]
    BY ResyncIs
<1> HIDE DEF r
<1>3. /\ asked'[c] = IF r = <<>> THEN <<Views!Join>> ELSE <<Views!Join, r>>
      /\ \A d \in Views!Channels : d # c => asked'[d] = asked[d]
      /\ asked' = [d \in Views!Channels |-> asked'[d]]
    BY <1>0, <1>1 DEF ViewsTypes
<1>4. /\ IsQueue(<<Views!Join>>) /\ \A m : ~HandEnds(<<Views!Join>>, m)
    <2>1. <<Views!Join>> = Append(<<>>, Views!Join)
        OBVIOUS
    <2>2. IsQueue(Append(<<>>, Views!Join))
        BY HandUnasked, QueueAppends
    <2>3. \A m : ~HandEnds(Append(<<>>, Views!Join), m)
        BY JoinDecides, HandUnasked, HandAsked
    <2> QED BY <2>1, <2>2, <2>3
<1>5. /\ IsQueue(<<Views!Join, r>>) /\ \A m : HandEnds(<<Views!Join, r>>, m) <=> HandOf(r)
    <2>1. <<Views!Join, r>> = Append(<<Views!Join>>, r)
        OBVIOUS
    <2>2. HandOf(r) => Decides(r)
        BY DEF HandOf, Decides
    <2>3. IsQueue(Append(<<Views!Join>>, r))
        BY <1>4, QueueAppends
    <2>4. \A m : HandEnds(Append(<<Views!Join>>, r), m) <=> HandOf(r)
        BY <1>4, <2>2, HandAsked
    <2> QED BY <2>1, <2>3, <2>4
<1>6. IsQueue(asked'[c]) /\ (HandEnds(asked'[c], peers'[c]) <=> HandOf(r))
    <2>1. r = <<>> => ~HandOf(r)
        BY JoinDecides DEF Views!Join
    <2> QED BY <1>3, <1>4, <1>5, <2>1
<1>7. ViewsTypes'
    <2>1. \A d \in Views!Channels : IsQueue(asked'[d])
        BY <1>0, <1>3, <1>6 DEF ViewsTypes
    <2>2. messages' \in Nat
        BY <1>0, <1>1 DEF ViewsTypes
    <2> QED BY <1>0, <1>1, <1>3, <2>1, <2>2 DEF ViewsTypes
<1>8. Views!ViewsAreTrue'
    BY <1>1 DEF ViewsInv, Views!ViewsAreTrue, Views!Snapshot
<1>9. HandIsOwn'
    BY <1>1, <1>2, <1>3, <1>6 DEF ViewsInv, HandIsOwn
<1>10. ASSUME given # 0, ~hasty' PROVE HandAwaited'
    <2>1. HandAwaited
        BY <1>1, <1>10 DEF ViewsInv
    <2>2. CASE c # given
        <3>1. asked'[given] = asked[given]
            BY <1>0, <1>3, <1>10, <2>2 DEF ViewsTypes
        <3> QED BY <1>1, <2>1, <3>1 DEF HandAwaited
    <2>3. CASE c = given
        <3>1. asked[c] = <<>>
            BY <1>1, <1>10, <2>3
        <3>2. wish <=> HandUp(peers[c])
            BY <2>1, <2>3, <3>1, HandUnasked DEF HandAwaited
        <3>3. HandUp(peers[c]) => "hand-raised" \in own[c]
            BY <3>1, HandUnasked DEF ViewsInv, HandIsOwn
        <3> QED BY <1>1, <1>2, <1>6, <2>3, <3>2, <3>3 DEF HandAwaited
    <2> QED BY <2>2, <2>3
<1> QED BY <1>1, <1>7, <1>8, <1>9, <1>10 DEF ViewsInv

\* The first of what is asked is answered, and leaves the hand to end as it did.
LEMMA ViewsAnswered ==
    ASSUME ViewsInv, NEW c \in Views!Channels, asked[c] # <<>>,
           asked' = [asked EXCEPT ![c] = Tail(@)],
           NEW event \in Views!PresenceEvents, NEW map, IsMap(map),
           Views!PresenceChanges(c, event, map),
           HandUp(map) <=> IF Decides(Head(asked[c])) THEN HandOf(Head(asked[c])) ELSE HandUp(peers[c]),
           UNCHANGED <<given, buffer, own, shownChat, messages, wish, hasty, replayed>>
    PROVE  ViewsInv'
<1>0. ViewsTypes
    BY DEF ViewsInv
<1>1. /\ peers' = [d \in Views!Channels |-> peers'[d]]
      /\ \A d \in Views!Channels : IsMap(peers'[d])
      /\ peers'[c] = map /\ \A d \in Views!Channels : d # c => peers'[d] = peers[d]
      /\ shownPeers' = Views!Snapshot(given', peers')
    BY <1>0, PresenceStep DEF ViewsInv, Views!ViewsAreTrue
<1>2. /\ asked'[c] = Tail(asked[c]) /\ \A d \in Views!Channels : d # c => asked'[d] = asked[d]
      /\ asked' = [d \in Views!Channels |-> asked'[d]] /\ IsQueue(asked[c])
    BY <1>0 DEF ViewsTypes
<1>3. IsQueue(Tail(asked[c]))
    BY <1>2, QueueTail
<1>4. ViewsTypes'
    <2>1. \A d \in Views!Channels : IsQueue(asked'[d])
        BY <1>0, <1>2, <1>3 DEF ViewsTypes
    <2> QED BY <1>0, <1>1, <1>2, <2>1 DEF ViewsTypes
<1>5. Views!ViewsAreTrue'
    BY <1>1 DEF ViewsInv, Views!ViewsAreTrue
<1>6. \A d \in Views!Channels : HandEnds(asked'[d], peers'[d]) <=> HandEnds(asked[d], peers[d])
    <2>1. HandEnds(asked'[c], peers'[c]) <=> HandEnds(asked[c], peers[c])
        BY <1>1, <1>2, HandAnswered
    <2> QED BY <1>1, <1>2, <2>1
<1>7. HandIsOwn'
    BY <1>6 DEF ViewsInv, HandIsOwn
<1>8. given # 0 /\ ~hasty => HandAwaited'
    BY <1>0, <1>6 DEF ViewsInv, ViewsTypes, HandAwaited
<1> QED BY <1>4, <1>5, <1>7, <1>8 DEF ViewsInv

\* The echo of my first update arrives.
LEMMA ViewsEcho ==
    ASSUME ViewsInv, NEW c \in Views!Channels, Views!EchoArrives(c)
    PROVE  ViewsInv'
<1> DEFINE u == Head(asked[c])
           map == Views!Entered(peers[c], "me", Views!Updated(Views!AttrsOf(peers[c], "me"), u))
<1>1. /\ asked[c] # <<>> /\ asked' = [asked EXCEPT ![c] = Tail(@)] /\ u # Views!Join
      /\ Views!PresenceChanges(c, "presence", map)
      /\ UNCHANGED <<given, buffer, own, shownChat, messages, wish, hasty, replayed>>
    BY DEF Views!EchoArrives
<1>2. IsMap(map)
    BY UpdatedIsAttrs, EnteredIsMap DEF ViewsInv, ViewsTypes
<1>3. HandUp(map) <=> IF OfHand(u) THEN u["hand-raised"] = 1 ELSE HandUp(peers[c])
    BY HandUpdated
<1> HIDE DEF map
<1>4. HandUp(map) <=> IF Decides(u) THEN HandOf(u) ELSE HandUp(peers[c])
    BY <1>1, <1>3 DEF Decides, HandOf
<1>5. "presence" \in Views!PresenceEvents
    BY DEF Views!PresenceEvents
<1> QED BY <1>1, <1>2, <1>4, <1>5, ViewsAnswered

\* The snapshot that answers a join arrives, without me.
LEMMA ViewsSnapshot ==
    ASSUME ViewsInv, NEW c \in Views!Channels, NEW others \in Views!Maps,
           Views!SnapshotArrives(c, others)
    PROVE  ViewsInv'
<1>1. /\ asked[c] # <<>> /\ asked' = [asked EXCEPT ![c] = Tail(@)] /\ Head(asked[c]) = Views!Join
      /\ Views!PresenceChanges(c, "presence-snapshot", others)
      /\ UNCHANGED <<given, buffer, own, shownChat, messages, wish, hasty, replayed>>
    BY DEF Views!SnapshotArrives
<1>2. IsMap(others) /\ ~HandUp(others)
    <2>1. CASE others = <<>>
        BY <2>1, NobodyIsMap DEF HandUp, Views!Has
    <2>2. ASSUME NEW a, others = Views!Attr("bob", Views!Attr(a, 2)) PROVE IsMap(others) /\ ~HandUp(others)
        <3>1. IsAttrs(Views!Attr(a, 2))
            BY AttrIsAttrs DEF Views!Cleared
        <3> QED BY <2>2, <3>1 DEF Views!Attr, IsMap, HandUp, Views!Has
    <2> QED BY <2>1, <2>2 DEF Views!Maps, Views!Nobody
<1>3. "presence-snapshot" \in Views!PresenceEvents
    BY DEF Views!PresenceEvents
<1> QED BY <1>1, <1>2, <1>3, JoinDecides, ViewsAnswered

\* What others do leaves my hand alone.
LEMMA ViewsOfOthers ==
    ASSUME ViewsInv, NEW c \in Views!Channels, NEW event \in Views!PresenceEvents,
           NEW map, IsMap(map), HandUp(map) <=> HandUp(peers[c]),
           Views!PresenceChanges(c, event, map), Views!OfOthers,
           UNCHANGED <<given, own, asked, buffer, shownChat, wish, hasty, replayed>>
    PROVE  ViewsInv'
<1>0. ViewsTypes
    BY DEF ViewsInv
<1>1. /\ peers' = [d \in Views!Channels |-> peers'[d]]
      /\ \A d \in Views!Channels : IsMap(peers'[d])
      /\ peers'[c] = map /\ \A d \in Views!Channels : d # c => peers'[d] = peers[d]
      /\ shownPeers' = Views!Snapshot(given', peers')
    BY <1>0, PresenceStep DEF ViewsInv, Views!ViewsAreTrue
<1>2. ViewsTypes'
    BY <1>0, <1>1 DEF ViewsTypes, Views!OfOthers
<1>3. Views!ViewsAreTrue'
    BY <1>1 DEF ViewsInv, Views!ViewsAreTrue
<1>4. \A d \in Views!Channels : HandEnds(asked'[d], peers'[d]) <=> HandEnds(asked[d], peers[d])
    <2>1. HandEnds(asked[c], map) <=> HandEnds(asked[c], peers[c])
        BY DEF HandEnds
    <2> QED BY <1>1, <2>1
<1>5. HandIsOwn'
    BY <1>4 DEF ViewsInv, HandIsOwn
<1>6. given # 0 /\ ~hasty => HandAwaited'
    BY <1>0, <1>4 DEF ViewsInv, ViewsTypes, HandAwaited
<1> QED BY <1>2, <1>3, <1>5, <1>6 DEF ViewsInv

\* Other peers' presence.
LEMMA ViewsPresence ==
    ASSUME ViewsInv, NEW c \in Views!Channels,
           \/ Views!BobLeaves(c)
           \/ \E a \in Views!Attrs, v \in Views!Values \cup {Views!Cleared} : Views!BobUpdates(c, a, v)
    PROVE  ViewsInv'
<1>1. /\ IsMap(peers[c])
      /\ {"presence", "presence-snapshot", "peer-left"} \subseteq Views!PresenceEvents
    BY DEF ViewsInv, ViewsTypes, Views!PresenceEvents
<1>2. CASE Views!BobLeaves(c)
    <2> DEFINE map == Views!Restrict(peers[c], DOMAIN peers[c] \ {"bob"})
    <2>1. IsMap(map) /\ (HandUp(map) <=> HandUp(peers[c]))
        BY <1>1, RestrictIsMap DEF HandUp, Views!Has, Views!Restrict
    <2> QED BY <1>1, <1>2, <2>1, ViewsOfOthers DEF Views!BobLeaves
<1>3. ASSUME NEW a \in Views!Attrs, NEW v \in Views!Values \cup {Views!Cleared},
             Views!BobUpdates(c, a, v)
      PROVE  ViewsInv'
    <2> DEFINE attrs == Views!Updated(Views!AttrsOf(peers[c], "bob"), Views!Attr(a, v))
               map == Views!Entered(peers[c], "bob", attrs)
    <2>1. IsMap(map) /\ (HandUp(map) <=> HandUp(peers[c]))
        BY <1>1, UpdatedIsAttrs, EnteredIsMap, HandEntered
    <2> QED BY <1>1, <1>3, <2>1, ViewsOfOthers DEF Views!BobUpdates
<1> QED BY <1>2, <1>3

\* Chats.
LEMMA ViewsChats ==
    ASSUME ViewsInv, NEW c \in Views!Channels,
           \/ Views!Sends(c) \/ Views!BobSays(c) \/ Views!HistoryArrives(c)
           \/ \E i \in 1..MaxMessages, status2 \in {"confirmed", "failed"} : Views!Decided(c, i, status2)
    PROVE  ViewsInv'
<1>0. /\ ViewsTypes /\ ChatIsTrue /\ buffer[c] \in Seq(Entries)
      /\ shownPeers = Views!Snapshot(given, peers)
    BY DEF ViewsInv, ViewsTypes, Views!ViewsAreTrue, ChatIsTrue
<1>1. \A s \in {"pending", "confirmed", "replayed"} : Views!Entry(s) \in Entries
    <2>1. messages + 1 \in Nat
        BY <1>0 DEF ViewsTypes
    <2>2. \A s \in {"pending", "confirmed", "replayed"} : s \in Statuses
        BY DEF Statuses
    <2> QED BY <2>1, <2>2 DEF Entries, Views!Entry
<1>2. ASSUME buffer' \in [Views!Channels -> Seq(Entries)], shownChat' \in Seq(Entries), ChatIsTrue',
             messages' \in Nat, UNCHANGED <<given, peers, own, asked, shownPeers, wish, hasty>>
      PROVE  ViewsInv'
    <2>1. ViewsTypes'
        BY <1>0, <1>2 DEF ViewsTypes
    <2>2. Views!ViewsAreTrue'
        BY <1>0, <1>2 DEF Views!ViewsAreTrue, ChatIsTrue, Views!Snapshot
    <2>3. (HandAwaited => HandAwaited') /\ (HandIsOwn => HandIsOwn')
        BY <1>2 DEF HandAwaited, HandIsOwn
    <2> QED BY <1>2, <2>1, <2>2, <2>3 DEF ViewsInv
<1>3. CASE Views!Sends(c) \/ Views!BobSays(c)
    <2>1. PICK s \in {"pending", "confirmed"} :
             /\ Views!ChatChanges(c, "chat", Append(buffer[c], Views!Entry(s)))
             /\ messages' = messages + 1 /\ UNCHANGED <<given, peers, own, asked, shownPeers, wish, hasty>>
        BY <1>3 DEF Views!Sends, Views!BobSays, Views!OfOthers
    <2>2. Append(buffer[c], Views!Entry(s)) \in Seq(Entries)
        BY <1>0, <1>1
    <2>3. /\ buffer' \in [Views!Channels -> Seq(Entries)] /\ shownChat' \in Seq(Entries)
          /\ ChatIsTrue'
        BY <1>0, <2>1, <2>2, ChatStep
    <2>4. messages' \in Nat
        BY <1>0, <2>1 DEF ViewsTypes
    <2> QED BY <1>2, <2>1, <2>3, <2>4
<1>4. CASE Views!HistoryArrives(c)
    <2>1. /\ Views!ChatChanges(c, "chat-history", <<Views!Entry("replayed")>> \o buffer[c])
          /\ messages' = messages + 1 /\ UNCHANGED <<given, peers, own, asked, shownPeers, wish, hasty>>
        BY <1>4 DEF Views!HistoryArrives, Views!OfOthers
    <2>2. <<Views!Entry("replayed")>> \o buffer[c] \in Seq(Entries)
        <3>1. <<Views!Entry("replayed")>> \in Seq(Entries)
            BY <1>1
        <3> QED BY <1>0, <3>1, ConcatProperties
    <2>3. /\ buffer' \in [Views!Channels -> Seq(Entries)] /\ shownChat' \in Seq(Entries)
          /\ ChatIsTrue'
        BY <1>0, <2>1, <2>2, ChatStep
    <2>4. messages' \in Nat
        BY <1>0, <2>1 DEF ViewsTypes
    <2> QED BY <1>2, <2>1, <2>3, <2>4
<1>5. ASSUME NEW i \in 1..MaxMessages, NEW s \in {"confirmed", "failed"}, Views!Decided(c, i, s)
      PROVE  ViewsInv'
    <2> DEFINE list2 == [buffer[c] EXCEPT ![i].status = s]
    <2>1. /\ i \in 1..Len(buffer[c]) /\ buffer[c][i].status = "pending"
          /\ Views!ChatChanges(c, "chat-status", list2)
          /\ UNCHANGED <<given, peers, own, asked, shownPeers, messages, wish, hasty>>
        BY <1>0, <1>5 DEF Views!Decided
    <2>2. /\ list2 \in Seq(Entries) /\ Len(list2) = Len(buffer[c])
          /\ \A j \in 1..Len(list2) : /\ list2[j].id = buffer[c][j].id
                                      /\ \/ list2[j].status = buffer[c][j].status
                                         \/ buffer[c][j].status = "pending"
        <3>1. [buffer[c][i] EXCEPT !.status = s] \in Entries
            <4>1. buffer[c][i] \in Entries
                BY <1>0, <2>1
            <4>2. s \in Statuses
                BY DEF Statuses
            <4> QED BY <4>1, <4>2 DEF Entries
        <3>2. list2 \in Seq(Entries) /\ Len(list2) = Len(buffer[c])
            BY <1>0, <2>1, <3>1
        <3>3. \A j \in 1..Len(buffer[c]) : j # i => list2[j] = buffer[c][j]
            BY <1>0, <2>1
        <3>4. list2[i] = [buffer[c][i] EXCEPT !.status = s]
            BY <1>0, <2>1
        <3>5. list2[i].id = buffer[c][i].id
            BY <1>0, <2>1, <3>4 DEF Entries
        <3> QED BY <2>1, <3>2, <3>3, <3>5
    <2>3. /\ buffer' \in [Views!Channels -> Seq(Entries)] /\ shownChat' \in Seq(Entries)
          /\ ChatIsTrue'
        BY <1>0, <2>1, <2>2, ChatStep
    <2>4. messages' \in Nat
        BY <1>0, <2>1 DEF ViewsTypes
    <2> QED BY <1>2, <2>1, <2>3, <2>4
<1> QED BY <1>3, <1>4, <1>5

\* Every step of the page keeps the views' invariant.
LEMMA ViewsStep ==
    ASSUME part = "views", ViewsInv, [Next]_pageVars
    PROVE  ViewsInv'
<1>1. CASE UNCHANGED pageVars
    BY <1>1 DEF pageVars, Views!vars, ViewsInv, ViewsTypes, Views!ViewsAreTrue, HandAwaited, HandIsOwn, Views!Snapshot
<1>2. CASE Views!Next
    <2>1. ASSUME NEW c \in Views!Channels \cup {0}, Views!ReactGiven(c) \/ Views!VueGiven(c)
          PROVE  ViewsInv'
        BY <2>1, ViewsGiven DEF Views!ReactGiven, Views!VueGiven
    <2>2. ASSUME NEW a \in Views!Attrs, NEW v \in Views!Values \cup {Views!Cleared},
                 Views!ReactWrites(a, v) \/ Views!VueWrites(a, v)
          PROVE  ViewsInv'
        BY <2>2, ViewsSetsOther DEF Views!ReactWrites, Views!VueWrites
    <2>3. CASE Views!ReactToggles \/ Views!VueToggles
        BY <2>3, ViewsToggles DEF Views!ReactToggles, Views!VueToggles
    <2>8. CASE Views!ReactClears \/ Views!VueClears
        BY <2>8, ViewsClears DEF Views!ReactClears, Views!VueClears
    <2>9. ASSUME NEW up \in BOOLEAN, Views!ReactRaises(up) \/ Views!VueRaises(up) PROVE ViewsInv'
        BY <2>9, ViewsRaises DEF Views!ReactRaises, Views!VueRaises
    <2>4. ASSUME NEW c \in Views!Channels,
                 \/ Views!Joins(c) \/ Views!EchoArrives(c)
                 \/ \E others \in Views!Maps : Views!SnapshotArrives(c, others)
          PROVE ViewsInv'
        BY <2>4, ViewsJoins, ViewsEcho, ViewsSnapshot
    <2>5. ASSUME NEW c \in Views!Channels,
                 \/ Views!BobLeaves(c)
                 \/ \E a \in Views!Attrs, v \in Views!Values \cup {Views!Cleared} : Views!BobUpdates(c, a, v)
          PROVE  ViewsInv'
        BY <2>5, ViewsPresence
    <2>6. ASSUME NEW c \in Views!Channels,
                 \/ Views!ReactSends(c) \/ Views!VueSends(c) \/ Views!BobSays(c) \/ Views!HistoryArrives(c)
                 \/ \E i \in 1..MaxMessages, s \in {"confirmed", "failed"} : Views!Decided(c, i, s)
          PROVE  ViewsInv'
        BY <2>6, ViewsChats DEF Views!ReactSends, Views!VueSends
    <2> QED BY <1>2, <2>1, <2>2, <2>3, <2>4, <2>5, <2>6, <2>8, <2>9
        DEF Views!Next, Views!OfPresence, Views!OfChat
<1> QED BY <1>1, <1>2 DEF Next

\* The invariant says what the runs check.
LEMMA ViewsSays == ViewsInv => Views!ViewsAreTrue /\ Views!TogglesAlternate
<1> SUFFICES ASSUME ViewsInv, given # 0, ~hasty, asked[given] = <<>>
             PROVE  Views!Raised <=> wish
    BY DEF ViewsInv, Views!TogglesAlternate
<1>1. HandAwaited /\ shownPeers = peers[given]
    BY DEF ViewsInv, Views!ViewsAreTrue, Views!Snapshot
<1> QED BY <1>1, HandUnasked DEF HandAwaited, HandUp, Views!Raised, Views!Hand

\* What is rendered is a map, so its differences patch it.
LEMMA ViewsDiffs ==
    ASSUME ViewsInv, ViewsInv'
    PROVE  Views!DiffPatches
<1>1. IsMap(shownPeers)
    BY NobodyIsMap DEF ViewsInv, ViewsTypes, Views!ViewsAreTrue, Views!Snapshot, Views!Nobody
<1>2. IsMap(shownPeers')
    BY NobodyIsMap DEF ViewsInv, ViewsTypes, Views!ViewsAreTrue, Views!Snapshot, Views!Nobody
<1> QED BY <1>1, <1>2, DiffOf DEF Views!DiffPatches
=============================================================================

----------------------------- MODULE MeshProofs -----------------------------
(***************************************************************************)
(* Proofs about Mesh, for any viewers, attempts, drops and failures: that  *)
(* a stopped client leaves the room, that a publisher and its viewers know *)
(* each other once everything has arrived, and that the two ends of their  *)
(* connections then refer to each other.                                   *)
(***************************************************************************)
EXTENDS Mesh, FiniteSetTheorems, TLAPS

-----------------------------------------------------------------------------
\* Types.

States == {"idle", "connecting", "connected", "reconnecting", "failed", "closed"}
Sockets == {"none", "auth", "opening", "open", "closing"}
Entries == [id : Nat, sdp : {"none", "making", "offered", "stable"}, answer : Nat \X Nat]
Pcs == [id : Nat, open : BOOLEAN, offer : Nat, up : BOOLEAN]

JoinMsg == [type |-> "join"]
LeaveMsg == [type |-> "leave"]
OfferMsg(v, n) == [type |-> "offer", to |-> v, offer |-> n]
AnswerMsg(v, n, id) == [type |-> "answer", from |-> v, to |-> Pub, offer |-> n, pc |-> id]

Said == [type : {"join", "leave"}]
News(S) == [type : {"peer-joined", "peer-left"}, peer : S]
Offers(S) == [type : {"offer"}, to : S, offer : Nat]
Answers(S) == [type : {"answer"}, from : S, to : {Pub}, offer : Nat, pc : Nat]

\* What c says, and what it is told.
OutMsgs(c) == Said \cup (IF c = Pub THEN Offers(Viewers) ELSE Answers({c}))
InMsgs(c) == IF c = Pub THEN News(Viewers) \cup Answers(Viewers)
             ELSE News({Pub}) \cup Offers({c})

ClientTypes ==
    /\ opts \in Options
    /\ state \in [Clients -> States]
    /\ stopping \in [Clients -> BOOLEAN]
    /\ waiting \in [Clients -> {"none", "start", "attempt"}]
    /\ timers \in [Clients -> Nat] /\ attempts \in [Clients -> 0..MaxAttempts]
    /\ tstate \in [Clients -> {"idle", "connecting", "connected", "reconnecting", "closed"}]
    /\ sock \in [Clients -> Sockets]
    /\ members \subseteq Clients
PairTypes == entry \in [Viewers -> Entries] /\ pc \in [Viewers -> Pcs]
QueueTypes ==
    /\ out = [c \in Clients |-> out[c]] /\ in = [c \in Clients |-> in[c]]
    /\ \A c \in Clients : out[c] \in Seq(OutMsgs(c)) /\ in[c] \in Seq(InMsgs(c))
TypeInv == ClientTypes /\ PairTypes /\ QueueTypes

-----------------------------------------------------------------------------
\* Sequences.

\* One more at the end.
LEMMA AppendFacts ==
    ASSUME NEW S, NEW s \in Seq(S), NEW e \in S
    PROVE  LET r == Append(s, e)
           IN  /\ r \in Seq(S) /\ r # <<>> /\ s \o <<e>> = r
               /\ Len(s) \in Nat /\ Len(r) = Len(s) + 1
               /\ \A i \in 1..Len(s) : s[i] \in S /\ r[i] = s[i]
               /\ r[Len(s) + 1] = e
    OBVIOUS

\* The first one gone.
LEMMA TailFacts ==
    ASSUME NEW S, NEW s \in Seq(S), s # <<>>
    PROVE  LET r == Tail(s)
           IN  /\ r \in Seq(S) /\ Head(s) \in S /\ Head(s) = s[1]
               /\ Len(s) \in Nat \ {0} /\ Len(r) = Len(s) - 1
               /\ \A i \in 1..Len(r) : s[i + 1] \in S /\ r[i] = s[i + 1]
    OBVIOUS

\* One after the other.
LEMMA ConcatFacts ==
    ASSUME NEW S, NEW s \in Seq(S), NEW t \in Seq(S)
    PROVE  LET r == s \o t
           IN  /\ r \in Seq(S)
               /\ Len(s) \in Nat /\ Len(t) \in Nat /\ Len(r) = Len(s) + Len(t)
               /\ \A i \in 1..Len(s) : r[i] = s[i]
               /\ \A i \in 1..Len(t) : r[Len(s) + i] = t[i]
<1> DEFINE r == s \o t
<1>1. r \in Seq(S) /\ Len(s) \in Nat /\ Len(t) \in Nat /\ Len(r) = Len(s) + Len(t)
    OBVIOUS
<1>2. \A i \in 1..Len(s) : r[i] = s[i]
    BY <1>1
<1>3. \A i \in 1..Len(t) : r[Len(s) + i] = t[i]
    BY <1>1
<1> QED BY <1>1, <1>2, <1>3

\* A finite set as a sequence: all of it and nothing else.
LEMMA SetToSeqFacts ==
    ASSUME NEW S, IsFiniteSet(S)
    PROVE  LET q == SetToSeq(S)
           IN  /\ q \in Seq(S)
               /\ \A e \in S : \E i \in 1..Len(q) : q[i] = e
               /\ \A i, k \in 1..Len(q) : q[i] = q[k] => i = k
<1> DEFINE n == Cardinality(S)
           q == SetToSeq(S)
<1>1. n \in Nat /\ ExistsBijection(1..n, S)
    BY FS_CardinalityType
<1>2. \E f \in [1..n -> S] : IsInjective(f)
    BY <1>1 DEF ExistsBijection, Bijection, Injection
<1>3. q \in [1..n -> S] /\ IsInjective(q)
    BY <1>2 DEF SetToSeq
<1>4. q \in Injection(1..n, S)
    BY <1>3 DEF Injection
<1>5. IsFiniteSet(1..n) /\ Cardinality(1..n) = n
    BY <1>1, FS_Interval
<1>6. q \in Surjection(1..n, S)
    BY <1>4, <1>5, FS_Injection
<1>7. q \in Seq(S) /\ Len(q) = n
    BY <1>1, <1>3
<1>8. \A e \in S : \E i \in 1..n : q[i] = e
    BY <1>6 DEF Surjection
<1>9. \A i, k \in 1..n : q[i] = q[k] => i = k
    BY <1>3 DEF IsInjective
<1> QED BY <1>7, <1>8, <1>9

-----------------------------------------------------------------------------
\* What is said, by its last words.

HasJoin(q) == \E i \in 1..Len(q) : q[i].type = "join"
HasLeave(q) == \E i \in 1..Len(q) : q[i].type = "leave"
JoinsOnly(q) == \A i \in 1..Len(q) : q[i].type = "join"
OneJoin(q) == \A i, k \in 1..Len(q) : q[i].type = "join" /\ q[k].type = "join" => i = k

\* After some leave no join comes.
LeaveLast(q) ==
    \E i \in 1..Len(q) : q[i].type = "leave" /\ \A k \in (i + 1)..Len(q) : q[k].type # "join"

\* With one more at the end.
LEMMA AppendSays ==
    ASSUME NEW S, NEW q \in Seq(S), NEW m \in S
    PROVE  LET r == Append(q, m)
           IN  /\ HasJoin(r) <=> HasJoin(q) \/ m.type = "join"
               /\ HasLeave(r) <=> HasLeave(q) \/ m.type = "leave"
               /\ JoinsOnly(r) <=> JoinsOnly(q) /\ m.type = "join"
               /\ OneJoin(q) /\ (m.type = "join" => ~HasJoin(q)) => OneJoin(r)
               /\ LeaveLast(r) <=> m.type = "leave" \/ (m.type # "join" /\ LeaveLast(q))
<1> DEFINE r == Append(q, m)
<1>1. /\ Len(q) \in Nat /\ Len(r) = Len(q) + 1 /\ r[Len(q) + 1] = m
      /\ \A i \in 1..Len(q) : r[i] = q[i]
    BY AppendFacts
<1> HIDE DEF r
<1>2. \A i \in 1..Len(r) : i \in 1..Len(q) \/ i = Len(r)
    BY <1>1
<1>3. Len(r) \in 1..Len(r) /\ r[Len(r)] = m /\ \A i \in 1..Len(q) : i \in 1..Len(r)
    BY <1>1
<1>4. HasJoin(r) <=> HasJoin(q) \/ m.type = "join"
    BY <1>1, <1>2, <1>3 DEF HasJoin
<1>5. HasLeave(r) <=> HasLeave(q) \/ m.type = "leave"
    BY <1>1, <1>2, <1>3 DEF HasLeave
<1>6. JoinsOnly(r) <=> JoinsOnly(q) /\ m.type = "join"
    BY <1>1, <1>2, <1>3 DEF JoinsOnly
<1>7. OneJoin(q) /\ (m.type = "join" => ~HasJoin(q)) => OneJoin(r)
    BY <1>1, <1>2, <1>3 DEF OneJoin, HasJoin
<1>8. LeaveLast(r) => m.type = "leave" \/ (m.type # "join" /\ LeaveLast(q))
    <2> SUFFICES ASSUME LeaveLast(r), m.type # "leave" PROVE m.type # "join" /\ LeaveLast(q)
        OBVIOUS
    <2>1. PICK i \in 1..Len(r) :
             r[i].type = "leave" /\ \A k \in (i + 1)..Len(r) : r[k].type # "join"
        BY DEF LeaveLast
    <2>2. i \in 1..Len(q)
        BY <1>2, <1>3, <2>1
    <2>3. Len(r) \in (i + 1)..Len(r) /\ \A k \in (i + 1)..Len(q) : k \in (i + 1)..Len(r)
        BY <1>1, <2>2
    <2>4. \A k \in (i + 1)..Len(q) : k \in 1..Len(q)
        BY <1>1, <2>2
    <2> QED BY <1>1, <1>3, <2>1, <2>2, <2>3, <2>4 DEF LeaveLast
<1>9. m.type = "leave" => LeaveLast(r)
    <2>1. \A k \in (Len(r) + 1)..Len(r) : FALSE
        BY <1>1
    <2> QED BY <1>3, <2>1 DEF LeaveLast
<1>10. m.type # "join" /\ LeaveLast(q) => LeaveLast(r)
    <2> SUFFICES ASSUME m.type # "join", LeaveLast(q) PROVE LeaveLast(r)
        OBVIOUS
    <2>1. PICK i \in 1..Len(q) :
             q[i].type = "leave" /\ \A k \in (i + 1)..Len(q) : q[k].type # "join"
        BY DEF LeaveLast
    <2>2. \A k \in (i + 1)..Len(r) : (k \in (i + 1)..Len(q) /\ k \in 1..Len(q)) \/ k = Len(r)
        BY <1>1, <2>1
    <2>3. i \in 1..Len(r) /\ r[i] = q[i]
        BY <1>1, <1>3, <2>1
    <2> QED BY <1>1, <1>3, <2>1, <2>2, <2>3 DEF LeaveLast
<1> QED BY <1>4, <1>5, <1>6, <1>7, <1>8, <1>9, <1>10 DEF r

\* With the first one gone.
LEMMA TailSays ==
    ASSUME NEW S, NEW q \in Seq(S), q # <<>>
    PROVE  LET r == Tail(q)
               m == Head(q)
           IN  /\ HasJoin(q) <=> HasJoin(r) \/ m.type = "join"
               /\ HasLeave(q) <=> HasLeave(r) \/ m.type = "leave"
               /\ JoinsOnly(q) => JoinsOnly(r) /\ m.type = "join"
               /\ OneJoin(q) => OneJoin(r) /\ (m.type = "join" => ~HasJoin(r))
               /\ LeaveLast(q) => LeaveLast(r) \/ (m.type = "leave" /\ ~HasJoin(r))
<1> DEFINE r == Tail(q)
           m == Head(q)
<1>1. /\ Len(q) \in Nat \ {0} /\ Len(r) = Len(q) - 1 /\ m = q[1]
      /\ \A i \in 1..Len(r) : r[i] = q[i + 1]
    BY TailFacts
<1> HIDE DEF r, m
<1>2. \A i \in 1..Len(q) : i = 1 \/ (i - 1 \in 1..Len(r) /\ q[i] = r[i - 1])
    BY <1>1
<1>3. 1 \in 1..Len(q) /\ \A i \in 1..Len(r) : i + 1 \in 1..Len(q)
    BY <1>1
<1>4. HasJoin(q) <=> HasJoin(r) \/ m.type = "join"
    BY <1>1, <1>2, <1>3 DEF HasJoin
<1>5. HasLeave(q) <=> HasLeave(r) \/ m.type = "leave"
    BY <1>1, <1>2, <1>3 DEF HasLeave
<1>6. JoinsOnly(q) => JoinsOnly(r) /\ m.type = "join"
    BY <1>1, <1>2, <1>3 DEF JoinsOnly
<1>7. OneJoin(q) => OneJoin(r) /\ (m.type = "join" => ~HasJoin(r))
    <2> SUFFICES ASSUME OneJoin(q) PROVE OneJoin(r) /\ (m.type = "join" => ~HasJoin(r))
        OBVIOUS
    <2>1. \A i, k \in 1..Len(r) : i + 1 = k + 1 => i = k
        BY <1>1
    <2>2. OneJoin(r)
        BY <1>1, <1>3, <2>1 DEF OneJoin
    <2>3. \A i \in 1..Len(r) : i + 1 # 1
        BY <1>1
    <2> QED BY <1>1, <1>3, <2>2, <2>3 DEF OneJoin, HasJoin
<1>8. LeaveLast(q) => LeaveLast(r) \/ (m.type = "leave" /\ ~HasJoin(r))
    <2> SUFFICES ASSUME LeaveLast(q) PROVE LeaveLast(r) \/ (m.type = "leave" /\ ~HasJoin(r))
        OBVIOUS
    <2>1. PICK i \in 1..Len(q) :
             q[i].type = "leave" /\ \A k \in (i + 1)..Len(q) : q[k].type # "join"
        BY DEF LeaveLast
    <2>2. CASE i = 1
        <3>1. \A k \in 1..Len(r) : k + 1 \in (i + 1)..Len(q)
            BY <1>1, <2>2
        <3> QED BY <1>1, <2>1, <2>2, <3>1 DEF HasJoin
    <2>3. CASE i # 1
        <3>1. i - 1 \in 1..Len(r) /\ q[i] = r[i - 1]
            BY <1>2, <2>3
        <3>2. \A k \in ((i - 1) + 1)..Len(r) : k + 1 \in (i + 1)..Len(q) /\ k \in 1..Len(r)
            BY <1>1, <2>3
        <3> QED BY <1>1, <2>1, <3>1, <3>2 DEF LeaveLast
    <2> QED BY <2>2, <2>3
<1> QED BY <1>4, <1>5, <1>6, <1>7, <1>8 DEF r, m

\* Nothing is said by nobody.
LEMMA NothingSays ==
    /\ ~HasJoin(<<>>) /\ ~HasLeave(<<>>) /\ JoinsOnly(<<>>) /\ OneJoin(<<>>) /\ ~LeaveLast(<<>>)
BY DEF HasJoin, HasLeave, JoinsOnly, OneJoin, LeaveLast

-----------------------------------------------------------------------------
\* What was last heard of a peer.

About(m, p) == m.type \in {"peer-joined", "peer-left"} /\ m.peer = p
JoinedIn(m, p) == m.type = "peer-joined" /\ m.peer = p

\* Is p there once q has been read, if `now` says whether it is before?
Ends(q, p, now) ==
    \/ \E i \in 1..Len(q) : JoinedIn(q[i], p) /\ \A k \in (i + 1)..Len(q) : ~About(q[k], p)
    \/ now /\ \A i \in 1..Len(q) : ~About(q[i], p)

\* The last word counts.
LEMMA AppendNews ==
    ASSUME NEW S, NEW q \in Seq(S), NEW m \in S, NEW p, NEW now
    PROVE  Ends(Append(q, m), p, now)
             <=> IF About(m, p) THEN JoinedIn(m, p) ELSE Ends(q, p, now)
<1> DEFINE r == Append(q, m)
<1>1. /\ Len(q) \in Nat /\ Len(r) = Len(q) + 1 /\ r[Len(q) + 1] = m
      /\ \A i \in 1..Len(q) : r[i] = q[i]
    BY AppendFacts
<1> HIDE DEF r
<1>2. \A i \in 1..Len(r) : i \in 1..Len(q) \/ i = Len(r)
    BY <1>1
<1>3. Len(r) \in 1..Len(r) /\ r[Len(r)] = m /\ \A i \in 1..Len(q) : i \in 1..Len(r)
    BY <1>1
<1>4. \A i \in 1..Len(q) : Len(r) \in (i + 1)..Len(r)
                           /\ \A k \in (i + 1)..Len(q) : k \in (i + 1)..Len(r) /\ k \in 1..Len(q)
    BY <1>1
<1>5. \A i \in 1..Len(q) : \A k \in (i + 1)..Len(r) : k \in (i + 1)..Len(q) \/ k = Len(r)
    BY <1>1
<1>6. JoinedIn(m, p) => About(m, p)
    BY DEF JoinedIn, About
<1>7. CASE About(m, p)
    <2>1. Ends(r, p, now) => JoinedIn(m, p)
        <3>1. ~(\A i \in 1..Len(r) : ~About(r[i], p))
            BY <1>3, <1>7
        <3>2. ASSUME NEW i \in 1..Len(r), JoinedIn(r[i], p), \A k \in (i + 1)..Len(r) : ~About(r[k], p)
              PROVE  JoinedIn(m, p)
            <4>1. i \notin 1..Len(q)
                BY <1>3, <1>4, <1>7, <3>2
            <4> QED BY <1>2, <1>3, <3>2, <4>1
        <3> QED BY <3>1, <3>2 DEF Ends
    <2>2. JoinedIn(m, p) => Ends(r, p, now)
        <3>1. \A k \in (Len(r) + 1)..Len(r) : FALSE
            BY <1>1
        <3> QED BY <1>3, <3>1 DEF Ends
    <2> QED BY <1>7, <2>1, <2>2 DEF r
<1>8. CASE ~About(m, p)
    <2>1. (\A i \in 1..Len(r) : ~About(r[i], p)) <=> \A i \in 1..Len(q) : ~About(q[i], p)
        BY <1>1, <1>2, <1>3, <1>8
    <2>2. ASSUME NEW i \in 1..Len(r), JoinedIn(r[i], p), \A k \in (i + 1)..Len(r) : ~About(r[k], p)
          PROVE  Ends(q, p, now)
        <3>1. i \in 1..Len(q)
            BY <1>2, <1>3, <1>6, <1>8, <2>2
        <3>2. \A k \in (i + 1)..Len(q) : ~About(q[k], p)
            BY <1>1, <1>4, <2>2, <3>1
        <3> QED BY <1>1, <2>2, <3>1, <3>2 DEF Ends
    <2>3. ASSUME NEW i \in 1..Len(q), JoinedIn(q[i], p), \A k \in (i + 1)..Len(q) : ~About(q[k], p)
          PROVE  Ends(r, p, now)
        <3>1. i \in 1..Len(r) /\ r[i] = q[i]
            BY <1>1, <1>3
        <3>2. \A k \in (i + 1)..Len(r) : ~About(r[k], p)
            BY <1>1, <1>3, <1>4, <1>5, <1>8, <2>3
        <3> QED BY <2>3, <3>1, <3>2 DEF Ends
    <2> QED BY <1>8, <2>1, <2>2, <2>3 DEF Ends, r
<1> QED BY <1>7, <1>8

\* What is read is news no more: it is known.
LEMMA TailNews ==
    ASSUME NEW S, NEW q \in Seq(S), q # <<>>, NEW p, NEW now, NEW then,
           IF About(Head(q), p) THEN then <=> JoinedIn(Head(q), p) ELSE then <=> now
    PROVE  Ends(Tail(q), p, then) <=> Ends(q, p, now)
<1> DEFINE r == Tail(q)
           m == Head(q)
<1>1. /\ Len(q) \in Nat \ {0} /\ Len(r) = Len(q) - 1 /\ m = q[1]
      /\ \A i \in 1..Len(r) : r[i] = q[i + 1]
    BY TailFacts
<1> HIDE DEF r, m
<1>2. \A i \in 1..Len(q) : i = 1 \/ (i - 1 \in 1..Len(r) /\ q[i] = r[i - 1])
    BY <1>1
<1>3. 1 \in 1..Len(q) /\ \A i \in 1..Len(r) : i + 1 \in 1..Len(q)
    BY <1>1
<1>4. JoinedIn(m, p) => About(m, p)
    BY DEF JoinedIn, About
<1>5. (\A i \in 1..Len(q) : ~About(q[i], p))
        <=> ~About(m, p) /\ \A i \in 1..Len(r) : ~About(r[i], p)
    BY <1>1, <1>2, <1>3
<1>6. ASSUME NEW i \in 1..Len(r), JoinedIn(r[i], p), \A k \in (i + 1)..Len(r) : ~About(r[k], p)
      PROVE  Ends(q, p, now)
    <2>1. i + 1 \in 1..Len(q) /\ q[i + 1] = r[i]
        BY <1>1, <1>3
    <2>2. \A k \in ((i + 1) + 1)..Len(q) : k - 1 \in (i + 1)..Len(r) /\ q[k] = r[k - 1]
        BY <1>1, <1>2
    <2> QED BY <1>6, <2>1, <2>2 DEF Ends
<1>7. ASSUME NEW i \in 1..Len(q), JoinedIn(q[i], p), \A k \in (i + 1)..Len(q) : ~About(q[k], p)
      PROVE  \/ JoinedIn(m, p) /\ \A k \in 1..Len(r) : ~About(r[k], p)
             \/ \E j \in 1..Len(r) : JoinedIn(r[j], p) /\ \A k \in (j + 1)..Len(r) : ~About(r[k], p)
    <2>1. CASE i = 1
        <3>1. \A k \in 1..Len(r) : k + 1 \in (i + 1)..Len(q)
            BY <1>1, <2>1
        <3> QED BY <1>1, <1>7, <2>1, <3>1
    <2>2. CASE i # 1
        <3>1. i - 1 \in 1..Len(r) /\ q[i] = r[i - 1]
            BY <1>2, <2>2
        <3>2. \A k \in ((i - 1) + 1)..Len(r) : k + 1 \in (i + 1)..Len(q) /\ k \in 1..Len(r)
            BY <1>1, <2>2
        <3> QED BY <1>1, <1>7, <3>1, <3>2
    <2> QED BY <2>1, <2>2
<1>8. JoinedIn(m, p) /\ (\A k \in 1..Len(r) : ~About(r[k], p)) => Ends(q, p, now)
    <2> SUFFICES ASSUME JoinedIn(m, p), \A k \in 1..Len(r) : ~About(r[k], p) PROVE Ends(q, p, now)
        OBVIOUS
    <2>1. \A k \in (1 + 1)..Len(q) : k - 1 \in 1..Len(r) /\ q[k] = r[k - 1]
        BY <1>1, <1>2
    <2> QED BY <1>1, <1>3, <2>1 DEF Ends
<1>9. IF About(m, p) THEN then <=> JoinedIn(m, p) ELSE then <=> now
    BY DEF m
<1>10. Ends(r, p, then) => Ends(q, p, now)
    <2> SUFFICES ASSUME Ends(r, p, then) PROVE Ends(q, p, now)
        OBVIOUS
    <2>1. CASE then /\ \A k \in 1..Len(r) : ~About(r[k], p)
        <3>1. CASE About(m, p)
            BY <1>8, <1>9, <2>1, <3>1
        <3>2. CASE ~About(m, p)
            BY <1>5, <1>9, <2>1, <3>2 DEF Ends
        <3> QED BY <3>1, <3>2
    <2> QED BY <1>6, <2>1 DEF Ends
<1>11. Ends(q, p, now) => Ends(r, p, then)
    <2> SUFFICES ASSUME Ends(q, p, now) PROVE Ends(r, p, then)
        OBVIOUS
    <2>1. CASE now /\ \A k \in 1..Len(q) : ~About(q[k], p)
        BY <1>5, <1>9, <2>1 DEF Ends
    <2>2. CASE ~(now /\ \A k \in 1..Len(q) : ~About(q[k], p))
        <3>1. PICK i \in 1..Len(q) :
                 JoinedIn(q[i], p) /\ \A k \in (i + 1)..Len(q) : ~About(q[k], p)
            BY <2>2 DEF Ends
        <3>2. CASE JoinedIn(m, p) /\ \A k \in 1..Len(r) : ~About(r[k], p)
            BY <1>4, <1>9, <3>2 DEF Ends
        <3>3. CASE \E j \in 1..Len(r) : JoinedIn(r[j], p) /\ \A k \in (j + 1)..Len(r) : ~About(r[k], p)
            BY <3>3 DEF Ends
        <3> QED BY <1>7, <3>1, <3>2, <3>3
    <2> QED BY <2>1, <2>2
<1> QED BY <1>10, <1>11 DEF r

\* t names each of P once, as somebody who joined.
Greets(t, P) ==
    /\ \A i \in 1..Len(t) : t[i].type = "peer-joined" /\ t[i].peer \in P
    /\ \A e \in P : \E i \in 1..Len(t) : t[i].type = "peer-joined" /\ t[i].peer = e
    /\ \A i, k \in 1..Len(t) : t[i].peer = t[k].peer => i = k

\* A greeting of everyone in P, read last.
LEMMA ConcatNews ==
    ASSUME NEW S, NEW q \in Seq(S), NEW t \in Seq(S), NEW P, NEW p, NEW now, Greets(t, P)
    PROVE  Ends(q \o t, p, now) <=> p \in P \/ Ends(q, p, now)
<1> DEFINE r == q \o t
<1>0. /\ \A i \in 1..Len(t) : t[i].type = "peer-joined" /\ t[i].peer \in P
      /\ \A e \in P : \E i \in 1..Len(t) : t[i].type = "peer-joined" /\ t[i].peer = e
      /\ \A i, k \in 1..Len(t) : t[i].peer = t[k].peer => i = k
    BY DEF Greets
<1>1. /\ Len(q) \in Nat /\ Len(t) \in Nat /\ Len(r) = Len(q) + Len(t)
      /\ \A i \in 1..Len(q) : r[i] = q[i]
      /\ \A i \in 1..Len(t) : r[Len(q) + i] = t[i]
    BY ConcatFacts
<1> HIDE DEF r
<1>2. \A i \in 1..Len(r) : i \in 1..Len(q) \/ (i - Len(q) \in 1..Len(t) /\ r[i] = t[i - Len(q)])
    <2> SUFFICES ASSUME NEW i \in 1..Len(r), i \notin 1..Len(q)
                 PROVE  i - Len(q) \in 1..Len(t) /\ r[i] = t[i - Len(q)]
        OBVIOUS
    <2>1. i - Len(q) \in 1..Len(t) /\ Len(q) + (i - Len(q)) = i
        BY <1>1
    <2>2. r[Len(q) + (i - Len(q))] = t[i - Len(q)]
        BY <1>1, <2>1
    <2> QED BY <2>1, <2>2
<1>3. /\ \A i \in 1..Len(q) : i \in 1..Len(r)
      /\ \A i \in 1..Len(t) : Len(q) + i \in 1..Len(r)
    BY <1>1
<1>4. CASE p \notin P
    <2>1. \A i \in 1..Len(t) : ~About(t[i], p)
        BY <1>0, <1>4 DEF About
    <2>2. (\A i \in 1..Len(r) : ~About(r[i], p)) <=> \A i \in 1..Len(q) : ~About(q[i], p)
        BY <1>1, <1>2, <1>3, <2>1
    <2>3. ASSUME NEW i \in 1..Len(r), JoinedIn(r[i], p), \A k \in (i + 1)..Len(r) : ~About(r[k], p)
          PROVE  Ends(q, p, now)
        <3>1. i \in 1..Len(q)
            BY <1>2, <2>1, <2>3 DEF JoinedIn, About
        <3>2. \A k \in (i + 1)..Len(q) : k \in 1..Len(q) /\ k \in (i + 1)..Len(r)
            BY <1>1, <3>1
        <3> QED BY <1>1, <2>3, <3>1, <3>2 DEF Ends
    <2>4. ASSUME NEW i \in 1..Len(q), JoinedIn(q[i], p), \A k \in (i + 1)..Len(q) : ~About(q[k], p)
          PROVE  Ends(r, p, now)
        <3>1. i \in 1..Len(r) /\ r[i] = q[i]
            BY <1>1, <1>3
        <3>2. \A k \in (i + 1)..Len(r) : k \in (i + 1)..Len(q) \/ k - Len(q) \in 1..Len(t)
            BY <1>1
        <3>3. \A k \in (i + 1)..Len(r) : k \in 1..Len(r)
            BY <1>1
        <3>4. \A k \in (i + 1)..Len(r) : ~About(r[k], p)
            <4> TAKE k \in (i + 1)..Len(r)
            <4>1. CASE k \in 1..Len(q)
                <5>1. k \in (i + 1)..Len(q)
                    BY <1>1, <4>1
                <5> QED BY <1>1, <2>4, <4>1, <5>1
            <4>2. CASE k \notin 1..Len(q)
                BY <1>2, <2>1, <3>3, <4>2
            <4> QED BY <4>1, <4>2
        <3> QED BY <2>4, <3>1, <3>4 DEF Ends
    <2> QED BY <1>4, <2>2, <2>3, <2>4 DEF Ends, r
<1>5. CASE p \in P
    <2>1. PICK n \in 1..Len(t) : t[n].type = "peer-joined" /\ t[n].peer = p
        BY <1>0, <1>5
    <2>2. Len(q) + n \in 1..Len(r) /\ JoinedIn(r[Len(q) + n], p)
        BY <1>1, <1>3, <2>1 DEF JoinedIn
    <2>3. \A k \in ((Len(q) + n) + 1)..Len(r) :
             k - Len(q) \in 1..Len(t) /\ k - Len(q) # n /\ r[k] = t[k - Len(q)]
        <3> TAKE k \in ((Len(q) + n) + 1)..Len(r)
        <3>1. k \in 1..Len(r) /\ k \notin 1..Len(q) /\ k - Len(q) # n
            BY <1>1, <2>1
        <3> QED BY <1>2, <3>1
    <2>4. \A i \in 1..Len(t) : i # n => ~About(t[i], p)
        BY <1>0, <2>1 DEF About
    <2>5. \A k \in ((Len(q) + n) + 1)..Len(r) : ~About(r[k], p)
        BY <2>3, <2>4
    <2> QED BY <1>5, <2>2, <2>5 DEF Ends, r
<1> QED BY <1>4, <1>5

-----------------------------------------------------------------------------
\* What a step of one client does to it and to the others.

Calm(d) ==
    /\ state'[d] = state[d] /\ (stopping'[d] <=> stopping[d]) /\ waiting'[d] = waiting[d]
    /\ timers'[d] = timers[d] /\ tstate'[d] = tstate[d] /\ sock'[d] = sock[d]
Rests(d) == Calm(d) /\ out'[d] = out[d] /\ (d \in members' <=> d \in members)
Aside(c) == \A d \in Clients \ {c} : Rests(d)
PairsKept == entry' = entry /\ pc' = pc
InKept(c) == \A d \in Clients \ {c} : in'[d] = in[d]
Tells(c, m) == \A d \in Clients \ {c} :
    in'[d] = IF d \in Reachable(c) THEN Append(in[d], m) ELSE in[d]
Alike(c) ==
    /\ state'[c] = "closed" <=> state[c] = "closed"
    /\ state'[c] = "idle" <=> state[c] = "idle"
Torn(c) ==
    IF c = Pub THEN pc' = pc /\ \A v \in Viewers : entry'[v] = NoEntry(entry[v].id)
    ELSE /\ entry' = entry /\ pc'[c] = NoPc(pc[c].id)
         /\ \A v \in Viewers \ {c} : pc'[v] = pc[v]
Fails(c) ==
    /\ Torn(c)
    /\ \/ timers'[c] = timers[c] + 1 /\ Alike(c)
       \/ timers'[c] = timers[c] /\ state'[c] = "closed"
Connects(c, caller) ==
    \/ /\ sock'[c] = sock[c] /\ waiting'[c] = waiting[c] /\ tstate'[c] = tstate[c]
       /\ out'[c] = Append(out[c], JoinMsg)
    \/ /\ tstate[c] # "connected" /\ ~opts.auth /\ sock'[c] = "opening" /\ waiting'[c] = waiting[c]
       /\ tstate'[c] = "connecting" /\ out'[c] = Append(out[c], JoinMsg)
    \/ /\ tstate[c] # "connected" /\ opts.auth /\ sock'[c] = "auth" /\ waiting'[c] = caller
       /\ tstate'[c] = "connecting" /\ out'[c] = out[c]

\* The publisher is no viewer, and the rest of what is assumed of the constants.
LEMMA ConstantFacts ==
    /\ Pub \in Clients /\ Viewers \subseteq Clients /\ Pub \notin Viewers
    /\ \A c \in Clients : c # Pub => c \in Viewers
    /\ IsFiniteSet(Viewers) /\ MaxAttempts \in Nat /\ MaxDrops \in Nat /\ MaxFailures \in Nat
    /\ \A o \in Options : o \in AllOptions /\ (o.auto => ~o.ice)
BY MeshConstants DEF MeshConstants, Clients

\* Nothing but closing leads to "closed", and nothing but a start leaves "idle".
LEMMA Transits ==
    ASSUME NEW s \in States, NEW next \in {"connected", "reconnecting", "failed"}
    PROVE  /\ To(s, next) \in States
           /\ To(s, next) = "closed" <=> s = "closed"
           /\ To(s, next) = "idle" <=> s = "idle"
BY DEF To, Transitions, States

\* A client's queue after it says something.
LEMMA OutUpdate ==
    ASSUME QueueTypes, NEW c \in Clients, NEW q \in Seq(OutMsgs(c)),
           out' = [out EXCEPT ![c] = q]
    PROVE  /\ out' = [d \in Clients |-> out'[d]]
           /\ \A d \in Clients : out'[d] \in Seq(OutMsgs(d))
           /\ out'[c] = q /\ \A d \in Clients \ {c} : out'[d] = out[d]
BY DEF QueueTypes

\* Somebody's queue in a family of them, changed.
LEMMA QueueUpdate ==
    ASSUME NEW f, f = [d \in Clients |-> f[d]], \A d \in Clients : f[d] \in Seq(InMsgs(d)),
           NEW c \in Clients, NEW q \in Seq(InMsgs(c))
    PROVE  LET g == [f EXCEPT ![c] = q]
           IN  /\ g = [d \in Clients |-> g[d]] /\ \A d \in Clients : g[d] \in Seq(InMsgs(d))
               /\ g[c] = q /\ \A d \in Clients \ {c} : g[d] = f[d]
<1> DEFINE g == [f EXCEPT ![c] = q]
<1>1. g = [d \in Clients |-> IF d = c THEN q ELSE f[d]]
    OBVIOUS
<1> HIDE DEF g
<1>2. g = [d \in Clients |-> g[d]] /\ g[c] = q /\ \A d \in Clients \ {c} : g[d] = f[d]
    BY <1>1
<1>3. \A d \in Clients : g[d] \in Seq(InMsgs(d))
    BY <1>2
<1> QED BY <1>2, <1>3 DEF g

\* Everyone who cares about c and is listening is told.
LEMMA TellFacts ==
    ASSUME QueueTypes, NEW c \in Clients, NEW m, \A d \in Counterparts(c) : m \in InMsgs(d)
    PROVE  LET g == Tell(c, m)
           IN  /\ g = [d \in Clients |-> g[d]] /\ \A d \in Clients : g[d] \in Seq(InMsgs(d))
               /\ c \notin Reachable(c) /\ g[c] = in[c]
               /\ \A d \in Clients : g[d] = IF d \in Reachable(c) THEN Append(in[d], m) ELSE in[d]
<1> DEFINE g == Tell(c, m)
<1>1. g = [d \in Clients |-> IF d \in Reachable(c) THEN Append(in[d], m) ELSE in[d]]
    BY DEF Tell
<1> HIDE DEF g
<1>2. Reachable(c) \subseteq Counterparts(c) /\ c \notin Counterparts(c)
    BY ConstantFacts DEF Reachable, Counterparts
<1>3. /\ g = [d \in Clients |-> g[d]]
      /\ \A d \in Clients : g[d] = IF d \in Reachable(c) THEN Append(in[d], m) ELSE in[d]
    BY <1>1
<1>4. ASSUME NEW d \in Clients PROVE g[d] \in Seq(InMsgs(d))
    <2>1. in[d] \in Seq(InMsgs(d))
        BY DEF QueueTypes
    <2>2. d \in Reachable(c) => Append(in[d], m) \in Seq(InMsgs(d))
        BY <1>2, <2>1, AppendFacts
    <2> QED BY <1>3, <2>1, <2>2
<1> QED BY <1>2, <1>3, <1>4 DEF g

\* Somebody says something more.
LEMMA SaysFacts ==
    ASSUME QueueTypes, NEW c \in Clients, NEW m \in OutMsgs(c), Says(c, <<m>>)
    PROVE  /\ out' = [d \in Clients |-> out'[d]]
           /\ \A d \in Clients : out'[d] \in Seq(OutMsgs(d))
           /\ out'[c] = Append(out[c], m) /\ \A d \in Clients \ {c} : out'[d] = out[d]
<1>1. out[c] \in Seq(OutMsgs(c))
    BY DEF QueueTypes
<1> DEFINE q == Append(out[c], m)
<1>2. q \in Seq(OutMsgs(c)) /\ out[c] \o <<m>> = q
    BY <1>1, AppendFacts
<1>3. out' = [out EXCEPT ![c] = q]
    BY <1>2 DEF Says
<1> HIDE DEF q
<1> QED BY <1>2, <1>3, OutUpdate DEF q

\* What may be said, and what may be told.
LEMMA MessageFacts ==
    ASSUME NEW c \in Clients
    PROVE  /\ JoinMsg \in OutMsgs(c) /\ LeaveMsg \in OutMsgs(c)
           /\ c = Pub => \A v \in Viewers, n \in Nat : OfferMsg(v, n) \in OutMsgs(c)
           /\ c # Pub => \A n, id \in Nat : AnswerMsg(c, n, id) \in OutMsgs(c)
           /\ \A d \in Counterparts(c) : PeerJoined(c) \in InMsgs(d) /\ PeerLeft(c) \in InMsgs(d)
           /\ \A m \in OutMsgs(c) :
                /\ m.type \in {"join", "leave", "offer", "answer"}
                /\ m.type = "offer" => /\ c = Pub /\ m.to \in Viewers /\ m.offer \in Nat
                                       /\ m \in InMsgs(m.to)
                /\ m.type = "answer" => /\ c # Pub /\ m.to = Pub /\ m.from = c /\ m.offer \in Nat
                                        /\ m.pc \in Nat /\ m \in InMsgs(Pub)
           /\ \A m \in InMsgs(c) :
                /\ m.type \in {"peer-joined", "peer-left", "offer", "answer"}
                /\ m.type \in {"peer-joined", "peer-left"} => m.peer \in Counterparts(c)
                /\ m.type = "offer" => c # Pub /\ m.to = c /\ m.offer \in Nat
                /\ m.type = "answer" =>
                     c = Pub /\ m.from \in Viewers /\ m.offer \in Nat /\ m.pc \in Nat
<1> USE ConstantFacts
<1>1. JoinMsg \in OutMsgs(c) /\ LeaveMsg \in OutMsgs(c)
    BY DEF OutMsgs, Said, JoinMsg, LeaveMsg
<1>2. /\ c = Pub => \A v \in Viewers, n \in Nat : OfferMsg(v, n) \in OutMsgs(c)
      /\ c # Pub => \A n, id \in Nat : AnswerMsg(c, n, id) \in OutMsgs(c)
    BY DEF OutMsgs, Offers, Answers, OfferMsg, AnswerMsg
<1>3. \A d \in Counterparts(c) : PeerJoined(c) \in InMsgs(d) /\ PeerLeft(c) \in InMsgs(d)
    BY DEF Counterparts, InMsgs, News, PeerJoined, PeerLeft
<1>4. \A m \in OutMsgs(c) :
        /\ m.type \in {"join", "leave", "offer", "answer"}
        /\ m.type = "offer" => c = Pub /\ m.to \in Viewers /\ m.offer \in Nat /\ m \in InMsgs(m.to)
        /\ m.type = "answer" => /\ c # Pub /\ m.to = Pub /\ m.from = c /\ m.offer \in Nat
                                /\ m.pc \in Nat /\ m \in InMsgs(Pub)
    <2> TAKE m \in OutMsgs(c)
    <2>1. CASE m \in Said
        BY <2>1 DEF Said
    <2>2. CASE m \notin Said /\ c = Pub
        <3>1. m \in Offers(Viewers)
            BY <2>2 DEF OutMsgs
        <3>2. m.type = "offer" /\ m.to \in Viewers /\ m.offer \in Nat
            BY <3>1 DEF Offers
        <3>3. m \in Offers({m.to})
            BY <3>1 DEF Offers
        <3> QED BY <2>2, <3>2, <3>3 DEF InMsgs
    <2>3. CASE m \notin Said /\ c # Pub
        <3>1. m \in Answers({c})
            BY <2>3 DEF OutMsgs
        <3>2. /\ m.type = "answer" /\ m.to = Pub /\ m.from = c /\ m.offer \in Nat /\ m.pc \in Nat
              /\ m \in Answers(Viewers)
            BY <2>3, <3>1 DEF Answers
        <3> QED BY <2>3, <3>2 DEF InMsgs
    <2> QED BY <2>1, <2>2, <2>3
<1>5. \A m \in InMsgs(c) :
        /\ m.type \in {"peer-joined", "peer-left", "offer", "answer"}
        /\ m.type \in {"peer-joined", "peer-left"} => m.peer \in Counterparts(c)
        /\ m.type = "offer" => c # Pub /\ m.to = c /\ m.offer \in Nat
        /\ m.type = "answer" => c = Pub /\ m.from \in Viewers /\ m.offer \in Nat /\ m.pc \in Nat
    BY DEF InMsgs, News, Offers, Answers, Counterparts
<1> QED BY <1>1, <1>2, <1>3, <1>4, <1>5

-----------------------------------------------------------------------------
\* Parts of steps.

\* stateMachine.transition() to any state but "closed".
LEMMA BecomesFacts ==
    ASSUME ClientTypes, NEW c \in Clients,
           NEW next \in {"connected", "reconnecting", "failed"}, Becomes(c, next)
    PROVE  /\ state' \in [Clients -> States] /\ Alike(c)
           /\ \A d \in Clients \ {c} : state'[d] = state[d]
<1>1. state[c] \in States /\ state' = [state EXCEPT ![c] = To(state[c], next)]
    BY DEF ClientTypes, Becomes
<1>2. To(state[c], next) \in States /\ state'[c] = To(state[c], next)
    BY <1>1, Transits DEF ClientTypes
<1> QED BY <1>1, <1>2, Transits DEF ClientTypes, Alike

\* Connections torn down.
LEMMA TearDownFacts ==
    ASSUME PairTypes, NEW c \in Clients, TearDown(c)
    PROVE  PairTypes' /\ Torn(c)
<1>1. \A v \in Viewers : entry[v] \in Entries /\ pc[v] \in Pcs
    BY DEF PairTypes
<1>2. \A v \in Viewers : NoEntry(entry[v].id) \in Entries /\ NoPc(pc[v].id) \in Pcs
    BY <1>1 DEF NoEntry, NoPc, Entries, Pcs
<1>3. CASE c = Pub
    BY <1>2, <1>3 DEF TearDown, Torn, PairTypes
<1>4. CASE c # Pub
    BY <1>2, <1>4, ConstantFacts DEF TearDown, Torn, PairTypes
<1> QED BY <1>3, <1>4

\* handleSessionFailure: the connections go, and a retry comes or the client is closed.
LEMMA SessionFailsFacts ==
    ASSUME ClientTypes, PairTypes, NEW c \in Clients, SessionFails(c)
    PROVE  /\ PairTypes' /\ Fails(c)
           /\ state' \in [Clients -> States]
           /\ timers' \in [Clients -> Nat] /\ attempts' \in [Clients -> 0..MaxAttempts]
           /\ \A d \in Clients \ {c} : state'[d] = state[d] /\ timers'[d] = timers[d]
<1>1. PairTypes' /\ Torn(c)
    BY TearDownFacts DEF SessionFails, DropConnections
<1>2. PICK retry \in Budget(c) :
         /\ timers' = [timers EXCEPT ![c] = @ + NewTimers(retry)]
         /\ attempts' = [attempts EXCEPT ![c] = @ + (IF retry THEN 1 ELSE 0)]
         /\ state' = [state EXCEPT ![c] = IF retry THEN To(@, "failed") ELSE "closed"]
    BY DEF SessionFails
<1>3. state[c] \in States /\ timers[c] \in Nat /\ attempts[c] \in 0..MaxAttempts
    BY DEF ClientTypes
<1>4. MaxAttempts \in Nat
    BY ConstantFacts
<1>5. To(state[c], "failed") \in States
      /\ (To(state[c], "failed") = "closed" <=> state[c] = "closed")
      /\ (To(state[c], "failed") = "idle" <=> state[c] = "idle")
    BY <1>3, Transits
<1>6. CASE retry = TRUE
    <2>1. attempts[c] < MaxAttempts
        BY <1>3, <1>4, <1>6 DEF Budget
    <2>2. /\ timers' = [timers EXCEPT ![c] = timers[c] + 1]
          /\ attempts' = [attempts EXCEPT ![c] = attempts[c] + 1]
          /\ state' = [state EXCEPT ![c] = To(state[c], "failed")]
        BY <1>2, <1>6 DEF NewTimers
    <2>3. attempts[c] + 1 \in 0..MaxAttempts /\ timers[c] + 1 \in Nat
        BY <1>3, <1>4, <2>1
    <2> QED BY <1>1, <1>5, <2>2, <2>3 DEF ClientTypes, Fails, Alike
<1>7. CASE retry = FALSE
    <2>1. /\ timers' = [timers EXCEPT ![c] = timers[c] + 0]
          /\ attempts' = [attempts EXCEPT ![c] = attempts[c] + 0]
          /\ state' = [state EXCEPT ![c] = "closed"]
        BY <1>2, <1>7 DEF NewTimers
    <2>2. timers' = timers /\ attempts' = attempts
        <3>1. timers[c] + 0 = timers[c] /\ attempts[c] + 0 = attempts[c]
            BY <1>3, <1>4
        <3>2. timers' = [timers EXCEPT ![c] = timers[c]] /\ attempts' = [attempts EXCEPT ![c] = attempts[c]]
            BY <2>1, <3>1
        <3> QED BY <3>2 DEF ClientTypes
    <2>3. /\ state' \in [Clients -> States] /\ state'[c] = "closed"
          /\ \A d \in Clients \ {c} : state'[d] = state[d]
        BY <2>1 DEF ClientTypes, States
    <2>4. Fails(c)
        BY <1>1, <2>2, <2>3 DEF Fails
    <2> QED BY <1>1, <2>2, <2>3, <2>4 DEF ClientTypes
<1>8. retry \in BOOLEAN
    BY DEF Budget
<1> QED BY <1>6, <1>7, <1>8

\* connect() and join.
LEMMA ConnectFacts ==
    ASSUME ClientTypes, QueueTypes, NEW c \in Clients, NEW caller \in {"start", "attempt"},
           ConnectAndJoin(c, caller)
    PROVE  /\ Connects(c, caller)
           /\ waiting' \in [Clients -> {"none", "start", "attempt"}]
           /\ tstate' \in [Clients -> {"idle", "connecting", "connected", "reconnecting", "closed"}]
           /\ sock' \in [Clients -> Sockets]
           /\ out' = [d \in Clients |-> out'[d]]
           /\ \A d \in Clients : out'[d] \in Seq(OutMsgs(d))
           /\ \A d \in Clients \ {c} : /\ waiting'[d] = waiting[d] /\ tstate'[d] = tstate[d]
                                       /\ sock'[d] = sock[d] /\ out'[d] = out[d]
<1> DEFINE suspended == ~Busy(c) /\ opts.auth
<1>1. /\ waiting' = IF suspended THEN [waiting EXCEPT ![c] = caller] ELSE waiting
      /\ IF suspended THEN UNCHANGED out ELSE Says(c, Join)
      /\ IF Busy(c) THEN tstate' = tstate /\ sock' = sock
         ELSE /\ tstate' = [tstate EXCEPT ![c] = "connecting"]
              /\ sock' = [sock EXCEPT ![c] = IF opts.auth THEN "auth" ELSE "opening"]
    BY DEF ConnectAndJoin, linkVars
<1>2. suspended <=> ~Busy(c) /\ opts.auth
    OBVIOUS
<1> HIDE DEF suspended
<1>3. Join = <<JoinMsg>> /\ JoinMsg \in OutMsgs(c)
    BY MessageFacts DEF Join, JoinMsg
<1>4. /\ out' = [d \in Clients |-> out'[d]]
      /\ \A d \in Clients : out'[d] \in Seq(OutMsgs(d))
      /\ \A d \in Clients \ {c} : out'[d] = out[d]
      /\ out'[c] = IF suspended THEN out[c] ELSE Append(out[c], JoinMsg)
    <2>1. CASE suspended
        BY <1>1, <2>1 DEF QueueTypes
    <2>2. CASE ~suspended
        BY <1>1, <1>3, <2>2, SaysFacts
    <2> QED BY <2>1, <2>2
<1>5. CASE Busy(c)
    BY <1>1, <1>2, <1>4, <1>5 DEF ClientTypes, Connects
<1>6. CASE ~Busy(c)
    <2>1. /\ tstate'[c] = "connecting" /\ sock'[c] = IF opts.auth THEN "auth" ELSE "opening"
          /\ sock' \in [Clients -> Sockets]
          /\ tstate' \in [Clients -> {"idle", "connecting", "connected", "reconnecting", "closed"}]
          /\ \A d \in Clients \ {c} : tstate'[d] = tstate[d] /\ sock'[d] = sock[d]
        BY <1>1, <1>6 DEF ClientTypes, Sockets
    <2>2. CASE opts.auth
        BY <1>1, <1>2, <1>4, <1>6, <2>1, <2>2 DEF ClientTypes, Connects, Busy
    <2>3. CASE ~opts.auth
        BY <1>1, <1>2, <1>4, <1>6, <2>1, <2>3 DEF ClientTypes, Connects, Busy
    <2> QED BY <2>2, <2>3
<1> QED BY <1>5, <1>6

-----------------------------------------------------------------------------
\* What each action does, flat: to the client that acts, to the others, to the pairs.

\* start().
LEMMA StartFacts ==
    ASSUME TypeInv, NEW c \in Clients, Start(c)
    PROVE  /\ TypeInv' /\ opts' = opts /\ Aside(c) /\ in' = in /\ members' = members /\ PairsKept
           /\ state[c] = "idle" /\ state'[c] = "connecting" /\ ~stopping[c] /\ ~stopping'[c]
           /\ timers'[c] = timers[c] /\ Connects(c, "start")
<1>1. ClientTypes /\ PairTypes /\ QueueTypes
    BY DEF TypeInv
<1>2. /\ state[c] = "idle" /\ ~stopping[c] /\ Becomes(c, "connecting") /\ ConnectAndJoin(c, "start")
      /\ opts' = opts /\ stopping' = stopping /\ timers' = timers /\ attempts' = attempts
      /\ in' = in /\ members' = members /\ PairsKept
    BY DEF Start, pcVars, PairsKept
<1>3. /\ state' \in [Clients -> States] /\ state'[c] = "connecting"
      /\ \A d \in Clients \ {c} : state'[d] = state[d]
    <2>1. To("idle", "connecting") = "connecting"
        BY DEF To, Transitions
    <2> QED BY <1>1, <1>2, <2>1 DEF ClientTypes, Becomes, States
<1>4. /\ Connects(c, "start")
      /\ waiting' \in [Clients -> {"none", "start", "attempt"}]
      /\ tstate' \in [Clients -> {"idle", "connecting", "connected", "reconnecting", "closed"}]
      /\ sock' \in [Clients -> Sockets]
      /\ out' = [d \in Clients |-> out'[d]]
      /\ \A d \in Clients : out'[d] \in Seq(OutMsgs(d))
      /\ \A d \in Clients \ {c} : /\ waiting'[d] = waiting[d] /\ tstate'[d] = tstate[d]
                                  /\ sock'[d] = sock[d] /\ out'[d] = out[d]
    BY <1>1, <1>2, ConnectFacts
<1>5. Aside(c)
    BY <1>2, <1>3, <1>4 DEF Aside, Rests, Calm
<1>6. ClientTypes' /\ PairTypes' /\ QueueTypes'
    BY <1>1, <1>2, <1>3, <1>4 DEF ClientTypes, PairTypes, QueueTypes, PairsKept
<1> QED BY <1>2, <1>3, <1>4, <1>5, <1>6 DEF TypeInv

\* stop().
LEMMA StopFacts ==
    ASSUME TypeInv, NEW c \in Clients, Stop(c)
    PROVE  /\ TypeInv' /\ opts' = opts /\ Aside(c) /\ InKept(c) /\ in'[c] = <<>>
           /\ members' = members /\ Torn(c)
           /\ state[c] # "closed" /\ state'[c] = "closed" /\ stopping'[c]
           /\ timers'[c] = TimersAfterStop(timers[c]) /\ waiting'[c] = waiting[c]
           /\ out'[c] = Append(out[c], LeaveMsg) /\ tstate'[c] = "closed"
           /\ sock'[c] = CASE sock[c] = "open" -> "closing" [] sock[c] = "opening" -> "none"
                            [] OTHER -> sock[c]
<1>1. ClientTypes /\ PairTypes /\ QueueTypes
    BY DEF TypeInv
<1> DEFINE then == CASE sock[c] = "open" -> "closing" [] sock[c] = "opening" -> "none"
                     [] OTHER -> sock[c]
<1>2. /\ state[c] # "closed" /\ stopping' = [stopping EXCEPT ![c] = TRUE]
      /\ timers' = [timers EXCEPT ![c] = TimersAfterStop(timers[c])]
      /\ TearDown(c) /\ Says(c, <<LeaveMsg>>)
      /\ tstate' = [tstate EXCEPT ![c] = "closed"] /\ in' = [in EXCEPT ![c] = <<>>]
      /\ sock' = [sock EXCEPT ![c] = then]
      /\ state' = [state EXCEPT ![c] = "closed"]
      /\ opts' = opts /\ waiting' = waiting /\ attempts' = attempts /\ members' = members
    BY DEF Stop, Leave, LeaveMsg
<1>3. then \in Sockets
    BY <1>1 DEF ClientTypes, Sockets
<1>4. TimersAfterStop(timers[c]) \in Nat
    BY <1>1 DEF ClientTypes, TimersAfterStop
<1> HIDE DEF then
<1>5. PairTypes' /\ Torn(c)
    BY <1>1, <1>2, TearDownFacts
<1>6. /\ out' = [d \in Clients |-> out'[d]]
      /\ \A d \in Clients : out'[d] \in Seq(OutMsgs(d))
      /\ out'[c] = Append(out[c], LeaveMsg) /\ \A d \in Clients \ {c} : out'[d] = out[d]
    BY <1>1, <1>2, MessageFacts, SaysFacts
<1>7. /\ in' = [d \in Clients |-> in'[d]] /\ InKept(c) /\ in'[c] = <<>>
      /\ \A d \in Clients : in'[d] \in Seq(InMsgs(d))
    <2>1. <<>> \in Seq(InMsgs(c))
        OBVIOUS
    <2> QED BY <1>1, <1>2, <2>1, QueueUpdate DEF QueueTypes, InKept
<1>8. ClientTypes'
    BY <1>1, <1>2, <1>3, <1>4 DEF ClientTypes, States
<1>9. /\ state'[c] = "closed" /\ stopping'[c] /\ timers'[c] = TimersAfterStop(timers[c])
      /\ tstate'[c] = "closed" /\ sock'[c] = then /\ waiting'[c] = waiting[c]
    BY <1>1, <1>2 DEF ClientTypes
<1>10. Aside(c)
    BY <1>1, <1>2, <1>6 DEF ClientTypes, Aside, Rests, Calm
<1> QED BY <1>2, <1>5, <1>6, <1>7, <1>8, <1>9, <1>10 DEF TypeInv, QueueTypes, then

\* attemptReconnect.
LEMMA RetryFacts ==
    ASSUME TypeInv, NEW c \in Clients, RetryFires(c)
    PROVE  /\ TypeInv' /\ opts' = opts /\ Aside(c) /\ in' = in /\ members' = members /\ PairsKept
           /\ timers[c] > 0 /\ timers'[c] = timers[c] - 1 /\ (stopping'[c] <=> stopping[c])
           /\ \/ /\ stopping[c] /\ state'[c] = state[c] /\ waiting'[c] = waiting[c]
                 /\ tstate'[c] = tstate[c] /\ sock'[c] = sock[c] /\ out'[c] = out[c]
              \/ ~stopping[c] /\ Alike(c) /\ Connects(c, "attempt")
           /\ opts.prompt => Quiet(c)
<1>1. ClientTypes /\ PairTypes /\ QueueTypes
    BY DEF TypeInv
<1>2. /\ timers[c] > 0 /\ timers' = [timers EXCEPT ![c] = timers[c] - 1]
      /\ opts' = opts /\ stopping' = stopping /\ attempts' = attempts
      /\ in' = in /\ members' = members /\ PairsKept
      /\ opts.prompt => Quiet(c)
    BY DEF RetryFires, pcVars, PairsKept
<1>3. timers[c] - 1 \in Nat
    BY <1>1, <1>2 DEF ClientTypes
<1>4. timers' \in [Clients -> Nat] /\ timers'[c] = timers[c] - 1
      /\ \A d \in Clients \ {c} : timers'[d] = timers[d]
    BY <1>1, <1>2, <1>3 DEF ClientTypes
<1>5. CASE stopping[c]
    <2>1. state' = state /\ waiting' = waiting /\ tstate' = tstate /\ sock' = sock /\ out' = out
        BY <1>5 DEF RetryFires, GivesUp, linkVars
    <2>2. Aside(c)
        BY <1>2, <1>4, <2>1 DEF Aside, Rests, Calm
    <2>3. ClientTypes' /\ PairTypes' /\ QueueTypes'
        BY <1>1, <1>2, <1>4, <2>1 DEF ClientTypes, PairTypes, QueueTypes, PairsKept
    <2> QED BY <1>2, <1>4, <1>5, <2>1, <2>2, <2>3 DEF TypeInv
<1>6. CASE ~stopping[c]
    <2>1. Becomes(c, "reconnecting") /\ ConnectAndJoin(c, "attempt")
        BY <1>6 DEF RetryFires, GivesUp
    <2>2. /\ state' \in [Clients -> States] /\ Alike(c)
          /\ \A d \in Clients \ {c} : state'[d] = state[d]
        BY <1>1, <2>1, BecomesFacts
    <2>3. /\ Connects(c, "attempt")
          /\ waiting' \in [Clients -> {"none", "start", "attempt"}]
          /\ tstate' \in [Clients -> {"idle", "connecting", "connected", "reconnecting", "closed"}]
          /\ sock' \in [Clients -> Sockets]
          /\ out' = [d \in Clients |-> out'[d]]
          /\ \A d \in Clients : out'[d] \in Seq(OutMsgs(d))
          /\ \A d \in Clients \ {c} : /\ waiting'[d] = waiting[d] /\ tstate'[d] = tstate[d]
                                      /\ sock'[d] = sock[d] /\ out'[d] = out[d]
        BY <1>1, <2>1, ConnectFacts
    <2>4. Aside(c)
        BY <1>2, <1>4, <2>2, <2>3 DEF Aside, Rests, Calm
    <2>5. ClientTypes' /\ PairTypes' /\ QueueTypes'
        BY <1>1, <1>2, <1>4, <2>2, <2>3 DEF ClientTypes, PairTypes, QueueTypes, PairsKept
    <2> QED BY <1>2, <1>4, <1>6, <2>2, <2>3, <2>4, <2>5 DEF TypeInv
<1> QED BY <1>5, <1>6

\* connect() resolves.
LEMMA ResolveFacts ==
    ASSUME TypeInv, NEW c \in Clients, ConnectResolves(c)
    PROVE  /\ TypeInv' /\ opts' = opts /\ Aside(c) /\ in' = in /\ members' = members /\ PairsKept
           /\ sock[c] = "auth" /\ sock'[c] = "opening" /\ waiting'[c] = "none"
           /\ out'[c] = Append(out[c], JoinMsg)
           /\ state'[c] = state[c] /\ (stopping'[c] <=> stopping[c]) /\ timers'[c] = timers[c]
           /\ tstate'[c] = tstate[c]
<1>1. ClientTypes /\ PairTypes /\ QueueTypes
    BY DEF TypeInv
<1>2. /\ sock[c] = "auth" /\ sock' = [sock EXCEPT ![c] = "opening"]
      /\ waiting' = [waiting EXCEPT ![c] = "none"] /\ Says(c, <<JoinMsg>>)
      /\ opts' = opts /\ state' = state /\ stopping' = stopping /\ timers' = timers
      /\ attempts' = attempts /\ tstate' = tstate
      /\ in' = in /\ members' = members /\ PairsKept
    BY DEF ConnectResolves, pcVars, PairsKept, Join, JoinMsg
<1>3. /\ out' = [d \in Clients |-> out'[d]]
      /\ \A d \in Clients : out'[d] \in Seq(OutMsgs(d))
      /\ out'[c] = Append(out[c], JoinMsg) /\ \A d \in Clients \ {c} : out'[d] = out[d]
    BY <1>1, <1>2, MessageFacts, SaysFacts
<1>4. ClientTypes' /\ PairTypes' /\ QueueTypes'
    BY <1>1, <1>2, <1>3 DEF ClientTypes, PairTypes, QueueTypes, PairsKept, Sockets
<1>5. sock'[c] = "opening" /\ waiting'[c] = "none"
    BY <1>1, <1>2 DEF ClientTypes
<1>6. Aside(c)
    BY <1>1, <1>2, <1>3 DEF ClientTypes, Aside, Rests, Calm
<1> QED BY <1>2, <1>3, <1>4, <1>5, <1>6 DEF TypeInv

\* connect() rejects.
LEMMA RejectFacts ==
    ASSUME TypeInv, NEW c \in Clients, ConnectRejects(c)
    PROVE  /\ TypeInv' /\ opts' = opts /\ Aside(c) /\ in' = in /\ members' = members
           /\ sock[c] = "auth" /\ sock'[c] = "none" /\ waiting'[c] = "none" /\ out'[c] = out[c]
           /\ (stopping'[c] <=> stopping[c]) /\ tstate'[c] = tstate[c]
           /\ \/ waiting[c] = "attempt" /\ ~stopping[c] /\ Fails(c)
              \/ PairsKept /\ state'[c] = state[c] /\ timers'[c] = timers[c]
<1>1. ClientTypes /\ PairTypes /\ QueueTypes
    BY DEF TypeInv
<1>2. /\ sock[c] = "auth" /\ sock' = [sock EXCEPT ![c] = "none"]
      /\ waiting' = [waiting EXCEPT ![c] = "none"]
      /\ opts' = opts /\ stopping' = stopping /\ tstate' = tstate /\ out' = out
      /\ in' = in /\ members' = members
    BY DEF ConnectRejects
<1>3. /\ PairTypes' /\ state' \in [Clients -> States]
      /\ timers' \in [Clients -> Nat] /\ attempts' \in [Clients -> 0..MaxAttempts]
      /\ \A d \in Clients \ {c} : state'[d] = state[d] /\ timers'[d] = timers[d]
      /\ \/ waiting[c] = "attempt" /\ ~stopping[c] /\ Fails(c)
         \/ PairsKept /\ state'[c] = state[c] /\ timers'[c] = timers[c]
    <2>1. CASE waiting[c] = "attempt" /\ ~stopping[c]
        <3>1. SessionFails(c)
            BY <2>1 DEF ConnectRejects
        <3> QED BY <1>1, <2>1, <3>1, SessionFailsFacts
    <2>2. CASE ~(waiting[c] = "attempt" /\ ~stopping[c])
        <3>1. state' = state /\ timers' = timers /\ attempts' = attempts /\ PairsKept
            BY <2>2 DEF ConnectRejects, pcVars, PairsKept
        <3> QED BY <1>1, <3>1 DEF ClientTypes, PairTypes, PairsKept
    <2> QED BY <2>1, <2>2
<1>4. ClientTypes' /\ QueueTypes'
    BY <1>1, <1>2, <1>3 DEF ClientTypes, QueueTypes, Sockets
<1>5. sock'[c] = "none" /\ waiting'[c] = "none"
    BY <1>1, <1>2 DEF ClientTypes
<1>6. Aside(c)
    BY <1>1, <1>2, <1>3 DEF ClientTypes, Aside, Rests, Calm
<1> QED BY <1>2, <1>3, <1>4, <1>5, <1>6 DEF TypeInv

\* The success timer: of no concern to anyone.
LEMMA ResetFacts ==
    ASSUME TypeInv, NEW c \in Clients, BudgetResets(c)
    PROVE  /\ TypeInv' /\ opts' = opts /\ in' = in /\ members' = members /\ PairsKept
           /\ \A d \in Clients : Rests(d)
<1>1. ClientTypes /\ PairTypes /\ QueueTypes
    BY DEF TypeInv
<1>2. /\ opts' = opts /\ state' = state /\ stopping' = stopping /\ waiting' = waiting
      /\ timers' = timers /\ tstate' = tstate /\ sock' = sock /\ out' = out
      /\ in' = in /\ members' = members /\ PairsKept
    BY DEF BudgetResets, pcVars, linkVars, PairsKept
<1>3. PICK n \in {0, attempts[c]} : attempts' = [attempts EXCEPT ![c] = n]
    BY DEF BudgetResets
<1>4. n \in 0..MaxAttempts
    BY <1>1, ConstantFacts DEF ClientTypes
<1>5. attempts' \in [Clients -> 0..MaxAttempts]
    BY <1>1, <1>3, <1>4 DEF ClientTypes
<1>6. ClientTypes' /\ PairTypes' /\ QueueTypes'
    BY <1>1, <1>2, <1>5 DEF ClientTypes, PairTypes, QueueTypes, PairsKept
<1> QED BY <1>2, <1>6 DEF TypeInv, Rests, Calm

\* A socket opens.
LEMMA OpenFacts ==
    ASSUME TypeInv, NEW c \in Clients, Opens(c)
    PROVE  /\ TypeInv' /\ opts' = opts /\ Aside(c) /\ in' = in /\ members' = members /\ PairsKept
           /\ sock[c] = "opening" /\ sock'[c] = "open" /\ tstate'[c] = "connected" /\ Alike(c)
           /\ out'[c] = out[c] /\ (stopping'[c] <=> stopping[c]) /\ timers'[c] = timers[c]
           /\ waiting'[c] = waiting[c]
<1>1. ClientTypes /\ PairTypes /\ QueueTypes
    BY DEF TypeInv
<1>2. /\ sock[c] = "opening" /\ sock' = [sock EXCEPT ![c] = "open"]
      /\ tstate' = [tstate EXCEPT ![c] = "connected"]
      /\ opts' = opts /\ stopping' = stopping /\ timers' = timers /\ waiting' = waiting
      /\ attempts' = attempts /\ out' = out /\ in' = in /\ members' = members /\ PairsKept
      /\ state' = state \/ Becomes(c, "connected")
    BY DEF Opens, pcVars, PairsKept, MaybeMarkConnected
<1>3. /\ state' \in [Clients -> States] /\ Alike(c)
      /\ \A d \in Clients \ {c} : state'[d] = state[d]
    <2>1. CASE state' = state
        BY <1>1, <2>1 DEF ClientTypes, Alike
    <2>2. CASE Becomes(c, "connected")
        BY <1>1, <2>2, BecomesFacts
    <2> QED BY <1>2, <2>1, <2>2
<1>4. ClientTypes' /\ PairTypes' /\ QueueTypes'
    BY <1>1, <1>2, <1>3 DEF ClientTypes, PairTypes, QueueTypes, PairsKept, Sockets
<1>5. sock'[c] = "open" /\ tstate'[c] = "connected"
    BY <1>1, <1>2 DEF ClientTypes
<1>6. Aside(c)
    BY <1>1, <1>2, <1>3 DEF ClientTypes, Aside, Rests, Calm
<1> QED BY <1>2, <1>3, <1>4, <1>5, <1>6 DEF TypeInv

\* A socket closes, and the server drops the peer.
LEMMA CloseFacts ==
    ASSUME TypeInv, NEW c \in Clients, Closes(c)
    PROVE  /\ TypeInv' /\ opts' = opts /\ Aside(c) /\ c \notin members' /\ in'[c] = <<>>
           /\ sock[c] \in {"opening", "open", "closing"} /\ sock'[c] = "none"
           /\ out'[c] = IF sock[c] = "opening" THEN out[c] ELSE <<>>
           /\ IF c \in members THEN Tells(c, PeerLeft(c)) ELSE InKept(c)
           /\ (stopping'[c] <=> stopping[c]) /\ waiting'[c] = waiting[c]
           /\ tstate'[c] = IF opts.auto /\ ~stopping[c] THEN "reconnecting" ELSE "closed"
           /\ \/ Listening(c) /\ ~opts.auto /\ state[c] # "closed" /\ Fails(c)
              \/ /\ ~(Listening(c) /\ ~opts.auto /\ state[c] # "closed")
                 /\ PairsKept /\ Alike(c) /\ timers'[c] = timers[c]
<1>1. ClientTypes /\ PairTypes /\ QueueTypes
    BY DEF TypeInv
<1> DEFINE again == opts.auto /\ ~stopping[c]
           told == IF c \in members THEN Tell(c, PeerLeft(c)) ELSE in
<1>2. /\ sock[c] \in {"opening", "open", "closing"} /\ sock' = [sock EXCEPT ![c] = "none"]
      /\ out' = IF sock[c] = "opening" THEN out ELSE [out EXCEPT ![c] = <<>>]
      /\ in' = [told EXCEPT ![c] = <<>>]
      /\ members' = members \ {c}
      /\ tstate' = [tstate EXCEPT ![c] = IF again THEN "reconnecting" ELSE "closed"]
      /\ opts' = opts /\ stopping' = stopping /\ waiting' = waiting
    BY DEF Closes
<1>3. /\ Listening(c) /\ again =>
           Becomes(c, "reconnecting") /\ UNCHANGED <<timers, attempts, pcVars>>
      /\ Listening(c) /\ ~again /\ state[c] # "closed" => SessionFails(c)
      /\ ~(Listening(c) /\ again) /\ ~(Listening(c) /\ ~again /\ state[c] # "closed")
           => UNCHANGED <<state, fresh, timers, attempts, pcVars>>
    BY DEF Closes
<1>4. Listening(c) => (again <=> opts.auto)
    BY DEF Listening
<1>5. again <=> opts.auto /\ ~stopping[c]
    OBVIOUS
<1> HIDE DEF again
<1>6. /\ PairTypes' /\ state' \in [Clients -> States]
      /\ timers' \in [Clients -> Nat] /\ attempts' \in [Clients -> 0..MaxAttempts]
      /\ \A d \in Clients \ {c} : state'[d] = state[d] /\ timers'[d] = timers[d]
      /\ \/ Listening(c) /\ ~opts.auto /\ state[c] # "closed" /\ Fails(c)
         \/ /\ ~(Listening(c) /\ ~opts.auto /\ state[c] # "closed")
            /\ PairsKept /\ Alike(c) /\ timers'[c] = timers[c]
    <2>1. CASE Listening(c) /\ again
        <3>1. Becomes(c, "reconnecting") /\ timers' = timers /\ attempts' = attempts /\ PairsKept
            BY <1>3, <2>1 DEF pcVars, PairsKept
        <3>2. /\ state' \in [Clients -> States] /\ Alike(c)
              /\ \A d \in Clients \ {c} : state'[d] = state[d]
            BY <1>1, <3>1, BecomesFacts
        <3> QED BY <1>1, <1>4, <2>1, <3>1, <3>2 DEF ClientTypes, PairTypes, PairsKept
    <2>2. CASE Listening(c) /\ ~again /\ state[c] # "closed"
        <3>1. SessionFails(c)
            BY <1>3, <2>2
        <3> QED BY <1>1, <1>4, <2>2, <3>1, SessionFailsFacts
    <2>3. CASE ~(Listening(c) /\ again) /\ ~(Listening(c) /\ ~again /\ state[c] # "closed")
        <3>1. state' = state /\ timers' = timers /\ attempts' = attempts /\ PairsKept
            BY <1>3, <2>3 DEF pcVars, PairsKept
        <3> QED BY <1>1, <1>4, <2>3, <3>1 DEF ClientTypes, PairTypes, PairsKept, Alike
    <2> QED BY <2>1, <2>2, <2>3
<1>7. ClientTypes'
    BY <1>1, <1>2, <1>6 DEF ClientTypes, Sockets
<1>8. /\ out' = [d \in Clients |-> out'[d]] /\ \A d \in Clients : out'[d] \in Seq(OutMsgs(d))
      /\ out'[c] = (IF sock[c] = "opening" THEN out[c] ELSE <<>>)
      /\ \A d \in Clients \ {c} : out'[d] = out[d]
    <2>1. CASE sock[c] = "opening"
        BY <1>1, <1>2, <2>1 DEF QueueTypes
    <2>2. CASE sock[c] # "opening"
        <3>1. <<>> \in Seq(OutMsgs(c)) /\ out' = [out EXCEPT ![c] = <<>>]
            BY <1>2, <2>2
        <3> QED BY <1>1, <2>2, <3>1, OutUpdate
    <2> QED BY <2>1, <2>2
<1>9. /\ told = [d \in Clients |-> told[d]] /\ \A d \in Clients : told[d] \in Seq(InMsgs(d))
      /\ c \in members => \A d \in Clients :
            told[d] = IF d \in Reachable(c) THEN Append(in[d], PeerLeft(c)) ELSE in[d]
      /\ c \notin members => told = in
    <2>1. CASE c \in members
        BY <1>1, <2>1, MessageFacts, TellFacts
    <2>2. CASE c \notin members
        BY <1>1, <2>2 DEF QueueTypes
    <2> QED BY <2>1, <2>2
<1> HIDE DEF told
<1>10. /\ in' = [d \in Clients |-> in'[d]] /\ \A d \in Clients : in'[d] \in Seq(InMsgs(d))
       /\ in'[c] = <<>> /\ \A d \in Clients \ {c} : in'[d] = told[d]
    <2>1. <<>> \in Seq(InMsgs(c))
        OBVIOUS
    <2> QED BY <1>2, <1>9, <2>1, QueueUpdate
<1>11. IF c \in members THEN Tells(c, PeerLeft(c)) ELSE InKept(c)
    BY <1>9, <1>10 DEF Tells, InKept
<1>12. sock'[c] = "none" /\ tstate'[c] = IF opts.auto /\ ~stopping[c] THEN "reconnecting" ELSE "closed"
    BY <1>1, <1>2, <1>5 DEF ClientTypes
<1>13. Aside(c)
    BY <1>1, <1>2, <1>6, <1>8 DEF ClientTypes, Aside, Rests, Calm
<1> QED BY <1>1, <1>2, <1>6, <1>7, <1>8, <1>10, <1>11, <1>12, <1>13 DEF TypeInv, QueueTypes

\* The transport's own retry.
LEMMA AutoFacts ==
    ASSUME TypeInv, NEW c \in Clients, AutoReconnects(c)
    PROVE  /\ TypeInv' /\ opts' = opts /\ Aside(c) /\ in' = in /\ members' = members /\ PairsKept
           /\ tstate[c] = "reconnecting" /\ sock[c] = "none" /\ sock'[c] = "opening"
           /\ tstate'[c] = tstate[c] /\ state'[c] = state[c] /\ out'[c] = out[c]
           /\ (stopping'[c] <=> stopping[c]) /\ timers'[c] = timers[c] /\ waiting'[c] = waiting[c]
           /\ opts.prompt => Quiet(c)
<1>1. ClientTypes /\ PairTypes /\ QueueTypes
    BY DEF TypeInv
<1>2. /\ tstate[c] = "reconnecting" /\ sock[c] = "none" /\ sock' = [sock EXCEPT ![c] = "opening"]
      /\ opts' = opts /\ state' = state /\ stopping' = stopping /\ timers' = timers
      /\ waiting' = waiting /\ attempts' = attempts /\ tstate' = tstate /\ out' = out
      /\ in' = in /\ members' = members /\ PairsKept
      /\ opts.prompt => Quiet(c)
    BY DEF AutoReconnects, cliVars, pcVars, PairsKept
<1>3. ClientTypes' /\ PairTypes' /\ QueueTypes'
    BY <1>1, <1>2 DEF ClientTypes, PairTypes, QueueTypes, PairsKept, Sockets
<1>4. sock'[c] = "opening"
    BY <1>1, <1>2 DEF ClientTypes
<1>5. Aside(c)
    BY <1>1, <1>2 DEF ClientTypes, Aside, Rests, Calm
<1> QED BY <1>2, <1>3, <1>4, <1>5 DEF TypeInv

\* The greeting of c: a peer-joined for each counterpart in the room.
Present(c) == Counterparts(c) \cap members
Greeting(c) == [i \in DOMAIN SetToSeq(Present(c)) |-> PeerJoined(SetToSeq(Present(c))[i])]

\* It names each of them once.
LEMMA GreetingFacts ==
    ASSUME NEW c \in Clients
    PROVE  LET t == Greeting(c)
           IN  t \in Seq(InMsgs(c)) /\ Greets(t, Present(c))
<1> DEFINE S == Present(c)
           q == SetToSeq(S)
           t == Greeting(c)
<1>1. IsFiniteSet(S)
    <2>1. IsFiniteSet({Pub}) /\ IsFiniteSet(Viewers)
        BY ConstantFacts, FS_Singleton
    <2>2. S \subseteq {Pub} \/ S \subseteq Viewers
        BY DEF Present, Counterparts
    <2> QED BY <2>1, <2>2, FS_Subset
<1>2. S \subseteq Counterparts(c)
    BY DEF Present
<1> HIDE DEF S
<1>3. /\ q \in Seq(S) /\ \A e \in S : \E i \in 1..Len(q) : q[i] = e
      /\ \A i, k \in 1..Len(q) : q[i] = q[k] => i = k
    BY <1>1, SetToSeqFacts
<1>4. t = [i \in DOMAIN q |-> PeerJoined(q[i])]
    BY DEF Greeting, S
<1> HIDE DEF q, t
<1>5. DOMAIN q = 1..Len(q) /\ Len(q) \in Nat /\ \A i \in 1..Len(q) : q[i] \in S
    BY <1>3
<1>6. \A e \in S : PeerJoined(e) \in InMsgs(c) /\ PeerJoined(e).type = "peer-joined" /\ PeerJoined(e).peer = e
    BY <1>2, ConstantFacts DEF Counterparts, InMsgs, News, PeerJoined
<1>7. Len(t) = Len(q) /\ t \in Seq(InMsgs(c)) /\ \A i \in 1..Len(q) : t[i] = PeerJoined(q[i])
    BY <1>4, <1>5, <1>6
<1>8. \A i \in 1..Len(t) : t[i].type = "peer-joined" /\ t[i].peer = q[i] /\ q[i] \in S
    BY <1>5, <1>6, <1>7
<1>9. Greets(t, S)
    BY <1>3, <1>7, <1>8 DEF Greets
<1> QED BY <1>7, <1>9 DEF t, S

\* What the server does with any message.
LEMMA ReceiveFacts ==
    ASSUME TypeInv, NEW c \in Clients, ServerReceives(c)
    PROVE  /\ opts' = opts /\ PairsKept /\ PairTypes' /\ Calm(c)
           /\ sock[c] \in {"open", "closing"} /\ out[c] # <<>> /\ out'[c] = Tail(out[c])
           /\ out[c] \in Seq(OutMsgs(c)) /\ in[c] \in Seq(InMsgs(c))
           /\ Head(out[c]) \in OutMsgs(c)
           /\ out' = [d \in Clients |-> out'[d]] /\ \A d \in Clients : out'[d] \in Seq(OutMsgs(d))
           /\ \A d \in Clients \ {c} : Calm(d) /\ out'[d] = out[d]
           /\ members' \subseteq Clients => ClientTypes'
<1>1. ClientTypes /\ PairTypes /\ QueueTypes
    BY DEF TypeInv
<1>2. /\ sock[c] \in {"open", "closing"} /\ out[c] # <<>> /\ out' = [out EXCEPT ![c] = Tail(out[c])]
      /\ opts' = opts /\ state' = state /\ stopping' = stopping /\ timers' = timers
      /\ waiting' = waiting /\ attempts' = attempts /\ tstate' = tstate /\ sock' = sock /\ PairsKept
    BY DEF ServerReceives, cliVars, pcVars, linkVars, PairsKept
<1>3. out[c] \in Seq(OutMsgs(c)) /\ in[c] \in Seq(InMsgs(c))
    BY <1>1 DEF QueueTypes
<1> DEFINE q == Tail(out[c])
<1>4. q \in Seq(OutMsgs(c)) /\ Head(out[c]) \in OutMsgs(c)
    BY <1>2, <1>3, TailFacts
<1>5. out' = [out EXCEPT ![c] = q]
    BY <1>2
<1> HIDE DEF q
<1>6. /\ out' = [d \in Clients |-> out'[d]] /\ \A d \in Clients : out'[d] \in Seq(OutMsgs(d))
      /\ out'[c] = q /\ \A d \in Clients \ {c} : out'[d] = out[d]
    BY <1>1, <1>4, <1>5, OutUpdate
<1>7. members' \subseteq Clients => ClientTypes'
    BY <1>1, <1>2 DEF ClientTypes
<1>8. PairTypes'
    BY <1>1, <1>2 DEF PairTypes, PairsKept
<1> QED BY <1>2, <1>3, <1>4, <1>6, <1>7, <1>8 DEF Calm, q

\* A join: c is in the room, those who care are told, and c is told who is there.
LEMMA JoinFacts ==
    ASSUME TypeInv, NEW c \in Clients, ServerReceives(c), Head(out[c]).type = "join"
    PROVE  /\ TypeInv' /\ Aside(c) /\ c \in members' /\ Tells(c, PeerJoined(c))
           /\ in'[c] = IF Hears(c) THEN in[c] \o Greeting(c) ELSE in[c]
<1>1. ClientTypes /\ PairTypes /\ QueueTypes
    BY DEF TypeInv
<1> DEFINE f == Tell(c, PeerJoined(c))
           q == IF Hears(c) THEN in[c] \o Greeting(c) ELSE in[c]
<1>2. /\ f = [d \in Clients |-> f[d]] /\ \A d \in Clients : f[d] \in Seq(InMsgs(d))
      /\ f[c] = in[c]
      /\ \A d \in Clients : f[d] = IF d \in Reachable(c) THEN Append(in[d], PeerJoined(c)) ELSE in[d]
    BY <1>1, MessageFacts, TellFacts
<1>3. members' = members \cup {c} /\ in' = [f EXCEPT ![c] = IF ~Hears(c) THEN @ ELSE @ \o Greeting(c)]
    BY DEF ServerReceives, Greeting, Present
<1> HIDE DEF f
<1>4. in' = [f EXCEPT ![c] = q]
    BY <1>2, <1>3
<1>5. q \in Seq(InMsgs(c))
    <2>1. in[c] \in Seq(InMsgs(c)) /\ Greeting(c) \in Seq(InMsgs(c))
        BY <1>1, GreetingFacts DEF QueueTypes
    <2>2. in[c] \o Greeting(c) \in Seq(InMsgs(c))
        BY <2>1, ConcatFacts
    <2> QED BY <2>1, <2>2
<1>6. q = IF Hears(c) THEN in[c] \o Greeting(c) ELSE in[c]
    OBVIOUS
<1> HIDE DEF q
<1>7. /\ in' = [d \in Clients |-> in'[d]] /\ \A d \in Clients : in'[d] \in Seq(InMsgs(d))
      /\ in'[c] = q /\ \A d \in Clients \ {c} : in'[d] = f[d]
    BY <1>2, <1>4, <1>5, QueueUpdate
<1>8. Tells(c, PeerJoined(c))
    BY <1>2, <1>7 DEF Tells
<1>9. TypeInv'
    BY <1>1, <1>3, <1>7, ReceiveFacts DEF TypeInv, QueueTypes, ClientTypes
<1>10. Aside(c)
    BY <1>3, ReceiveFacts DEF Aside, Rests
<1> QED BY <1>3, <1>6, <1>7, <1>8, <1>9, <1>10

\* A leave: c is out of it, and those who care are told if it was in.
LEMMA LeaveFacts ==
    ASSUME TypeInv, NEW c \in Clients, ServerReceives(c), Head(out[c]).type = "leave"
    PROVE  /\ TypeInv' /\ Aside(c) /\ c \notin members' /\ in'[c] = in[c]
           /\ IF c \in members THEN Tells(c, PeerLeft(c)) ELSE InKept(c)
<1>1. ClientTypes /\ PairTypes /\ QueueTypes
    BY DEF TypeInv
<1>2. members' = members \ {c} /\ in' = IF c \in members THEN Tell(c, PeerLeft(c)) ELSE in
    BY DEF ServerReceives
<1>3. /\ in' = [d \in Clients |-> in'[d]] /\ \A d \in Clients : in'[d] \in Seq(InMsgs(d))
      /\ in'[c] = in[c] /\ IF c \in members THEN Tells(c, PeerLeft(c)) ELSE InKept(c)
    <2>1. CASE c \in members
        BY <1>1, <1>2, <2>1, MessageFacts, TellFacts DEF Tells
    <2>2. CASE c \notin members
        BY <1>1, <1>2, <2>2 DEF QueueTypes, InKept
    <2> QED BY <2>1, <2>2
<1>4. TypeInv'
    BY <1>1, <1>2, <1>3, ReceiveFacts DEF TypeInv, QueueTypes, ClientTypes
<1>5. Aside(c)
    BY <1>2, ReceiveFacts DEF Aside, Rests
<1> QED BY <1>2, <1>3, <1>4, <1>5

\* An offer or an answer: passed on to its addressee, who is somebody else.
LEMMA PassFacts ==
    ASSUME TypeInv, NEW c \in Clients, ServerReceives(c),
           Head(out[c]).type \in {"offer", "answer"}
    PROVE  LET m == Head(out[c])
           IN  /\ TypeInv' /\ Aside(c) /\ (c \in members' <=> c \in members)
               /\ m.to \in Clients \ {c} /\ m \in InMsgs(m.to) /\ in'[c] = in[c]
               /\ \A d \in Clients \ {c} :
                    in'[d] = IF d = m.to /\ d \in Reachable(c) THEN Append(in[d], m) ELSE in[d]
<1>1. ClientTypes /\ PairTypes /\ QueueTypes
    BY DEF TypeInv
<1> DEFINE m == Head(out[c])
<1>2. /\ members' = members
      /\ in' = IF m.to \in Reachable(c) THEN [in EXCEPT ![m.to] = Append(in[m.to], m)] ELSE in
    BY DEF ServerReceives
<1>3. m \in OutMsgs(c) /\ m.type \in {"offer", "answer"}
    BY ReceiveFacts
<1> HIDE DEF m
<1>4. m.to \in Clients \ {c} /\ m \in InMsgs(m.to)
    BY <1>3, MessageFacts, ConstantFacts
<1>5. /\ in' = [d \in Clients |-> in'[d]] /\ \A d \in Clients : in'[d] \in Seq(InMsgs(d))
      /\ \A d \in Clients : in'[d] = IF d = m.to /\ d \in Reachable(c) THEN Append(in[d], m) ELSE in[d]
    <2>1. CASE m.to \in Reachable(c)
        <3> DEFINE q == Append(in[m.to], m)
        <3>1. in[m.to] \in Seq(InMsgs(m.to))
            BY <1>1, <1>4 DEF QueueTypes
        <3>2. q \in Seq(InMsgs(m.to)) /\ in' = [in EXCEPT ![m.to] = q]
            BY <1>2, <1>4, <2>1, <3>1, AppendFacts
        <3>3. q = Append(in[m.to], m)
            OBVIOUS
        <3> HIDE DEF q
        <3>4. /\ in' = [d \in Clients |-> in'[d]] /\ \A d \in Clients : in'[d] \in Seq(InMsgs(d))
              /\ in'[m.to] = q /\ \A d \in Clients \ {m.to} : in'[d] = in[d]
            BY <1>1, <1>4, <3>2, QueueUpdate DEF QueueTypes
        <3> QED BY <2>1, <3>3, <3>4
    <2>2. CASE m.to \notin Reachable(c)
        BY <1>1, <1>2, <2>2 DEF QueueTypes
    <2> QED BY <2>1, <2>2
<1>6. TypeInv'
    BY <1>1, <1>2, <1>5, ReceiveFacts DEF TypeInv, QueueTypes, ClientTypes
<1>7. Aside(c)
    BY <1>2, ReceiveFacts DEF Aside, Rests
<1> QED BY <1>2, <1>4, <1>5, <1>6, <1>7 DEF m

\* The publisher reads a message: the pair with whoever it is about may change.
Reads(m, v) ==
    \/ /\ m.type = "peer-joined" /\ m.peer = v /\ entry[v].sdp = "none"
       /\ entry'[v] = NewEntry(v)
    \/ m.type = "peer-left" /\ m.peer = v /\ entry'[v] = NoEntry(entry[v].id)
    \/ /\ m.type = "answer" /\ m.from = v /\ entry[v].sdp = "offered"
       /\ entry'[v] = [id |-> entry[v].id, sdp |-> "stable", answer |-> <<m.offer, m.pc>>]
    \/ /\ ~(m.type = "peer-joined" /\ m.peer = v /\ entry[v].sdp = "none")
       /\ ~(m.type = "peer-left" /\ m.peer = v)
       /\ ~(m.type = "answer" /\ m.from = v /\ entry[v].sdp = "offered")
       /\ entry'[v] = entry[v]

\* An answer noted in an entry.
LEMMA EntryAnswered ==
    ASSUME NEW e \in Entries, NEW s \in {"none", "making", "offered", "stable"},
           NEW a \in Nat \X Nat
    PROVE  [e EXCEPT !.sdp = s, !.answer = a] = [id |-> e.id, sdp |-> s, answer |-> a]
<1> DEFINE f == [e EXCEPT !.sdp = s, !.answer = a]
<1>1. f \in Entries /\ f.id = e.id /\ f.sdp = s /\ f.answer = a
    BY DEF Entries
<1> HIDE DEF f
<1>2. f = [id |-> f.id, sdp |-> f.sdp, answer |-> f.answer]
    BY <1>1 DEF Entries
<1> QED BY <1>1, <1>2 DEF f

\* handleMessage of the publisher.
LEMMA PublisherFacts ==
    ASSUME TypeInv, PublisherReceives
    PROVE  /\ TypeInv' /\ opts' = opts /\ members' = members /\ \A d \in Clients : Rests(d)
           /\ in[Pub] # <<>> /\ in'[Pub] = Tail(in[Pub]) /\ InKept(Pub)
           /\ pc' = pc /\ \A v \in Viewers : Reads(Head(in[Pub]), v)
<1> DEFINE m == Head(in[Pub])
           q == Tail(in[Pub])
<1>1. ClientTypes /\ PairTypes /\ QueueTypes
    BY DEF TypeInv
<1>2. Pub \in Clients
    BY ConstantFacts
<1>3. /\ in[Pub] # <<>> /\ in' = [in EXCEPT ![Pub] = q]
      /\ opts' = opts /\ state' = state /\ stopping' = stopping /\ timers' = timers
      /\ waiting' = waiting /\ attempts' = attempts /\ tstate' = tstate /\ sock' = sock
      /\ pc' = pc /\ out' = out /\ members' = members
    BY DEF PublisherReceives, cliVars, linkVars
<1>4. in[Pub] \in Seq(InMsgs(Pub))
    BY <1>1, <1>2 DEF QueueTypes
<1>5. q \in Seq(InMsgs(Pub)) /\ m \in InMsgs(Pub)
    BY <1>3, <1>4, TailFacts
<1>6. /\ m.type \in {"peer-joined", "peer-left"} => m.peer \in Viewers
      /\ m.type = "answer" => m.from \in Viewers /\ m.offer \in Nat /\ m.pc \in Nat
    BY <1>2, <1>5, MessageFacts DEF Counterparts
<1>7. entry' = CASE m.type = "peer-joined" /\ m.peer \notin Known ->
                      [entry EXCEPT ![m.peer] = NewEntry(m.peer)]
                 [] m.type = "peer-left" -> [entry EXCEPT ![m.peer] = NoEntry(@.id)]
                 [] m.type = "answer" /\ entry[m.from].sdp = "offered" ->
                      [entry EXCEPT ![m.from] = [@ EXCEPT !.sdp = "stable",
                                                            !.answer = <<m.offer, m.pc>>]]
                 [] OTHER -> entry
    BY DEF PublisherReceives, Forgets
<1> HIDE DEF q, m
<1>8. entry' \in [Viewers -> Entries] /\ \A v \in Viewers : Reads(m, v)
    <2>1. CASE m.type = "peer-joined" /\ m.peer \notin Known
        <3>1. entry' = [entry EXCEPT ![m.peer] = NewEntry(m.peer)]
            BY <1>7, <2>1
        <3>2. NewEntry(m.peer) \in Entries /\ entry[m.peer].sdp = "none"
            BY <1>1, <1>6, <2>1 DEF PairTypes, NewEntry, Entries, Known
        <3> QED BY <1>1, <1>6, <2>1, <3>1, <3>2 DEF PairTypes, Reads
    <2>2. CASE m.type = "peer-left"
        <3>1. entry' = [entry EXCEPT ![m.peer] = NoEntry(entry[m.peer].id)]
            BY <1>7, <2>2
        <3>2. NoEntry(entry[m.peer].id) \in Entries
            BY <1>1, <1>6, <2>2 DEF PairTypes, NoEntry, Entries
        <3> QED BY <1>1, <1>6, <2>2, <3>1, <3>2 DEF PairTypes, Reads
    <2>3. CASE m.type = "answer" /\ entry[m.from].sdp = "offered"
        <3> DEFINE e == [id |-> entry[m.from].id, sdp |-> "stable", answer |-> <<m.offer, m.pc>>]
        <3>1. entry[m.from] \in Entries
            BY <1>1, <1>6, <2>3 DEF PairTypes
        <3>2. e = [entry[m.from] EXCEPT !.sdp = "stable", !.answer = <<m.offer, m.pc>>]
            BY <1>6, <2>3, <3>1, EntryAnswered
        <3>3. e \in Entries
            BY <1>6, <2>3, <3>1 DEF Entries
        <3>4. entry' = [entry EXCEPT ![m.from] = e]
            BY <1>7, <2>3, <3>2
        <3> HIDE DEF e
        <3>5. entry' \in [Viewers -> Entries] /\ entry'[m.from] = e
              /\ \A v \in Viewers \ {m.from} : entry'[v] = entry[v]
            BY <1>1, <1>6, <2>3, <3>3, <3>4 DEF PairTypes
        <3> QED BY <2>3, <3>5 DEF Reads, e
    <2>4. CASE /\ ~(m.type = "peer-joined" /\ m.peer \notin Known) /\ m.type # "peer-left"
               /\ ~(m.type = "answer" /\ entry[m.from].sdp = "offered")
        <3>1. entry' = entry
            BY <1>7, <2>4
        <3> QED BY <1>1, <1>6, <2>4, <3>1 DEF PairTypes, Reads, Known
    <2> QED BY <2>1, <2>2, <2>3, <2>4
<1>9. /\ in' = [d \in Clients |-> in'[d]] /\ \A d \in Clients : in'[d] \in Seq(InMsgs(d))
      /\ in'[Pub] = q /\ \A d \in Clients \ {Pub} : in'[d] = in[d]
    BY <1>1, <1>2, <1>3, <1>5, QueueUpdate DEF QueueTypes
<1>10. TypeInv'
    BY <1>1, <1>3, <1>8, <1>9 DEF TypeInv, ClientTypes, PairTypes, QueueTypes
<1> QED BY <1>3, <1>8, <1>9, <1>10 DEF Rests, Calm, InKept, q, m

\* makeOffer.
LEMMA OfferFacts ==
    ASSUME TypeInv, NEW v \in Viewers, OfferMade(v)
    PROVE  /\ TypeInv' /\ opts' = opts /\ members' = members /\ Calm(Pub) /\ Aside(Pub)
           /\ in' = in /\ pc' = pc /\ entry[v].sdp = "making"
           /\ entry'[v].id = entry[v].id /\ entry'[v].sdp = "offered"
           /\ \A w \in Viewers \ {v} : entry'[w] = entry[w]
           /\ out'[Pub] = Append(out[Pub], OfferMsg(v, entry[v].id))
<1>1. ClientTypes /\ PairTypes /\ QueueTypes
    BY DEF TypeInv
<1>2. Pub \in Clients
    BY ConstantFacts
<1>3. /\ entry[v].sdp = "making" /\ entry' = [entry EXCEPT ![v] = [entry[v] EXCEPT !.sdp = "offered"]]
      /\ Says(Pub, <<OfferMsg(v, entry[v].id)>>)
      /\ opts' = opts /\ state' = state /\ stopping' = stopping /\ timers' = timers
      /\ waiting' = waiting /\ attempts' = attempts /\ tstate' = tstate /\ sock' = sock
      /\ pc' = pc /\ in' = in /\ members' = members
    BY DEF OfferMade, OfferMsg, cliVars, linkVars
<1> DEFINE e == [entry[v] EXCEPT !.sdp = "offered"]
<1>4. entry[v] \in Entries /\ entry[v].id \in Nat
    BY <1>1 DEF PairTypes, Entries
<1>5. e \in Entries /\ e.id = entry[v].id /\ e.sdp = "offered"
    BY <1>4 DEF Entries
<1>6. entry' = [entry EXCEPT ![v] = e]
    BY <1>3
<1> HIDE DEF e
<1>7. entry' \in [Viewers -> Entries] /\ entry'[v] = e /\ \A w \in Viewers \ {v} : entry'[w] = entry[w]
    BY <1>1, <1>5, <1>6 DEF PairTypes
<1>8. OfferMsg(v, entry[v].id) \in OutMsgs(Pub)
    BY <1>2, <1>4, MessageFacts
<1>9. /\ out' = [d \in Clients |-> out'[d]] /\ \A d \in Clients : out'[d] \in Seq(OutMsgs(d))
      /\ out'[Pub] = Append(out[Pub], OfferMsg(v, entry[v].id))
      /\ \A d \in Clients \ {Pub} : out'[d] = out[d]
    BY <1>1, <1>2, <1>3, <1>8, SaysFacts
<1>10. TypeInv'
    BY <1>1, <1>3, <1>7, <1>9 DEF TypeInv, ClientTypes, PairTypes, QueueTypes
<1> QED BY <1>3, <1>5, <1>7, <1>9, <1>10 DEF Aside, Rests, Calm

\* The viewer may come to be connected: its state is neither closed nor idle for that.
LEMMA MarkFacts ==
    ASSUME ClientTypes, NEW v \in Viewers, MaybeMarkConnected(v)
    PROVE  /\ state' \in [Clients -> States] /\ Alike(v)
           /\ \A d \in Clients \ {v} : state'[d] = state[d]
<1>1. v \in Clients
    BY ConstantFacts
<1>2. state' = state \/ Becomes(v, "connected")
    BY DEF MaybeMarkConnected
<1>3. CASE state' = state
    BY <1>1, <1>3 DEF ClientTypes, Alike
<1>4. CASE Becomes(v, "connected")
    BY <1>1, <1>4, BecomesFacts
<1> QED BY <1>2, <1>3, <1>4

\* handleMessage of a viewer.
LEMMA ViewerFacts ==
    ASSUME TypeInv, NEW v \in Viewers, ViewerReceives(v)
    PROVE  LET m == Head(in[v])
           IN  /\ TypeInv' /\ opts' = opts /\ members' = members /\ Aside(v)
               /\ in[v] # <<>> /\ in'[v] = Tail(in[v]) /\ InKept(v) /\ m \in InMsgs(v)
               /\ Alike(v) /\ (stopping'[v] <=> stopping[v]) /\ timers'[v] = timers[v]
               /\ waiting'[v] = waiting[v] /\ tstate'[v] = tstate[v] /\ sock'[v] = sock[v]
               /\ entry' = entry /\ \A w \in Viewers \ {v} : pc'[w] = pc[w]
               /\ \/ /\ m.type = "peer-joined" /\ ~pc[v].open /\ out'[v] = out[v]
                     /\ pc'[v].open /\ pc'[v].offer = 0
                  \/ m.type = "peer-left" /\ pc'[v] = NoPc(pc[v].id) /\ out'[v] = out[v]
                  \/ /\ m.type = "offer" /\ pc[v].open /\ pc'[v].open
                     /\ pc'[v].id = pc[v].id /\ pc'[v].offer = m.offer
                     /\ out'[v] = Append(out[v], AnswerMsg(v, m.offer, pc[v].id))
                  \/ /\ ~(m.type = "peer-joined" /\ ~pc[v].open) /\ m.type # "peer-left"
                     /\ ~(m.type = "offer" /\ pc[v].open)
                     /\ pc'[v] = pc[v] /\ out'[v] = out[v]
<1> DEFINE m == Head(in[v])
           q == Tail(in[v])
<1>1. ClientTypes /\ PairTypes /\ QueueTypes
    BY DEF TypeInv
<1>2. v \in Clients /\ v # Pub
    BY ConstantFacts
<1>3. /\ in[v] # <<>> /\ in' = [in EXCEPT ![v] = q] /\ MaybeMarkConnected(v)
      /\ opts' = opts /\ stopping' = stopping /\ timers' = timers
      /\ waiting' = waiting /\ attempts' = attempts /\ tstate' = tstate /\ sock' = sock
      /\ entry' = entry /\ members' = members
    BY DEF ViewerReceives, linkVars
<1>4. in[v] \in Seq(InMsgs(v))
    BY <1>1, <1>2 DEF QueueTypes
<1>5. q \in Seq(InMsgs(v)) /\ m \in InMsgs(v)
    BY <1>3, <1>4, TailFacts
<1>6. m.type = "offer" => m.offer \in Nat
    BY <1>2, <1>5, MessageFacts
<1>7. /\ pc' = CASE m.type = "peer-joined" /\ ~pc[v].open ->
                       [pc EXCEPT ![v] = [NoPc(@.id + 1) EXCEPT !.open = TRUE]]
                  [] m.type = "peer-left" -> [pc EXCEPT ![v] = NoPc(@.id)]
                  [] m.type = "offer" /\ pc[v].open -> [pc EXCEPT ![v].offer = m.offer]
                  [] OTHER -> pc
      /\ IF m.type = "offer" /\ pc[v].open
         THEN Says(v, <<AnswerMsg(v, m.offer, pc[v].id)>>)
         ELSE out' = out
    BY DEF ViewerReceives, AnswerMsg
<1> HIDE DEF q, m
<1>8. /\ out' = [d \in Clients |-> out'[d]] /\ \A d \in Clients : out'[d] \in Seq(OutMsgs(d))
      /\ \A d \in Clients \ {v} : out'[d] = out[d]
      /\ out'[v] = IF m.type = "offer" /\ pc[v].open
                   THEN Append(out[v], AnswerMsg(v, m.offer, pc[v].id)) ELSE out[v]
    <2>1. CASE m.type = "offer" /\ pc[v].open
        <3>1. AnswerMsg(v, m.offer, pc[v].id) \in OutMsgs(v)
            BY <1>1, <1>2, <1>6, <2>1, MessageFacts DEF PairTypes, Pcs
        <3> QED BY <1>1, <1>2, <1>7, <2>1, <3>1, SaysFacts
    <2>2. CASE ~(m.type = "offer" /\ pc[v].open)
        BY <1>1, <1>7, <2>2 DEF QueueTypes
    <2> QED BY <2>1, <2>2
<1>9. pc[v] \in Pcs /\ pc[v].id \in Nat
    BY <1>1 DEF PairTypes, Pcs
<1>10. /\ pc' \in [Viewers -> Pcs] /\ \A w \in Viewers \ {v} : pc'[w] = pc[w]
       /\ m.type = "peer-joined" /\ ~pc[v].open => pc'[v].open /\ pc'[v].offer = 0
       /\ m.type = "peer-left" => pc'[v] = NoPc(pc[v].id)
       /\ m.type = "offer" /\ pc[v].open =>
            pc'[v].open /\ pc'[v].id = pc[v].id /\ pc'[v].offer = m.offer
       /\ (/\ ~(m.type = "peer-joined" /\ ~pc[v].open) /\ m.type # "peer-left"
           /\ ~(m.type = "offer" /\ pc[v].open)) => pc'[v] = pc[v]
    <2>1. CASE m.type = "peer-joined" /\ ~pc[v].open
        <3> DEFINE e == [NoPc(pc[v].id + 1) EXCEPT !.open = TRUE]
        <3>1. pc' = [pc EXCEPT ![v] = e]
            BY <1>7, <2>1
        <3>2. e \in Pcs /\ e.open /\ e.offer = 0
            <4>1. NoPc(pc[v].id + 1) \in Pcs /\ NoPc(pc[v].id + 1).offer = 0
                BY <1>9 DEF NoPc, Pcs
            <4> HIDE DEF m
            <4> QED BY <4>1 DEF Pcs
        <3> HIDE DEF e
        <3> QED BY <1>1, <2>1, <3>1, <3>2 DEF PairTypes
    <2>2. CASE m.type = "peer-left"
        <3> DEFINE e == NoPc(pc[v].id)
        <3>1. pc' = [pc EXCEPT ![v] = e]
            BY <1>7, <2>2
        <3>2. e \in Pcs /\ e = NoPc(pc[v].id)
            BY <1>9 DEF NoPc, Pcs
        <3> HIDE DEF e
        <3> QED BY <1>1, <2>2, <3>1, <3>2 DEF PairTypes
    <2>3. CASE m.type = "offer" /\ pc[v].open
        <3> DEFINE e == [pc[v] EXCEPT !.offer = m.offer]
        <3>1. pc' = [pc EXCEPT ![v] = e]
            BY <1>7, <2>3
        <3>2. e \in Pcs /\ (e.open <=> pc[v].open) /\ e.id = pc[v].id /\ e.offer = m.offer
            BY <1>6, <1>9, <2>3 DEF Pcs
        <3> HIDE DEF e
        <3> QED BY <1>1, <2>3, <3>1, <3>2 DEF PairTypes
    <2>4. CASE /\ ~(m.type = "peer-joined" /\ ~pc[v].open) /\ m.type # "peer-left"
               /\ ~(m.type = "offer" /\ pc[v].open)
        BY <1>1, <1>7, <2>4 DEF PairTypes
    <2> QED BY <2>1, <2>2, <2>3, <2>4
<1>11. /\ in' = [d \in Clients |-> in'[d]] /\ \A d \in Clients : in'[d] \in Seq(InMsgs(d))
       /\ in'[v] = q /\ \A d \in Clients \ {v} : in'[d] = in[d]
    BY <1>1, <1>2, <1>3, <1>5, QueueUpdate DEF QueueTypes
<1>12. /\ state' \in [Clients -> States] /\ Alike(v)
       /\ \A d \in Clients \ {v} : state'[d] = state[d]
    BY <1>1, <1>3, MarkFacts
<1>13. TypeInv'
    BY <1>1, <1>3, <1>8, <1>10, <1>11, <1>12 DEF TypeInv, ClientTypes, PairTypes, QueueTypes
<1>14. Aside(v) /\ InKept(v)
    BY <1>3, <1>8, <1>11, <1>12 DEF Aside, Rests, Calm, InKept
<1> QED BY <1>3, <1>5, <1>8, <1>10, <1>11, <1>12, <1>13, <1>14 DEF q, m

\* A pair of ends connects.
LEMMA PcConnectFacts ==
    ASSUME TypeInv, NEW v \in Viewers, PcConnects(v)
    PROVE  /\ TypeInv' /\ opts' = opts /\ members' = members /\ Aside(v) /\ in' = in
           /\ Alike(v) /\ (stopping'[v] <=> stopping[v]) /\ timers'[v] = timers[v]
           /\ waiting'[v] = waiting[v] /\ tstate'[v] = tstate[v] /\ sock'[v] = sock[v]
           /\ out'[v] = out[v] /\ entry' = entry /\ Mated(v)
           /\ (pc'[v].open <=> pc[v].open) /\ pc'[v].id = pc[v].id /\ pc'[v].offer = pc[v].offer
           /\ \A w \in Viewers \ {v} : pc'[w] = pc[w]
<1>1. ClientTypes /\ PairTypes /\ QueueTypes
    BY DEF TypeInv
<1> DEFINE e == [pc[v] EXCEPT !.up = TRUE]
<1>2. /\ Mated(v) /\ pc' = [pc EXCEPT ![v] = e] /\ MaybeMarkConnected(v)
      /\ opts' = opts /\ stopping' = stopping /\ timers' = timers
      /\ waiting' = waiting /\ attempts' = attempts /\ tstate' = tstate /\ sock' = sock
      /\ entry' = entry /\ out' = out /\ in' = in /\ members' = members
    BY DEF PcConnects, linkVars
<1>3. pc[v] \in Pcs
    BY <1>1 DEF PairTypes
<1>4. e \in Pcs /\ (e.open <=> pc[v].open) /\ e.id = pc[v].id /\ e.offer = pc[v].offer
    BY <1>3 DEF Pcs
<1> HIDE DEF e
<1>5. pc' \in [Viewers -> Pcs] /\ pc'[v] = e /\ \A w \in Viewers \ {v} : pc'[w] = pc[w]
    BY <1>1, <1>2, <1>4 DEF PairTypes
<1>6. /\ state' \in [Clients -> States] /\ Alike(v)
      /\ \A d \in Clients \ {v} : state'[d] = state[d]
    BY <1>1, <1>2, MarkFacts
<1>7. TypeInv'
    BY <1>1, <1>2, <1>5, <1>6 DEF TypeInv, ClientTypes, PairTypes, QueueTypes
<1>8. Aside(v)
    BY <1>2, <1>6 DEF Aside, Rests, Calm
<1> QED BY <1>2, <1>4, <1>5, <1>6, <1>7, <1>8

\* A viewer's peer connection fails.
LEMMA PcFailFacts ==
    ASSUME TypeInv, NEW v \in Viewers, PcFails(v)
    PROVE  /\ TypeInv' /\ opts' = opts /\ members' = members /\ Aside(v) /\ in' = in
           /\ opts.ice /\ ~opts.auto /\ pc[v].open /\ Fails(v) /\ (stopping'[v] <=> stopping[v])
           /\ waiting'[v] = waiting[v] /\ tstate'[v] = tstate[v] /\ sock'[v] = sock[v]
           /\ out'[v] = out[v]
<1>1. ClientTypes /\ PairTypes /\ QueueTypes
    BY DEF TypeInv
<1>2. v \in Clients /\ v # Pub /\ (opts.auto => ~opts.ice)
    BY <1>1, ConstantFacts DEF ClientTypes
<1>3. /\ opts.ice /\ pc[v].open /\ SessionFails(v)
      /\ opts' = opts /\ stopping' = stopping
      /\ waiting' = waiting /\ tstate' = tstate /\ sock' = sock
      /\ out' = out /\ in' = in /\ members' = members
    BY DEF PcFails, linkVars
<1>4. /\ PairTypes' /\ Fails(v)
      /\ state' \in [Clients -> States]
      /\ timers' \in [Clients -> Nat] /\ attempts' \in [Clients -> 0..MaxAttempts]
      /\ \A d \in Clients \ {v} : state'[d] = state[d] /\ timers'[d] = timers[d]
    BY <1>1, <1>2, <1>3, SessionFailsFacts
<1>5. TypeInv'
    BY <1>1, <1>3, <1>4 DEF TypeInv, ClientTypes, QueueTypes
<1>6. Aside(v)
    BY <1>3, <1>4 DEF Aside, Rests, Calm
<1> QED BY <1>2, <1>3, <1>4, <1>5, <1>6

-----------------------------------------------------------------------------
\* What holds of each client.

\* Its transport: a member's socket is open, or closing since stop(); it waits for `auth`
\* only if there is one, and reconnects only if it does so by itself.
LinkOf(c) ==
    /\ c \in members => sock[c] \in {"open", "closing"}
    /\ sock[c] = "open" => tstate[c] = "connected"
    /\ sock[c] = "closing" => stopping[c]
    /\ ~opts.auth => sock[c] # "auth"
    /\ tstate[c] = "reconnecting" => opts.auto

\* It is told something only while it is in the room and listening.
HearOf(c) == in[c] # <<>> => c \in members /\ Hears(c)

\* Before start() there is nothing.
IdleOf(c) ==
    state[c] = "idle" =>
      /\ sock[c] = "none" /\ tstate[c] = "idle" /\ out[c] = <<>> /\ waiting[c] = "none"
      /\ timers[c] = 0 /\ ~stopping[c]

\* Only stop() says leave, and what is said after it is no join.
QuitOf(c) ==
    /\ HasLeave(out[c]) => stopping[c]
    /\ ~opts.auth /\ stopping[c] => LeaveLast(out[c]) \/ (~HasJoin(out[c]) /\ c \notin members)

\* One retry at most is pending, and none once the client has given up, nor while there
\* is a socket; where the transport reconnects by itself the client never retries.
TimerOf(c) ==
    /\ opts.auto => /\ timers[c] = 0 /\ waiting[c] # "attempt"
                    /\ state[c] = "closed" => stopping[c]
    /\ ~stopping[c] /\ (c = Pub \/ ~opts.ice) =>
         /\ timers[c] > 0 => timers[c] = 1 /\ sock[c] = "none"
         /\ state[c] = "closed" => timers[c] = 0 /\ sock[c] = "none"

\* Does it have any connection?
Bound(c) == IF c = Pub THEN \E v \in Viewers : entry[v].sdp # "none" ELSE pc[c].open

\* Is it still to join?
Coming(c) == state[c] = "idle" \/ sock[c] = "auth" \/ HasJoin(out[c])

\* A transport that reconnects by itself says join once.
OnceOf(c) ==
    opts.auto =>
      /\ OneJoin(out[c]) /\ (sock[c] = "auth" => ~HasJoin(out[c]))
      /\ c \in members \/ Bound(c) => ~Coming(c)

\* Outside the room no connection is kept, unless the transport reconnects by itself.
KnownOf(c) ==
    /\ stopping[c] => ~Bound(c)
    /\ c \notin members /\ Bound(c) /\ (c = Pub \/ state[c] # "closed") => opts.auto

Own(c) ==
    /\ LinkOf(c) /\ HearOf(c) /\ IdleOf(c) /\ QuitOf(c) /\ TimerOf(c)
    /\ OnceOf(c) /\ KnownOf(c)
OwnInv == \A c \in Clients : Own(c)

-----------------------------------------------------------------------------
\* Whose connections a step touches.
LEMMA BoundKept ==
    ASSUME PairsKept
    PROVE  \A d \in Clients : Bound(d)' <=> Bound(d)
BY DEF PairsKept, Bound

\* What is torn down is no connection.
LEMMA NothingMade ==
    ASSUME NEW n
    PROVE  NoEntry(n).sdp = "none" /\ NoEntry(n).id = n /\ ~NoPc(n).open
BY DEF NoEntry, NoPc

\* Torn down, there is none.
LEMMA BoundTorn ==
    ASSUME NEW c \in Clients, Torn(c)
    PROVE  ~Bound(c)' /\ \A d \in Clients \ {c} : Bound(d)' <=> Bound(d)
<1>1. CASE c = Pub
    <2>1. \A v \in Viewers : entry'[v].sdp = "none"
        <3>1. \A v \in Viewers : entry'[v] = NoEntry(entry[v].id)
            BY <1>1 DEF Torn
        <3> QED BY <3>1, NothingMade
    <2>2. ~Bound(c)'
        BY <1>1, <2>1 DEF Bound
    <2>3. pc' = pc
        BY <1>1 DEF Torn
    <2>4. ASSUME NEW d \in Clients \ {c} PROVE Bound(d)' <=> Bound(d)
        BY <1>1, <2>3 DEF Bound
    <2> QED BY <2>2, <2>4
<1>2. CASE c # Pub
    <2>1. entry' = entry /\ ~pc'[c].open /\ \A v \in Viewers \ {c} : pc'[v] = pc[v]
        BY <1>2, NothingMade DEF Torn
    <2> QED BY <1>2, <2>1, ConstantFacts DEF Bound
<1> QED BY <1>1, <1>2

\* Saying join.
LEMMA SaysJoin ==
    ASSUME QueueTypes, NEW c \in Clients, out'[c] = Append(out[c], JoinMsg)
    PROVE  /\ HasJoin(out'[c]) /\ (HasLeave(out'[c]) <=> HasLeave(out[c])) /\ ~LeaveLast(out'[c])
           /\ OneJoin(out[c]) /\ ~HasJoin(out[c]) => OneJoin(out'[c])
           /\ out'[c] # <<>>
<1>1. out[c] \in Seq(OutMsgs(c)) /\ JoinMsg \in OutMsgs(c) /\ JoinMsg.type = "join"
    BY MessageFacts DEF QueueTypes, JoinMsg
<1>2. Append(out[c], JoinMsg) # <<>>
    BY <1>1, AppendFacts
<1> QED BY <1>1, <1>2, AppendSays

\* Saying leave.
LEMMA SaysLeave ==
    ASSUME QueueTypes, NEW c \in Clients, out'[c] = Append(out[c], LeaveMsg)
    PROVE  /\ (HasJoin(out'[c]) <=> HasJoin(out[c])) /\ LeaveLast(out'[c])
           /\ OneJoin(out[c]) => OneJoin(out'[c])
<1>1. out[c] \in Seq(OutMsgs(c)) /\ LeaveMsg \in OutMsgs(c) /\ LeaveMsg.type = "leave"
    BY MessageFacts DEF QueueTypes, LeaveMsg
<1> QED BY <1>1, AppendSays

\* Saying neither.
LEMMA SaysOther ==
    ASSUME QueueTypes, NEW c \in Clients, NEW m \in OutMsgs(c), m.type \in {"offer", "answer"},
           out'[c] = Append(out[c], m)
    PROVE  /\ (HasJoin(out'[c]) <=> HasJoin(out[c])) /\ (HasLeave(out'[c]) <=> HasLeave(out[c]))
           /\ OneJoin(out[c]) => OneJoin(out'[c])
           /\ LeaveLast(out[c]) => LeaveLast(out'[c])
<1>1. out[c] \in Seq(OutMsgs(c))
    BY DEF QueueTypes
<1> QED BY <1>1, AppendSays

\* A client the step rests keeps what holds of it.
LEMMA OwnRests ==
    ASSUME NEW d \in Clients, Own(d), Rests(d), opts' = opts, Bound(d)' => Bound(d),
           in'[d] # <<>> => d \in members /\ Hears(d)
    PROVE  Own(d)'
<1>1. LinkOf(d)'
    BY DEF Own, LinkOf, Rests, Calm
<1>2. HearOf(d)'
    BY DEF Own, HearOf, Hears, Listening, Rests, Calm
<1>3. IdleOf(d)'
    BY DEF Own, IdleOf, Rests, Calm
<1>4. QuitOf(d)'
    BY DEF Own, QuitOf, Rests, Calm
<1>5. TimerOf(d)'
    BY DEF Own, TimerOf, Rests, Calm
<1>6. OnceOf(d)'
    BY DEF Own, OnceOf, Coming, Rests, Calm
<1>7. KnownOf(d)'
    BY DEF Own, KnownOf, Rests, Calm
<1> QED BY <1>1, <1>2, <1>3, <1>4, <1>5, <1>6, <1>7 DEF Own

\* Before start() nobody has a connection.
LEMMA IdleIsUnbound ==
    ASSUME NEW c \in Clients, Own(c), state[c] = "idle"
    PROVE  ~Bound(c) /\ c \notin members /\ in[c] = <<>>
<1>1. c \notin members /\ in[c] = <<>>
    BY DEF Own, IdleOf, LinkOf, HearOf
<1>2. ~Bound(c)
    BY <1>1 DEF Own, OnceOf, Coming, KnownOf
<1> QED BY <1>1, <1>2

\* start().
LEMMA StartOwn ==
    ASSUME TypeInv, NEW c \in Clients, Own(c), Start(c)
    PROVE  Own(c)'
<1>1. /\ opts' = opts /\ in' = in /\ members' = members /\ PairsKept
      /\ state[c] = "idle" /\ state'[c] = "connecting" /\ ~stopping[c] /\ ~stopping'[c]
      /\ timers'[c] = timers[c] /\ Connects(c, "start")
    BY StartFacts
<1>2. ~Bound(c)' /\ c \notin members /\ in[c] = <<>>
    BY <1>1, IdleIsUnbound, BoundKept
<1>3. sock[c] = "none" /\ tstate[c] = "idle" /\ out[c] = <<>> /\ waiting[c] = "none" /\ timers[c] = 0
    BY <1>1 DEF Own, IdleOf
<1>4. /\ tstate'[c] # "reconnecting"
      /\ \/ sock'[c] \in {"none", "opening"} /\ waiting'[c] = "none" /\ out'[c] = Append(out[c], JoinMsg)
         \/ opts.auth /\ sock'[c] = "auth" /\ waiting'[c] = "start" /\ out'[c] = <<>>
    BY <1>1, <1>3 DEF Connects
<1>5. OneJoin(out'[c]) /\ ~HasLeave(out'[c]) /\ (sock'[c] = "auth" => ~HasJoin(out'[c]))
    BY <1>3, <1>4, SaysJoin, NothingSays DEF TypeInv
<1>6. LinkOf(c)'
    BY <1>1, <1>2, <1>4 DEF LinkOf
<1>7. HearOf(c)' /\ IdleOf(c)' /\ QuitOf(c)' /\ KnownOf(c)'
    BY <1>1, <1>2, <1>5 DEF HearOf, IdleOf, QuitOf, KnownOf
<1>8. TimerOf(c)'
    BY <1>1, <1>3, <1>4 DEF TimerOf
<1>9. OnceOf(c)'
    BY <1>1, <1>2, <1>5 DEF OnceOf
<1> QED BY <1>6, <1>7, <1>8, <1>9 DEF Own

\* stop().
LEMMA StopOwn ==
    ASSUME TypeInv, NEW c \in Clients, Own(c), Stop(c)
    PROVE  Own(c)'
<1>1. /\ opts' = opts /\ in'[c] = <<>> /\ members' = members /\ Torn(c)
      /\ state[c] # "closed" /\ state'[c] = "closed" /\ stopping'[c]
      /\ timers'[c] = TimersAfterStop(timers[c]) /\ waiting'[c] = waiting[c]
      /\ out'[c] = Append(out[c], LeaveMsg) /\ tstate'[c] = "closed"
      /\ sock'[c] = CASE sock[c] = "open" -> "closing" [] sock[c] = "opening" -> "none"
                       [] OTHER -> sock[c]
    BY StopFacts
<1>2. ~Bound(c)'
    BY <1>1, BoundTorn
<1>3. /\ (HasJoin(out'[c]) <=> HasJoin(out[c])) /\ LeaveLast(out'[c])
      /\ OneJoin(out[c]) => OneJoin(out'[c])
    BY <1>1, SaysLeave DEF TypeInv
<1>4. /\ sock[c] = "open" => sock'[c] = "closing"
      /\ sock[c] = "opening" => sock'[c] = "none"
      /\ sock[c] \notin {"open", "opening"} => sock'[c] = sock[c]
    BY <1>1
<1>5. LinkOf(c)' /\ HearOf(c)' /\ IdleOf(c)'
    BY <1>1, <1>4 DEF Own, LinkOf, HearOf, IdleOf
<1>6. QuitOf(c)' /\ KnownOf(c)'
    BY <1>1, <1>2, <1>3 DEF QuitOf, KnownOf
<1>7. TimerOf(c)'
    BY <1>1 DEF Own, TimerOf, TimersAfterStop
<1>8. OnceOf(c)'
    BY <1>1, <1>2, <1>3, <1>4 DEF Own, OnceOf, Coming
<1> QED BY <1>5, <1>6, <1>7, <1>8 DEF Own

\* attemptReconnect: a client in the room that retries has its transport connected, so
\* nothing but the join follows.
LEMMA RetryOwn ==
    ASSUME TypeInv, NEW c \in Clients, Own(c), RetryFires(c)
    PROVE  Own(c)'
<1>1. /\ opts' = opts /\ in' = in /\ members' = members /\ PairsKept
      /\ timers[c] > 0 /\ timers'[c] = timers[c] - 1 /\ (stopping'[c] <=> stopping[c])
      /\ timers[c] \in Nat
    BY RetryFacts DEF TypeInv, ClientTypes
<1>2. (Bound(c)' <=> Bound(c)) /\ ~opts.auto /\ state[c] # "idle"
    BY <1>1, BoundKept DEF Own, TimerOf, IdleOf
<1>3. CASE stopping[c] /\ state'[c] = state[c] /\ waiting'[c] = waiting[c]
           /\ tstate'[c] = tstate[c] /\ sock'[c] = sock[c] /\ out'[c] = out[c]
    <2>1. LinkOf(c)' /\ HearOf(c)' /\ IdleOf(c)' /\ QuitOf(c)'
        BY <1>1, <1>3 DEF Own, LinkOf, HearOf, Hears, Listening, IdleOf, QuitOf
    <2>2. TimerOf(c)' /\ OnceOf(c)' /\ KnownOf(c)'
        BY <1>1, <1>2, <1>3 DEF Own, TimerOf, OnceOf, KnownOf
    <2> QED BY <2>1, <2>2 DEF Own
<1>4. CASE ~stopping[c] /\ Alike(c) /\ Connects(c, "attempt")
    <2>1. \/ /\ sock'[c] = sock[c] /\ tstate'[c] = tstate[c] /\ HasJoin(out'[c])
             /\ (HasLeave(out'[c]) <=> HasLeave(out[c]))
          \/ /\ tstate[c] # "connected" /\ sock'[c] = "opening" /\ HasJoin(out'[c])
             /\ tstate'[c] = "connecting"
             /\ (HasLeave(out'[c]) <=> HasLeave(out[c]))
          \/ /\ tstate[c] # "connected" /\ opts.auth /\ sock'[c] = "auth" /\ out'[c] = out[c]
             /\ tstate'[c] = "connecting"
        BY <1>4, SaysJoin DEF Connects, TypeInv
    <2>2. sock[c] = "open" => sock'[c] = "open" /\ tstate'[c] = "connected"
        BY <2>1 DEF Own, LinkOf
    <2>3. ~stopping'[c] /\ sock[c] # "closing" /\ state'[c] # "idle"
        BY <1>1, <1>2, <1>4 DEF Own, LinkOf, Alike
    <2>4. LinkOf(c)'
        BY <1>1, <2>1, <2>2, <2>3 DEF Own, LinkOf
    <2>5. HearOf(c)' /\ IdleOf(c)'
        BY <1>1, <1>4, <2>2, <2>3 DEF Own, HearOf, Hears, Listening, IdleOf
    <2>6. QuitOf(c)'
        BY <1>4, <2>1, <2>3 DEF Own, QuitOf
    <2>7. TimerOf(c)' /\ OnceOf(c)' /\ KnownOf(c)'
        BY <1>1, <1>2, <1>4, <2>3 DEF Own, TimerOf, OnceOf, KnownOf, Alike
    <2> QED BY <2>4, <2>5, <2>6, <2>7 DEF Own
<1> QED BY <1>3, <1>4, RetryFacts

\* connect() resolves: the join it held back is said.
LEMMA ResolveOwn ==
    ASSUME TypeInv, NEW c \in Clients, Own(c), ConnectResolves(c)
    PROVE  Own(c)'
<1>1. /\ opts' = opts /\ in' = in /\ members' = members /\ PairsKept
      /\ sock[c] = "auth" /\ sock'[c] = "opening" /\ waiting'[c] = "none"
      /\ out'[c] = Append(out[c], JoinMsg)
      /\ state'[c] = state[c] /\ (stopping'[c] <=> stopping[c]) /\ timers'[c] = timers[c]
      /\ tstate'[c] = tstate[c]
    BY ResolveFacts
<1>2. (Bound(c)' <=> Bound(c)) /\ c \notin members /\ opts.auth /\ in[c] = <<>> /\ state[c] # "idle"
    BY <1>1, BoundKept DEF Own, LinkOf, HearOf, IdleOf, Hears
<1>3. /\ HasLeave(out'[c]) <=> HasLeave(out[c])
      /\ OneJoin(out[c]) /\ ~HasJoin(out[c]) => OneJoin(out'[c])
    BY <1>1, SaysJoin DEF TypeInv
<1>4. LinkOf(c)' /\ HearOf(c)' /\ IdleOf(c)' /\ QuitOf(c)'
    BY <1>1, <1>2, <1>3 DEF Own, LinkOf, HearOf, IdleOf, QuitOf
<1>5. TimerOf(c)'
    BY <1>1 DEF Own, TimerOf
<1>6. OnceOf(c)' /\ KnownOf(c)'
    BY <1>1, <1>2, <1>3 DEF Own, OnceOf, Coming, KnownOf
<1> QED BY <1>4, <1>5, <1>6 DEF Own

\* handleSessionFailure leaves no connection, and a timer only where none was.
LEMMA FailOwn ==
    ASSUME TypeInv, NEW c \in Clients, Own(c), Fails(c), ~stopping[c], ~stopping'[c], opts' = opts,
           ~opts.auto, state[c] # "idle", state[c] # "closed",
           (c = Pub \/ ~opts.ice) => sock[c] # "none" /\ sock'[c] = "none"
    PROVE  /\ ~Bound(c)' /\ state'[c] # "idle" /\ TimerOf(c)' /\ OnceOf(c)' /\ KnownOf(c)'
<1>1. ~Bound(c)' /\ timers[c] \in Nat
    BY BoundTorn DEF Fails, TypeInv, ClientTypes
<1>2. \/ timers'[c] = timers[c] + 1 /\ (state'[c] = "closed" <=> state[c] = "closed")
         /\ (state'[c] = "idle" <=> state[c] = "idle")
      \/ timers'[c] = timers[c] /\ state'[c] = "closed"
    BY DEF Fails, Alike
<1>3. (c = Pub \/ ~opts.ice) => timers[c] = 0
    BY <1>1 DEF Own, TimerOf
<1>4. TimerOf(c)'
    BY <1>1, <1>2, <1>3 DEF TimerOf
<1> QED BY <1>1, <1>2, <1>4 DEF OnceOf, KnownOf

\* connect() rejects.
LEMMA RejectOwn ==
    ASSUME TypeInv, NEW c \in Clients, Own(c), ConnectRejects(c)
    PROVE  Own(c)'
<1>1. /\ opts' = opts /\ in' = in /\ members' = members
      /\ sock[c] = "auth" /\ sock'[c] = "none" /\ waiting'[c] = "none" /\ out'[c] = out[c]
      /\ (stopping'[c] <=> stopping[c]) /\ tstate'[c] = tstate[c]
      /\ \/ waiting[c] = "attempt" /\ ~stopping[c] /\ Fails(c)
         \/ PairsKept /\ state'[c] = state[c] /\ timers'[c] = timers[c]
    BY RejectFacts
<1>2. c \notin members /\ opts.auth /\ in[c] = <<>> /\ state[c] # "idle"
    BY <1>1 DEF Own, LinkOf, HearOf, IdleOf, Hears
<1>3. LinkOf(c)' /\ HearOf(c)' /\ QuitOf(c)'
    BY <1>1, <1>2 DEF Own, LinkOf, HearOf, QuitOf
<1>4. CASE PairsKept /\ state'[c] = state[c] /\ timers'[c] = timers[c]
    <2>1. Bound(c)' <=> Bound(c)
        BY <1>4, BoundKept
    <2>2. IdleOf(c)' /\ TimerOf(c)' /\ OnceOf(c)' /\ KnownOf(c)'
        BY <1>1, <1>2, <1>4, <2>1 DEF Own, IdleOf, TimerOf, OnceOf, Coming, KnownOf
    <2> QED BY <1>3, <2>2 DEF Own
<1>5. CASE waiting[c] = "attempt" /\ ~stopping[c] /\ Fails(c)
    <2>1. ~opts.auto
        BY <1>5 DEF Own, TimerOf
    <2>2. CASE state[c] # "closed"
        <3>1. state'[c] # "idle" /\ TimerOf(c)' /\ OnceOf(c)' /\ KnownOf(c)'
            BY <1>1, <1>2, <1>5, <2>1, <2>2, FailOwn
        <3> QED BY <1>3, <3>1 DEF Own, IdleOf
    <2>3. CASE state[c] = "closed"
        <3>1. c # Pub /\ opts.ice
            BY <1>1, <1>5, <2>3 DEF Own, TimerOf
        <3>2. ~Bound(c)' /\ state'[c] = "closed"
            BY <1>5, <2>3, BoundTorn DEF Fails, Alike
        <3>3. IdleOf(c)' /\ TimerOf(c)' /\ OnceOf(c)' /\ KnownOf(c)'
            BY <1>1, <2>1, <3>1, <3>2 DEF IdleOf, TimerOf, OnceOf, KnownOf
        <3> QED BY <1>3, <3>3 DEF Own
    <2> QED BY <2>2, <2>3
<1> QED BY <1>1, <1>4, <1>5

\* A socket opens.
LEMMA OpenOwn ==
    ASSUME TypeInv, NEW c \in Clients, Own(c), Opens(c)
    PROVE  Own(c)'
<1>1. /\ opts' = opts /\ in' = in /\ members' = members /\ PairsKept
      /\ sock[c] = "opening" /\ sock'[c] = "open" /\ tstate'[c] = "connected" /\ Alike(c)
      /\ out'[c] = out[c] /\ (stopping'[c] <=> stopping[c]) /\ timers'[c] = timers[c]
      /\ waiting'[c] = waiting[c]
    BY OpenFacts
<1>2. /\ (Bound(c)' <=> Bound(c)) /\ c \notin members /\ in[c] = <<>> /\ state[c] # "idle"
      /\ state'[c] # "idle" /\ (state'[c] = "closed" <=> state[c] = "closed")
    BY <1>1, BoundKept DEF Own, LinkOf, HearOf, IdleOf, Hears, Alike
<1>3. LinkOf(c)' /\ HearOf(c)' /\ IdleOf(c)' /\ QuitOf(c)'
    BY <1>1, <1>2 DEF Own, LinkOf, HearOf, IdleOf, QuitOf
<1>4. TimerOf(c)'
    BY <1>1, <1>2 DEF Own, TimerOf
<1>5. OnceOf(c)' /\ KnownOf(c)'
    BY <1>1, <1>2 DEF Own, OnceOf, Coming, KnownOf
<1> QED BY <1>3, <1>4, <1>5 DEF Own

\* A socket closes: what was said through it is lost, and so is the membership.
LEMMA CloseOwn ==
    ASSUME TypeInv, NEW c \in Clients, Own(c), Closes(c)
    PROVE  Own(c)'
<1>1. /\ opts' = opts /\ c \notin members' /\ in'[c] = <<>>
      /\ sock[c] \in {"opening", "open", "closing"} /\ sock'[c] = "none"
      /\ out'[c] = IF sock[c] = "opening" THEN out[c] ELSE <<>>
      /\ (stopping'[c] <=> stopping[c]) /\ waiting'[c] = waiting[c]
      /\ tstate'[c] = IF opts.auto /\ ~stopping[c] THEN "reconnecting" ELSE "closed"
      /\ \/ Listening(c) /\ ~opts.auto /\ state[c] # "closed" /\ Fails(c)
         \/ /\ ~(Listening(c) /\ ~opts.auto /\ state[c] # "closed")
            /\ PairsKept /\ Alike(c) /\ timers'[c] = timers[c]
    BY CloseFacts
<1>2. /\ HasLeave(out'[c]) => HasLeave(out[c])
      /\ HasJoin(out'[c]) => HasJoin(out[c])
      /\ OneJoin(out[c]) => OneJoin(out'[c])
      /\ LeaveLast(out[c]) => LeaveLast(out'[c]) \/ ~HasJoin(out'[c])
    BY <1>1, NothingSays
<1>3. state[c] # "idle"
    BY <1>1 DEF Own, IdleOf
<1>4. LinkOf(c)' /\ HearOf(c)'
    BY <1>1 DEF LinkOf, HearOf
<1>5. QuitOf(c)'
    BY <1>1, <1>2 DEF Own, QuitOf
<1>6. CASE Listening(c) /\ ~opts.auto /\ state[c] # "closed" /\ Fails(c)
    <2>1. ~stopping[c]
        BY <1>6 DEF Listening
    <2>2. state'[c] # "idle" /\ TimerOf(c)' /\ OnceOf(c)' /\ KnownOf(c)'
        BY <1>1, <1>3, <1>6, <2>1, FailOwn
    <2> QED BY <1>4, <1>5, <2>2 DEF Own, IdleOf
<1>7. CASE /\ ~(Listening(c) /\ ~opts.auto /\ state[c] # "closed")
           /\ PairsKept /\ Alike(c) /\ timers'[c] = timers[c]
    <2>1. /\ (Bound(c)' <=> Bound(c)) /\ state'[c] # "idle"
          /\ (state'[c] = "closed" <=> state[c] = "closed")
        BY <1>3, <1>7, BoundKept DEF Alike
    <2>2. stopping[c] \/ opts.auto \/ state[c] = "closed"
        BY <1>3, <1>7 DEF Listening
    <2>3. c = Pub /\ state[c] = "closed" => stopping[c]
        BY <1>1 DEF Own, TimerOf
    <2>4. KnownOf(c)' /\ IdleOf(c)'
        BY <1>1, <2>1, <2>2, <2>3 DEF Own, KnownOf, IdleOf
    <2>5. TimerOf(c)'
        BY <1>1, <1>7, <2>1 DEF Own, TimerOf
    <2>6. OnceOf(c)'
        BY <1>1, <1>2, <2>1 DEF Own, OnceOf, Coming
    <2> QED BY <1>4, <1>5, <2>4, <2>5, <2>6 DEF Own
<1> QED BY <1>1, <1>6, <1>7

\* The transport's own retry.
LEMMA AutoOwn ==
    ASSUME TypeInv, NEW c \in Clients, Own(c), AutoReconnects(c)
    PROVE  Own(c)'
<1>1. /\ opts' = opts /\ in' = in /\ members' = members /\ PairsKept
      /\ tstate[c] = "reconnecting" /\ sock[c] = "none" /\ sock'[c] = "opening"
      /\ tstate'[c] = tstate[c] /\ state'[c] = state[c] /\ out'[c] = out[c]
      /\ (stopping'[c] <=> stopping[c]) /\ timers'[c] = timers[c] /\ waiting'[c] = waiting[c]
    BY AutoFacts
<1>2. /\ (Bound(c)' <=> Bound(c)) /\ c \notin members /\ in[c] = <<>> /\ state[c] # "idle"
      /\ opts.auto
    BY <1>1, BoundKept DEF Own, LinkOf, HearOf, IdleOf, Hears
<1>3. LinkOf(c)' /\ HearOf(c)' /\ IdleOf(c)' /\ QuitOf(c)'
    BY <1>1, <1>2 DEF Own, LinkOf, HearOf, IdleOf, QuitOf
<1>4. TimerOf(c)'
    BY <1>1, <1>2 DEF Own, TimerOf
<1>5. OnceOf(c)' /\ KnownOf(c)'
    BY <1>1, <1>2 DEF Own, OnceOf, Coming, KnownOf
<1> QED BY <1>3, <1>4, <1>5 DEF Own

\* The server takes a message.
LEMMA ReceiveOwn ==
    ASSUME TypeInv, NEW c \in Clients, Own(c), ServerReceives(c)
    PROVE  Own(c)'
<1> DEFINE m == Head(out[c])
<1>1. /\ opts' = opts /\ PairsKept /\ Calm(c)
      /\ sock[c] \in {"open", "closing"} /\ out[c] # <<>> /\ out'[c] = Tail(out[c])
      /\ out[c] \in Seq(OutMsgs(c)) /\ m \in OutMsgs(c)
    BY ReceiveFacts
<1>2. /\ HasJoin(out[c]) <=> HasJoin(out'[c]) \/ m.type = "join"
      /\ HasLeave(out[c]) <=> HasLeave(out'[c]) \/ m.type = "leave"
      /\ OneJoin(out[c]) => OneJoin(out'[c]) /\ (m.type = "join" => ~HasJoin(out'[c]))
      /\ LeaveLast(out[c]) => LeaveLast(out'[c]) \/ (m.type = "leave" /\ ~HasJoin(out'[c]))
    BY <1>1, TailSays
<1>3. /\ (Bound(c)' <=> Bound(c)) /\ state[c] # "idle" /\ state'[c] = state[c]
      /\ (stopping'[c] <=> stopping[c]) /\ sock'[c] = sock[c] /\ timers'[c] = timers[c]
      /\ waiting'[c] = waiting[c] /\ tstate'[c] = tstate[c] /\ (Hears(c)' <=> Hears(c))
    BY <1>1, BoundKept DEF Own, IdleOf, Calm, Hears, Listening
<1>4. m.type \in {"join", "leave", "offer", "answer"}
    BY <1>1, MessageFacts
<1>5. \/ /\ m.type = "join" /\ c \in members'
         /\ in'[c] = IF Hears(c) THEN in[c] \o Greeting(c) ELSE in[c]
      \/ m.type = "leave" /\ c \notin members' /\ in'[c] = in[c]
      \/ m.type \in {"offer", "answer"} /\ (c \in members' <=> c \in members) /\ in'[c] = in[c]
    <2>1. CASE m.type = "join"
        BY <2>1, JoinFacts
    <2>2. CASE m.type = "leave"
        BY <2>2, LeaveFacts
    <2>3. CASE m.type \in {"offer", "answer"}
        BY <2>3, PassFacts
    <2> QED BY <1>4, <2>1, <2>2, <2>3
<1> HIDE DEF m
<1>6. m.type = "leave" => stopping[c]
    BY <1>2 DEF Own, QuitOf
<1>7. LinkOf(c)' /\ IdleOf(c)' /\ TimerOf(c)'
    BY <1>1, <1>3, <1>5 DEF Own, LinkOf, IdleOf, TimerOf
<1>8. HearOf(c)'
    BY <1>3, <1>5, <1>6 DEF Own, HearOf, Hears, Listening
<1>9. QuitOf(c)'
    BY <1>1, <1>2, <1>3, <1>5 DEF Own, QuitOf
<1>10. OnceOf(c)'
    BY <1>1, <1>2, <1>3, <1>5 DEF Own, OnceOf, Coming
<1>11. KnownOf(c)'
    BY <1>1, <1>3, <1>5, <1>6 DEF Own, KnownOf
<1> QED BY <1>7, <1>8, <1>9, <1>10, <1>11 DEF Own

\* A client reads a message: it is in the room, so it has joined and stops at nothing.
LEMMA ReadOwn ==
    ASSUME TypeInv, NEW c \in Clients, Own(c), opts' = opts, in[c] # <<>>,
           Alike(c), stopping'[c] <=> stopping[c], timers'[c] = timers[c],
           waiting'[c] = waiting[c], tstate'[c] = tstate[c], sock'[c] = sock[c],
           c \in members' <=> c \in members,
           \/ out'[c] = out[c]
           \/ \E m \in OutMsgs(c) : m.type \in {"offer", "answer"} /\ out'[c] = Append(out[c], m)
    PROVE  Own(c)'
<1>1. c \in members /\ Hears(c)
    BY DEF Own, HearOf
<1>2. sock[c] = "open" /\ state[c] # "idle" /\ ~stopping[c]
    BY <1>1 DEF Hears, Listening
<1>3. /\ state'[c] # "idle" /\ (state'[c] = "closed" <=> state[c] = "closed")
      /\ ~stopping'[c] /\ c \in members'
    BY <1>1, <1>2 DEF Alike
<1>4. /\ (HasJoin(out'[c]) <=> HasJoin(out[c])) /\ (HasLeave(out'[c]) <=> HasLeave(out[c]))
      /\ OneJoin(out[c]) => OneJoin(out'[c])
    BY SaysOther DEF TypeInv
<1>5. LinkOf(c)' /\ HearOf(c)' /\ IdleOf(c)' /\ QuitOf(c)'
    BY <1>1, <1>2, <1>3, <1>4 DEF Own, LinkOf, HearOf, Hears, Listening, IdleOf, QuitOf
<1>6. TimerOf(c)' /\ KnownOf(c)'
    BY <1>2, <1>3 DEF Own, TimerOf, KnownOf
<1>7. OnceOf(c)'
    BY <1>1, <1>2, <1>3, <1>4 DEF Own, OnceOf, Coming
<1> QED BY <1>5, <1>6, <1>7 DEF Own

\* makeOffer: no more connections than before.
LEMMA OfferOwn ==
    ASSUME TypeInv, NEW v \in Viewers, Own(Pub), OfferMade(v)
    PROVE  Own(Pub)'
<1>1. /\ opts' = opts /\ members' = members /\ Calm(Pub) /\ in' = in
      /\ entry[v].sdp = "making" /\ entry'[v].sdp = "offered"
      /\ \A w \in Viewers \ {v} : entry'[w] = entry[w]
      /\ out'[Pub] = Append(out[Pub], OfferMsg(v, entry[v].id))
      /\ OfferMsg(v, entry[v].id) \in OutMsgs(Pub) /\ OfferMsg(v, entry[v].id).type = "offer"
    BY OfferFacts, MessageFacts, ConstantFacts DEF OfferMsg, TypeInv, PairTypes, Entries
<1>2. Pub \in Clients
    BY ConstantFacts
<1>3. Bound(Pub) /\ state[Pub] # "idle" /\ state'[Pub] = state[Pub]
      /\ (Bound(Pub)' <=> Bound(Pub))
    BY <1>1, <1>2, IdleIsUnbound DEF Bound, Calm
<1>4. /\ (HasJoin(out'[Pub]) <=> HasJoin(out[Pub])) /\ (HasLeave(out'[Pub]) <=> HasLeave(out[Pub]))
      /\ OneJoin(out[Pub]) => OneJoin(out'[Pub])
      /\ LeaveLast(out[Pub]) => LeaveLast(out'[Pub])
    <2> DEFINE m == OfferMsg(v, entry[v].id)
    <2>1. QueueTypes /\ m \in OutMsgs(Pub) /\ m.type \in {"offer", "answer"}
          /\ out'[Pub] = Append(out[Pub], m)
        BY <1>1 DEF TypeInv
    <2> HIDE DEF m
    <2> QED BY <1>2, <2>1, SaysOther
<1>5. LinkOf(Pub)' /\ HearOf(Pub)' /\ IdleOf(Pub)' /\ QuitOf(Pub)'
    BY <1>1, <1>3, <1>4 DEF Own, LinkOf, HearOf, Hears, Listening, IdleOf, QuitOf, Calm
<1>6. TimerOf(Pub)' /\ KnownOf(Pub)'
    BY <1>1, <1>3 DEF Own, TimerOf, KnownOf, Calm
<1>7. OnceOf(Pub)'
    BY <1>1, <1>3, <1>4 DEF Own, OnceOf, Coming, Calm
<1> QED BY <1>5, <1>6, <1>7 DEF Own

\* A pair of ends connects.
LEMMA PcConnectOwn ==
    ASSUME TypeInv, NEW v \in Viewers, Own(v), PcConnects(v)
    PROVE  Own(v)'
<1>1. v \in Clients /\ v # Pub
    BY ConstantFacts
<1>2. /\ opts' = opts /\ members' = members /\ in' = in
      /\ Alike(v) /\ (stopping'[v] <=> stopping[v]) /\ timers'[v] = timers[v]
      /\ waiting'[v] = waiting[v] /\ tstate'[v] = tstate[v] /\ sock'[v] = sock[v]
      /\ out'[v] = out[v] /\ (Bound(v)' <=> Bound(v))
    BY <1>1, PcConnectFacts DEF Bound
<1>3. /\ (state'[v] = "closed" <=> state[v] = "closed") /\ (state'[v] = "idle" <=> state[v] = "idle")
    BY <1>2 DEF Alike
<1>4. LinkOf(v)' /\ HearOf(v)' /\ IdleOf(v)' /\ QuitOf(v)'
    BY <1>2, <1>3 DEF Own, LinkOf, HearOf, Hears, Listening, IdleOf, QuitOf
<1>5. TimerOf(v)' /\ KnownOf(v)' /\ OnceOf(v)'
    BY <1>2, <1>3 DEF Own, TimerOf, KnownOf, OnceOf, Coming
<1> QED BY <1>4, <1>5 DEF Own

\* A peer connection fails.
LEMMA PcFailOwn ==
    ASSUME TypeInv, NEW v \in Viewers, Own(v), PcFails(v)
    PROVE  Own(v)'
<1>1. v \in Clients /\ v # Pub
    BY ConstantFacts
<1>2. /\ opts' = opts /\ members' = members /\ in' = in
      /\ opts.ice /\ ~opts.auto /\ Bound(v) /\ Fails(v) /\ (stopping'[v] <=> stopping[v])
      /\ waiting'[v] = waiting[v] /\ tstate'[v] = tstate[v] /\ sock'[v] = sock[v]
      /\ out'[v] = out[v]
    BY <1>1, PcFailFacts DEF Bound
<1>3. ~stopping[v] /\ state[v] # "idle"
    BY <1>1, <1>2, IdleIsUnbound DEF Own, KnownOf
<1>4. ~Bound(v)' /\ state'[v] # "idle"
    BY <1>1, <1>2, <1>3, BoundTorn DEF Fails, Alike
<1>5. LinkOf(v)' /\ HearOf(v)' /\ IdleOf(v)' /\ QuitOf(v)'
    BY <1>2, <1>3, <1>4 DEF Own, LinkOf, HearOf, Hears, Listening, IdleOf, QuitOf
<1>6. TimerOf(v)' /\ KnownOf(v)' /\ OnceOf(v)'
    BY <1>1, <1>2, <1>3, <1>4 DEF TimerOf, KnownOf, OnceOf
<1> QED BY <1>5, <1>6 DEF Own

\* The others, when c acts.
LEMMA OthersOwn ==
    ASSUME TypeInv, OwnInv, NEW c \in Clients, Aside(c), opts' = opts,
           \A d \in Clients \ {c} : Bound(d)' => Bound(d),
           \A d \in Clients \ {c} : in'[d] = in[d] \/ d \in Reachable(c)
    PROVE  \A d \in Clients \ {c} : Own(d)'
<1> TAKE d \in Clients \ {c}
<1>1. Own(d) /\ Rests(d) /\ (Bound(d)' => Bound(d))
    BY DEF OwnInv, Aside
<1>2. in'[d] # <<>> => d \in members /\ Hears(d)
    BY <1>1 DEF Own, HearOf, Reachable
<1> QED BY <1>1, <1>2, OwnRests

\* Whoever is told something of c can be reached.
LEMMA ToldFacts ==
    ASSUME NEW c \in Clients
    PROVE  /\ InKept(c) => \A d \in Clients \ {c} : in'[d] = in[d]
           /\ \A m : Tells(c, m) => \A d \in Clients \ {c} : in'[d] = in[d] \/ d \in Reachable(c)
BY DEF InKept, Tells

\* One step of a client.
LEMMA ClientOwn ==
    ASSUME TypeInv, OwnInv, NEW c \in Clients,
           \/ Start(c) \/ Stop(c) \/ RetryFires(c) \/ ConnectResolves(c) \/ ConnectRejects(c)
           \/ BudgetResets(c) \/ Opens(c) \/ Closes(c) \/ AutoReconnects(c) \/ ServerReceives(c)
    PROVE  TypeInv' /\ OwnInv'
<1>1. Own(c)
    BY DEF OwnInv
<1>2. PairsKept \/ Torn(c) => \A d \in Clients \ {c} : Bound(d)' => Bound(d)
    BY BoundKept, BoundTorn
<1>3. SUFFICES TypeInv' /\ Own(c)' /\ \A d \in Clients \ {c} : Own(d)'
    BY DEF OwnInv
<1>4. CASE Start(c)
    <2>1. TypeInv' /\ opts' = opts /\ Aside(c) /\ in' = in /\ PairsKept
        BY <1>4, StartFacts
    <2> QED BY <1>1, <1>2, <1>4, <2>1, StartOwn, OthersOwn
<1>5. CASE Stop(c)
    <2>1. TypeInv' /\ opts' = opts /\ Aside(c) /\ InKept(c) /\ Torn(c)
        BY <1>5, StopFacts
    <2> QED BY <1>1, <1>2, <1>5, <2>1, StopOwn, OthersOwn, ToldFacts
<1>6. CASE RetryFires(c)
    <2>1. TypeInv' /\ opts' = opts /\ Aside(c) /\ in' = in /\ PairsKept
        BY <1>6, RetryFacts
    <2> QED BY <1>1, <1>2, <1>6, <2>1, RetryOwn, OthersOwn
<1>7. CASE ConnectResolves(c)
    <2>1. TypeInv' /\ opts' = opts /\ Aside(c) /\ in' = in /\ PairsKept
        BY <1>7, ResolveFacts
    <2> QED BY <1>1, <1>2, <1>7, <2>1, ResolveOwn, OthersOwn
<1>8. CASE ConnectRejects(c)
    <2>1. TypeInv' /\ opts' = opts /\ Aside(c) /\ in' = in /\ (PairsKept \/ Torn(c))
        BY <1>8, RejectFacts DEF Fails
    <2> QED BY <1>1, <1>2, <1>8, <2>1, RejectOwn, OthersOwn
<1>9. CASE BudgetResets(c)
    <2>1. TypeInv' /\ opts' = opts /\ in' = in /\ PairsKept /\ \A d \in Clients : Rests(d)
        BY <1>9, ResetFacts
    <2>2. Own(c)'
        BY <1>1, <2>1, OwnRests, BoundKept DEF Own, HearOf
    <2> QED BY <1>2, <2>1, <2>2, OthersOwn DEF Aside
<1>10. CASE Opens(c)
    <2>1. TypeInv' /\ opts' = opts /\ Aside(c) /\ in' = in /\ PairsKept
        BY <1>10, OpenFacts
    <2> QED BY <1>1, <1>2, <1>10, <2>1, OpenOwn, OthersOwn
<1>11. CASE Closes(c)
    <2>1. /\ TypeInv' /\ opts' = opts /\ Aside(c) /\ (PairsKept \/ Torn(c))
          /\ Tells(c, PeerLeft(c)) \/ InKept(c)
        BY <1>11, CloseFacts DEF Fails
    <2>2. \A d \in Clients \ {c} : in'[d] = in[d] \/ d \in Reachable(c)
        BY <2>1, ToldFacts
    <2> QED BY <1>1, <1>2, <1>11, <2>1, <2>2, CloseOwn, OthersOwn
<1>12. CASE AutoReconnects(c)
    <2>1. TypeInv' /\ opts' = opts /\ Aside(c) /\ in' = in /\ PairsKept
        BY <1>12, AutoFacts
    <2> QED BY <1>1, <1>2, <1>12, <2>1, AutoOwn, OthersOwn
<1>13. CASE ServerReceives(c)
    <2>1. /\ opts' = opts /\ PairsKept
          /\ Head(out[c]).type \in {"join", "leave", "offer", "answer"}
        BY <1>13, ReceiveFacts, MessageFacts
    <2>2. TypeInv' /\ Aside(c) /\ \A d \in Clients \ {c} : in'[d] = in[d] \/ d \in Reachable(c)
        <3>1. CASE Head(out[c]).type = "join"
            BY <1>13, <3>1, JoinFacts, ToldFacts
        <3>2. CASE Head(out[c]).type = "leave"
            <4>1. TypeInv' /\ Aside(c) /\ (Tells(c, PeerLeft(c)) \/ InKept(c))
                BY <1>13, <3>2, LeaveFacts
            <4> QED BY <4>1, ToldFacts
        <3>3. CASE Head(out[c]).type \in {"offer", "answer"}
            BY <1>13, <3>3, PassFacts
        <3> QED BY <2>1, <3>1, <3>2, <3>3
    <2> QED BY <1>1, <1>2, <1>13, <2>1, <2>2, ReceiveOwn, OthersOwn
<1> QED BY <1>4, <1>5, <1>6, <1>7, <1>8, <1>9, <1>10, <1>11, <1>12, <1>13

\* The publisher reads a message.
LEMMA PublisherOwn ==
    ASSUME TypeInv, OwnInv, PublisherReceives
    PROVE  TypeInv' /\ OwnInv'
<1>1. Pub \in Clients /\ Own(Pub)
    BY ConstantFacts DEF OwnInv
<1>2. /\ TypeInv' /\ opts' = opts /\ \A d \in Clients : Rests(d)
      /\ in[Pub] # <<>> /\ InKept(Pub) /\ pc' = pc
    BY PublisherFacts
<1>3. Own(Pub)'
    BY <1>1, <1>2, ReadOwn DEF Rests, Calm, Alike
<1>4. \A d \in Clients \ {Pub} : Own(d)'
    BY <1>1, <1>2, OthersOwn DEF Aside, Bound, InKept
<1> QED BY <1>2, <1>3, <1>4 DEF OwnInv

\* A viewer's pair takes a step.
LEMMA ViewerOwn ==
    ASSUME TypeInv, OwnInv, NEW v \in Viewers,
           OfferMade(v) \/ ViewerReceives(v) \/ PcConnects(v) \/ PcFails(v)
    PROVE  TypeInv' /\ OwnInv'
<1>1. Pub \in Clients /\ Own(Pub) /\ v \in Clients /\ v # Pub /\ Own(v)
    BY ConstantFacts DEF OwnInv
<1>2. CASE OfferMade(v)
    <2>1. TypeInv' /\ opts' = opts /\ Aside(Pub) /\ in' = in /\ pc' = pc
        BY <1>2, OfferFacts
    <2>2. Own(Pub)'
        BY <1>1, <1>2, OfferOwn
    <2>3. \A d \in Clients \ {Pub} : Own(d)'
        BY <1>1, <2>1, OthersOwn DEF Bound
    <2> QED BY <2>1, <2>2, <2>3 DEF OwnInv
<1>3. CASE ViewerReceives(v)
    <2> DEFINE m == Head(in[v])
               a == AnswerMsg(v, m.offer, pc[v].id)
    <2>1. /\ TypeInv' /\ opts' = opts /\ members' = members /\ Aside(v)
          /\ in[v] # <<>> /\ InKept(v) /\ m \in InMsgs(v)
          /\ Alike(v) /\ (stopping'[v] <=> stopping[v]) /\ timers'[v] = timers[v]
          /\ waiting'[v] = waiting[v] /\ tstate'[v] = tstate[v] /\ sock'[v] = sock[v]
          /\ entry' = entry /\ \A w \in Viewers \ {v} : pc'[w] = pc[w]
        BY <1>3, ViewerFacts
    <2>2. out'[v] = out[v] \/ (m.type = "offer" /\ out'[v] = Append(out[v], a))
        BY <1>3, ViewerFacts
    <2>3. m.type = "offer" => a \in OutMsgs(v) /\ a.type = "answer"
        BY <1>1, <2>1, MessageFacts DEF AnswerMsg, TypeInv, PairTypes, Pcs
    <2> HIDE DEF m, a
    <2>4. Own(v)'
        BY <1>1, <2>1, <2>2, <2>3, ReadOwn
    <2>5. \A d \in Clients \ {v} : Own(d)'
        BY <1>1, <2>1, OthersOwn, ConstantFacts DEF Bound, InKept
    <2> QED BY <2>1, <2>4, <2>5 DEF OwnInv
<1>4. CASE PcConnects(v)
    <2>1. /\ TypeInv' /\ opts' = opts /\ Aside(v) /\ in' = in /\ entry' = entry
          /\ \A w \in Viewers \ {v} : pc'[w] = pc[w]
        BY <1>4, PcConnectFacts
    <2>2. \A d \in Clients \ {v} : Own(d)'
        BY <1>1, <2>1, OthersOwn, ConstantFacts DEF Bound
    <2> QED BY <1>1, <1>4, <2>1, <2>2, PcConnectOwn DEF OwnInv
<1>5. CASE PcFails(v)
    <2>1. TypeInv' /\ opts' = opts /\ Aside(v) /\ in' = in /\ Torn(v)
        BY <1>5, PcFailFacts DEF Fails
    <2>2. \A d \in Clients \ {v} : Own(d)'
        BY <1>1, <2>1, OthersOwn, BoundTorn
    <2> QED BY <1>1, <1>5, <2>1, <2>2, PcFailOwn DEF OwnInv
<1> QED BY <1>2, <1>3, <1>4, <1>5

\* It holds at first.
LEMMA OwnInit ==
    Init => TypeInv /\ OwnInv
<1> SUFFICES ASSUME Init PROVE TypeInv /\ OwnInv
    OBVIOUS
<1>1. ClientTypes
    BY ConstantFacts DEF Init, ClientTypes, States, Sockets
<1>2. PairTypes
    BY DEF Init, PairTypes, NoEntry, NoPc, Entries, Pcs
<1>3. QueueTypes
    <2>1. \A c \in Clients : <<>> \in Seq(OutMsgs(c)) /\ <<>> \in Seq(InMsgs(c))
        OBVIOUS
    <2> QED BY <2>1 DEF Init, QueueTypes
<1>4. ASSUME NEW c \in Clients PROVE Own(c)
    <2>1. /\ state[c] = "idle" /\ ~stopping[c] /\ waiting[c] = "none" /\ timers[c] = 0
          /\ tstate[c] = "idle" /\ sock[c] = "none" /\ out[c] = <<>> /\ in[c] = <<>> /\ c \notin members
        BY <1>4 DEF Init
    <2>2. ~Bound(c)
        <3>1. \A v \in Viewers : entry[v] = NoEntry(0) /\ pc[v] = NoPc(0)
            BY DEF Init
        <3> QED BY <3>1, NothingMade, ConstantFacts DEF Bound
    <2> QED BY <2>1, <2>2, NothingSays
            DEF Own, LinkOf, HearOf, IdleOf, QuitOf, TimerOf, OnceOf, KnownOf
<1> QED BY <1>1, <1>2, <1>3, <1>4 DEF TypeInv, OwnInv

\* Every step keeps it.
LEMMA OwnStep ==
    TypeInv /\ OwnInv /\ [Next]_vars => TypeInv' /\ OwnInv'
<1> SUFFICES ASSUME TypeInv, OwnInv, [Next]_vars PROVE TypeInv' /\ OwnInv'
    OBVIOUS
<1>1. CASE Next
    BY <1>1, ClientOwn, PublisherOwn, ViewerOwn DEF Next
<1>2. CASE UNCHANGED vars
    <2>1. /\ opts' = opts /\ state' = state /\ stopping' = stopping /\ waiting' = waiting
          /\ timers' = timers /\ attempts' = attempts /\ tstate' = tstate /\ sock' = sock
          /\ out' = out /\ in' = in /\ members' = members /\ entry' = entry /\ pc' = pc
        BY <1>2 DEF vars, cliVars, pcVars, linkVars
    <2>2. TypeInv'
        BY <2>1 DEF TypeInv, ClientTypes, PairTypes, QueueTypes
    <2>3. \A d \in Clients : Rests(d) /\ (Bound(d)' => Bound(d)) /\ in'[d] = in[d]
        BY <2>1 DEF Rests, Calm, Bound
    <2>4. ASSUME NEW d \in Clients PROVE Own(d)'
        <3>1. Own(d) /\ Rests(d) /\ (Bound(d)' => Bound(d)) /\ in'[d] = in[d]
            BY <2>3 DEF OwnInv
        <3> QED BY <2>1, <3>1, OwnRests DEF Own, HearOf
    <2> QED BY <2>2, <2>4 DEF OwnInv
<1> QED BY <1>1, <1>2

\* Mesh keeps its types.
THEOREM Mesh_Types == Spec => []TypeOK
<1>1. TypeInv => TypeOK
    BY DEF TypeInv, ClientTypes, TypeOK, States, Sockets, Transitions
<1> QED BY <1>1, OwnInit, OwnStep, PTL DEF Spec

\* A client that stopped is not in the room once the server has everything it said.
THEOREM Mesh_Leaves == Spec => []StoppedLeaves
<1>1. OwnInv => StoppedLeaves
    BY NothingSays DEF OwnInv, Own, QuitOf, StoppedLeaves
<1> QED BY <1>1, OwnInit, OwnStep, PTL DEF Spec

-----------------------------------------------------------------------------
\* Whom each end knows of: those it has, corrected by the news on their way to it.

PubNews ==
    Pub \in members /\ Hears(Pub) =>
      \A v \in Viewers : v \in members <=> Ends(in[Pub], v, entry[v].sdp # "none")

\* A viewer whose retry is still to come, or whose join is, will be greeted again.
ViewerNews(v) ==
    v \in members /\ Hears(v) /\ state[v] # "closed" =>
      /\ Ends(in[v], Pub, pc[v].open) => Pub \in members
      /\ Pub \in members => Ends(in[v], Pub, pc[v].open) \/ timers[v] > 0 \/ HasJoin(out[v])

NewsInv == PubNews /\ \A v \in Viewers : ViewerNews(v)

\* With no news, what it has is what it knows.
LEMMA NoNews ==
    ASSUME NEW p, NEW now
    PROVE  Ends(<<>>, p, now) <=> now
BY DEF Ends

\* What a step of the others leaves a listener.
LEMMA HearsRests ==
    ASSUME NEW d \in Clients, Calm(d)
    PROVE  Hears(d)' <=> Hears(d)
BY DEF Calm, Hears, Listening

\* No news for the publisher.
LEMMA PubNewsKept ==
    ASSUME PubNews, \A v \in Viewers : v \in members' <=> v \in members,
           Pub \in members' /\ Hears(Pub)' =>
             /\ Pub \in members /\ Hears(Pub) /\ in'[Pub] = in[Pub]
             /\ \A v \in Viewers : entry'[v].sdp = "none" <=> entry[v].sdp = "none"
    PROVE  PubNews'
<1> SUFFICES ASSUME Pub \in members', Hears(Pub)', NEW v \in Viewers
             PROVE  v \in members' <=> Ends(in'[Pub], v, entry'[v].sdp # "none")
    BY DEF PubNews
<1>1. /\ v \in members <=> Ends(in[Pub], v, entry[v].sdp # "none")
      /\ in'[Pub] = in[Pub] /\ (entry'[v].sdp = "none" <=> entry[v].sdp = "none")
    BY DEF PubNews
<1> QED BY <1>1 DEF Ends

\* No news for a viewer.
LEMMA ViewerNewsKept ==
    ASSUME NEW v \in Viewers, ViewerNews(v), Pub \in members' <=> Pub \in members,
           v \in members' /\ Hears(v)' /\ state'[v] # "closed" =>
             /\ v \in members /\ Hears(v) /\ state[v] # "closed" /\ in'[v] = in[v]
             /\ pc'[v].open => pc[v].open
             /\ pc[v].open => pc'[v].open \/ timers'[v] > 0
             /\ timers[v] > 0 \/ HasJoin(out[v]) => timers'[v] > 0 \/ HasJoin(out'[v])
    PROVE  ViewerNews(v)'
<1> SUFFICES ASSUME v \in members', Hears(v)', state'[v] # "closed"
             PROVE  /\ Ends(in'[v], Pub, pc'[v].open) => Pub \in members'
                    /\ Pub \in members' =>
                         Ends(in'[v], Pub, pc'[v].open) \/ timers'[v] > 0 \/ HasJoin(out'[v])
    BY DEF ViewerNews
<1>1. /\ Ends(in[v], Pub, pc[v].open) => Pub \in members
      /\ Pub \in members => Ends(in[v], Pub, pc[v].open) \/ timers[v] > 0 \/ HasJoin(out[v])
      /\ in'[v] = in[v]
    BY DEF ViewerNews
<1>2. Ends(in'[v], Pub, pc'[v].open) => Ends(in[v], Pub, pc[v].open)
    BY <1>1 DEF Ends
<1>3. Ends(in[v], Pub, pc[v].open) => Ends(in'[v], Pub, pc'[v].open) \/ timers'[v] > 0
    BY <1>1 DEF Ends
<1> QED BY <1>1, <1>2, <1>3

\* A viewer that rests, and is told nothing.
LEMMA ViewerNewsRests ==
    ASSUME NEW v \in Viewers, ViewerNews(v), Rests(v), in'[v] = in[v], pc'[v] = pc[v],
           Pub \in members' <=> Pub \in members
    PROVE  ViewerNews(v)'
<1>1. v \in Clients
    BY ConstantFacts
<1>2. /\ (v \in members' <=> v \in members) /\ state'[v] = state[v] /\ timers'[v] = timers[v]
      /\ out'[v] = out[v] /\ (Hears(v)' <=> Hears(v))
    BY <1>1, HearsRests DEF Rests, Calm
<1> QED BY <1>2, ViewerNewsKept

\* c is in the room no more, and whoever had heard of it is told.
LEMMA GoneNews ==
    ASSUME TypeInv, NewsInv, NEW c \in Clients, Aside(c), c \notin members',
           IF c \in members THEN Tells(c, PeerLeft(c)) ELSE InKept(c),
           c # Pub => entry' = entry, \A w \in Viewers \ {c} : pc'[w] = pc[w]
    PROVE  NewsInv'
<1>1. Pub \in Clients /\ Pub \notin Viewers /\ Viewers \subseteq Clients
    BY ConstantFacts
<1>2. \A d \in Clients \ {c} :
         /\ Rests(d) /\ (d \in members' <=> d \in members) /\ (Hears(d)' <=> Hears(d))
         /\ in[d] \in Seq(InMsgs(d))
    BY HearsRests DEF Aside, Rests, TypeInv, QueueTypes
<1>3. PeerLeft(c).type = "peer-left" /\ PeerLeft(c).peer = c
    BY DEF PeerLeft
<1>4. PubNews'
    <2>1. CASE c = Pub
        BY <2>1 DEF PubNews
    <2>2. CASE c # Pub
        <3>1. c \in Viewers /\ Counterparts(c) = {Pub} /\ entry' = entry
            BY <2>2, ConstantFacts DEF Counterparts
        <3> SUFFICES ASSUME Pub \in members', Hears(Pub)', NEW v \in Viewers
                     PROVE  v \in members' <=> Ends(in'[Pub], v, entry[v].sdp # "none")
            BY <3>1 DEF PubNews
        <3>2. /\ Pub \in members /\ Hears(Pub) /\ in[Pub] \in Seq(InMsgs(Pub))
              /\ v \in members <=> Ends(in[Pub], v, entry[v].sdp # "none")
            BY <1>1, <1>2, <2>2 DEF NewsInv, PubNews
        <3>3. CASE c \in members
            <4>1. in'[Pub] = Append(in[Pub], PeerLeft(c)) /\ PeerLeft(c) \in InMsgs(Pub)
                BY <1>1, <2>2, <3>1, <3>2, <3>3, MessageFacts DEF Tells, Reachable
            <4>2. Ends(in'[Pub], v, entry[v].sdp # "none")
                    <=> IF About(PeerLeft(c), v) THEN JoinedIn(PeerLeft(c), v)
                        ELSE Ends(in[Pub], v, entry[v].sdp # "none")
                BY <3>2, <4>1, AppendNews
            <4>3. (About(PeerLeft(c), v) <=> v = c) /\ ~JoinedIn(PeerLeft(c), v)
                BY <1>3 DEF About, JoinedIn
            <4>4. v # c => (v \in members' <=> v \in members)
                BY <1>1, <1>2
            <4> QED BY <3>2, <4>2, <4>3, <4>4
        <3>4. CASE c \notin members
            <4>1. in'[Pub] = in[Pub]
                BY <1>1, <2>2, <3>4 DEF InKept
            <4>2. v \in members' <=> v \in members
                BY <1>1, <1>2, <3>4
            <4> QED BY <3>2, <4>1, <4>2
        <3> QED BY <3>3, <3>4
    <2> QED BY <2>1, <2>2
<1>5. ASSUME NEW v \in Viewers PROVE ViewerNews(v)'
    <2>1. CASE v = c
        BY <2>1 DEF ViewerNews
    <2>2. CASE v # c /\ c # Pub
        <3>1. Rests(v) /\ pc'[v] = pc[v] /\ (Pub \in members' <=> Pub \in members)
            BY <1>1, <1>2, <2>2
        <3>2. in'[v] = in[v]
            BY <1>1, <2>2 DEF Tells, InKept, Reachable, Counterparts
        <3> QED BY <3>1, <3>2, ViewerNewsRests DEF NewsInv
    <2>3. CASE v # c /\ c = Pub
        <3> SUFFICES ASSUME v \in members', Hears(v)', state'[v] # "closed"
                     PROVE  ~Ends(in'[v], Pub, pc'[v].open)
            BY <2>3 DEF ViewerNews
        <3>1. /\ v \in members /\ Hears(v) /\ state[v] # "closed" /\ in[v] \in Seq(InMsgs(v))
              /\ pc'[v] = pc[v]
            BY <1>1, <1>2, <2>3 DEF Rests, Calm
        <3>2. Ends(in[v], Pub, pc[v].open) => Pub \in members
            BY <3>1 DEF NewsInv, ViewerNews
        <3>3. CASE c \in members
            <4>1. v \in Counterparts(c)
                BY <2>3 DEF Counterparts
            <4>2. in'[v] = Append(in[v], PeerLeft(c)) /\ PeerLeft(c) \in InMsgs(v)
                BY <1>1, <2>3, <3>1, <3>3, <4>1, MessageFacts DEF Tells, Reachable
            <4>3. Ends(in'[v], Pub, pc'[v].open)
                    <=> IF About(PeerLeft(c), Pub) THEN JoinedIn(PeerLeft(c), Pub)
                        ELSE Ends(in[v], Pub, pc'[v].open)
                BY <3>1, <4>2, AppendNews
            <4>4. About(PeerLeft(c), Pub) /\ ~JoinedIn(PeerLeft(c), Pub)
                BY <1>3, <2>3 DEF About, JoinedIn
            <4> QED BY <4>3, <4>4
        <3>4. CASE c \notin members
            <4>1. in'[v] = in[v]
                BY <1>1, <2>3, <3>4 DEF InKept
            <4> QED BY <2>3, <3>1, <3>2, <3>4, <4>1
        <3> QED BY <3>3, <3>4
    <2> QED BY <2>1, <2>2, <2>3
<1> QED BY <1>4, <1>5 DEF NewsInv

\* A client that joins anew has nothing and has heard nothing.
LEMMA JoinsAnew ==
    ASSUME NEW c \in Clients, Own(c), HasJoin(out[c]), c \notin members
    PROVE  in[c] = <<>> /\ (c = Pub \/ state[c] # "closed" => ~Bound(c))
BY DEF Own, HearOf, OnceOf, Coming, KnownOf

\* c joins: it is greeted by all, and all are told.
LEMMA JoinNews ==
    ASSUME TypeInv, OwnInv, NewsInv, NEW c \in Clients, ServerReceives(c), Head(out[c]).type = "join"
    PROVE  NewsInv'
<1>1. Pub \in Clients /\ Pub \notin Viewers /\ Viewers \subseteq Clients
    BY ConstantFacts
<1>2. /\ PairsKept /\ Calm(c) /\ Aside(c) /\ c \in members' /\ Tells(c, PeerJoined(c))
      /\ in'[c] = IF Hears(c) THEN in[c] \o Greeting(c) ELSE in[c]
    BY ReceiveFacts, JoinFacts
<1>3. /\ HasJoin(out[c]) /\ out[c] # <<>>
    BY ReceiveFacts, TailSays
<1>4. c \notin members => in[c] = <<>> /\ (c = Pub \/ state[c] # "closed" => ~Bound(c))
    BY <1>3, JoinsAnew DEF OwnInv
<1>5. \A d \in Clients : (Hears(d)' <=> Hears(d)) /\ in[d] \in Seq(InMsgs(d)) /\ state'[d] = state[d]
    BY <1>2, HearsRests DEF Aside, Rests, Calm, TypeInv, QueueTypes
<1>6. \A d \in Clients \ {c} : Rests(d) /\ (d \in members' <=> d \in members)
    BY <1>2 DEF Aside, Rests
<1>7. PeerJoined(c).type = "peer-joined" /\ PeerJoined(c).peer = c
    BY DEF PeerJoined
<1>8. ASSUME NEW p, NEW now
      PROVE  Ends(in[c] \o Greeting(c), p, now) <=> p \in Present(c) \/ Ends(in[c], p, now)
    <2> DEFINE t == Greeting(c)
               q == in[c]
               P == Present(c)
               S == InMsgs(c)
    <2>1. t \in Seq(S) /\ q \in Seq(S) /\ Greets(t, P)
        BY <1>5, GreetingFacts
    <2> HIDE DEF t, q, P, S
    <2>2. Ends(q \o t, p, now) <=> p \in P \/ Ends(q, p, now)
        BY <2>1, ConcatNews
    <2> QED BY <2>2 DEF t, q, P
<1>9. PubNews'
    <2> SUFFICES ASSUME Pub \in members', Hears(Pub)', NEW v \in Viewers
                 PROVE  v \in members' <=> Ends(in'[Pub], v, entry[v].sdp # "none")
        BY <1>2 DEF PubNews, PairsKept
    <2>1. CASE c = Pub
        <3>1. in'[Pub] = in[Pub] \o Greeting(Pub)
            BY <1>1, <1>2, <1>5, <2>1
        <3>2. Ends(in'[Pub], v, entry[v].sdp # "none")
                <=> v \in members \/ Ends(in[Pub], v, entry[v].sdp # "none")
            BY <1>8, <2>1, <3>1 DEF Present, Counterparts
        <3>3. v \in members' <=> v \in members
            BY <1>1, <1>6, <2>1
        <3>4. CASE Pub \in members
            BY <1>1, <1>5, <3>2, <3>3, <3>4 DEF NewsInv, PubNews
        <3>5. CASE Pub \notin members
            <4>1. in[Pub] = <<>> /\ entry[v].sdp = "none"
                BY <1>4, <2>1, <3>5 DEF Bound
            <4> QED BY <3>2, <3>3, <4>1, NoNews
        <3> QED BY <3>4, <3>5
    <2>2. CASE c # Pub
        <3>1. c \in Viewers /\ Pub \in members /\ Hears(Pub)
            BY <1>1, <1>5, <1>6, <2>2, ConstantFacts
        <3>2. in'[Pub] = Append(in[Pub], PeerJoined(c)) /\ PeerJoined(c) \in InMsgs(Pub)
            BY <1>1, <1>2, <2>2, <3>1, MessageFacts DEF Tells, Reachable, Counterparts
        <3>3. Ends(in'[Pub], v, entry[v].sdp # "none")
                <=> IF About(PeerJoined(c), v) THEN JoinedIn(PeerJoined(c), v)
                    ELSE Ends(in[Pub], v, entry[v].sdp # "none")
            BY <1>1, <1>5, <3>2, AppendNews
        <3>4. (About(PeerJoined(c), v) <=> v = c) /\ (v = c => JoinedIn(PeerJoined(c), v))
            BY <1>7 DEF About, JoinedIn
        <3>5. v # c => (v \in members' <=> v \in members)
            BY <1>1, <1>6
        <3>6. v \in members <=> Ends(in[Pub], v, entry[v].sdp # "none")
            BY <3>1 DEF NewsInv, PubNews
        <3> QED BY <1>2, <3>3, <3>4, <3>5, <3>6
    <2> QED BY <2>1, <2>2
<1>10. ASSUME NEW v \in Viewers PROVE ViewerNews(v)'
    <2>1. CASE v # c /\ c # Pub
        <3>1. Rests(v) /\ pc'[v] = pc[v] /\ (Pub \in members' <=> Pub \in members)
            BY <1>1, <1>2, <1>6, <2>1 DEF PairsKept
        <3>2. in'[v] = in[v]
            BY <1>1, <1>2, <2>1 DEF Tells, Reachable, Counterparts
        <3> QED BY <3>1, <3>2, ViewerNewsRests DEF NewsInv
    <2>2. CASE v # c /\ c = Pub
        <3> SUFFICES ASSUME v \in members', Hears(v)' PROVE Ends(in'[v], Pub, pc'[v].open)
            BY <1>2, <2>2 DEF ViewerNews
        <3>1. v \in members /\ Hears(v) /\ v \in Counterparts(c)
            BY <1>1, <1>5, <1>6, <2>2 DEF Counterparts
        <3>2. in'[v] = Append(in[v], PeerJoined(c)) /\ PeerJoined(c) \in InMsgs(v)
            BY <1>1, <1>2, <2>2, <3>1, MessageFacts DEF Tells, Reachable
        <3>3. Ends(in'[v], Pub, pc'[v].open)
                <=> IF About(PeerJoined(c), Pub) THEN JoinedIn(PeerJoined(c), Pub)
                    ELSE Ends(in[v], Pub, pc'[v].open)
            BY <1>1, <1>5, <3>2, AppendNews
        <3>4. About(PeerJoined(c), Pub) /\ JoinedIn(PeerJoined(c), Pub)
            BY <1>7, <2>2 DEF About, JoinedIn
        <3> QED BY <3>3, <3>4
    <2>3. CASE v = c
        <3> SUFFICES ASSUME Hears(v)', state'[v] # "closed"
                     PROVE  /\ Ends(in'[v], Pub, pc[v].open) => Pub \in members'
                            /\ Pub \in members' => Ends(in'[v], Pub, pc[v].open)
            BY <1>2 DEF ViewerNews, PairsKept
        <3>1. Hears(v) /\ state[v] # "closed" /\ v # Pub /\ (Pub \in members' <=> Pub \in members)
            BY <1>1, <1>5, <1>6, <2>3
        <3>2. in'[v] = in[v] \o Greeting(v)
            BY <1>2, <2>3, <3>1
        <3>3. Ends(in'[v], Pub, pc[v].open) <=> Pub \in members \/ Ends(in[v], Pub, pc[v].open)
            BY <1>8, <2>3, <3>1, <3>2 DEF Present, Counterparts
        <3>4. Ends(in[v], Pub, pc[v].open) => Pub \in members
            <4>1. CASE v \in members
                BY <3>1, <4>1 DEF NewsInv, ViewerNews
            <4>2. CASE v \notin members
                <5>1. in[v] = <<>> /\ ~pc[v].open
                    BY <1>4, <2>3, <3>1, <4>2 DEF Bound
                <5> QED BY <5>1, NoNews
            <4> QED BY <4>1, <4>2
        <3> QED BY <3>1, <3>3, <3>4
    <2> QED BY <2>1, <2>2, <2>3
<1> QED BY <1>9, <1>10 DEF NewsInv

\* An offer or an answer is passed on: no news.
LEMMA PassNews ==
    ASSUME TypeInv, NewsInv, NEW c \in Clients, ServerReceives(c),
           Head(out[c]).type \in {"offer", "answer"}
    PROVE  NewsInv'
<1> DEFINE m == Head(out[c])
<1>1. Pub \in Clients /\ Pub \notin Viewers /\ Viewers \subseteq Clients
    BY ConstantFacts
<1>2. /\ PairsKept /\ Calm(c) /\ Aside(c) /\ (c \in members' <=> c \in members)
      /\ m.to \in Clients \ {c} /\ m \in InMsgs(m.to) /\ in'[c] = in[c]
      /\ \A d \in Clients \ {c} :
           in'[d] = IF d = m.to /\ d \in Reachable(c) THEN Append(in[d], m) ELSE in[d]
      /\ out[c] # <<>> /\ out'[c] = Tail(out[c]) /\ out[c] \in Seq(OutMsgs(c))
      /\ m.type \in {"offer", "answer"}
    BY ReceiveFacts, PassFacts
<1>3. HasJoin(out'[c]) <=> HasJoin(out[c])
    BY <1>2, TailSays
<1> HIDE DEF m
<1>4. \A d \in Clients : /\ (Hears(d)' <=> Hears(d)) /\ in[d] \in Seq(InMsgs(d))
                        /\ state'[d] = state[d] /\ timers'[d] = timers[d]
                        /\ (d \in members' <=> d \in members)
                        /\ (HasJoin(out'[d]) <=> HasJoin(out[d]))
    BY <1>2, <1>3, HearsRests DEF Aside, Rests, Calm, TypeInv, QueueTypes
<1>5. ASSUME NEW d \in Clients, NEW p, NEW now
      PROVE  Ends(in'[d], p, now) <=> Ends(in[d], p, now)
    <2>1. ~About(m, p)
        BY <1>2 DEF About
    <2>2. CASE d = m.to /\ d \in Reachable(c) /\ d # c
        <3>1. in'[d] = Append(in[d], m) /\ in[d] \in Seq(InMsgs(d)) /\ m \in InMsgs(d)
            BY <1>2, <1>4, <2>2
        <3> QED BY <2>1, <3>1, AppendNews
    <2>3. CASE ~(d = m.to /\ d \in Reachable(c) /\ d # c)
        <3>1. in'[d] = in[d]
            BY <1>2, <2>3
        <3> QED BY <3>1
    <2> QED BY <2>2, <2>3
<1>6. PubNews'
    BY <1>1, <1>2, <1>4, <1>5 DEF NewsInv, PubNews, PairsKept
<1>7. ASSUME NEW v \in Viewers PROVE ViewerNews(v)'
    BY <1>1, <1>2, <1>4, <1>5 DEF NewsInv, ViewerNews, PairsKept
<1> QED BY <1>6, <1>7 DEF NewsInv

\* Nobody joins or leaves, nobody is told anything.
LEMMA SilentNews ==
    ASSUME TypeInv, NewsInv, NEW c \in Clients, Aside(c), in' = in \/ InKept(c),
           c \in members' <=> c \in members,
           \A v \in Viewers \ {c} : pc'[v] = pc[v],
           c # Pub => entry' = entry,
           c \in members' /\ Hears(c)' /\ (c # Pub => state'[c] # "closed") =>
             /\ c \in members /\ Hears(c) /\ in'[c] = in[c]
             /\ c = Pub => \A v \in Viewers : entry'[v].sdp = "none" <=> entry[v].sdp = "none"
             /\ c # Pub => /\ state[c] # "closed" /\ (pc'[c].open => pc[c].open)
                           /\ pc[c].open => pc'[c].open \/ timers'[c] > 0
                           /\ timers[c] > 0 \/ HasJoin(out[c]) => timers'[c] > 0 \/ HasJoin(out'[c])
    PROVE  NewsInv'
<1>1. Pub \in Clients /\ Pub \notin Viewers /\ Viewers \subseteq Clients
    BY ConstantFacts
<1>2. \A d \in Clients \ {c} : Rests(d) /\ (Hears(d)' <=> Hears(d)) /\ in'[d] = in[d]
    BY HearsRests DEF Aside, Rests, InKept
<1>3. \A d \in Clients : d \in members' <=> d \in members
    BY <1>2 DEF Rests
<1>4. PubNews'
    <2>1. CASE c = Pub
        BY <1>1, <1>3, <2>1, PubNewsKept DEF NewsInv
    <2>2. CASE c # Pub
        BY <1>1, <1>2, <1>3, <2>2, PubNewsKept DEF NewsInv
    <2> QED BY <2>1, <2>2
<1>5. ASSUME NEW v \in Viewers PROVE ViewerNews(v)'
    <2>1. CASE v = c
        BY <1>1, <1>3, <2>1, ViewerNewsKept DEF NewsInv
    <2>2. CASE v # c
        BY <1>1, <1>2, <1>3, <2>2, ViewerNewsRests DEF NewsInv
    <2> QED BY <2>1, <2>2
<1> QED BY <1>4, <1>5 DEF NewsInv

\* The publisher reads: what was news is known.
LEMMA PublisherNews ==
    ASSUME TypeInv, OwnInv, NewsInv, PublisherReceives
    PROVE  NewsInv'
<1> DEFINE m == Head(in[Pub])
<1>1. Pub \in Clients /\ Pub \notin Viewers /\ Viewers \subseteq Clients
    BY ConstantFacts
<1>2. /\ members' = members /\ \A d \in Clients : Rests(d)
      /\ in[Pub] # <<>> /\ in'[Pub] = Tail(in[Pub]) /\ InKept(Pub)
      /\ pc' = pc /\ \A v \in Viewers : Reads(m, v)
    BY PublisherFacts
<1>3. in[Pub] \in Seq(InMsgs(Pub)) /\ Pub \in members /\ Hears(Pub)
    BY <1>1, <1>2 DEF TypeInv, QueueTypes, OwnInv, Own, HearOf
<1>4. ASSUME NEW v \in Viewers
      PROVE  IF About(m, v) THEN (entry'[v].sdp # "none") <=> JoinedIn(m, v)
             ELSE (entry'[v].sdp # "none") <=> (entry[v].sdp # "none")
    <2>1. Reads(m, v) /\ NewEntry(v).sdp = "making" /\ NoEntry(entry[v].id).sdp = "none"
        BY <1>2, NothingMade DEF NewEntry
    <2> HIDE DEF m
    <2> QED BY <2>1 DEF Reads, About, JoinedIn
<1>5. ASSUME NEW v \in Viewers
      PROVE  Ends(in'[Pub], v, entry'[v].sdp # "none") <=> Ends(in[Pub], v, entry[v].sdp # "none")
    <2> DEFINE now == entry[v].sdp # "none"
               then == entry'[v].sdp # "none"
    <2>1. IF About(m, v) THEN then <=> JoinedIn(m, v) ELSE then <=> now
        BY <1>4
    <2> HIDE DEF now, then
    <2>2. Ends(in'[Pub], v, then) <=> Ends(in[Pub], v, now)
        BY <1>2, <1>3, <2>1, TailNews
    <2> QED BY <2>2 DEF now, then
<1>6. PubNews'
    BY <1>2, <1>3, <1>5 DEF NewsInv, PubNews
<1>7. ASSUME NEW v \in Viewers PROVE ViewerNews(v)'
    BY <1>1, <1>2, ViewerNewsRests DEF NewsInv, InKept
<1> QED BY <1>6, <1>7 DEF NewsInv

\* A viewer reads.
LEMMA ViewerReadsNews ==
    ASSUME TypeInv, OwnInv, NewsInv, NEW v \in Viewers, ViewerReceives(v)
    PROVE  NewsInv'
<1> DEFINE m == Head(in[v])
<1>1. Pub \in Clients /\ Pub \notin Viewers /\ v \in Clients /\ Viewers \subseteq Clients
    BY ConstantFacts
<1>2. /\ members' = members /\ Aside(v)
      /\ in[v] # <<>> /\ in'[v] = Tail(in[v]) /\ InKept(v) /\ m \in InMsgs(v)
      /\ Alike(v) /\ (stopping'[v] <=> stopping[v]) /\ timers'[v] = timers[v] /\ sock'[v] = sock[v]
      /\ entry' = entry /\ \A w \in Viewers \ {v} : pc'[w] = pc[w]
    BY ViewerFacts
<1>3. \/ /\ m.type = "peer-joined" /\ ~pc[v].open /\ out'[v] = out[v] /\ pc'[v].open
      \/ m.type = "peer-left" /\ ~pc'[v].open /\ out'[v] = out[v]
      \/ /\ m.type = "offer" /\ pc[v].open /\ pc'[v].open
         /\ out'[v] = Append(out[v], AnswerMsg(v, m.offer, pc[v].id))
      \/ /\ ~(m.type = "peer-joined" /\ ~pc[v].open) /\ m.type # "peer-left"
         /\ pc'[v] = pc[v] /\ out'[v] = out[v]
    BY ViewerFacts, NothingMade
<1>4. in[v] \in Seq(InMsgs(v)) /\ v \in members /\ Hears(v)
    BY <1>1, <1>2 DEF TypeInv, QueueTypes, OwnInv, Own, HearOf
<1>5. m.type \in {"peer-joined", "peer-left"} => m.peer = Pub
    BY <1>1, <1>2, MessageFacts DEF Counterparts
<1>6. IF About(m, Pub) THEN pc'[v].open <=> JoinedIn(m, Pub) ELSE pc'[v].open <=> pc[v].open
    <2> HIDE DEF m
    <2> QED BY <1>3, <1>5 DEF About, JoinedIn
<1>7. Ends(in'[v], Pub, pc'[v].open) <=> Ends(in[v], Pub, pc[v].open)
    BY <1>2, <1>4, <1>6, TailNews
<1>8. HasJoin(out[v]) => HasJoin(out'[v])
    <2> DEFINE a == AnswerMsg(v, m.offer, pc[v].id)
    <2>1. m.type = "offer" => a \in OutMsgs(v) /\ a.type = "answer"
        BY <1>1, <1>2, MessageFacts DEF AnswerMsg, TypeInv, PairTypes, Pcs
    <2>2. out'[v] = out[v] \/ (m.type = "offer" /\ out'[v] = Append(out[v], a))
        BY <1>3
    <2> HIDE DEF m, a
    <2> QED BY <1>1, <2>1, <2>2, SaysOther DEF TypeInv
<1>9. ViewerNews(v)'
    <2>1. (state'[v] = "closed" <=> state[v] = "closed")
        BY <1>2 DEF Alike
    <2> HIDE DEF m
    <2> QED BY <1>2, <1>4, <1>7, <1>8, <2>1 DEF NewsInv, ViewerNews
<1>10. \A d \in Clients \ {v} : Rests(d) /\ (Hears(d)' <=> Hears(d)) /\ in'[d] = in[d]
    BY <1>2, HearsRests DEF Aside, Rests, InKept
<1>11. PubNews'
    BY <1>1, <1>2, <1>10, PubNewsKept DEF NewsInv
<1>12. ASSUME NEW w \in Viewers \ {v} PROVE ViewerNews(w)'
    BY <1>1, <1>2, <1>10, ViewerNewsRests DEF NewsInv
<1> QED BY <1>9, <1>11, <1>12 DEF NewsInv

\* One step of a client.
LEMMA ClientNews ==
    ASSUME TypeInv, OwnInv, NewsInv, NEW c \in Clients,
           \/ Start(c) \/ Stop(c) \/ RetryFires(c) \/ ConnectResolves(c) \/ ConnectRejects(c)
           \/ BudgetResets(c) \/ Opens(c) \/ Closes(c) \/ AutoReconnects(c) \/ ServerReceives(c)
    PROVE  NewsInv'
<1>1. Own(c) /\ LinkOf(c)
    BY DEF OwnInv, Own
<1>2. PairsKept \/ Torn(c) =>
        /\ \A w \in Viewers \ {c} : pc'[w] = pc[w]
        /\ c # Pub => entry' = entry
    BY DEF PairsKept, Torn
<1>3. CASE Start(c)
    <2>1. Aside(c) /\ in' = in /\ members' = members /\ PairsKept /\ state[c] = "idle"
        BY <1>3, StartFacts
    <2>2. c \notin members
        BY <1>1, <2>1, IdleIsUnbound
    <2> QED BY <1>2, <2>1, <2>2, SilentNews
<1>4. CASE Stop(c)
    <2>1. Aside(c) /\ InKept(c) /\ members' = members /\ Torn(c) /\ stopping'[c]
        BY <1>4, StopFacts
    <2>2. ~Hears(c)'
        BY <2>1 DEF Hears, Listening
    <2> QED BY <1>2, <2>1, <2>2, SilentNews
<1>5. CASE RetryFires(c)
    <2>1. Aside(c) /\ in' = in /\ members' = members /\ PairsKept /\ (stopping'[c] <=> stopping[c])
          /\ timers[c] \in Nat
        BY <1>5, RetryFacts DEF TypeInv, ClientTypes
    <2>2. CASE stopping[c]
        <3>1. ~Hears(c)'
            BY <2>1, <2>2 DEF Hears, Listening
        <3> QED BY <1>2, <2>1, <3>1, SilentNews
    <2>3. CASE ~stopping[c] /\ c \in members
        <3>1. Alike(c) /\ Connects(c, "attempt") /\ sock[c] \in {"open", "closing"}
            BY <1>1, <1>5, <2>3, RetryFacts DEF LinkOf
        <3>2. tstate[c] = "connected" /\ sock[c] = "open"
            BY <1>1, <2>3, <3>1 DEF LinkOf
        <3>3. sock'[c] = sock[c] /\ HasJoin(out'[c])
            BY <3>1, <3>2, SaysJoin DEF Connects, TypeInv
        <3>4. (Hears(c)' <=> Hears(c)) /\ (state'[c] = "closed" <=> state[c] = "closed")
            BY <2>1, <3>1, <3>3 DEF Hears, Listening, Alike
        <3>5. /\ \A v \in Viewers : entry'[v].sdp = "none" <=> entry[v].sdp = "none"
              /\ pc'[c] = pc[c]
            BY <2>1 DEF PairsKept
        <3> QED BY <1>2, <2>1, <2>3, <3>3, <3>4, <3>5, SilentNews
    <2>4. CASE c \notin members
        BY <1>2, <2>1, <2>4, SilentNews
    <2> QED BY <2>2, <2>3, <2>4
<1>6. CASE ConnectResolves(c)
    <2>1. Aside(c) /\ in' = in /\ members' = members /\ PairsKept /\ sock[c] = "auth"
        BY <1>6, ResolveFacts
    <2>2. c \notin members
        BY <1>1, <2>1 DEF LinkOf
    <2> QED BY <1>2, <2>1, <2>2, SilentNews
<1>7. CASE ConnectRejects(c)
    <2>1. Aside(c) /\ in' = in /\ members' = members /\ (PairsKept \/ Torn(c)) /\ sock[c] = "auth"
        BY <1>7, RejectFacts DEF Fails
    <2>2. c \notin members
        BY <1>1, <2>1 DEF LinkOf
    <2> QED BY <1>2, <2>1, <2>2, SilentNews
<1>8. CASE BudgetResets(c)
    <2>1. in' = in /\ members' = members /\ PairsKept /\ \A d \in Clients : Rests(d)
        BY <1>8, ResetFacts
    <2>2. /\ Aside(c) /\ (Hears(c)' <=> Hears(c)) /\ state'[c] = state[c] /\ timers'[c] = timers[c]
          /\ out'[c] = out[c] /\ entry' = entry /\ pc' = pc
        BY <2>1, HearsRests DEF Aside, Rests, Calm, PairsKept
    <2> QED BY <1>2, <2>1, <2>2, SilentNews
<1>9. CASE Opens(c)
    <2>1. Aside(c) /\ in' = in /\ members' = members /\ PairsKept /\ sock[c] = "opening"
        BY <1>9, OpenFacts
    <2>2. c \notin members
        BY <1>1, <2>1 DEF LinkOf
    <2> QED BY <1>2, <2>1, <2>2, SilentNews
<1>10. CASE Closes(c)
    <2>1. /\ Aside(c) /\ c \notin members' /\ (PairsKept \/ Torn(c))
          /\ IF c \in members THEN Tells(c, PeerLeft(c)) ELSE InKept(c)
        BY <1>10, CloseFacts DEF Fails
    <2> QED BY <1>2, <2>1, GoneNews
<1>11. CASE AutoReconnects(c)
    <2>1. Aside(c) /\ in' = in /\ members' = members /\ PairsKept /\ sock[c] = "none"
        BY <1>11, AutoFacts
    <2>2. c \notin members
        BY <1>1, <2>1 DEF LinkOf
    <2> QED BY <1>2, <2>1, <2>2, SilentNews
<1>12. CASE ServerReceives(c)
    <2>1. PairsKept /\ Head(out[c]).type \in {"join", "leave", "offer", "answer"}
        BY <1>12, ReceiveFacts, MessageFacts
    <2>2. CASE Head(out[c]).type = "leave"
        <3>1. /\ Aside(c) /\ c \notin members'
              /\ IF c \in members THEN Tells(c, PeerLeft(c)) ELSE InKept(c)
            BY <1>12, <2>2, LeaveFacts
        <3> QED BY <1>2, <2>1, <3>1, GoneNews
    <2> QED BY <1>12, <2>1, <2>2, JoinNews, PassNews
<1> QED BY <1>3, <1>4, <1>5, <1>6, <1>7, <1>8, <1>9, <1>10, <1>11, <1>12

\* One step of a pair.
LEMMA PairNews ==
    ASSUME TypeInv, OwnInv, NewsInv, NEW v \in Viewers,
           OfferMade(v) \/ ViewerReceives(v) \/ PcConnects(v) \/ PcFails(v)
    PROVE  NewsInv'
<1>1. Pub \in Clients /\ v \in Clients /\ v # Pub
    BY ConstantFacts
<1>2. CASE OfferMade(v)
    <2>1. /\ members' = members /\ Calm(Pub) /\ Aside(Pub) /\ in' = in /\ pc' = pc
          /\ \A w \in Viewers : entry'[w].sdp = "none" <=> entry[w].sdp = "none"
        <3>1. /\ members' = members /\ Calm(Pub) /\ Aside(Pub) /\ in' = in /\ pc' = pc
              /\ entry[v].sdp = "making" /\ entry'[v].sdp = "offered"
              /\ \A w \in Viewers \ {v} : entry'[w] = entry[w]
            BY <1>2, OfferFacts
        <3> QED BY <3>1
    <2>2. Hears(Pub)' <=> Hears(Pub)
        BY <1>1, <2>1, HearsRests
    <2> QED BY <1>1, <2>1, <2>2, SilentNews
<1>3. CASE ViewerReceives(v)
    BY <1>3, ViewerReadsNews
<1>4. CASE PcConnects(v)
    <2>1. /\ members' = members /\ Aside(v) /\ in' = in /\ Alike(v)
          /\ (stopping'[v] <=> stopping[v]) /\ timers'[v] = timers[v] /\ sock'[v] = sock[v]
          /\ out'[v] = out[v] /\ entry' = entry /\ (pc'[v].open <=> pc[v].open)
          /\ \A w \in Viewers \ {v} : pc'[w] = pc[w]
        BY <1>4, PcConnectFacts
    <2>2. (Hears(v)' <=> Hears(v)) /\ (state'[v] = "closed" <=> state[v] = "closed")
        BY <2>1 DEF Alike, Hears, Listening
    <2> QED BY <1>1, <2>1, <2>2, SilentNews
<1>5. CASE PcFails(v)
    <2>1. /\ members' = members /\ Aside(v) /\ in' = in /\ Fails(v)
          /\ (stopping'[v] <=> stopping[v]) /\ sock'[v] = sock[v] /\ out'[v] = out[v]
          /\ timers[v] \in Nat
        BY <1>1, <1>5, PcFailFacts DEF TypeInv, ClientTypes
    <2>2. /\ entry' = entry /\ ~pc'[v].open /\ \A w \in Viewers \ {v} : pc'[w] = pc[w]
        BY <1>1, <2>1, NothingMade DEF Fails, Torn
    <2>3. state'[v] # "closed" =>
             /\ timers'[v] = timers[v] + 1 /\ state[v] # "closed" /\ (Hears(v)' <=> Hears(v))
        BY <2>1 DEF Fails, Alike, Hears, Listening
    <2>4. state'[v] # "closed" => timers'[v] > 0
        BY <2>1, <2>3
    <2> QED BY <1>1, <2>1, <2>2, <2>3, <2>4, SilentNews
<1> QED BY <1>2, <1>3, <1>4, <1>5

\* What is known and what is news agree, always.
LEMMA NewsStep ==
    TypeInv /\ OwnInv /\ NewsInv /\ [Next]_vars => NewsInv'
<1> SUFFICES ASSUME TypeInv, OwnInv, NewsInv, [Next]_vars PROVE NewsInv'
    OBVIOUS
<1>1. CASE Next
    BY <1>1, ClientNews, PublisherNews, PairNews DEF Next
<1>2. CASE UNCHANGED vars
    BY <1>2 DEF NewsInv, PubNews, ViewerNews, Hears, Listening, vars, cliVars, pcVars, linkVars
<1> QED BY <1>1, <1>2

\* peers() of a publisher in the room is the viewers there, and a viewer there has a
\* connection exactly if the publisher is, once everything has arrived.
THEOREM Mesh_Knows == Spec => []PeersAreTheViewers
<1>1. Init => NewsInv
    <2>1. Init => Pub \notin members /\ \A v \in Viewers : v \notin members
        BY DEF Init
    <2> QED BY <2>1 DEF NewsInv, PubNews, ViewerNews
<1>2. TypeInv /\ OwnInv /\ NewsInv => PeersAreTheViewers
    <2> SUFFICES ASSUME TypeInv, OwnInv, NewsInv PROVE PeersAreTheViewers
        OBVIOUS
    <2>1. Pub \in Clients /\ Viewers \subseteq Clients
        BY ConstantFacts
    <2>2. ASSUME NEW c \in Clients, c \in members, Listening(c), Settled(c)
          PROVE  Hears(c) /\ in[c] = <<>> /\ out[c] = <<>>
        BY <2>2 DEF Settled, Hears
    <2>3. Pub \in members /\ Listening(Pub) /\ Settled(Pub) => Known = {v \in Viewers : v \in members}
        BY <2>1, <2>2, NoNews DEF NewsInv, PubNews, Known
    <2>4. ASSUME NEW v \in Viewers,
                 v \in members /\ Listening(v) /\ Settled(v) /\ timers[v] = 0 /\ state[v] # "closed"
          PROVE  pc[v].open <=> Pub \in members
        <3>1. Hears(v) /\ in[v] = <<>> /\ out[v] = <<>>
            BY <2>1, <2>2, <2>4
        <3>2. ~HasJoin(out[v]) /\ ~(timers[v] > 0)
            BY <2>4, <3>1, NothingSays
        <3>3. Ends(in[v], Pub, pc[v].open) <=> pc[v].open
            BY <3>1, NoNews
        <3> QED BY <2>4, <3>1, <3>2, <3>3 DEF NewsInv, ViewerNews
    <2> QED BY <2>3, <2>4 DEF PeersAreTheViewers
<1> QED BY <1>1, <1>2, OwnInit, OwnStep, NewsStep, PTL DEF Spec
-----------------------------------------------------------------------------
\* What is on its way between the publisher and a viewer.

\* Offers to v and answers of v.
Deals(m, v) == \/ m.type = "offer" /\ m.to = v
               \/ m.type = "answer" /\ m.from = v
NoDeal(q, v) == \A m \in ToSet(q) : ~Deals(m, v)
NoWord(q, p) == \A m \in ToSet(q) : ~About(m, p)
NoLeave(q, p) == \A m \in ToSet(q) : ~(m.type = "peer-left" /\ m.peer = p)

\* Of all of those there is one, and it is m.
OneDeal(q, v, m) ==
    \E i \in 1..Len(q) : q[i] = m /\ \A k \in 1..Len(q) : Deals(q[k], v) => k = i

\* When v reads an offer, has it a connection to take it with?
Opened(q, v, open) ==
    open \/ \E i \in 1..Len(q) :
              q[i].type = "peer-joined" /\ \A k \in 1..Len(q) : Deals(q[k], v) => k > i

\* What is in a queue with one more, with one less, and with more.
LEMMA ToSetFacts ==
    ASSUME NEW S, NEW q \in Seq(S)
    PROVE  /\ \A m \in S : ToSet(Append(q, m)) = ToSet(q) \cup {m}
           /\ q # <<>> => ToSet(q) = ToSet(Tail(q)) \cup {Head(q)}
           /\ \A t \in Seq(S) : ToSet(q \o t) = ToSet(q) \cup ToSet(t)
           /\ ToSet(q) \subseteq S /\ ToSet(<<>>) = {}
           /\ ToSet(q) = {q[i] : i \in 1..Len(q)}
<1>1. \A t \in Seq(S) : DOMAIN t = 1..Len(t) /\ ToSet(t) = {t[i] : i \in 1..Len(t)} /\ Len(t) \in Nat
    BY DEF ToSet
<1>2. ASSUME NEW m \in S PROVE ToSet(Append(q, m)) = ToSet(q) \cup {m}
    <2> DEFINE r == Append(q, m)
    <2>1. /\ r \in Seq(S) /\ Len(q) \in Nat /\ Len(r) = Len(q) + 1 /\ r[Len(q) + 1] = m
          /\ \A i \in 1..Len(q) : r[i] = q[i]
        BY AppendFacts
    <2> HIDE DEF r
    <2>2. 1..Len(r) = (1..Len(q)) \cup {Len(q) + 1}
        BY <2>1
    <2>3. ToSet(r) = ToSet(q) \cup {m}
        BY <1>1, <2>1, <2>2
    <2> QED BY <2>3 DEF r
<1>3. ASSUME q # <<>> PROVE ToSet(q) = ToSet(Tail(q)) \cup {Head(q)}
    <2> DEFINE r == Tail(q)
    <2>1. /\ r \in Seq(S) /\ Head(q) = q[1] /\ Len(q) \in Nat \ {0} /\ Len(r) = Len(q) - 1
          /\ \A i \in 1..Len(r) : r[i] = q[i + 1]
        BY <1>3, TailFacts
    <2> HIDE DEF r
    <2>2. /\ \A i \in 1..Len(q) : i = 1 \/ (i - 1 \in 1..Len(r) /\ (i - 1) + 1 = i)
          /\ \A i \in 1..Len(r) : i + 1 \in 1..Len(q)
          /\ 1 \in 1..Len(q)
        BY <2>1
    <2>3. \A i \in 1..Len(q) : q[i] \in ToSet(r) \cup {Head(q)}
        <3> TAKE i \in 1..Len(q)
        <3>1. CASE i = 1
            BY <2>1, <3>1
        <3>2. CASE i # 1
            <4>1. i - 1 \in 1..Len(r) /\ r[i - 1] = q[i]
                BY <2>1, <2>2, <3>2
            <4> QED BY <1>1, <2>1, <4>1
        <3> QED BY <3>1, <3>2
    <2>4. \A i \in 1..Len(r) : r[i] \in ToSet(q)
        BY <1>1, <2>1, <2>2
    <2>5. ToSet(q) = ToSet(r) \cup {Head(q)}
        BY <1>1, <2>1, <2>2, <2>3, <2>4
    <2> QED BY <2>5 DEF r
<1>4. ASSUME NEW t \in Seq(S) PROVE ToSet(q \o t) = ToSet(q) \cup ToSet(t)
    <2> DEFINE r == q \o t
    <2>1. /\ r \in Seq(S) /\ Len(q) \in Nat /\ Len(t) \in Nat /\ Len(r) = Len(q) + Len(t)
          /\ \A i \in 1..Len(q) : r[i] = q[i]
          /\ \A i \in 1..Len(t) : r[Len(q) + i] = t[i]
        BY ConcatFacts
    <2> HIDE DEF r
    <2>2. /\ \A i \in 1..Len(q) : i \in 1..Len(r)
          /\ \A i \in 1..Len(t) : Len(q) + i \in 1..Len(r)
          /\ \A i \in 1..Len(r) :
               i \in 1..Len(q) \/ (i - Len(q) \in 1..Len(t) /\ Len(q) + (i - Len(q)) = i)
        BY <2>1
    <2>3. \A i \in 1..Len(r) : r[i] \in ToSet(q) \cup ToSet(t)
        <3> TAKE i \in 1..Len(r)
        <3>1. CASE i \in 1..Len(q)
            BY <1>1, <2>1, <3>1
        <3>2. CASE i \notin 1..Len(q)
            <4>1. i - Len(q) \in 1..Len(t) /\ r[i] = t[i - Len(q)]
                BY <2>1, <2>2, <3>2
            <4> QED BY <1>1, <4>1
        <3> QED BY <3>1, <3>2
    <2>4. /\ \A i \in 1..Len(q) : q[i] \in ToSet(r)
          /\ \A i \in 1..Len(t) : t[i] \in ToSet(r)
        BY <1>1, <2>1, <2>2
    <2>5. /\ ToSet(q) = {q[i] : i \in 1..Len(q)} /\ ToSet(t) = {t[i] : i \in 1..Len(t)}
          /\ ToSet(r) = {r[i] : i \in 1..Len(r)}
        BY <1>1, <2>1
    <2>6. ToSet(r) = ToSet(q) \cup ToSet(t)
        BY <2>3, <2>4, <2>5
    <2> QED BY <2>6 DEF r
<1>5. \A i \in 1..Len(q) : q[i] \in S
    OBVIOUS
<1>6. ToSet(<<>>) = {}
    BY DEF ToSet
<1> QED BY <1>1, <1>2, <1>3, <1>4, <1>5, <1>6

\* The empty queue, and one in which only a join is asked for.
LEMMA NothingDeals ==
    /\ \A v : NoDeal(<<>>, v) /\ NoWord(<<>>, v) /\ NoLeave(<<>>, v)
    /\ \A v, m : ~OneDeal(<<>>, v, m)
    /\ \A v : ~Opened(<<>>, v, FALSE)
    /\ \A S : \A q \in Seq(S) : JoinsOnly(q) => \A v : NoDeal(q, v)
<1>1. ToSet(<<>>) = {} /\ 1..Len(<<>>) = {}
    BY DEF ToSet
<1>2. ASSUME NEW S, NEW q \in Seq(S), JoinsOnly(q) PROVE \A v : NoDeal(q, v)
    <2>1. ToSet(q) = {q[i] : i \in 1..Len(q)}
        BY ToSetFacts
    <2> QED BY <1>2, <2>1 DEF JoinsOnly, NoDeal, Deals
<1> QED BY <1>1, <1>2 DEF NoDeal, NoWord, NoLeave, OneDeal, Opened

\* With one more at the end.
LEMMA AppendDeals ==
    ASSUME NEW S, NEW q \in Seq(S), NEW m \in S, NEW v
    PROVE  LET r == Append(q, m)
           IN  /\ NoDeal(r, v) <=> NoDeal(q, v) /\ ~Deals(m, v)
               /\ \A x : ~Deals(m, v) /\ OneDeal(q, v, x) => OneDeal(r, v, x)
               /\ NoDeal(q, v) => OneDeal(r, v, m)
               /\ \A b : Opened(q, v, b) => Opened(r, v, b)
               /\ \A b : m.type = "peer-joined" /\ NoDeal(q, v) => Opened(r, v, b)
               /\ \A p : NoWord(r, p) <=> NoWord(q, p) /\ ~About(m, p)
               /\ \A p : NoLeave(r, p) <=> NoLeave(q, p) /\ ~(m.type = "peer-left" /\ m.peer = p)
<1> DEFINE r == Append(q, m)
<1>1. /\ Len(q) \in Nat /\ Len(r) = Len(q) + 1 /\ r[Len(q) + 1] = m
      /\ \A i \in 1..Len(q) : r[i] = q[i]
    BY AppendFacts
<1>2. ToSet(r) = ToSet(q) \cup {m} /\ ToSet(q) = {q[i] : i \in 1..Len(q)}
    BY ToSetFacts
<1> HIDE DEF r
<1>3. /\ \A i \in 1..Len(r) : i \in 1..Len(q) \/ i = Len(r)
      /\ \A i \in 1..Len(q) : i \in 1..Len(r) /\ i < Len(r)
      /\ Len(r) \in 1..Len(r) /\ r[Len(r)] = m
    BY <1>1
<1>4. ASSUME NEW x, ~Deals(m, v), OneDeal(q, v, x) PROVE OneDeal(r, v, x)
    BY <1>1, <1>3, <1>4 DEF OneDeal
<1>5. ASSUME NoDeal(q, v) PROVE OneDeal(r, v, m)
    <2>1. \A k \in 1..Len(q) : ~Deals(r[k], v)
        BY <1>1, <1>2, <1>5 DEF NoDeal
    <2> QED BY <1>3, <2>1 DEF OneDeal
<1>6. ASSUME NEW b, Opened(q, v, b) PROVE Opened(r, v, b)
    BY <1>1, <1>3, <1>6 DEF Opened
<1>7. ASSUME m.type = "peer-joined", NoDeal(q, v) PROVE \A b : Opened(r, v, b)
    <2>1. \A k \in 1..Len(q) : ~Deals(r[k], v)
        BY <1>1, <1>2, <1>7 DEF NoDeal
    <2>2. ~Deals(m, v)
        BY <1>7 DEF Deals
    <2> QED BY <1>3, <1>7, <2>1, <2>2 DEF Opened
<1>8. NoDeal(r, v) <=> NoDeal(q, v) /\ ~Deals(m, v)
    BY <1>2 DEF NoDeal
<1>9. \A p : /\ NoWord(r, p) <=> NoWord(q, p) /\ ~About(m, p)
             /\ NoLeave(r, p) <=> NoLeave(q, p) /\ ~(m.type = "peer-left" /\ m.peer = p)
    BY <1>2 DEF NoWord, NoLeave
<1> QED BY <1>4, <1>5, <1>6, <1>7, <1>8, <1>9 DEF r

\* With the first one gone.
LEMMA TailDeals ==
    ASSUME NEW S, NEW q \in Seq(S), q # <<>>, NEW v
    PROVE  LET h == Head(q) r == Tail(q)
           IN  /\ NoDeal(q, v) <=> NoDeal(r, v) /\ ~Deals(h, v)
               /\ \A x : Deals(h, v) /\ OneDeal(q, v, x) => h = x /\ NoDeal(r, v)
               /\ \A x : Deals(x, v) /\ ~Deals(h, v) /\ OneDeal(q, v, x) => OneDeal(r, v, x)
               /\ \A b \in BOOLEAN : Opened(q, v, b) /\ Deals(h, v) => b
               /\ \A b : Opened(q, v, b) /\ h.type # "peer-joined" /\ ~Deals(h, v) => Opened(r, v, b)
               /\ \A p : NoWord(q, p) <=> NoWord(r, p) /\ ~About(h, p)
               /\ \A p : NoLeave(q, p) <=> NoLeave(r, p) /\ ~(h.type = "peer-left" /\ h.peer = p)
<1> DEFINE r == Tail(q)
           h == Head(q)
<1>1. /\ r \in Seq(S) /\ h = q[1] /\ Len(q) \in Nat \ {0} /\ Len(r) = Len(q) - 1
      /\ \A i \in 1..Len(r) : r[i] = q[i + 1]
    BY TailFacts
<1>2. ToSet(q) = ToSet(r) \cup {h}
    BY ToSetFacts
<1> HIDE DEF r, h
<1>3. ToSet(r) = {r[i] : i \in 1..Len(r)}
    BY <1>1, ToSetFacts
<1>4. /\ \A i \in 1..Len(r) : i + 1 \in 1..Len(q) /\ i + 1 # 1 /\ i \in Int
      /\ 1 \in 1..Len(q)
      /\ \A i \in 1..Len(q) : i # 1 => i - 1 \in 1..Len(r) /\ r[i - 1] = q[i]
    <2>1. /\ \A i \in 1..Len(r) : i + 1 \in 1..Len(q) /\ i + 1 # 1 /\ i \in Int
          /\ 1 \in 1..Len(q)
          /\ \A i \in 1..Len(q) : i # 1 => i - 1 \in 1..Len(r) /\ (i - 1) + 1 = i
        BY <1>1
    <2> QED BY <1>1, <2>1
<1>5. ASSUME NEW x, Deals(h, v), OneDeal(q, v, x) PROVE h = x /\ NoDeal(r, v)
    <2>1. PICK i \in 1..Len(q) : q[i] = x /\ \A k \in 1..Len(q) : Deals(q[k], v) => k = i
        BY <1>5 DEF OneDeal
    <2>2. i = 1
        BY <1>1, <1>4, <1>5, <2>1
    <2>3. \A k \in 1..Len(r) : ~Deals(r[k], v)
        BY <1>1, <1>4, <2>1, <2>2
    <2> QED BY <1>1, <1>3, <2>1, <2>2, <2>3 DEF NoDeal
<1>6. ASSUME NEW x, Deals(x, v), ~Deals(h, v), OneDeal(q, v, x) PROVE OneDeal(r, v, x)
    <2>1. PICK i \in 1..Len(q) : q[i] = x /\ \A k \in 1..Len(q) : Deals(q[k], v) => k = i
        BY <1>6 DEF OneDeal
    <2>2. i # 1
        BY <1>1, <1>6, <2>1
    <2>3. i - 1 \in 1..Len(r) /\ r[i - 1] = x
        BY <1>4, <2>1, <2>2
    <2>4. \A k \in 1..Len(r) : Deals(r[k], v) => k = i - 1
        <3> SUFFICES ASSUME NEW k \in 1..Len(r), Deals(r[k], v) PROVE k = i - 1
            OBVIOUS
        <3>1. k + 1 = i /\ k \in Int
            BY <1>1, <1>4, <2>1
        <3> QED BY <3>1
    <2> QED BY <2>3, <2>4 DEF OneDeal
<1>7. ASSUME NEW b \in BOOLEAN, Opened(q, v, b), Deals(h, v) PROVE b
    <2> SUFFICES ASSUME NEW i \in 1..Len(q), \A k \in 1..Len(q) : Deals(q[k], v) => k > i
                 PROVE  FALSE
        BY <1>7 DEF Opened
    <2>1. 1 > i
        BY <1>1, <1>4, <1>7
    <2> QED BY <2>1
<1>8. ASSUME NEW b, Opened(q, v, b), h.type # "peer-joined", ~Deals(h, v) PROVE Opened(r, v, b)
    <2> SUFFICES ASSUME NEW i \in 1..Len(q), q[i].type = "peer-joined",
                        \A k \in 1..Len(q) : Deals(q[k], v) => k > i
                 PROVE  Opened(r, v, b)
        BY <1>8 DEF Opened
    <2>1. i # 1
        BY <1>1, <1>8
    <2>2. i - 1 \in 1..Len(r) /\ r[i - 1].type = "peer-joined"
        BY <1>4, <2>1
    <2>3. \A k \in 1..Len(r) : Deals(r[k], v) => k > i - 1
        <3> SUFFICES ASSUME NEW k \in 1..Len(r), Deals(r[k], v) PROVE k > i - 1
            OBVIOUS
        <3>1. k + 1 > i /\ k \in Int
            BY <1>1, <1>4
        <3> QED BY <3>1
    <2> QED BY <2>2, <2>3 DEF Opened
<1>9. NoDeal(q, v) <=> NoDeal(r, v) /\ ~Deals(h, v)
    BY <1>2 DEF NoDeal
<1>10. \A p : /\ NoWord(q, p) <=> NoWord(r, p) /\ ~About(h, p)
              /\ NoLeave(q, p) <=> NoLeave(r, p) /\ ~(h.type = "peer-left" /\ h.peer = p)
    BY <1>2 DEF NoWord, NoLeave
<1> QED BY <1>5, <1>6, <1>7, <1>8, <1>9, <1>10 DEF r, h

\* With a greeting of P at the end.
LEMMA ConcatDeals ==
    ASSUME NEW S, NEW q \in Seq(S), NEW t \in Seq(S), NEW P, Greets(t, P), NEW v
    PROVE  LET r == q \o t
           IN  /\ NoDeal(q, v) => NoDeal(r, v)
               /\ \A x : OneDeal(q, v, x) => OneDeal(r, v, x)
               /\ \A b : Opened(q, v, b) => Opened(r, v, b)
               /\ \A b, p : p \in P /\ NoDeal(q, v) => Opened(r, v, b)
               /\ \A p : p \notin P /\ NoWord(q, p) => NoWord(r, p)
               /\ \A p : NoLeave(q, p) => NoLeave(r, p)
<1> DEFINE r == q \o t
<1>1. /\ r \in Seq(S) /\ Len(q) \in Nat /\ Len(t) \in Nat /\ Len(r) = Len(q) + Len(t)
      /\ \A i \in 1..Len(q) : r[i] = q[i]
      /\ \A i \in 1..Len(t) : r[Len(q) + i] = t[i]
    BY ConcatFacts
<1>2. ToSet(r) = ToSet(q) \cup ToSet(t) /\ ToSet(t) = {t[i] : i \in 1..Len(t)}
    BY ToSetFacts
<1> HIDE DEF r
<1>3. \A m \in ToSet(t) : m.type = "peer-joined" /\ m.peer \in P /\ ~Deals(m, v)
    BY <1>2 DEF Greets, Deals
<1>4. /\ \A i \in 1..Len(q) : i \in 1..Len(r)
      /\ \A i \in 1..Len(t) : Len(q) + i \in 1..Len(r)
      /\ \A i \in 1..Len(r) :
           i \in 1..Len(q) \/ (i - Len(q) \in 1..Len(t) /\ Len(q) + (i - Len(q)) = i)
    BY <1>1
<1>5. \A k \in 1..Len(r) : Deals(r[k], v) => k \in 1..Len(q)
    <2> SUFFICES ASSUME NEW k \in 1..Len(r), k \notin 1..Len(q) PROVE ~Deals(r[k], v)
        OBVIOUS
    <2>1. k - Len(q) \in 1..Len(t) /\ r[k] = t[k - Len(q)]
        BY <1>1, <1>4
    <2> QED BY <1>2, <1>3, <2>1
<1>6. ASSUME NEW x, OneDeal(q, v, x) PROVE OneDeal(r, v, x)
    BY <1>1, <1>4, <1>5, <1>6 DEF OneDeal
<1>7. ASSUME NEW b, Opened(q, v, b) PROVE Opened(r, v, b)
    BY <1>1, <1>4, <1>5, <1>7 DEF Opened
<1>8. ASSUME NEW b, NEW p \in P, NoDeal(q, v) PROVE Opened(r, v, b)
    <2>1. PICK i \in 1..Len(t) : t[i].type = "peer-joined"
        BY DEF Greets
    <2>2. Len(q) + i \in 1..Len(r) /\ r[Len(q) + i].type = "peer-joined"
        BY <1>1, <1>4, <2>1
    <2>3. \A k \in 1..Len(r) : ~Deals(r[k], v)
        <3> r \in Seq(S)
            BY <1>1
        <3>1. ToSet(r) = {r[k] : k \in 1..Len(r)}
            BY ToSetFacts
        <3>2. NoDeal(r, v)
            BY <1>2, <1>3, <1>8 DEF NoDeal
        <3> QED BY <3>1, <3>2 DEF NoDeal
    <2> QED BY <2>2, <2>3 DEF Opened
<1>9. /\ NoDeal(q, v) => NoDeal(r, v)
      /\ \A p : p \notin P /\ NoWord(q, p) => NoWord(r, p)
      /\ \A p : NoLeave(q, p) => NoLeave(r, p)
    BY <1>2, <1>3 DEF NoDeal, NoWord, NoLeave, About
<1> QED BY <1>6, <1>7, <1>8, <1>9 DEF r

-----------------------------------------------------------------------------
\* A client that left the room for a retry has nothing to say but its join, and one that
\* has given up has no connection.
BareOf(c) ==
    /\ ~opts.auto /\ ~stopping[c] /\ c \notin members => JoinsOnly(out[c])
    /\ ~opts.ice /\ state[c] = "closed" => ~Bound(c)

\* A client the step rests.
LEMMA BareRests ==
    ASSUME NEW d \in Clients, BareOf(d), Rests(d), opts' = opts, Bound(d)' => Bound(d)
    PROVE  BareOf(d)'
BY DEF BareOf, Rests, Calm

\* A join more.
LEMMA JoinsMore ==
    ASSUME TypeInv, NEW c \in Clients, JoinsOnly(out[c]),
           out'[c] = out[c] \/ out'[c] = Append(out[c], JoinMsg)
    PROVE  JoinsOnly(out'[c])
<1>1. out[c] \in Seq(OutMsgs(c)) /\ JoinMsg \in OutMsgs(c) /\ JoinMsg.type = "join"
    BY MessageFacts DEF TypeInv, QueueTypes, JoinMsg
<1> QED BY <1>1, AppendSays

\* One step of a client.
LEMMA ClientBare ==
    ASSUME TypeInv, OwnInv, NEW c \in Clients, BareOf(c),
           \/ Start(c) \/ Stop(c) \/ RetryFires(c) \/ ConnectResolves(c) \/ ConnectRejects(c)
           \/ BudgetResets(c) \/ Opens(c) \/ Closes(c) \/ AutoReconnects(c) \/ ServerReceives(c)
    PROVE  BareOf(c)'
<1>1. Own(c) /\ LinkOf(c)
    BY DEF OwnInv, Own
<1>2. PairsKept => (Bound(c)' <=> Bound(c))
    BY BoundKept
<1>3. Torn(c) => ~Bound(c)'
    BY BoundTorn
<1>4. ASSUME opts' = opts, stopping'[c] <=> stopping[c], c \notin members' => c \notin members,
             out'[c] = out[c] \/ out'[c] = Append(out[c], JoinMsg),
             \/ PairsKept /\ (state'[c] = "closed" => state[c] = "closed")
             \/ Torn(c)
      PROVE  BareOf(c)'
    <2>1. JoinsOnly(out[c]) => JoinsOnly(out'[c])
        BY <1>4, JoinsMore
    <2> QED BY <1>2, <1>3, <1>4, <2>1 DEF BareOf
<1>5. CASE Start(c)
    <2>1. /\ opts' = opts /\ members' = members /\ PairsKept /\ state'[c] = "connecting"
          /\ ~stopping[c] /\ ~stopping'[c] /\ Connects(c, "start")
        BY <1>5, StartFacts
    <2>2. out'[c] = out[c] \/ out'[c] = Append(out[c], JoinMsg)
        BY <2>1 DEF Connects
    <2> QED BY <1>4, <2>1, <2>2
<1>6. CASE Stop(c)
    BY <1>3, <1>6, StopFacts DEF BareOf
<1>7. CASE RetryFires(c)
    <2>1. /\ opts' = opts /\ members' = members /\ PairsKept /\ (stopping'[c] <=> stopping[c])
          /\ \/ state'[c] = state[c] /\ out'[c] = out[c]
             \/ Alike(c) /\ Connects(c, "attempt")
        BY <1>7, RetryFacts
    <2>2. out'[c] = out[c] \/ out'[c] = Append(out[c], JoinMsg)
        BY <2>1 DEF Connects
    <2>3. state'[c] = "closed" => state[c] = "closed"
        BY <2>1 DEF Alike
    <2> QED BY <1>4, <2>1, <2>2, <2>3
<1>8. CASE ConnectResolves(c)
    BY <1>4, <1>8, ResolveFacts
<1>9. CASE ConnectRejects(c)
    <2>1. /\ opts' = opts /\ members' = members /\ (stopping'[c] <=> stopping[c])
          /\ out'[c] = out[c] /\ (Torn(c) \/ (PairsKept /\ state'[c] = state[c]))
        BY <1>9, RejectFacts DEF Fails
    <2> QED BY <1>4, <2>1
<1>10. CASE BudgetResets(c)
    <2>1. opts' = opts /\ PairsKept /\ Rests(c)
        BY <1>10, ResetFacts
    <2> QED BY <1>2, <2>1, BareRests
<1>11. CASE Opens(c)
    BY <1>4, <1>11, OpenFacts DEF Alike
<1>12. CASE Closes(c)
    <2>1. /\ opts' = opts /\ c \notin members' /\ (stopping'[c] <=> stopping[c])
          /\ sock[c] = "opening" => out'[c] = out[c]
          /\ sock[c] # "opening" => out'[c] = <<>>
          /\ Torn(c) \/ (PairsKept /\ Alike(c))
        BY <1>12, CloseFacts DEF Fails
    <2>2. CASE sock[c] = "opening"
        <3>1. c \notin members
            BY <1>1, <2>2 DEF LinkOf
        <3> QED BY <1>4, <2>1, <2>2, <3>1 DEF Alike
    <2>3. CASE sock[c] # "opening"
        BY <1>2, <1>3, <2>1, <2>3, NothingSays DEF BareOf, Alike
    <2> QED BY <2>2, <2>3
<1>13. CASE AutoReconnects(c)
    BY <1>4, <1>13, AutoFacts
<1>14. CASE ServerReceives(c)
    <2> DEFINE m == Head(out[c])
    <2>1. /\ opts' = opts /\ PairsKept /\ Calm(c) /\ out[c] # <<>> /\ out'[c] = Tail(out[c])
          /\ out[c] \in Seq(OutMsgs(c)) /\ m.type \in {"join", "leave", "offer", "answer"}
        BY <1>14, ReceiveFacts, MessageFacts
    <2>2. m.type = "join" => c \in members'
        BY <1>14, JoinFacts
    <2>3. m.type = "leave" => stopping'[c]
        <3>1. m.type = "leave" => HasLeave(out[c])
            BY <2>1, TailSays
        <3> QED BY <1>1, <2>1, <3>1 DEF Own, QuitOf, Calm
    <2>4. m.type \in {"offer", "answer"} => ~JoinsOnly(out[c]) /\ (c \in members' <=> c \in members)
        <3>1. m.type \in {"offer", "answer"} => ~JoinsOnly(out[c])
            BY <2>1, TailSays
        <3> QED BY <1>14, <3>1, PassFacts
    <2> HIDE DEF m
    <2>5. ~opts.ice /\ state'[c] = "closed" => ~Bound(c)'
        BY <1>2, <2>1 DEF BareOf, Calm
    <2>6. (~opts.auto /\ ~stopping'[c] /\ c \notin members') => FALSE
        BY <2>1, <2>2, <2>3, <2>4 DEF BareOf, Calm
    <2> QED BY <2>1, <2>5, <2>6 DEF BareOf
<1> QED BY <1>5, <1>6, <1>7, <1>8, <1>9, <1>10, <1>11, <1>12, <1>13, <1>14

\* The publisher reads a message.
LEMMA PublisherBare ==
    ASSUME TypeInv, OwnInv, BareOf(Pub), PublisherReceives
    PROVE  BareOf(Pub)'
<1>1. Pub \in Clients /\ Own(Pub)
    BY ConstantFacts DEF OwnInv
<1>2. opts' = opts /\ Rests(Pub) /\ in[Pub] # <<>>
    BY <1>1, PublisherFacts
<1>3. ~stopping[Pub] /\ sock[Pub] = "open"
    BY <1>1, <1>2 DEF Own, HearOf, Hears, Listening
<1>4. state[Pub] # "closed"
    BY <1>1, <1>3 DEF Own, TimerOf
<1> QED BY <1>2, <1>4 DEF BareOf, Rests, Calm

\* A pair takes a step.
LEMMA PairBare ==
    ASSUME TypeInv, OwnInv, NEW v \in Viewers,
           OfferMade(v) \/ ViewerReceives(v) \/ PcConnects(v) \/ PcFails(v),
           \A d \in Clients : BareOf(d)
    PROVE  \A d \in Clients : BareOf(d)'
<1>1. Pub \in Clients /\ v \in Clients /\ v # Pub /\ Own(Pub) /\ Own(v) /\ BareOf(v) /\ BareOf(Pub)
    BY ConstantFacts DEF OwnInv
<1>2. CASE OfferMade(v)
    <2>1. /\ opts' = opts /\ members' = members /\ Calm(Pub) /\ Aside(Pub) /\ pc' = pc
          /\ entry[v].sdp = "making"
        BY <1>2, OfferFacts
    <2>2. Bound(Pub)
        BY <2>1 DEF Bound
    <2>3. ~opts.auto => Pub \in members
        BY <1>1, <2>2 DEF Own, KnownOf
    <2>4. BareOf(Pub)'
        BY <1>1, <2>1, <2>2, <2>3 DEF BareOf, Calm
    <2>5. \A d \in Clients \ {Pub} : Rests(d) /\ (Bound(d)' <=> Bound(d))
        BY <2>1 DEF Aside, Bound
    <2> QED BY <2>1, <2>4, <2>5, BareRests
<1>3. CASE ViewerReceives(v)
    <2>1. /\ opts' = opts /\ members' = members /\ Aside(v) /\ in[v] # <<>> /\ Alike(v)
          /\ (stopping'[v] <=> stopping[v]) /\ entry' = entry
          /\ \A w \in Viewers \ {v} : pc'[w] = pc[w]
        BY <1>3, ViewerFacts
    <2>2. v \in members /\ ~stopping[v] /\ sock[v] = "open"
        BY <1>1, <2>1 DEF Own, HearOf, Hears, Listening
    <2>3. ~opts.ice => state[v] # "closed"
        BY <1>1, <2>2 DEF Own, TimerOf
    <2>4. BareOf(v)'
        BY <2>1, <2>2, <2>3 DEF BareOf, Alike
    <2>5. \A d \in Clients \ {v} : Rests(d) /\ (Bound(d)' <=> Bound(d))
        BY <2>1, ConstantFacts DEF Aside, Bound
    <2> QED BY <2>1, <2>4, <2>5, BareRests
<1>4. CASE PcConnects(v)
    <2>1. /\ opts' = opts /\ members' = members /\ Aside(v) /\ Alike(v)
          /\ (stopping'[v] <=> stopping[v]) /\ out'[v] = out[v] /\ entry' = entry
          /\ (pc'[v].open <=> pc[v].open) /\ \A w \in Viewers \ {v} : pc'[w] = pc[w]
        BY <1>4, PcConnectFacts
    <2>2. BareOf(v)'
        BY <1>1, <2>1 DEF BareOf, Alike, Bound
    <2>3. \A d \in Clients \ {v} : Rests(d) /\ (Bound(d)' <=> Bound(d))
        BY <2>1, ConstantFacts DEF Aside, Bound
    <2> QED BY <2>1, <2>2, <2>3, BareRests
<1>5. CASE PcFails(v)
    <2>1. /\ opts' = opts /\ members' = members /\ Aside(v) /\ Torn(v)
          /\ (stopping'[v] <=> stopping[v]) /\ out'[v] = out[v]
        BY <1>5, PcFailFacts DEF Fails
    <2>2. ~Bound(v)' /\ \A d \in Clients \ {v} : Rests(d) /\ (Bound(d)' <=> Bound(d))
        BY <1>1, <2>1, BoundTorn DEF Aside
    <2>3. BareOf(v)'
        BY <1>1, <2>1, <2>2 DEF BareOf
    <2> QED BY <2>1, <2>2, <2>3, BareRests
<1> QED BY <1>2, <1>3, <1>4, <1>5

BareInv == \A c \in Clients : BareOf(c)

\* Of everyone, always.
LEMMA BareStep ==
    TypeInv /\ OwnInv /\ BareInv /\ [Next]_vars => BareInv'
<1> SUFFICES ASSUME TypeInv, OwnInv, BareInv, [Next]_vars PROVE BareInv'
    OBVIOUS
<1>1. ASSUME NEW c \in Clients,
             \/ Start(c) \/ Stop(c) \/ RetryFires(c) \/ ConnectResolves(c) \/ ConnectRejects(c)
             \/ BudgetResets(c) \/ Opens(c) \/ Closes(c) \/ AutoReconnects(c) \/ ServerReceives(c)
      PROVE  BareInv'
    <2>1. BareOf(c)'
        BY <1>1, ClientBare DEF BareInv
    <2>2. opts' = opts /\ Aside(c) /\ (PairsKept \/ Torn(c))
        <3>1. CASE ServerReceives(c)
            <4>1. Head(out[c]).type \in {"join", "leave", "offer", "answer"}
                BY <3>1, ReceiveFacts, MessageFacts
            <4> QED BY <3>1, <4>1, ReceiveFacts, JoinFacts, LeaveFacts, PassFacts
        <3>2. CASE BudgetResets(c)
            BY <3>2, ResetFacts DEF Aside
        <3>3. CASE Start(c) \/ RetryFires(c) \/ ConnectResolves(c) \/ Opens(c) \/ AutoReconnects(c)
            BY <3>3, StartFacts, RetryFacts, ResolveFacts, OpenFacts, AutoFacts
        <3>4. CASE Stop(c) \/ ConnectRejects(c) \/ Closes(c)
            BY <3>4, StopFacts, RejectFacts, CloseFacts DEF Fails
        <3> QED BY <1>1, <3>1, <3>2, <3>3, <3>4
    <2>3. \A d \in Clients \ {c} : Bound(d)' => Bound(d)
        BY <2>2, BoundKept, BoundTorn
    <2>4. \A d \in Clients \ {c} : BareOf(d)'
        BY <2>2, <2>3, BareRests DEF BareInv, Aside
    <2> QED BY <2>1, <2>4 DEF BareInv
<1>2. CASE PublisherReceives
    <2>1. BareOf(Pub)'
        BY <1>2, ConstantFacts, PublisherBare DEF BareInv
    <2>2. \A d \in Clients \ {Pub} : BareOf(d) /\ Rests(d) /\ opts' = opts /\ (Bound(d)' <=> Bound(d))
        BY <1>2, PublisherFacts DEF BareInv, Bound
    <2> QED BY <2>1, <2>2, BareRests DEF BareInv
<1>3. CASE \E v \in Viewers : OfferMade(v) \/ ViewerReceives(v) \/ PcConnects(v) \/ PcFails(v)
    BY <1>3, PairBare DEF BareInv
<1>4. CASE UNCHANGED vars
    BY <1>4 DEF BareInv, BareOf, Bound, vars, cliVars, pcVars, linkVars
<1> QED BY <1>1, <1>2, <1>3, <1>4 DEF Next

-----------------------------------------------------------------------------
\* An offer and its answer.

\* The two ends of a connection refer to each other (Mated, of values).
Mates(e, d) ==
    d.open /\ d.offer = e.id /\ e.sdp = "stable" /\ e.answer = <<e.id, d.id>>

\* e and d are the ends, op, iv, ov, ip what the publisher says, the viewer is told, the
\* viewer says and the publisher is told.  Either no offer was made, and v has or will have a
\* connection to take it with; or it is on its way to v; or its answer is on its way back;
\* or both ends know each other.
Phase(v, e, d, op, iv, ov, ip) ==
    \/ /\ e.sdp \in {"none", "making"} /\ Opened(iv, v, d.open)
       /\ NoDeal(op, v) /\ NoDeal(iv, v) /\ NoDeal(ov, v) /\ NoDeal(ip, v)
    \/ /\ e.sdp = "offered" /\ Opened(iv, v, d.open) /\ NoDeal(ov, v) /\ NoDeal(ip, v)
       /\ \/ OneDeal(op, v, OfferMsg(v, e.id)) /\ NoDeal(iv, v)
          \/ NoDeal(op, v) /\ OneDeal(iv, v, OfferMsg(v, e.id))
    \/ /\ e.sdp = "offered" /\ d.open /\ d.offer = e.id /\ NoDeal(op, v) /\ NoDeal(iv, v)
       /\ \/ OneDeal(ov, v, AnswerMsg(v, e.id, d.id)) /\ NoDeal(ip, v)
          \/ NoDeal(ov, v) /\ OneDeal(ip, v, AnswerMsg(v, e.id, d.id))
    \/ /\ Mates(e, d)
       /\ NoDeal(op, v) /\ NoDeal(iv, v) /\ NoDeal(ov, v) /\ NoDeal(ip, v)

\* There is no connection, and none is on its way.
Clean(v, e, d, op, iv, ov, ip) ==
    /\ e.sdp = "none" /\ ~d.open /\ iv = <<>>
    /\ NoDeal(op, v) /\ NoDeal(ov, v) /\ NoDeal(ip, v) /\ NoWord(ip, v)

Talk(v, both, e, d, op, iv, ov, ip) ==
    IF both THEN NoLeave(iv, Pub) /\ NoLeave(ip, v) /\ Phase(v, e, d, op, iv, ov, ip)
    ELSE Clean(v, e, d, op, iv, ov, ip)

\* Is it in the room, or about to join?
Ready(c) == ~stopping[c] /\ (c \in members \/ Coming(c))

Pair(v) ==
    opts.prompt /\ ~opts.ice /\ Ready(Pub) /\ Ready(v) =>
      Talk(v, Pub \in members /\ v \in members,
           entry[v], pc[v], out[Pub], in[v], out[v], in[Pub])

\* What deals with v: offers to it and its answers.
LEMMA MessagesDeal ==
    ASSUME NEW v, NEW c
    PROVE  /\ ~Deals(JoinMsg, v) /\ ~Deals(LeaveMsg, v)
           /\ \A w, n : Deals(OfferMsg(w, n), v) <=> w = v
           /\ \A w, n, id : Deals(AnswerMsg(w, n, id), v) <=> w = v
           /\ ~Deals(PeerJoined(c), v) /\ ~Deals(PeerLeft(c), v)
           /\ About(PeerJoined(c), v) <=> c = v
           /\ About(PeerLeft(c), v) <=> c = v
           /\ PeerJoined(c).type = "peer-joined"
           /\ \A m : Deals(m, v) => m.type \in {"offer", "answer"} /\ \A p : ~About(m, p)
BY DEF Deals, About, JoinMsg, LeaveMsg, OfferMsg, AnswerMsg, PeerJoined, PeerLeft

\* r says of v what q says.
Keeps(q, r, v) ==
    /\ NoDeal(q, v) => NoDeal(r, v)
    /\ \A m : Deals(m, v) /\ OneDeal(q, v, m) => OneDeal(r, v, m)

LEMMA KeepsFacts ==
    ASSUME NEW S, NEW q \in Seq(S), NEW v
    PROVE  /\ Keeps(q, q, v)
           /\ \A m \in S : ~Deals(m, v) => Keeps(q, Append(q, m), v)
           /\ q # <<>> /\ ~Deals(Head(q), v) => Keeps(q, Tail(q), v)
           /\ \A P : \A t \in Seq(S) : Greets(t, P) => Keeps(q, q \o t, v)
<1>1. Keeps(q, q, v)
    BY DEF Keeps
<1>2. ASSUME NEW m \in S, ~Deals(m, v) PROVE Keeps(q, Append(q, m), v)
    BY <1>2, AppendDeals DEF Keeps
<1>3. ASSUME q # <<>>, ~Deals(Head(q), v) PROVE Keeps(q, Tail(q), v)
    BY <1>3, TailDeals DEF Keeps
<1>4. ASSUME NEW t \in Seq(S), NEW P, Greets(t, P) PROVE Keeps(q, q \o t, v)
    BY <1>4, ConcatDeals DEF Keeps
<1> QED BY <1>1, <1>2, <1>3, <1>4

\* The phase stays while nothing of it moves.
LEMMA PhaseKept ==
    ASSUME NEW v, NEW e, NEW d, NEW f, NEW op, NEW iv, NEW ov, NEW ip,
           NEW oq, NEW iw, NEW ow, NEW iq,
           Phase(v, e, d, op, iv, ov, ip), f.open <=> d.open, f.id = d.id, f.offer = d.offer,
           Keeps(op, oq, v), Keeps(iv, iw, v), Keeps(ov, ow, v), Keeps(ip, iq, v),
           Opened(iv, v, d.open) => Opened(iw, v, f.open)
    PROVE  Phase(v, e, f, oq, iw, ow, iq)
<1>1. /\ \A n : Deals(OfferMsg(v, n), v)
      /\ \A n, id : Deals(AnswerMsg(v, n, id), v)
    BY MessagesDeal
<1> QED BY <1>1 DEF Phase, Keeps, Mates

\* A connection is clean of v as long as nobody speaks of it.
LEMMA CleanKept ==
    ASSUME NEW v, NEW e, NEW d, NEW f, NEW op, NEW iv, NEW ov, NEW ip,
           NEW oq, NEW ow, NEW iq,
           Clean(v, e, d, op, iv, ov, ip), f.open <=> d.open,
           Keeps(op, oq, v), Keeps(ov, ow, v), Keeps(ip, iq, v),
           NoWord(ip, v) => NoWord(iq, v)
    PROVE  Clean(v, e, f, oq, iv, ow, iq)
BY DEF Clean, Keeps

\* A step that neither end notices.
LEMMA PairKept ==
    ASSUME NEW v \in Viewers, Pair(v), opts' = opts,
           Ready(Pub)' => Ready(Pub), Ready(v)' => Ready(v),
           Pub \in members' <=> Pub \in members, v \in members' <=> v \in members,
           entry'[v] = entry[v], pc'[v].open <=> pc[v].open, pc'[v].id = pc[v].id,
           pc'[v].offer = pc[v].offer, in'[v] = in[v],
           Keeps(out[Pub], out'[Pub], v), Keeps(out[v], out'[v], v), Keeps(in[v], in[v], v),
           Keeps(in[Pub], in'[Pub], v), NoWord(in[Pub], v) => NoWord(in'[Pub], v),
           NoLeave(in[Pub], v) => NoLeave(in'[Pub], v)
    PROVE  Pair(v)'
<1> SUFFICES ASSUME opts'.prompt, ~opts'.ice, Ready(Pub)', Ready(v)'
             PROVE  Talk(v, Pub \in members' /\ v \in members',
                         entry'[v], pc'[v], out'[Pub], in'[v], out'[v], in'[Pub])
    BY DEF Pair
<1>1. Talk(v, Pub \in members /\ v \in members,
           entry[v], pc[v], out[Pub], in[v], out[v], in[Pub])
    BY DEF Pair
<1>2. CASE Pub \in members /\ v \in members
    <2>1. NoLeave(in[v], Pub) /\ NoLeave(in[Pub], v)
          /\ Phase(v, entry[v], pc[v], out[Pub], in[v], out[v], in[Pub])
        BY <1>1, <1>2 DEF Talk
    <2>2. Opened(in[v], v, pc[v].open) => Opened(in[v], v, pc'[v].open)
        BY DEF Opened
    <2>3. Phase(v, entry[v], pc'[v], out'[Pub], in[v], out'[v], in'[Pub])
        BY <2>1, <2>2, PhaseKept
    <2> QED BY <1>2, <2>1, <2>3 DEF Talk
<1>3. CASE ~(Pub \in members /\ v \in members)
    <2>1. Clean(v, entry[v], pc[v], out[Pub], in[v], out[v], in[Pub])
        BY <1>1, <1>3 DEF Talk
    <2>2. Clean(v, entry[v], pc'[v], out'[Pub], in[v], out'[v], in'[Pub])
        BY <2>1, CleanKept
    <2> QED BY <1>3, <2>2 DEF Talk
<1> QED BY <1>2, <1>3

\* Who rests is as ready as before.
LEMMA ReadyRests ==
    ASSUME NEW d, Rests(d)
    PROVE  Ready(d)' <=> Ready(d)
BY DEF Ready, Coming, Rests, Calm

\* A queue of v's or the publisher's, as it was or with a join more.
LEMMA KeepsOut ==
    ASSUME TypeInv, NEW d \in Clients, NEW v
    PROVE  /\ Keeps(out[d], out[d], v) /\ Keeps(in[d], in[d], v)
           /\ Keeps(out[d], Append(out[d], JoinMsg), v)
<1>1. out[d] \in Seq(OutMsgs(d)) /\ in[d] \in Seq(InMsgs(d)) /\ JoinMsg \in OutMsgs(d)
    BY MessageFacts DEF TypeInv, QueueTypes
<1> QED BY <1>1, KeepsFacts, MessagesDeal

\* A step of somebody else, of which the publisher may hear.
LEMMA PairRests ==
    ASSUME TypeInv, NEW v \in Viewers, Pair(v), opts' = opts, Rests(Pub), Rests(v),
           entry'[v] = entry[v], pc'[v] = pc[v], in'[v] = in[v],
           \/ in'[Pub] = in[Pub]
           \/ \E m \in InMsgs(Pub) :
                ~Deals(m, v) /\ ~About(m, v) /\ in'[Pub] = Append(in[Pub], m)
    PROVE  Pair(v)'
<1>1. Pub \in Clients /\ v \in Clients
    BY ConstantFacts
<1>2. Ready(Pub)' <=> Ready(Pub)
    BY ReadyRests
<1>3. Ready(v)' <=> Ready(v)
    BY ReadyRests
<1>4. /\ out'[Pub] = out[Pub] /\ out'[v] = out[v]
      /\ Pub \in members' <=> Pub \in members
      /\ v \in members' <=> v \in members
    BY DEF Rests
<1>5. in[Pub] \in Seq(InMsgs(Pub))
    BY <1>1 DEF TypeInv, QueueTypes
<1>6. /\ Keeps(in[Pub], in'[Pub], v) /\ (NoWord(in[Pub], v) => NoWord(in'[Pub], v))
      /\ NoLeave(in[Pub], v) => NoLeave(in'[Pub], v)
    <2>1. CASE in'[Pub] = in[Pub]
        BY <1>1, <2>1, KeepsOut
    <2>2. ASSUME NEW m \in InMsgs(Pub), ~Deals(m, v), ~About(m, v), in'[Pub] = Append(in[Pub], m)
          PROVE  /\ Keeps(in[Pub], in'[Pub], v) /\ (NoWord(in[Pub], v) => NoWord(in'[Pub], v))
                 /\ NoLeave(in[Pub], v) => NoLeave(in'[Pub], v)
        <3>1. Keeps(in[Pub], Append(in[Pub], m), v)
            BY <1>5, <2>2, KeepsFacts
        <3>2. ~(m.type = "peer-left" /\ m.peer = v)
            BY <2>2 DEF About
        <3> QED BY <1>5, <2>2, <3>1, <3>2, AppendDeals
    <2> QED BY <2>1, <2>2
<1>7. Keeps(out[Pub], out[Pub], v) /\ Keeps(out[v], out[v], v) /\ Keeps(in[v], in[v], v)
    BY <1>1, KeepsOut
<1> QED BY <1>2, <1>3, <1>4, <1>6, <1>7, PairKept

\* A step of one of the two that says nothing but a join.
LEMMA PairSilent ==
    ASSUME TypeInv, NEW v \in Viewers, Pair(v), opts' = opts, NEW c \in {Pub, v}, Aside(c),
           in' = in, members' = members, PairsKept, Ready(c)' => Ready(c),
           out'[c] = out[c] \/ out'[c] = Append(out[c], JoinMsg)
    PROVE  Pair(v)'
<1>1. Pub \in Clients /\ v \in Clients
    BY ConstantFacts
<1>2. ASSUME NEW d \in {Pub, v}
      PROVE  (Ready(d)' => Ready(d)) /\ Keeps(out[d], out'[d], v) /\ Keeps(in[d], in[d], v)
    <2>1. CASE d = c
        BY <1>1, <2>1, KeepsOut
    <2>2. CASE d # c
        <3>1. Rests(d)
            BY <1>1, <2>2 DEF Aside
        <3> QED BY <1>1, <3>1, KeepsOut, ReadyRests DEF Rests
    <2> QED BY <2>1, <2>2
<1> QED BY <1>2, PairKept DEF PairsKept

\* Out of the room, a client that does not stop has no connection and only a join to say.
LEMMA AwayIsBare ==
    ASSUME OwnInv, BareInv, NEW c \in Clients, c \notin members, ~stopping[c],
           ~opts.auto, ~opts.ice
    PROVE  in[c] = <<>> /\ ~Bound(c) /\ JoinsOnly(out[c])
<1>1. Own(c) /\ BareOf(c)
    BY DEF OwnInv, BareInv
<1>2. in[c] = <<>> /\ JoinsOnly(out[c])
    BY <1>1 DEF Own, HearOf, BareOf
<1>3. ~Bound(c)
    BY <1>1 DEF Own, KnownOf, BareOf
<1> QED BY <1>2, <1>3

\* When c retries and no message is on its way, nothing is left of an older connection.
LEMMA QuietClean ==
    ASSUME TypeInv, OwnInv, NewsInv, BareInv, NEW v \in Viewers, NEW c \in {Pub, v},
           ~opts.auto, ~opts.ice, sock[c] = "none", ~stopping[Pub], ~stopping[v], Quiet(c)
    PROVE  /\ c \notin members
           /\ Clean(v, entry[v], pc[v], out[Pub], in[v], out[v], in[Pub])
<1>1. Pub \in Clients /\ v \in Clients /\ v # Pub
    BY ConstantFacts
<1>2. c \notin members
    BY <1>1 DEF OwnInv, Own, LinkOf
<1>3. ASSUME NEW d \in {Pub, v}
      PROVE  /\ in[d] = <<>> /\ NoDeal(out[d], v)
             /\ d \notin members \/ (d # c /\ sock[d] = "open" /\ Hears(d))
             /\ d \notin members => ~Bound(d)
    <2>1. d \in Clients /\ Own(d) /\ out[d] \in Seq(OutMsgs(d))
        BY <1>1 DEF OwnInv, TypeInv, QueueTypes
    <2>2. CASE d \notin members
        BY <2>1, <2>2, AwayIsBare, NothingDeals
    <2>3. CASE d \in members
        <3>1. d # c /\ sock[d] = "open" /\ state[d] # "idle"
            BY <1>2, <2>1, <2>3 DEF Own, LinkOf, IdleOf
        <3>2. in[d] = <<>> /\ out[d] = <<>>
            BY <2>1, <3>1 DEF Quiet
        <3>3. Hears(d)
            BY <3>1 DEF Hears, Listening
        <3> QED BY <2>3, <3>1, <3>2, <3>3, NothingDeals
    <2> QED BY <2>2, <2>3
<1>4. entry[v].sdp = "none"
    <2>1. CASE Pub \in members
        <3>1. c = v /\ Hears(Pub) /\ in[Pub] = <<>> /\ v \notin members
            BY <1>2, <1>3, <2>1
        <3>2. ~Ends(<<>>, v, entry[v].sdp # "none")
            BY <2>1, <3>1 DEF NewsInv, PubNews
        <3> QED BY <3>2, NoNews
    <2>2. CASE Pub \notin members
        BY <1>3, <2>2 DEF Bound
    <2> QED BY <2>1, <2>2
<1>5. ~pc[v].open
    <2>1. CASE v \in members
        <3>1. c = Pub /\ Hears(v) /\ in[v] = <<>> /\ Pub \notin members /\ sock[v] = "open"
            BY <1>2, <1>3, <2>1
        <3>2. state[v] # "closed"
            BY <1>1, <3>1 DEF OwnInv, Own, TimerOf
        <3>3. ~Ends(<<>>, Pub, pc[v].open)
            BY <2>1, <3>1, <3>2 DEF NewsInv, ViewerNews
        <3> QED BY <3>3, NoNews
    <2>2. CASE v \notin members
        BY <1>1, <1>3, <2>2 DEF Bound
    <2> QED BY <2>1, <2>2
<1> QED BY <1>2, <1>3, <1>4, <1>5, NothingDeals DEF Clean

-----------------------------------------------------------------------------
\* The steps of the two ends.

\* c retries: not stopped, it has lost its socket, and nothing is on its way.
LEMMA PairRetries ==
    ASSUME TypeInv, OwnInv, NewsInv, BareInv, NEW v \in Viewers, NEW c \in {Pub, v}, RetryFires(c)
    PROVE  Pair(v)'
<1>1. Pub \in Clients /\ v \in Clients /\ v # Pub
    BY ConstantFacts
<1> SUFFICES ASSUME opts'.prompt, ~opts'.ice, Ready(Pub)', Ready(v)'
             PROVE  Talk(v, Pub \in members' /\ v \in members',
                         entry'[v], pc'[v], out'[Pub], in'[v], out'[v], in'[Pub])
    BY DEF Pair
<1>2. /\ opts' = opts /\ Aside(c) /\ in' = in /\ members' = members /\ PairsKept
      /\ timers[c] > 0 /\ (stopping'[c] <=> stopping[c]) /\ ~stopping'[c]
      /\ Connects(c, "attempt") /\ Quiet(c)
    BY <1>1, RetryFacts DEF Ready
<1>3. ~stopping[Pub] /\ ~stopping[v]
    BY <1>1, <1>2 DEF Ready, Aside, Rests, Calm
<1>4. ~opts.auto /\ sock[c] = "none"
    <2>1. Own(c) /\ timers[c] \in Nat
        BY <1>1 DEF OwnInv, TypeInv, ClientTypes
    <2>2. ~opts.auto
        BY <1>2, <2>1 DEF Own, TimerOf
    <2>3. sock[c] = "none"
        BY <1>2, <1>3, <2>1 DEF Own, TimerOf
    <2> QED BY <2>2, <2>3
<1>5. /\ c \notin members
      /\ Clean(v, entry[v], pc[v], out[Pub], in[v], out[v], in[Pub])
    BY <1>2, <1>3, <1>4, QuietClean
<1>6. ASSUME NEW d \in {Pub, v} PROVE Keeps(out[d], out'[d], v) /\ Keeps(in[d], in[d], v)
    <2>1. out'[d] = out[d] \/ out'[d] = Append(out[d], JoinMsg)
        BY <1>1, <1>2 DEF Connects, Aside, Rests
    <2> QED BY <1>1, <2>1, KeepsOut
<1>7. Clean(v, entry'[v], pc'[v], out'[Pub], in'[v], out'[v], in'[Pub])
    BY <1>2, <1>5, <1>6, CleanKept DEF PairsKept
<1> QED BY <1>2, <1>5, <1>7 DEF Talk

\* c loses its socket, or the wait for it fails.  It is still to join only if it was before.
LEMMA PairBreaks ==
    ASSUME TypeInv, OwnInv, NEW v \in Viewers, NEW c \in {Pub, v}, Pair(v),
           Closes(c) \/ ConnectRejects(c)
    PROVE  Pair(v)'
<1>1. Pub \in Clients /\ v \in Clients /\ v # Pub
    BY ConstantFacts
<1> SUFFICES ASSUME opts'.prompt, ~opts'.ice, Ready(Pub)', Ready(v)'
             PROVE  Talk(v, Pub \in members' /\ v \in members',
                         entry'[v], pc'[v], out'[Pub], in'[v], out'[v], in'[Pub])
    BY DEF Pair
<1>2. /\ opts' = opts /\ Aside(c) /\ c \notin members' /\ (PairsKept \/ Torn(c))
      /\ Ready(c) /\ c \notin members /\ out'[c] = out[c]
      /\ \A d \in Clients : in'[d] = in[d] \/ (d = c /\ in'[d] = <<>>)
    <2>1. CASE ConnectRejects(c)
        <3>1. /\ opts' = opts /\ Aside(c) /\ in' = in /\ members' = members /\ sock[c] = "auth"
              /\ out'[c] = out[c] /\ (stopping'[c] <=> stopping[c]) /\ (PairsKept \/ Torn(c))
            BY <1>1, <2>1, RejectFacts DEF Fails
        <3>2. c \notin members
            BY <1>1, <3>1 DEF OwnInv, Own, LinkOf
        <3>3. Ready(c)
            BY <1>1, <3>1 DEF Ready, Coming
        <3> QED BY <3>1, <3>2, <3>3
    <2>2. CASE Closes(c)
        <3>1. /\ opts' = opts /\ Aside(c) /\ c \notin members' /\ in'[c] = <<>>
              /\ sock[c] \in {"opening", "open", "closing"} /\ sock'[c] = "none"
              /\ out'[c] = IF sock[c] = "opening" THEN out[c] ELSE <<>>
              /\ c \notin members => InKept(c)
              /\ (stopping'[c] <=> stopping[c])
              /\ \/ Torn(c) /\ (Alike(c) \/ state'[c] = "closed")
                 \/ PairsKept /\ Alike(c)
            BY <1>1, <2>2, CloseFacts DEF Fails
        <3>2. state'[c] # "idle"
            <4>1. state[c] # "idle"
                BY <1>1, <3>1 DEF OwnInv, Own, IdleOf
            <4> QED BY <3>1, <4>1 DEF Alike
        <3>3. HasJoin(out'[c])
            BY <3>1, <3>2 DEF Ready, Coming
        <3>4. sock[c] = "opening"
            BY <3>1, <3>3, NothingSays
        <3>5. c \notin members
            BY <1>1, <3>4 DEF OwnInv, Own, LinkOf
        <3>6. Ready(c)
            BY <1>1, <3>1, <3>3, <3>4 DEF Ready, Coming
        <3> QED BY <3>1, <3>4, <3>5, <3>6 DEF InKept
    <2> QED BY <2>1, <2>2
<1>3. \A d \in {Pub, v} : Ready(d) /\ out'[d] = out[d] /\ (d \in members' <=> d \in members)
    BY <1>1, <1>2, ReadyRests DEF Aside, Rests
<1>4. Clean(v, entry[v], pc[v], out[Pub], in[v], out[v], in[Pub])
    BY <1>2, <1>3 DEF Pair, Talk
<1>5. entry'[v].sdp = "none" /\ ~pc'[v].open
    <2>1. entry[v].sdp = "none" /\ ~pc[v].open
        BY <1>4 DEF Clean
    <2>2. CASE PairsKept
        BY <2>1, <2>2 DEF PairsKept
    <2>3. CASE Torn(c)
        BY <1>1, <2>1, <2>3, NothingMade DEF Torn
    <2> QED BY <1>2, <2>2, <2>3
<1>6. \A d \in {Pub, v} : in'[d] = in[d] \/ in'[d] = <<>>
    BY <1>1, <1>2
<1>7. Clean(v, entry'[v], pc'[v], out'[Pub], in'[v], out'[v], in'[Pub])
    BY <1>3, <1>4, <1>5, <1>6, NothingDeals DEF Clean
<1> QED BY <1>2, <1>7 DEF Talk

\* The publisher joins: it is greeted, and a viewer in the room is told.
LEMMA PubJoins ==
    ASSUME TypeInv, OwnInv, NEW v \in Viewers, Pair(v),
           ServerReceives(Pub), Head(out[Pub]).type = "join"
    PROVE  Pair(v)'
<1>1. Pub \in Clients /\ v \in Clients /\ v # Pub /\ Pub \notin Viewers
    BY ConstantFacts
<1> SUFFICES ASSUME opts'.prompt, ~opts'.ice, Ready(Pub)', Ready(v)'
             PROVE  Talk(v, Pub \in members' /\ v \in members',
                         entry'[v], pc'[v], out'[Pub], in'[v], out'[v], in'[Pub])
    BY DEF Pair
<1> DEFINE t == Greeting(Pub)
           P == Present(Pub)
           S == InMsgs(Pub)
<1>2. /\ opts' = opts /\ PairsKept /\ Calm(Pub) /\ Aside(Pub) /\ Pub \in members'
      /\ Tells(Pub, PeerJoined(Pub))
      /\ in'[Pub] = IF Hears(Pub) THEN in[Pub] \o t ELSE in[Pub]
      /\ sock[Pub] \in {"open", "closing"} /\ out[Pub] # <<>> /\ out'[Pub] = Tail(out[Pub])
      /\ out[Pub] \in Seq(OutMsgs(Pub)) /\ in[Pub] \in Seq(S)
    BY <1>1, ReceiveFacts, JoinFacts
<1>3. t \in Seq(S) /\ Greets(t, P) /\ (v \in P <=> v \in members)
    BY <1>1, GreetingFacts DEF Present, Counterparts
<1>4. Ready(Pub) /\ Ready(v) /\ ~stopping[Pub] /\ ~stopping[v] /\ out'[v] = out[v]
      /\ (v \in members' <=> v \in members) /\ HasJoin(out[Pub])
    <2>1. HasJoin(out[Pub])
        BY <1>1, <1>2, TailSays
    <2>2. Rests(v)
        BY <1>1, <1>2 DEF Aside
    <2> QED BY <1>1, <1>2, <2>1, <2>2, ReadyRests DEF Ready, Coming, Calm, Rests
<1>5. Hears(Pub)
    <2>1. sock[Pub] = "open" /\ state[Pub] # "idle"
        BY <1>1, <1>2, <1>4 DEF OwnInv, Own, LinkOf, IdleOf
    <2> QED BY <1>4, <2>1 DEF Hears, Listening
<1>6. v \in members => Hears(v)
    <2> SUFFICES ASSUME v \in members PROVE Hears(v)
        OBVIOUS
    <2>1. sock[v] = "open" /\ state[v] # "idle"
        BY <1>1, <1>4 DEF OwnInv, Own, LinkOf, IdleOf
    <2> QED BY <1>4, <2>1 DEF Hears, Listening
<1>7. in'[v] = IF v \in members THEN Append(in[v], PeerJoined(Pub)) ELSE in[v]
    BY <1>1, <1>2, <1>6 DEF Tells, Reachable, Counterparts
<1>8. Talk(v, Pub \in members /\ v \in members,
           entry[v], pc[v], out[Pub], in[v], out[v], in[Pub])
    BY <1>2, <1>4 DEF Pair
<1>9. /\ in'[Pub] = in[Pub] \o t /\ out'[Pub] = Tail(out[Pub]) /\ out'[v] = out[v]
      /\ entry'[v] = entry[v] /\ pc'[v] = pc[v]
    BY <1>2, <1>4, <1>5 DEF PairsKept
<1>10. in[v] \in Seq(InMsgs(v)) /\ PeerJoined(Pub) \in InMsgs(v)
    BY <1>1, MessageFacts DEF TypeInv, QueueTypes, Counterparts
<1> HIDE DEF t, P, S
<1>11. Keeps(out[Pub], out'[Pub], v) /\ Keeps(in[Pub], in'[Pub], v) /\ Keeps(out[v], out'[v], v)
    <2>1. ~Deals(Head(out[Pub]), v)
        BY DEF Deals
    <2> QED BY <1>1, <1>2, <1>3, <1>9, <2>1, KeepsFacts, KeepsOut
<1>12. CASE v \in members /\ Pub \in members
    <2>1. /\ NoLeave(in[v], Pub) /\ NoLeave(in[Pub], v)
          /\ Phase(v, entry[v], pc[v], out[Pub], in[v], out[v], in[Pub])
        BY <1>8, <1>12 DEF Talk
    <2> DEFINE m == PeerJoined(Pub)
    <2>0. ~Deals(m, v) /\ m.type # "peer-left" /\ in'[v] = Append(in[v], m) /\ m \in InMsgs(v)
        BY <1>7, <1>10, <1>12, MessagesDeal
    <2> HIDE DEF m
    <2>2. /\ Keeps(in[v], in'[v], v) /\ NoLeave(in'[v], Pub)
          /\ Opened(in[v], v, pc[v].open) => Opened(in'[v], v, pc[v].open)
        <3>1. Keeps(in[v], in'[v], v)
            BY <1>10, <2>0, KeepsFacts
        <3> QED BY <1>10, <2>0, <2>1, <3>1, AppendDeals
    <2>3. NoLeave(in'[Pub], v)
        BY <1>2, <1>3, <1>9, <2>1, ConcatDeals
    <2>4. Phase(v, entry[v], pc[v], out'[Pub], in'[v], out'[v], in'[Pub])
        BY <1>11, <2>1, <2>2, PhaseKept
    <2> QED BY <1>2, <1>4, <1>9, <1>12, <2>2, <2>3, <2>4 DEF Talk
<1>13. CASE v \in members /\ Pub \notin members
    <2>1. Clean(v, entry[v], pc[v], out[Pub], in[v], out[v], in[Pub])
        BY <1>8, <1>13 DEF Talk
    <2>2. /\ NoDeal(out'[Pub], v) /\ NoDeal(out'[v], v) /\ NoDeal(in'[Pub], v)
          /\ NoDeal(in[v], v) /\ NoLeave(in[v], Pub) /\ NoLeave(in[Pub], v)
        <3>1. NoLeave(in[Pub], v)
            BY <2>1 DEF Clean, NoWord, NoLeave, About
        <3> QED BY <1>11, <2>1, <3>1, NothingDeals DEF Clean, Keeps
    <2>3. /\ NoDeal(in'[v], v) /\ Opened(in'[v], v, pc[v].open) /\ NoLeave(in'[v], Pub)
        BY <1>7, <1>10, <1>13, <2>2, AppendDeals, MessagesDeal
    <2>4. NoLeave(in'[Pub], v)
        BY <1>2, <1>3, <1>9, <2>2, ConcatDeals
    <2>5. Phase(v, entry[v], pc[v], out'[Pub], in'[v], out'[v], in'[Pub])
        BY <2>1, <2>2, <2>3 DEF Phase, Clean
    <2> QED BY <1>2, <1>4, <1>9, <1>13, <2>3, <2>4, <2>5 DEF Talk
<1>14. CASE v \notin members
    <2>1. Clean(v, entry[v], pc[v], out[Pub], in[v], out[v], in[Pub])
        BY <1>8, <1>14 DEF Talk
    <2>2. NoWord(in[Pub], v) => NoWord(in'[Pub], v)
        BY <1>2, <1>3, <1>9, <1>14, ConcatDeals
    <2>3. Clean(v, entry[v], pc[v], out'[Pub], in[v], out'[v], in'[Pub])
        BY <1>11, <2>1, <2>2, CleanKept
    <2> QED BY <1>4, <1>7, <1>9, <1>14, <2>3 DEF Talk
<1> QED BY <1>12, <1>13, <1>14

\* The viewer joins.
LEMMA ViewerJoins ==
    ASSUME TypeInv, OwnInv, NEW v \in Viewers, Pair(v),
           ServerReceives(v), Head(out[v]).type = "join"
    PROVE  Pair(v)'
<1>1. Pub \in Clients /\ v \in Clients /\ v # Pub /\ Pub \notin Viewers
    BY ConstantFacts
<1> SUFFICES ASSUME opts'.prompt, ~opts'.ice, Ready(Pub)', Ready(v)'
             PROVE  Talk(v, Pub \in members' /\ v \in members',
                         entry'[v], pc'[v], out'[Pub], in'[v], out'[v], in'[Pub])
    BY DEF Pair
<1> DEFINE t == Greeting(v)
           P == Present(v)
           S == InMsgs(v)
<1>2. /\ opts' = opts /\ PairsKept /\ Calm(v) /\ Aside(v) /\ v \in members'
      /\ Tells(v, PeerJoined(v))
      /\ in'[v] = IF Hears(v) THEN in[v] \o t ELSE in[v]
      /\ sock[v] \in {"open", "closing"} /\ out[v] # <<>> /\ out'[v] = Tail(out[v])
      /\ out[v] \in Seq(OutMsgs(v)) /\ in[v] \in Seq(S)
    BY <1>1, ReceiveFacts, JoinFacts
<1>3. t \in Seq(S) /\ Greets(t, P) /\ P = {Pub} \cap members
    BY <1>1, GreetingFacts DEF Present, Counterparts
<1>4. Ready(Pub) /\ Ready(v) /\ ~stopping[Pub] /\ ~stopping[v] /\ out'[Pub] = out[Pub]
      /\ (Pub \in members' <=> Pub \in members) /\ HasJoin(out[v])
    <2>1. HasJoin(out[v])
        BY <1>1, <1>2, TailSays
    <2>2. Rests(Pub)
        BY <1>1, <1>2 DEF Aside
    <2> QED BY <1>1, <1>2, <2>1, <2>2, ReadyRests DEF Ready, Coming, Calm, Rests
<1>5. Hears(v)
    <2>1. sock[v] = "open" /\ state[v] # "idle"
        BY <1>1, <1>2, <1>4 DEF OwnInv, Own, LinkOf, IdleOf
    <2> QED BY <1>4, <2>1 DEF Hears, Listening
<1>6. Pub \in members => Hears(Pub)
    <2> SUFFICES ASSUME Pub \in members PROVE Hears(Pub)
        OBVIOUS
    <2>1. sock[Pub] = "open" /\ state[Pub] # "idle"
        BY <1>1, <1>4 DEF OwnInv, Own, LinkOf, IdleOf
    <2> QED BY <1>4, <2>1 DEF Hears, Listening
<1>7. in'[Pub] = IF Pub \in members THEN Append(in[Pub], PeerJoined(v)) ELSE in[Pub]
    BY <1>1, <1>2, <1>6 DEF Tells, Reachable, Counterparts
<1>8. Talk(v, Pub \in members /\ v \in members,
           entry[v], pc[v], out[Pub], in[v], out[v], in[Pub])
    BY <1>2, <1>4 DEF Pair
<1>9. /\ in'[v] = in[v] \o t /\ out'[v] = Tail(out[v]) /\ out'[Pub] = out[Pub]
      /\ entry'[v] = entry[v] /\ pc'[v] = pc[v]
    BY <1>2, <1>4, <1>5 DEF PairsKept
<1>10. in[Pub] \in Seq(InMsgs(Pub)) /\ PeerJoined(v) \in InMsgs(Pub)
    BY <1>1, MessageFacts DEF TypeInv, QueueTypes, Counterparts
<1> HIDE DEF t, P, S
<1>11. Keeps(out[Pub], out'[Pub], v) /\ Keeps(in[v], in'[v], v) /\ Keeps(out[v], out'[v], v)
    <2>1. ~Deals(Head(out[v]), v)
        BY DEF Deals
    <2> QED BY <1>1, <1>2, <1>3, <1>9, <2>1, KeepsFacts, KeepsOut
<1>12. Keeps(in[Pub], in'[Pub], v) /\ (NoLeave(in[Pub], v) => NoLeave(in'[Pub], v))
    <2>1. PeerJoined(v).type # "peer-left"
        BY MessagesDeal
    <2> QED BY <1>1, <1>7, <1>10, <2>1, KeepsFacts, KeepsOut, AppendDeals, MessagesDeal
<1>13. CASE v \in members /\ Pub \in members
    <2>1. /\ NoLeave(in[v], Pub) /\ NoLeave(in[Pub], v)
          /\ Phase(v, entry[v], pc[v], out[Pub], in[v], out[v], in[Pub])
        BY <1>8, <1>13 DEF Talk
    <2>2. /\ NoLeave(in'[v], Pub)
          /\ Opened(in[v], v, pc[v].open) => Opened(in'[v], v, pc[v].open)
        BY <1>2, <1>3, <1>9, <2>1, ConcatDeals
    <2>3. Phase(v, entry[v], pc[v], out'[Pub], in'[v], out'[v], in'[Pub])
        BY <1>11, <1>12, <2>1, <2>2, PhaseKept
    <2> QED BY <1>2, <1>4, <1>9, <1>12, <1>13, <2>1, <2>2, <2>3 DEF Talk
<1>14. CASE v \notin members /\ Pub \in members
    <2>1. Clean(v, entry[v], pc[v], out[Pub], in[v], out[v], in[Pub])
        BY <1>8, <1>14 DEF Talk
    <2>2. /\ NoDeal(out'[Pub], v) /\ NoDeal(out'[v], v) /\ NoDeal(in'[Pub], v)
          /\ NoDeal(in[v], v) /\ NoLeave(in[v], Pub) /\ NoLeave(in[Pub], v)
        <3>1. NoLeave(in[Pub], v)
            BY <2>1 DEF Clean, NoWord, NoLeave, About
        <3> QED BY <1>11, <1>12, <2>1, <3>1, NothingDeals DEF Clean, Keeps
    <2>3. NoDeal(in'[v], v) /\ Opened(in'[v], v, pc[v].open) /\ NoLeave(in'[v], Pub)
        <3>1. Pub \in P
            BY <1>3, <1>14
        <3>2. NoDeal(in'[v], v) /\ NoLeave(in'[v], Pub)
            BY <1>2, <1>3, <1>9, <2>2, ConcatDeals
        <3>3. \A b : Opened(in[v] \o t, v, b)
            BY <1>2, <1>3, <2>2, <3>1, ConcatDeals
        <3> QED BY <1>9, <3>2, <3>3
    <2>4. Phase(v, entry[v], pc[v], out'[Pub], in'[v], out'[v], in'[Pub])
        BY <2>1, <2>2, <2>3 DEF Phase, Clean
    <2> QED BY <1>2, <1>4, <1>9, <1>12, <1>14, <2>2, <2>3, <2>4 DEF Talk
<1>15. CASE Pub \notin members
    <2>1. Clean(v, entry[v], pc[v], out[Pub], in[v], out[v], in[Pub])
        BY <1>8, <1>15 DEF Talk
    <2>2. Clean(v, entry[v], pc[v], out'[Pub], in[v], out'[v], in'[Pub])
        BY <1>7, <1>11, <1>12, <1>15, <2>1, CleanKept
    <2>3. in'[v] = <<>>
        <3>1. t = <<>>
            <4>1. Len(t) \in Nat /\ \A i \in 1..Len(t) : FALSE
                BY <1>3, <1>15 DEF Greets
            <4>2. Len(t) = 0
                BY <4>1
            <4> QED BY <1>3, <4>2
        <3>2. in[v] = <<>>
            BY <2>1 DEF Clean
        <3> QED BY <1>9, <3>1, <3>2
    <2>4. in[v] = <<>>
        BY <2>1 DEF Clean
    <2> QED BY <1>4, <1>9, <1>15, <2>2, <2>3, <2>4 DEF Talk
<1> QED BY <1>13, <1>14, <1>15

\* The server passes an offer of the publisher on.
LEMMA PubPasses ==
    ASSUME TypeInv, OwnInv, NEW v \in Viewers, Pair(v),
           ServerReceives(Pub), Head(out[Pub]).type \in {"offer", "answer"}
    PROVE  Pair(v)'
<1>1. Pub \in Clients /\ v \in Clients /\ v # Pub /\ Pub \notin Viewers
    BY ConstantFacts
<1> DEFINE m == Head(out[Pub])
<1>2. /\ opts' = opts /\ PairsKept /\ Calm(Pub) /\ Aside(Pub)
      /\ Pub \in members' <=> Pub \in members
      /\ out[Pub] # <<>> /\ out'[Pub] = Tail(out[Pub]) /\ out[Pub] \in Seq(OutMsgs(Pub))
      /\ in'[Pub] = in[Pub] /\ m \in OutMsgs(Pub)
      /\ in'[v] = IF v = m.to /\ v \in Reachable(Pub) THEN Append(in[v], m) ELSE in[v]
    BY <1>1, ReceiveFacts, PassFacts
<1>3. m.type = "offer" /\ m.to \in Viewers
    <2>1. m.type \in {"offer", "answer"} /\ (m.type = "answer" => Pub # Pub)
        BY <1>1, <1>2, MessageFacts
    <2>2. m.type = "offer"
        BY <2>1
    <2> HIDE DEF m
    <2> QED BY <1>1, <1>2, <2>2, MessageFacts
<1>4. Rests(v)
    BY <1>1, <1>2 DEF Aside
<1>5. /\ Ready(Pub)' => Ready(Pub)
      /\ Ready(v)' => Ready(v)
      /\ out'[v] = out[v] /\ (v \in members' <=> v \in members)
    <2>1. HasJoin(out'[Pub]) => HasJoin(out[Pub])
        BY <1>2, TailSays
    <2>2. Ready(v)' <=> Ready(v)
        BY <1>4, ReadyRests
    <2> QED BY <1>2, <1>4, <2>1, <2>2 DEF Ready, Coming, Calm, Rests
<1>6. in[v] \in Seq(InMsgs(v)) /\ (m.to = v => m \in InMsgs(v))
    <2>1. m \in InMsgs(m.to)
        BY <1>1, <1>2, <1>3, MessageFacts
    <2> QED BY <1>1, <2>1 DEF TypeInv, QueueTypes
<1> HIDE DEF m
<1>7. CASE m.to # v
    <2>1. ~Deals(m, v)
        BY <1>3, <1>7 DEF Deals
    <2>2. Keeps(out[Pub], out'[Pub], v)
        BY <1>2, <2>1, KeepsFacts DEF m
    <2> QED BY <1>1, <1>2, <1>5, <1>7, <2>2, KeepsOut, PairKept DEF PairsKept
<1>8. CASE m.to = v
    <2> SUFFICES ASSUME opts'.prompt, ~opts'.ice, Ready(Pub)', Ready(v)'
                 PROVE  Talk(v, Pub \in members' /\ v \in members',
                             entry'[v], pc'[v], out'[Pub], in'[v], out'[v], in'[Pub])
        BY DEF Pair
    <2>1. Talk(v, Pub \in members /\ v \in members,
               entry[v], pc[v], out[Pub], in[v], out[v], in[Pub])
        BY <1>2, <1>5 DEF Pair
    <2>2. Deals(m, v)
        BY <1>3, <1>8 DEF Deals
    <2>3. ~NoDeal(out[Pub], v)
        BY <1>2, <2>2, TailDeals DEF m
    <2>4. Pub \in members /\ v \in members
        BY <2>1, <2>3 DEF Talk, Clean
    <2>5. /\ entry[v].sdp = "offered" /\ Opened(in[v], v, pc[v].open)
          /\ NoDeal(out[v], v) /\ NoDeal(in[Pub], v) /\ NoDeal(in[v], v)
          /\ OneDeal(out[Pub], v, OfferMsg(v, entry[v].id))
          /\ NoLeave(in[v], Pub) /\ NoLeave(in[Pub], v)
        BY <2>1, <2>3, <2>4 DEF Talk, Phase
    <2>6. m = OfferMsg(v, entry[v].id) /\ NoDeal(out'[Pub], v)
        BY <1>2, <2>2, <2>5, TailDeals DEF m
    <2>7. in'[v] = Append(in[v], m)
        <3>1. ~stopping[v]
            BY <1>5 DEF Ready
        <3>2. sock[v] = "open" /\ state[v] # "idle"
            BY <1>1, <2>4, <3>1 DEF OwnInv, Own, LinkOf, IdleOf
        <3>3. v \in Reachable(Pub)
            BY <2>4, <3>1, <3>2 DEF Reachable, Counterparts, Hears, Listening
        <3> QED BY <1>2, <1>8, <3>3
    <2>8. /\ OneDeal(in'[v], v, OfferMsg(v, entry[v].id)) /\ Opened(in'[v], v, pc[v].open)
          /\ NoLeave(in'[v], Pub)
        <3>1. OneDeal(in'[v], v, m)
            BY <1>6, <1>8, <2>5, <2>7, AppendDeals
        <3>2. Opened(in'[v], v, pc[v].open)
            BY <1>6, <1>8, <2>5, <2>7, AppendDeals
        <3>3. m.type # "peer-left"
            BY <1>3
        <3>4. NoLeave(in'[v], Pub)
            BY <1>6, <1>8, <2>5, <2>7, <3>3, AppendDeals
        <3> QED BY <2>6, <3>1, <3>2, <3>4
    <2>9. /\ entry'[v] = entry[v] /\ pc'[v] = pc[v] /\ Pub \in members' /\ v \in members'
          /\ out'[v] = out[v] /\ in'[Pub] = in[Pub]
        BY <1>2, <1>5, <2>4 DEF PairsKept
    <2>10. Phase(v, entry[v], pc[v], out'[Pub], in'[v], out[v], in[Pub])
        BY <2>5, <2>6, <2>8 DEF Phase
    <2> QED BY <2>5, <2>8, <2>9, <2>10 DEF Talk
<1> QED BY <1>7, <1>8

\* The server passes an answer of the viewer on.
LEMMA ViewerPasses ==
    ASSUME TypeInv, OwnInv, NEW v \in Viewers, Pair(v),
           ServerReceives(v), Head(out[v]).type \in {"offer", "answer"}
    PROVE  Pair(v)'
<1>1. Pub \in Clients /\ v \in Clients /\ v # Pub /\ Pub \notin Viewers
    BY ConstantFacts
<1> DEFINE m == Head(out[v])
<1>2. /\ opts' = opts /\ PairsKept /\ Calm(v) /\ Aside(v)
      /\ v \in members' <=> v \in members
      /\ out[v] # <<>> /\ out'[v] = Tail(out[v]) /\ out[v] \in Seq(OutMsgs(v))
      /\ in'[v] = in[v] /\ m \in OutMsgs(v)
      /\ in'[Pub] = IF Pub = m.to /\ Pub \in Reachable(v) THEN Append(in[Pub], m) ELSE in[Pub]
    BY <1>1, ReceiveFacts, PassFacts
<1>3. m.type = "answer" /\ m.to = Pub /\ m.from = v /\ m \in InMsgs(Pub)
    <2>1. m.type \in {"offer", "answer"} /\ (m.type = "offer" => v = Pub)
        BY <1>1, <1>2, MessageFacts
    <2>2. m.type = "answer"
        BY <1>1, <2>1
    <2> HIDE DEF m
    <2> QED BY <1>1, <1>2, <2>2, MessageFacts
<1>4. Rests(Pub)
    BY <1>1, <1>2 DEF Aside
<1>5. /\ Ready(Pub)' => Ready(Pub)
      /\ Ready(v)' => Ready(v)
      /\ out'[Pub] = out[Pub] /\ (Pub \in members' <=> Pub \in members)
    <2>1. HasJoin(out'[v]) => HasJoin(out[v])
        BY <1>2, TailSays
    <2>2. Ready(Pub)' <=> Ready(Pub)
        BY <1>4, ReadyRests
    <2> QED BY <1>2, <1>4, <2>1, <2>2 DEF Ready, Coming, Calm, Rests
<1>6. in[Pub] \in Seq(InMsgs(Pub))
    BY <1>1 DEF TypeInv, QueueTypes
<1> HIDE DEF m
<1> SUFFICES ASSUME opts'.prompt, ~opts'.ice, Ready(Pub)', Ready(v)'
             PROVE  Talk(v, Pub \in members' /\ v \in members',
                         entry'[v], pc'[v], out'[Pub], in'[v], out'[v], in'[Pub])
    BY DEF Pair
<1>8. Talk(v, Pub \in members /\ v \in members,
           entry[v], pc[v], out[Pub], in[v], out[v], in[Pub])
    BY <1>2, <1>5 DEF Pair
<1>9. Deals(m, v)
    BY <1>3 DEF Deals
<1>10. ~NoDeal(out[v], v)
    BY <1>2, <1>9, TailDeals DEF m
<1>11. Pub \in members /\ v \in members
    BY <1>8, <1>10 DEF Talk, Clean
<1>12. /\ entry[v].sdp = "offered" /\ pc[v].open /\ pc[v].offer = entry[v].id
       /\ NoDeal(out[Pub], v) /\ NoDeal(in[Pub], v) /\ NoDeal(in[v], v)
       /\ OneDeal(out[v], v, AnswerMsg(v, entry[v].id, pc[v].id))
       /\ NoLeave(in[v], Pub) /\ NoLeave(in[Pub], v)
    BY <1>8, <1>10, <1>11 DEF Talk, Phase
<1>13. m = AnswerMsg(v, entry[v].id, pc[v].id) /\ NoDeal(out'[v], v)
    BY <1>2, <1>9, <1>12, TailDeals DEF m
<1>14. in'[Pub] = Append(in[Pub], m)
    <2>1. ~stopping[Pub]
        BY <1>5 DEF Ready
    <2>2. sock[Pub] = "open" /\ state[Pub] # "idle"
        BY <1>1, <1>11, <2>1 DEF OwnInv, Own, LinkOf, IdleOf
    <2>3. Pub \in Reachable(v)
        BY <1>1, <1>11, <2>1, <2>2 DEF Reachable, Counterparts, Hears, Listening
    <2> QED BY <1>2, <1>3, <2>3
<1>15. OneDeal(in'[Pub], v, AnswerMsg(v, entry[v].id, pc[v].id)) /\ NoLeave(in'[Pub], v)
    <2>1. OneDeal(in'[Pub], v, m)
        BY <1>3, <1>6, <1>12, <1>14, AppendDeals
    <2>2. m.type # "peer-left"
        BY <1>3
    <2>3. NoLeave(in'[Pub], v)
        BY <1>3, <1>6, <1>12, <1>14, <2>2, AppendDeals
    <2> QED BY <1>13, <2>1, <2>3
<1>16. /\ entry'[v] = entry[v] /\ pc'[v] = pc[v] /\ Pub \in members' /\ v \in members'
       /\ out'[Pub] = out[Pub] /\ in'[v] = in[v]
    BY <1>2, <1>5, <1>11 DEF PairsKept
<1>17. Phase(v, entry[v], pc[v], out[Pub], in[v], out'[v], in'[Pub])
    BY <1>12, <1>13, <1>15 DEF Phase
<1> QED BY <1>12, <1>15, <1>16, <1>17 DEF Talk

\* The publisher reads a message: it makes an entry, or takes the answer that it waits for.
LEMMA PubReads ==
    ASSUME TypeInv, NEW v \in Viewers, Pair(v), PublisherReceives
    PROVE  Pair(v)'
<1>1. Pub \in Clients /\ v \in Clients /\ v # Pub
    BY ConstantFacts
<1> DEFINE m == Head(in[Pub])
<1>2. /\ opts' = opts /\ members' = members /\ Rests(Pub) /\ Rests(v)
      /\ in[Pub] # <<>> /\ in'[Pub] = Tail(in[Pub]) /\ in'[v] = in[v] /\ pc' = pc
      /\ Reads(m, v) /\ in[Pub] \in Seq(InMsgs(Pub))
    BY <1>1, PublisherFacts DEF InKept, TypeInv, QueueTypes
<1>3. /\ out'[Pub] = out[Pub] /\ out'[v] = out[v]
      /\ Ready(Pub)' <=> Ready(Pub)
      /\ Ready(v)' <=> Ready(v)
    BY <1>2, ReadyRests DEF Rests
<1> SUFFICES ASSUME opts'.prompt, ~opts'.ice, Ready(Pub)', Ready(v)'
             PROVE  Talk(v, Pub \in members' /\ v \in members',
                         entry'[v], pc'[v], out'[Pub], in'[v], out'[v], in'[Pub])
    BY DEF Pair
<1>4. Talk(v, Pub \in members /\ v \in members,
           entry[v], pc[v], out[Pub], in[v], out[v], in[Pub])
    BY <1>2, <1>3 DEF Pair
<1>5. /\ ~Deals(m, v) => Keeps(in[Pub], in'[Pub], v)
      /\ NoDeal(in[Pub], v) => ~Deals(m, v) /\ NoDeal(in'[Pub], v)
      /\ NoWord(in[Pub], v) => ~About(m, v) /\ NoWord(in'[Pub], v)
      /\ NoLeave(in[Pub], v) => NoLeave(in'[Pub], v) /\ ~(m.type = "peer-left" /\ m.peer = v)
    <2>1. ~Deals(m, v) => Keeps(in[Pub], in'[Pub], v)
        BY <1>2, KeepsFacts
    <2>2. in[Pub] # <<>> /\ in'[Pub] = Tail(in[Pub]) /\ in[Pub] \in Seq(InMsgs(Pub))
        BY <1>2
    <2>3. NoDeal(in[Pub], v) => ~Deals(m, v) /\ NoDeal(in'[Pub], v)
        BY <2>2, TailDeals
    <2>4. NoWord(in[Pub], v) => ~About(m, v) /\ NoWord(in'[Pub], v)
        BY <2>2, TailDeals
    <2>5. NoLeave(in[Pub], v) => NoLeave(in'[Pub], v) /\ ~(m.type = "peer-left" /\ m.peer = v)
        <3>1. ToSet(in[Pub]) = ToSet(in'[Pub]) \cup {m}
            BY <2>2, ToSetFacts
        <3> QED BY <3>1 DEF NoLeave
    <2> QED BY <2>1, <2>3, <2>4, <2>5
<1>6. \A x : Deals(m, v) /\ OneDeal(in[Pub], v, x) => m = x /\ NoDeal(in'[Pub], v)
    BY <1>2, TailDeals
<1> HIDE DEF m
<1>7. \A d \in {Pub, v} : Keeps(out[d], out[d], v) /\ Keeps(in[d], in[d], v)
    BY <1>1, KeepsOut
<1>8. CASE ~(Pub \in members /\ v \in members)
    <2>1. Clean(v, entry[v], pc[v], out[Pub], in[v], out[v], in[Pub])
        BY <1>4, <1>8 DEF Talk
    <2>2. ~Deals(m, v) /\ ~About(m, v)
        BY <1>5, <2>1 DEF Clean
    <2>3. entry'[v] = entry[v]
        BY <1>2, <2>2 DEF Reads, Deals, About
    <2>4. Clean(v, entry[v], pc[v], out[Pub], in[v], out[v], in'[Pub])
        BY <1>5, <1>7, <2>1, <2>2, CleanKept
    <2> QED BY <1>2, <1>3, <1>8, <2>3, <2>4 DEF Talk
<1>9. CASE Pub \in members /\ v \in members
    <2>1. /\ NoLeave(in[v], Pub) /\ NoLeave(in[Pub], v)
          /\ Phase(v, entry[v], pc[v], out[Pub], in[v], out[v], in[Pub])
        BY <1>4, <1>9 DEF Talk
    <2>2. SUFFICES Phase(v, entry'[v], pc[v], out[Pub], in[v], out[v], in'[Pub])
        BY <1>2, <1>3, <1>5, <1>9, <2>1 DEF Talk
    <2>3. CASE ~Deals(m, v) /\ entry'[v] = entry[v]
        BY <1>5, <1>7, <2>1, <2>3, PhaseKept
    <2>4. CASE m.type = "peer-joined" /\ entry[v].sdp = "none" /\ entry'[v] = NewEntry(v)
        <3>1. ~Deals(m, v) /\ entry'[v].sdp = "making"
            BY <2>4 DEF Deals, NewEntry
        <3>2. /\ Opened(in[v], v, pc[v].open) /\ NoDeal(out[Pub], v) /\ NoDeal(in[v], v)
              /\ NoDeal(out[v], v) /\ NoDeal(in[Pub], v)
            BY <2>1, <2>4 DEF Phase, Mates
        <3> QED BY <1>5, <3>1, <3>2 DEF Phase
    <2>5. CASE Deals(m, v)
        <3>1. /\ entry[v].sdp = "offered" /\ pc[v].open /\ pc[v].offer = entry[v].id
              /\ NoDeal(out[Pub], v) /\ NoDeal(in[v], v) /\ NoDeal(out[v], v)
              /\ OneDeal(in[Pub], v, AnswerMsg(v, entry[v].id, pc[v].id))
            BY <1>5, <2>1, <2>5 DEF Phase
        <3>2. m = AnswerMsg(v, entry[v].id, pc[v].id) /\ NoDeal(in'[Pub], v)
            BY <1>6, <2>5, <3>1
        <3>3. /\ m.type = "answer" /\ m.from = v /\ m.offer = entry[v].id /\ m.pc = pc[v].id
            BY <3>2 DEF AnswerMsg
        <3>4. entry'[v] = [id |-> entry[v].id, sdp |-> "stable", answer |-> <<m.offer, m.pc>>]
            BY <1>2, <3>1, <3>3 DEF Reads
        <3>5. Mates(entry'[v], pc[v])
            BY <3>1, <3>3, <3>4 DEF Mates
        <3> QED BY <3>1, <3>2, <3>5 DEF Phase
    <2>6. ~(m.type = "peer-left" /\ m.peer = v)
        BY <1>5, <2>1
    <2>7. ~Deals(m, v) => \/ m.type = "peer-joined" /\ entry[v].sdp = "none" /\ entry'[v] = NewEntry(v)
                          \/ entry'[v] = entry[v]
        BY <1>2, <2>6 DEF Reads, Deals
    <2> QED BY <2>3, <2>4, <2>5, <2>7
<1> QED BY <1>8, <1>9

\* An offer is made.
LEMMA PairOffers ==
    ASSUME TypeInv, NEW v \in Viewers, NEW w \in Viewers, Pair(v), OfferMade(w)
    PROVE  Pair(v)'
<1>1. Pub \in Clients /\ v \in Clients /\ v # Pub
    BY ConstantFacts
<1> DEFINE m == OfferMsg(w, entry[w].id)
<1>2. /\ opts' = opts /\ members' = members /\ Calm(Pub) /\ Aside(Pub) /\ in' = in /\ pc' = pc
      /\ entry[w].sdp = "making" /\ entry'[w].id = entry[w].id /\ entry'[w].sdp = "offered"
      /\ \A u \in Viewers \ {w} : entry'[u] = entry[u]
      /\ out'[Pub] = Append(out[Pub], m)
    BY OfferFacts
<1>3. out[Pub] \in Seq(OutMsgs(Pub)) /\ m \in OutMsgs(Pub) /\ m.type = "offer"
    <2>1. entry[w].id \in Nat
        BY DEF TypeInv, PairTypes, Entries
    <2> QED BY <1>1, <2>1, MessageFacts DEF TypeInv, QueueTypes, OfferMsg
<1>4. Deals(m, v) <=> w = v
    BY MessagesDeal
<1>5. /\ Ready(Pub)' => Ready(Pub)
      /\ Ready(v)' => Ready(v)
      /\ out'[v] = out[v]
    <2>1. HasJoin(out'[Pub]) => HasJoin(out[Pub])
        BY <1>1, <1>2, <1>3, SaysOther DEF TypeInv
    <2>2. Rests(v)
        BY <1>1, <1>2 DEF Aside
    <2>3. Ready(v)' <=> Ready(v)
        BY <2>2, ReadyRests
    <2> QED BY <1>2, <2>1, <2>2, <2>3 DEF Ready, Coming, Calm, Rests
<1> HIDE DEF m
<1>6. CASE w # v
    <2>1. Keeps(out[Pub], out'[Pub], v)
        BY <1>2, <1>3, <1>4, <1>6, KeepsFacts
    <2>2. entry'[v] = entry[v]
        BY <1>2, <1>6
    <2> QED BY <1>1, <1>2, <1>5, <2>1, <2>2, KeepsOut, PairKept
<1>7. CASE w = v
    <2> SUFFICES ASSUME opts'.prompt, ~opts'.ice, Ready(Pub)', Ready(v)'
                 PROVE  Talk(v, Pub \in members' /\ v \in members',
                             entry'[v], pc'[v], out'[Pub], in'[v], out'[v], in'[Pub])
        BY DEF Pair
    <2>1. Talk(v, Pub \in members /\ v \in members,
               entry[v], pc[v], out[Pub], in[v], out[v], in[Pub])
        BY <1>2, <1>5 DEF Pair
    <2>2. Pub \in members /\ v \in members
        BY <1>2, <1>7, <2>1 DEF Talk, Clean
    <2>3. /\ NoLeave(in[v], Pub) /\ NoLeave(in[Pub], v) /\ Opened(in[v], v, pc[v].open)
          /\ NoDeal(out[Pub], v) /\ NoDeal(in[v], v) /\ NoDeal(out[v], v) /\ NoDeal(in[Pub], v)
        BY <1>2, <1>7, <2>1, <2>2 DEF Talk, Phase, Mates
    <2>4. OneDeal(out'[Pub], v, m) /\ m = OfferMsg(v, entry'[v].id)
        <3>1. m = OfferMsg(v, entry'[v].id)
            BY <1>2, <1>7 DEF m
        <3> QED BY <1>2, <1>3, <2>3, <3>1, AppendDeals
    <2>5. Phase(v, entry'[v], pc[v], out'[Pub], in[v], out[v], in[Pub])
        BY <1>2, <1>7, <2>3, <2>4 DEF Phase
    <2> QED BY <1>2, <1>5, <2>2, <2>3, <2>5 DEF Talk
<1> QED BY <1>6, <1>7

\* The viewer reads a message: it makes a connection, or answers the offer with one.
LEMMA ViewerReads ==
    ASSUME TypeInv, NEW v \in Viewers, Pair(v), ViewerReceives(v)
    PROVE  Pair(v)'
<1>1. Pub \in Clients /\ v \in Clients /\ v # Pub
    BY ConstantFacts
<1> DEFINE m == Head(in[v])
           a == AnswerMsg(v, m.offer, pc[v].id)
<1>2. /\ opts' = opts /\ members' = members /\ Aside(v)
      /\ in[v] # <<>> /\ in'[v] = Tail(in[v]) /\ InKept(v) /\ m \in InMsgs(v) /\ Alike(v)
      /\ (stopping'[v] <=> stopping[v]) /\ sock'[v] = sock[v] /\ entry' = entry
    BY ViewerFacts
<1>3. \/ /\ m.type = "peer-joined" /\ ~pc[v].open /\ out'[v] = out[v] /\ pc'[v].open
      \/ m.type = "peer-left"
      \/ /\ m.type = "offer" /\ pc[v].open /\ pc'[v].open
         /\ pc'[v].id = pc[v].id /\ pc'[v].offer = m.offer
         /\ out'[v] = Append(out[v], a)
      \/ /\ ~(m.type = "peer-joined" /\ ~pc[v].open) /\ m.type # "peer-left"
         /\ ~(m.type = "offer" /\ pc[v].open)
         /\ pc'[v] = pc[v] /\ out'[v] = out[v]
    BY ViewerFacts
<1>4. /\ in[v] \in Seq(InMsgs(v)) /\ out[v] \in Seq(OutMsgs(v))
      /\ m.type = "offer" => a \in OutMsgs(v) /\ a.type = "answer" /\ m.to = v
      /\ m.type = "peer-left" => m.peer = Pub
      /\ pc[v].open \in BOOLEAN
      /\ m.type \in {"peer-joined", "peer-left", "offer", "answer"}
      /\ m.type # "answer"
    <2>1. pc[v].id \in Nat /\ pc[v].open \in BOOLEAN
        BY DEF TypeInv, PairTypes, Pcs
    <2>2. m.type = "offer" => m.offer \in Nat /\ m.to = v
        BY <1>1, <1>2, MessageFacts
    <2>3. m.type = "offer" => a \in OutMsgs(v) /\ a.type = "answer"
        BY <1>1, <2>1, <2>2, MessageFacts DEF AnswerMsg
    <2>4. m.type \in {"peer-joined", "peer-left", "offer", "answer"} /\ m.type # "answer"
        BY <1>1, <1>2, MessageFacts
    <2>5. m.type = "peer-left" => m.peer = Pub
        BY <1>1, <1>2, MessageFacts DEF Counterparts
    <2> QED BY <1>1, <2>1, <2>2, <2>3, <2>4, <2>5 DEF TypeInv, QueueTypes
<1>5. Deals(m, v) <=> m.type = "offer"
    BY <1>4 DEF Deals
<1>6. /\ in'[Pub] = in[Pub] /\ out'[Pub] = out[Pub]
      /\ Ready(Pub)' => Ready(Pub)
      /\ Ready(v)' => Ready(v)
    <2>1. HasJoin(out'[v]) => HasJoin(out[v])
        <3>1. out'[v] # out[v] /\ m.type # "peer-left" => m.type = "offer" /\ out'[v] = Append(out[v], a)
            BY <1>3
        <3>2. m.type = "peer-left" => out'[v] = out[v]
            BY ViewerFacts
        <3>3. CASE out'[v] = out[v]
            BY <3>3
        <3>4. CASE m.type = "offer" /\ out'[v] = Append(out[v], a)
            <4> HIDE DEF a, m
            <4> QED BY <1>1, <1>4, <3>4, SaysOther DEF TypeInv
        <3> QED BY <3>1, <3>2, <3>3, <3>4
    <2>2. Rests(Pub)
        BY <1>1, <1>2 DEF Aside
    <2>3. Ready(Pub)' <=> Ready(Pub)
        BY <2>2, ReadyRests
    <2> QED BY <1>1, <1>2, <2>1, <2>2, <2>3 DEF Ready, Coming, Alike, Rests, InKept
<1> SUFFICES ASSUME opts'.prompt, ~opts'.ice, Ready(Pub)', Ready(v)'
             PROVE  Talk(v, Pub \in members' /\ v \in members',
                         entry'[v], pc'[v], out'[Pub], in'[v], out'[v], in'[Pub])
    BY DEF Pair
<1>7. Talk(v, Pub \in members /\ v \in members,
           entry[v], pc[v], out[Pub], in[v], out[v], in[Pub])
    BY <1>2, <1>6 DEF Pair
<1>8. Pub \in members /\ v \in members
    BY <1>2, <1>7 DEF Talk, Clean
<1>9. /\ NoLeave(in[v], Pub) /\ NoLeave(in[Pub], v)
      /\ Phase(v, entry[v], pc[v], out[Pub], in[v], out[v], in[Pub])
    BY <1>7, <1>8 DEF Talk
<1>10. /\ NoLeave(in'[v], Pub) /\ m.type # "peer-left"
       /\ NoDeal(in[v], v) => m.type # "offer" /\ NoDeal(in'[v], v)
    BY <1>2, <1>4, <1>5, <1>9, TailDeals
<1>11. /\ m.type # "offer" => Keeps(in[v], in'[v], v)
       /\ m.type = "offer" /\ Opened(in[v], v, pc[v].open) => pc[v].open
    BY <1>2, <1>4, <1>5, KeepsFacts, TailDeals
<1>12. /\ \A x : m.type = "offer" /\ OneDeal(in[v], v, x) => m = x /\ NoDeal(in'[v], v)
       /\ Opened(in[v], v, pc[v].open) /\ m.type # "peer-joined" /\ m.type # "offer" =>
            Opened(in'[v], v, pc[v].open)
    <2>1. \A x : m.type = "offer" /\ OneDeal(in[v], v, x) => m = x /\ NoDeal(in'[v], v)
        BY <1>2, <1>4, <1>5, TailDeals
    <2>2. Opened(in[v], v, pc[v].open) /\ m.type # "peer-joined" /\ m.type # "offer" =>
            Opened(in'[v], v, pc[v].open)
        BY <1>2, <1>4, <1>5, TailDeals
    <2> QED BY <2>1, <2>2
<1> HIDE DEF m, a
<1>13. SUFFICES Phase(v, entry[v], pc'[v], out[Pub], in'[v], out'[v], in[Pub])
    BY <1>2, <1>6, <1>8, <1>9, <1>10 DEF Talk
<1>14. CASE m.type = "peer-joined" /\ ~pc[v].open
    <2>1. Keeps(in[v], in'[v], v) /\ pc'[v].open /\ out'[v] = out[v]
        BY <1>3, <1>11, <1>14
    <2>2. Opened(in'[v], v, pc'[v].open)
        BY <2>1 DEF Opened
    <2>3. \A n : Deals(OfferMsg(v, n), v)
        BY MessagesDeal
    <2> QED BY <1>9, <1>14, <2>1, <2>2, <2>3 DEF Phase, Keeps, Mates
<1>15. CASE m.type = "offer"
    <2>1. ~NoDeal(in[v], v)
        BY <1>10, <1>15
    <2>2. /\ entry[v].sdp = "offered" /\ Opened(in[v], v, pc[v].open) /\ NoDeal(out[v], v)
          /\ NoDeal(in[Pub], v) /\ NoDeal(out[Pub], v)
          /\ OneDeal(in[v], v, OfferMsg(v, entry[v].id))
        BY <1>9, <2>1 DEF Phase
    <2>3. pc[v].open /\ m = OfferMsg(v, entry[v].id) /\ NoDeal(in'[v], v)
        BY <1>11, <1>12, <1>15, <2>2
    <2>4. /\ m.offer = entry[v].id /\ pc'[v].open /\ pc'[v].id = pc[v].id
          /\ pc'[v].offer = m.offer /\ out'[v] = Append(out[v], a)
        BY <1>3, <1>15, <2>3 DEF OfferMsg
    <2>5. a = AnswerMsg(v, entry[v].id, pc'[v].id)
        BY <2>4 DEF a
    <2>6. OneDeal(out'[v], v, a)
        BY <1>4, <1>15, <2>2, <2>4, AppendDeals
    <2> QED BY <2>2, <2>3, <2>4, <2>5, <2>6 DEF Phase
<1>16. CASE m.type = "peer-joined" /\ pc[v].open
    <2>1. Keeps(in[v], in'[v], v) /\ pc'[v] = pc[v] /\ out'[v] = out[v]
        BY <1>3, <1>11, <1>16
    <2>2. Opened(in'[v], v, pc[v].open)
        BY <1>16 DEF Opened
    <2> QED BY <1>1, <1>9, <2>1, <2>2, PhaseKept, KeepsOut
<1> QED BY <1>4, <1>10, <1>14, <1>15, <1>16
-----------------------------------------------------------------------------
\* One step, and the theorem.

\* What a client says or loses while nothing reaches v or its entry.
LEMMA SilentPair ==
    ASSUME TypeInv, OwnInv, NEW v \in Viewers, Pair(v), NEW c \in {Pub, v},
           \/ Start(c) \/ ConnectResolves(c) \/ BudgetResets(c) \/ Opens(c) \/ AutoReconnects(c)
    PROVE  Pair(v)'
<1>1. c \in Clients
    BY ConstantFacts
<1>2. CASE Start(c)
    <2>1. /\ opts' = opts /\ Aside(c) /\ in' = in /\ members' = members /\ PairsKept
          /\ state[c] = "idle" /\ ~stopping[c] /\ Connects(c, "start")
        BY <1>1, <1>2, StartFacts
    <2>2. Ready(c) /\ (out'[c] = out[c] \/ out'[c] = Append(out[c], JoinMsg))
        BY <2>1 DEF Ready, Coming, Connects
    <2> QED BY <2>1, <2>2, PairSilent
<1>3. CASE ConnectResolves(c)
    <2>1. /\ opts' = opts /\ Aside(c) /\ in' = in /\ members' = members /\ PairsKept
          /\ sock[c] = "auth" /\ (stopping'[c] <=> stopping[c]) /\ out'[c] = Append(out[c], JoinMsg)
        BY <1>1, <1>3, ResolveFacts
    <2>2. Ready(c)' => Ready(c)
        BY <2>1 DEF Ready, Coming
    <2> QED BY <2>1, <2>2, PairSilent
<1>4. CASE BudgetResets(c)
    <2>1. /\ opts' = opts /\ in' = in /\ members' = members /\ PairsKept
          /\ \A d \in Clients : Rests(d)
        BY <1>1, <1>4, ResetFacts
    <2>2. Aside(c) /\ (Ready(c)' <=> Ready(c)) /\ out'[c] = out[c]
        BY <1>1, <2>1, ReadyRests DEF Aside, Rests
    <2> QED BY <2>1, <2>2, PairSilent
<1>5. CASE Opens(c) \/ AutoReconnects(c)
    <2>1. /\ opts' = opts /\ Aside(c) /\ in' = in /\ members' = members /\ PairsKept
          /\ (state'[c] = "idle" <=> state[c] = "idle") /\ sock'[c] # "auth" /\ out'[c] = out[c]
          /\ (stopping'[c] <=> stopping[c])
        BY <1>1, <1>5, OpenFacts, AutoFacts DEF Alike
    <2>2. Ready(c)' => Ready(c)
        BY <2>1 DEF Ready, Coming
    <2> QED BY <2>1, <2>2, PairSilent
<1> QED BY <1>2, <1>3, <1>4, <1>5

\* A client that stops, or that the server takes for gone, is not ready.
LEMMA GonePair ==
    ASSUME TypeInv, OwnInv, NEW v \in Viewers, NEW c \in {Pub, v},
           Stop(c) \/ (ServerReceives(c) /\ Head(out[c]).type = "leave")
    PROVE  Pair(v)'
<1>1. c \in Clients
    BY ConstantFacts
<1>2. stopping'[c]
    <2>1. CASE Stop(c)
        BY <1>1, <2>1, StopFacts
    <2>2. CASE ServerReceives(c) /\ Head(out[c]).type = "leave"
        <3>1. /\ out[c] # <<>> /\ out[c] \in Seq(OutMsgs(c)) /\ Calm(c)
            BY <1>1, <2>2, ReceiveFacts
        <3>2. HasLeave(out[c])
            BY <2>2, <3>1, TailSays
        <3>3. stopping[c]
            BY <1>1, <3>2 DEF OwnInv, Own, QuitOf
        <3> QED BY <3>1, <3>3 DEF Calm
    <2> QED BY <2>1, <2>2
<1>3. ~Ready(c)'
    BY <1>2 DEF Ready
<1> QED BY <1>3 DEF Pair

\* Another viewer's step.
LEMMA OthersPair ==
    ASSUME TypeInv, NEW v \in Viewers, Pair(v), NEW w \in Viewers, w # v,
           \/ Start(w) \/ Stop(w) \/ RetryFires(w) \/ ConnectResolves(w) \/ ConnectRejects(w)
           \/ BudgetResets(w) \/ Opens(w) \/ Closes(w) \/ AutoReconnects(w) \/ ServerReceives(w)
    PROVE  Pair(v)'
<1>1. /\ w \in Clients /\ w # Pub /\ v \in Clients /\ v # Pub /\ Pub \in Clients
      /\ v \notin Counterparts(w)
    BY ConstantFacts DEF Counterparts
<1> DEFINE Told == \/ in'[Pub] = in[Pub]
                   \/ \E m \in InMsgs(Pub) :
                        ~Deals(m, v) /\ ~About(m, v) /\ in'[Pub] = Append(in[Pub], m)
<1>2. ASSUME NEW m, Tells(w, m) PROVE in'[v] = in[v] /\ in'[Pub] \in {in[Pub], Append(in[Pub], m)}
    BY <1>1, <1>2 DEF Tells, Reachable
<1>3. ASSUME InKept(w) PROVE in'[v] = in[v] /\ in'[Pub] = in[Pub]
    BY <1>1, <1>3 DEF InKept
<1>4. /\ PeerLeft(w) \in InMsgs(Pub) /\ PeerJoined(w) \in InMsgs(Pub)
      /\ ~Deals(PeerLeft(w), v) /\ ~About(PeerLeft(w), v)
      /\ ~Deals(PeerJoined(w), v) /\ ~About(PeerJoined(w), v)
    BY <1>1, MessageFacts, MessagesDeal DEF Counterparts
<1>5. opts' = opts /\ Aside(w) /\ (PairsKept \/ Torn(w)) /\ in'[v] = in[v] /\ Told
    <2>1. CASE Start(w) \/ RetryFires(w) \/ ConnectResolves(w) \/ Opens(w) \/ AutoReconnects(w)
        BY <1>1, <2>1, StartFacts, RetryFacts, ResolveFacts, OpenFacts, AutoFacts
    <2>2. CASE BudgetResets(w)
        BY <1>1, <2>2, ResetFacts DEF Aside
    <2>3. CASE Stop(w)
        BY <1>1, <1>3, <2>3, StopFacts
    <2>4. CASE ConnectRejects(w)
        BY <1>1, <2>4, RejectFacts DEF Fails
    <2>5. CASE Closes(w)
        <3>1. /\ opts' = opts /\ Aside(w) /\ (PairsKept \/ Torn(w))
              /\ Tells(w, PeerLeft(w)) \/ InKept(w)
            BY <1>1, <2>5, CloseFacts DEF Fails
        <3> QED BY <1>2, <1>3, <1>4, <3>1
    <2>6. CASE ServerReceives(w)
        <3>1. /\ opts' = opts /\ PairsKept /\ Head(out[w]) \in OutMsgs(w)
              /\ Head(out[w]).type \in {"join", "leave", "offer", "answer"}
            BY <1>1, <2>6, ReceiveFacts, MessageFacts
        <3>2. CASE Head(out[w]).type = "join"
            <4>1. Aside(w) /\ Tells(w, PeerJoined(w))
                BY <1>1, <2>6, <3>2, JoinFacts
            <4> QED BY <1>2, <1>4, <3>1, <4>1
        <3>3. CASE Head(out[w]).type = "leave"
            <4>1. Aside(w) /\ (Tells(w, PeerLeft(w)) \/ InKept(w))
                BY <1>1, <2>6, <3>3, LeaveFacts
            <4> QED BY <1>2, <1>3, <1>4, <3>1, <4>1
        <3>4. CASE Head(out[w]).type \in {"offer", "answer"}
            <4> DEFINE m == Head(out[w])
            <4>1. /\ Aside(w) /\ m \in InMsgs(m.to)
                  /\ in'[v] = IF v = m.to /\ v \in Reachable(w) THEN Append(in[v], m) ELSE in[v]
                  /\ in'[Pub] = IF Pub = m.to /\ Pub \in Reachable(w)
                                THEN Append(in[Pub], m) ELSE in[Pub]
                BY <1>1, <2>6, <3>4, PassFacts
            <4>2. m.type = "answer" /\ m.to = Pub /\ m.from = w
                <5>1. m.type = "answer"
                    BY <1>1, <3>1, <3>4, MessageFacts
                <5> HIDE DEF m
                <5>2. m \in OutMsgs(w)
                    BY <3>1 DEF m
                <5> QED BY <1>1, <5>1, <5>2, MessageFacts
            <4> HIDE DEF m
            <4>3. ~Deals(m, v) /\ ~About(m, v)
                BY <4>2 DEF Deals, About
            <4> QED BY <1>1, <3>1, <4>1, <4>2, <4>3
        <3> QED BY <3>1, <3>2, <3>3, <3>4
    <2> QED BY <2>1, <2>2, <2>3, <2>4, <2>5, <2>6
<1>6. entry'[v] = entry[v] /\ pc'[v] = pc[v]
    BY <1>1, <1>5 DEF PairsKept, Torn
<1>7. Rests(Pub) /\ Rests(v)
    BY <1>1, <1>5 DEF Aside
<1> QED BY <1>5, <1>6, <1>7, PairRests

\* One step of anyone.
LEMMA PairStep ==
    /\ TypeInv /\ OwnInv /\ NewsInv /\ BareInv /\ (\A v \in Viewers : Pair(v)) /\ [Next]_vars
    => \A v \in Viewers : Pair(v)'
<1> SUFFICES ASSUME TypeInv, OwnInv, NewsInv, BareInv, \A v \in Viewers : Pair(v), [Next]_vars,
                    NEW v \in Viewers
             PROVE  Pair(v)'
    OBVIOUS
<1>1. Pair(v) /\ Pub \in Clients /\ v \in Clients /\ v # Pub
    BY ConstantFacts
<1>2. ASSUME NEW c \in Clients,
             \/ Start(c) \/ Stop(c) \/ RetryFires(c) \/ ConnectResolves(c) \/ ConnectRejects(c)
             \/ BudgetResets(c) \/ Opens(c) \/ Closes(c) \/ AutoReconnects(c) \/ ServerReceives(c)
      PROVE  Pair(v)'
    <2>1. CASE c \notin {Pub, v}
        <3>1. c \in Viewers /\ c # v
            BY <2>1, ConstantFacts
        <3> QED BY <1>1, <1>2, <3>1, OthersPair
    <2>2. CASE c \in {Pub, v} /\ ServerReceives(c)
        <3>1. Head(out[c]).type \in {"join", "leave", "offer", "answer"}
            BY <2>2, ReceiveFacts, MessageFacts
        <3>2. CASE Head(out[c]).type = "join"
            BY <1>1, <2>2, <3>2, PubJoins, ViewerJoins
        <3>3. CASE Head(out[c]).type = "leave"
            BY <2>2, <3>3, GonePair
        <3>4. CASE Head(out[c]).type \in {"offer", "answer"}
            BY <1>1, <2>2, <3>4, PubPasses, ViewerPasses
        <3> QED BY <3>1, <3>2, <3>3, <3>4
    <2>3. CASE c \in {Pub, v} /\ ~ServerReceives(c)
        BY <1>1, <1>2, <2>3, SilentPair, GonePair, PairRetries, PairBreaks
    <2> QED BY <2>1, <2>2, <2>3
<1>3. CASE PublisherReceives
    BY <1>1, <1>3, PubReads
<1>4. ASSUME NEW w \in Viewers, OfferMade(w) \/ ViewerReceives(w) \/ PcConnects(w) \/ PcFails(w)
      PROVE  Pair(v)'
    <2>1. CASE OfferMade(w)
        BY <1>1, <2>1, PairOffers
    <2>2. CASE ViewerReceives(w)
        <3>1. CASE w = v
            BY <1>1, <2>2, <3>1, ViewerReads
        <3>2. CASE w # v
            <4>1. /\ opts' = opts /\ Aside(w) /\ InKept(w) /\ entry' = entry
                  /\ \A x \in Viewers \ {w} : pc'[x] = pc[x]
                BY <2>2, ViewerFacts
            <4>2. /\ opts' = opts /\ Rests(Pub) /\ Rests(v) /\ in'[v] = in[v] /\ in'[Pub] = in[Pub]
                  /\ entry'[v] = entry[v] /\ pc'[v] = pc[v]
                BY <1>1, <3>2, <4>1, ConstantFacts DEF Aside, InKept
            <4> QED BY <1>1, <4>2, PairRests
        <3> QED BY <3>1, <3>2
    <2>3. CASE PcConnects(w)
        <3>1. /\ opts' = opts /\ members' = members /\ Aside(w) /\ in' = in /\ Alike(w)
              /\ (stopping'[w] <=> stopping[w]) /\ sock'[w] = sock[w] /\ out'[w] = out[w]
              /\ entry' = entry /\ \A x \in Viewers \ {w} : pc'[x] = pc[x]
              /\ (pc'[w].open <=> pc[w].open) /\ pc'[w].id = pc[w].id /\ pc'[w].offer = pc[w].offer
            BY <2>3, PcConnectFacts
        <3>2. CASE w # v
            <4>1. Rests(Pub) /\ Rests(v) /\ pc'[v] = pc[v]
                BY <1>1, <3>1, <3>2, ConstantFacts DEF Aside
            <4> QED BY <1>1, <3>1, <4>1, PairRests
        <3>3. CASE w = v
            <4>1. Rests(Pub)
                BY <1>1, <3>1, <3>3 DEF Aside
            <4>2. /\ Ready(Pub)' => Ready(Pub)
                  /\ Ready(v)' => Ready(v)
                BY <3>1, <3>3, <4>1, ReadyRests DEF Ready, Coming, Alike
            <4>3. out'[Pub] = out[Pub]
                BY <4>1 DEF Rests
            <4>4. \A d \in {Pub, v} : Keeps(out[d], out[d], v) /\ Keeps(in[d], in[d], v)
                BY <1>1, KeepsOut
            <4> QED BY <1>1, <3>1, <3>3, <4>2, <4>3, <4>4, PairKept
        <3> QED BY <3>2, <3>3
    <2>4. CASE PcFails(w)
        <3>1. opts' = opts /\ opts.ice
            BY <2>4, PcFailFacts
        <3> QED BY <3>1 DEF Pair
    <2> QED BY <1>4, <2>1, <2>2, <2>3, <2>4
<1>5. CASE UNCHANGED vars
    BY <1>1, <1>5 DEF Pair, Ready, Coming, vars, cliVars, pcVars, linkVars
<1> QED BY <1>2, <1>3, <1>4, <1>5 DEF Next

\* At first there is no connection.
LEMMA PairInit ==
    Init => BareInv /\ \A v \in Viewers : Pair(v)
<1> SUFFICES ASSUME Init PROVE BareInv /\ \A v \in Viewers : Pair(v)
    OBVIOUS
<1>1. \A c \in Clients : /\ state[c] = "idle" /\ out[c] = <<>> /\ in[c] = <<>> /\ c \notin members
    BY DEF Init
<1>2. BareInv
    BY <1>1, NothingSays DEF BareInv, BareOf, JoinsOnly
<1>3. ASSUME NEW v \in Viewers PROVE Pair(v)
    <2>1. /\ out[Pub] = <<>> /\ out[v] = <<>> /\ in[Pub] = <<>> /\ in[v] = <<>>
          /\ Pub \notin members
        BY <1>1, ConstantFacts
    <2>2. entry[v].sdp = "none" /\ ~pc[v].open
        <3>1. entry[v] = NoEntry(0) /\ pc[v] = NoPc(0)
            BY DEF Init
        <3> QED BY <3>1, NothingMade
    <2> QED BY <2>1, <2>2, NothingDeals DEF Pair, Talk, Clean
<1> QED BY <1>2, <1>3

\* When everything has arrived, the two ends of every connection refer to each other, as
\* long as no retry outruns a message and no peer connection failed (makeOffer, handleSdp).
THEOREM Mesh_Ends == Spec => []EndsMatch
<1> DEFINE PairInv == \A v \in Viewers : Pair(v)
<1>1. TypeInv /\ OwnInv /\ NewsInv /\ PairInv => EndsMatch
    <2> SUFFICES ASSUME OwnInv, NewsInv, PairInv, opts.prompt, ~opts.ice, NEW v \in Viewers,
                        \A c \in {v, Pub} : c \in members /\ Listening(c) /\ Settled(c),
                        entry[v].sdp # "making"
                 PROVE  Mated(v)
        BY DEF EndsMatch
    <2>1. \A c \in {v, Pub} : /\ c \in members /\ Ready(c) /\ Hears(c)
                              /\ in[c] = <<>> /\ out[c] = <<>>
        BY DEF Ready, Listening, Settled, Hears
    <2>2. entry[v].sdp # "none"
        <3>1. Ends(<<>>, v, entry[v].sdp # "none")
            BY <2>1 DEF NewsInv, PubNews
        <3> QED BY <3>1, NoNews
    <2>3. Phase(v, entry[v], pc[v], <<>>, <<>>, <<>>, <<>>)
        BY <2>1 DEF Pair, Talk
    <2>4. Mates(entry[v], pc[v])
        BY <2>2, <2>3, NothingDeals DEF Phase
    <2> QED BY <2>4 DEF Mates, Mated
<1>2. Init => PairInv /\ BareInv
    BY PairInit
<1>3. TypeInv /\ OwnInv /\ NewsInv /\ BareInv /\ PairInv /\ [Next]_vars => PairInv'
    BY PairStep
<1>4. Init => NewsInv
    <2>1. Init => Pub \notin members /\ \A v \in Viewers : v \notin members
        BY DEF Init
    <2> QED BY <2>1 DEF NewsInv, PubNews, ViewerNews
<1> HIDE DEF PairInv
<1> QED BY <1>1, <1>2, <1>3, <1>4, OwnInit, OwnStep, NewsStep, BareStep, PTL DEF Spec
=============================================================================

-------------------------- MODULE RecordingProofs --------------------------
(***************************************************************************)
(* For any chunks and any limits: the states that the recorder and the     *)
(* uploader report are honest, the blob of a recording is complete, and    *)
(* every chunk and every byte handed to the uploader is accounted for.     *)
(***************************************************************************)
EXTENDS Recording, WellFoundedInduction, TLAPS

EventTypes == {"data", "pause", "resume", "stop", "error"}
Events == [type : EventTypes, chunk : Nat]

-----------------------------------------------------------------------------
\* The recorder.

DataAfter(list, i) == \A j \in DOMAIN list : j > i => list[j].type = "data"

\* The last task of `list` that changes recorderState is a `type`.
LastIs(list, type) == \E i \in DOMAIN list : list[i].type = type /\ DataAfter(list, i)

\* The task after which the Recorder is where the MediaRecorder is.
CatchingUp(state) ==
    CASE state = "recording" -> "resume"
      [] state = "paused"    -> "pause"
      [] OTHER               -> "stop"

\* The Recorder will be there once the tasks have run, or nothing is left to run but chunks.
Follows(list, here, there) ==
    \/ LastIs(list, CatchingUp(there))
    \/ DataAfter(list, 0) /\ here = StateAfter(CatchingUp(there))

RecorderInv ==
    /\ events \in Seq(Events)
    /\ \A i \in DOMAIN events : events[i].type = "data" => events[i].chunk # None
    /\ produced \in Nat
    /\ native \in {"none", "recording", "paused", "inactive"}
    /\ recorder = "idle" => native = "none"
    /\ native = "none" => events = <<>>
    /\ native = "inactive" /\ events # <<>> => events[Len(events)].type = "stop"
    /\ native # "none" => Follows(events, recorder, native)

\* The same of the next state.
LEMMA FollowsPrimed ==
    Follows(events', recorder', native') => Follows(events, recorder, native)'
BY DEF Follows, LastIs, DataAfter, CatchingUp, StateAfter

\* A task more at the end.
LEMMA AppendFacts ==
    ASSUME NEW list \in Seq(Events), NEW e \in Events
    PROVE  LET longer == Append(list, e)
           IN  /\ longer \in Seq(Events) /\ longer # <<>> /\ longer[Len(longer)] = e
               /\ \A i \in DOMAIN longer :
                    (i \in DOMAIN list /\ longer[i] = list[i]) \/ longer[i] = e
               /\ LastIs(longer, e.type)
               /\ e.type = "data" =>
                    /\ \A type : LastIs(list, type) => LastIs(longer, type)
                    /\ DataAfter(list, 0) => DataAfter(longer, 0)
<1> DEFINE longer == Append(list, e)
<1>1. /\ longer \in Seq(Events) /\ DOMAIN longer = 1..(Len(list) + 1)
      /\ Len(longer) = Len(list) + 1 /\ DOMAIN list = 1..Len(list) /\ Len(list) \in Nat
      /\ longer[Len(list) + 1] = e
      /\ \A i \in DOMAIN list : longer[i] = list[i]
    OBVIOUS
<1> HIDE DEF longer
<1>2. \A i \in DOMAIN longer : \/ i \in DOMAIN list /\ longer[i] = list[i]
                               \/ i = Len(list) + 1 /\ longer[i] = e
    BY <1>1
<1>3. LastIs(longer, e.type)
    BY <1>1 DEF LastIs, DataAfter
<1>4. longer # <<>>
    BY <1>1
<1>5. ASSUME e.type = "data"
      PROVE  /\ \A type : LastIs(list, type) => LastIs(longer, type)
             /\ DataAfter(list, 0) => DataAfter(longer, 0)
    BY <1>1, <1>2, <1>5 DEF LastIs, DataAfter
<1> QED BY <1>1, <1>2, <1>3, <1>4, <1>5 DEF longer

\* The first task has run.
LEMMA TailFacts ==
    ASSUME NEW list \in Seq(Events), list # <<>>
    PROVE  LET rest == Tail(list)
           IN  /\ rest \in Seq(Events) /\ Head(list) = list[1] /\ 1 \in DOMAIN list
               /\ \A i \in DOMAIN rest : i + 1 \in DOMAIN list /\ rest[i] = list[i + 1]
               /\ rest # <<>> => rest[Len(rest)] = list[Len(list)]
               /\ rest = <<>> => Len(list) = 1
               /\ \A type : LastIs(list, type)
                              => \/ LastIs(rest, type)
                                 \/ DataAfter(rest, 0) /\ Head(list).type = type
               /\ DataAfter(list, 0) => DataAfter(rest, 0) /\ Head(list).type = "data"
<1> DEFINE rest == Tail(list)
<1>1. /\ rest \in Seq(Events) /\ Head(list) = list[1] /\ 1 \in DOMAIN list
      /\ DOMAIN rest = 1..(Len(list) - 1) /\ Len(rest) = Len(list) - 1
      /\ DOMAIN list = 1..Len(list) /\ Len(list) \in Nat \ {0}
      /\ \A i \in 1..(Len(list) - 1) : rest[i] = list[i + 1]
    OBVIOUS
<1> HIDE DEF rest
<1>2. \A i \in DOMAIN rest : i + 1 \in DOMAIN list /\ rest[i] = list[i + 1]
    BY <1>1
<1>3. rest # <<>> => rest[Len(rest)] = list[Len(list)]
    <2>1. rest # <<>> => Len(rest) \in DOMAIN rest
        BY <1>1
    <2> QED BY <1>1, <1>2, <2>1
<1>4. rest = <<>> => Len(list) = 1
    BY <1>1
<1>5. \A i \in DOMAIN list : DataAfter(list, i) => DataAfter(rest, i - 1)
    BY <1>1, <1>2 DEF DataAfter
<1>6. ASSUME NEW type, LastIs(list, type)
      PROVE  LastIs(rest, type) \/ (DataAfter(rest, 0) /\ Head(list).type = type)
    <2>1. PICK i \in DOMAIN list : list[i].type = type /\ DataAfter(list, i)
        BY <1>6 DEF LastIs
    <2>2. CASE i = 1
        BY <1>1, <1>5, <2>1, <2>2
    <2>3. CASE i # 1
        <3>1. i - 1 \in DOMAIN rest /\ rest[i - 1] = list[i]
            BY <1>1, <2>3
        <3>2. rest[i - 1].type = type /\ DataAfter(rest, i - 1)
            BY <1>5, <2>1, <3>1
        <3>3. PICK k \in DOMAIN rest : rest[k].type = type /\ DataAfter(rest, k)
            BY <3>1, <3>2
        <3> QED BY <3>3 DEF LastIs
    <2> QED BY <2>2, <2>3
<1>7. DataAfter(list, 0) => DataAfter(rest, 0) /\ Head(list).type = "data"
    BY <1>1, <1>2 DEF DataAfter
<1> QED BY <1>1, <1>2, <1>3, <1>4, <1>6, <1>7 DEF rest

\* A list of tasks whose chunks are chunks.
Tasks(list) ==
    /\ list \in Seq(Events)
    /\ \A i \in DOMAIN list : list[i].type = "data" => list[i].chunk # None

\* An end leaves a stop as the last task.
LEMMA EndsFacts ==
    ASSUME NEW pending, Tasks(pending), produced \in Nat, Ends(pending), recorder' # "idle"
    PROVE  RecorderInv'
<1>1. Task("stop") \in Events /\ Task("stop").type = "stop"
    BY DEF Task, Events, EventTypes, None
<1>2. ASSUME NEW list, Tasks(list), events' = Append(list, Task("stop")), produced' \in Nat
      PROVE  RecorderInv'
    <2>1. /\ events' \in Seq(Events) /\ events' # <<>>
          /\ events'[Len(events')] = Task("stop")
          /\ \A i \in DOMAIN events' :
               (i \in DOMAIN list /\ events'[i] = list[i]) \/ events'[i] = Task("stop")
          /\ LastIs(events', "stop")
        BY <1>1, <1>2, AppendFacts DEF Tasks
    <2>2. \A i \in DOMAIN events' : events'[i].type = "data" => events'[i].chunk # None
        BY <1>1, <1>2, <2>1 DEF Tasks
    <2>3. native' = "inactive"
        BY DEF Ends
    <2>4. Follows(events', recorder', native')
        BY <2>1, <2>3 DEF Follows, CatchingUp
    <2> QED BY <1>1, <1>2, <2>1, <2>2, <2>3, <2>4, FollowsPrimed DEF RecorderInv
<1>3. CASE events' = Append(pending, Task("stop")) /\ produced' = produced
    BY <1>2, <1>3
<1>4. CASE /\ produced' = produced + 1
           /\ events' = pending \o <<Data(produced'), Task("stop")>>
    <2>1. /\ Data(produced') \in Events /\ Data(produced').type = "data"
          /\ Data(produced').chunk # None
        BY <1>4 DEF Data, Events, EventTypes, None
    <2>2. Tasks(Append(pending, Data(produced')))
        BY <2>1, AppendFacts DEF Tasks
    <2>3. events' = Append(Append(pending, Data(produced')), Task("stop"))
        BY <1>1, <1>4, <2>1 DEF Tasks
    <2>4. produced' \in Nat
        BY <1>4
    <2> QED BY <1>2, <2>2, <2>3, <2>4
<1> QED BY <1>3, <1>4 DEF Ends

\* The MediaRecorder obeys at once and says so later.
LEMMA ObeysFacts ==
    ASSUME RecorderInv, NEW command, Obeys(command, events),
           recorder' = recorder, produced' = produced
    PROVE  RecorderInv'
<1>1. ASSUME NEW type \in {"pause", "resume"}, events' = Append(events, Task(type)),
             native' = (IF type = "pause" THEN "paused" ELSE "recording"),
             native # "none"
      PROVE  RecorderInv'
    <2>1. Task(type) \in Events /\ Task(type).type = type
        BY DEF Task, Events, EventTypes, None
    <2>2. /\ events' \in Seq(Events) /\ events' # <<>>
          /\ \A i \in DOMAIN events' :
               (i \in DOMAIN events /\ events'[i] = events[i]) \/ events'[i] = Task(type)
          /\ LastIs(events', type)
        BY <1>1, <2>1, AppendFacts DEF RecorderInv
    <2>3. \A i \in DOMAIN events' : events'[i].type = "data" => events'[i].chunk # None
        BY <2>1, <2>2 DEF RecorderInv
    <2>4. CatchingUp(native') = type
        BY <1>1 DEF CatchingUp
    <2>5. Follows(events', recorder', native')
        BY <2>2, <2>4 DEF Follows
    <2> QED BY <1>1, <2>2, <2>3, <2>5, FollowsPrimed DEF RecorderInv
<1>2. CASE native' = native /\ events' = events
    BY <1>2, FollowsPrimed DEF RecorderInv
<1> QED BY <1>1, <1>2 DEF Obeys

\* A task that changes recorderState brings it where it says.
LEMMA StateEventFacts ==
    ASSUME RecorderInv, NEW type \in {"pause", "resume", "stop", "error"}, StateEvent(type)
    PROVE  RecorderInv'
<1>1. /\ events # <<>> /\ Head(events).type = type /\ events' = Tail(events)
      /\ recorder' = StateAfter(type) /\ native' = native /\ produced' = produced
    BY DEF StateEvent, NextTask
<1>2. events \in Seq(Events)
    BY DEF RecorderInv
<1>3. /\ events' \in Seq(Events) /\ Head(events) = events[1] /\ 1 \in DOMAIN events
      /\ \A i \in DOMAIN events' : i + 1 \in DOMAIN events /\ events'[i] = events[i + 1]
      /\ events' # <<>> => events'[Len(events')] = events[Len(events)]
    BY <1>1, <1>2, TailFacts
<1>4. recorder' # "idle"
    BY <1>1 DEF StateAfter
<1>5. native # "none"
    BY <1>1 DEF RecorderInv
<1>6. \/ LastIs(events', CatchingUp(native))
      \/ DataAfter(events', 0) /\ recorder' = StateAfter(CatchingUp(native))
    <2>1. ~DataAfter(events, 0)
        BY <1>1, <1>2, TailFacts
    <2>2. LastIs(events, CatchingUp(native))
        BY <1>5, <2>1 DEF RecorderInv, Follows
    <2>3. \/ LastIs(events', CatchingUp(native))
          \/ DataAfter(events', 0) /\ type = CatchingUp(native)
        BY <1>1, <1>2, <2>2, TailFacts
    <2> QED BY <1>1, <2>3
<1>7. Follows(events', recorder', native')
    BY <1>1, <1>6 DEF Follows, CatchingUp
<1> QED BY <1>1, <1>3, <1>4, <1>5, <1>7, FollowsPrimed DEF RecorderInv

\* A chunk arrives: it changes nothing here, or overflows the buffer and ends the
\* recording.
LEMMA DataFacts ==
    ASSUME RecorderInv, DataAvailable
    PROVE  RecorderInv'
<1> DEFINE rest == Tail(events)
<1>1. /\ events # <<>> /\ Head(events).type = "data" /\ events \in Seq(Events)
      /\ produced \in Nat
    BY DEF DataAvailable, NextTask, RecorderInv
<1>2. /\ rest \in Seq(Events) /\ Head(events) = events[1] /\ 1 \in DOMAIN events
      /\ \A i \in DOMAIN rest : i + 1 \in DOMAIN events /\ rest[i] = events[i + 1]
      /\ rest # <<>> => rest[Len(rest)] = events[Len(events)]
      /\ rest = <<>> => Len(events) = 1
    BY <1>1, TailFacts
<1>3. /\ \A type : LastIs(events, type) =>
            \/ LastIs(rest, type)
            \/ DataAfter(rest, 0) /\ Head(events).type = type
      /\ DataAfter(events, 0) => DataAfter(rest, 0)
    BY <1>1, TailFacts
<1> HIDE DEF rest
<1>4. Tasks(rest)
    BY <1>2 DEF Tasks, RecorderInv
<1>5. native # "none" /\ recorder # "idle"
    BY <1>1 DEF RecorderInv
<1>6. native = "inactive" => rest # <<>> /\ rest[Len(rest)].type = "stop"
    BY <1>1, <1>2 DEF RecorderInv
<1>7. CASE recorder' = "error" /\ StopNative(rest)
    <2>1. CASE Active
        BY <1>1, <1>4, <1>7, <2>1, EndsFacts DEF StopNative
    <2>2. CASE ~Active
        <3>1. events' = rest /\ native' = native /\ produced' = produced /\ native = "inactive"
            BY <1>5, <1>7, <2>2 DEF StopNative, Active, RecorderInv
        <3>2. LastIs(rest, "stop")
            <4>1. Len(rest) \in DOMAIN rest /\ DOMAIN rest = 1..Len(rest) /\ Len(rest) \in Nat
                BY <1>2, <1>6, <3>1
            <4>2. DataAfter(rest, Len(rest))
                BY <4>1 DEF DataAfter
            <4> QED BY <1>6, <3>1, <4>1, <4>2 DEF LastIs
        <3>3. Follows(events', recorder', native')
            BY <3>1, <3>2 DEF Follows, CatchingUp
        <3> QED BY <1>1, <1>4, <1>6, <1>7, <3>1, <3>3, FollowsPrimed
                DEF RecorderInv, Tasks
    <2> QED BY <2>1, <2>2
<1>8. CASE events' = rest /\ UNCHANGED <<recorder, native, produced>>
    <2>1. \/ LastIs(rest, CatchingUp(native))
          \/ DataAfter(rest, 0) /\ recorder = StateAfter(CatchingUp(native))
        <3>1. CatchingUp(native) # "data"
            BY DEF CatchingUp
        <3> QED BY <1>1, <1>3, <1>5, <3>1 DEF RecorderInv, Follows
    <2>2. Follows(events', recorder', native')
        BY <1>8, <2>1 DEF Follows, CatchingUp
    <2> QED BY <1>4, <1>5, <1>6, <1>8, <2>2, FollowsPrimed DEF RecorderInv, Tasks
<1> QED BY <1>7, <1>8 DEF DataAvailable, rest

\* A new Recorder is idle, and there is no MediaRecorder.
LEMMA RecorderInit == Init => RecorderInv
BY DEF Init, RecorderInv

\* Every step keeps the Recorder on its way to the MediaRecorder.
LEMMA RecorderStep == RecorderInv /\ [Next]_vars => RecorderInv'
<1> SUFFICES ASSUME RecorderInv, [Next]_vars PROVE RecorderInv'
    OBVIOUS
<1>1. Tasks(events) /\ produced \in Nat
    BY DEF RecorderInv, Tasks
<1>2. ASSUME UNCHANGED <<recorder, events, native, produced>> PROVE RecorderInv'
    BY <1>2, FollowsPrimed DEF RecorderInv
<1>3. CASE CutsChunk
    <2>1. /\ native = "recording" /\ native' = native /\ recorder' = recorder
          /\ produced' = produced + 1 /\ events' = Append(events, Data(produced'))
        BY <1>3 DEF CutsChunk, recVars
    <2>2. /\ Data(produced') \in Events /\ Data(produced').type = "data"
          /\ Data(produced').chunk # None
        BY <1>1, <2>1 DEF Data, Events, EventTypes, None
    <2>3. /\ events' \in Seq(Events) /\ events' # <<>>
          /\ \A i \in DOMAIN events' :
               (i \in DOMAIN events /\ events'[i] = events[i]) \/ events'[i] = Data(produced')
          /\ \A type : LastIs(events, type) => LastIs(events', type)
          /\ DataAfter(events, 0) => DataAfter(events', 0)
        BY <1>1, <2>1, <2>2, AppendFacts DEF Tasks
    <2>4. Follows(events, recorder, native)
        BY <2>1 DEF RecorderInv
    <2>5. Follows(events', recorder', native')
        BY <2>1, <2>3, <2>4 DEF Follows
    <2>6. \A i \in DOMAIN events' : events'[i].type = "data" => events'[i].chunk # None
        BY <1>1, <2>2, <2>3 DEF Tasks
    <2>7. produced' \in Nat
        BY <1>1, <2>1
    <2> QED BY <2>1, <2>3, <2>5, <2>6, <2>7, FollowsPrimed DEF RecorderInv
<1>4. CASE EndsByItself
    <2>1. native # "none" /\ recorder' = recorder
        BY <1>4 DEF EndsByItself, Active, recVars
    <2>2. recorder' # "idle"
        BY <2>1 DEF RecorderInv
    <2>3. CASE Ends(events)
        BY <1>1, <2>2, <2>3, EndsFacts
    <2>4. CASE Ends(Append(events, Task("error")))
        <3>1. Task("error") \in Events /\ Task("error").type # "data"
            BY DEF Task, Events, EventTypes, None
        <3>2. Tasks(Append(events, Task("error")))
            BY <1>1, <3>1, AppendFacts DEF Tasks
        <3> QED BY <1>1, <2>2, <2>4, <3>2, EndsFacts
    <2> QED BY <1>4, <2>3, <2>4 DEF EndsByItself
<1>5. CASE Start
    <2>1. native = "none" /\ events = <<>> /\ UNCHANGED <<events, produced>>
        BY <1>5 DEF Start, RecorderInv
    <2>2. CASE recorder' = "recording" /\ native' = "recording"
        <3>1. DataAfter(events', 0)
            BY <2>1 DEF DataAfter
        <3>2. Follows(events', recorder', native')
            BY <2>2, <3>1 DEF Follows, CatchingUp, StateAfter
        <3> QED BY <2>1, <2>2, <3>2, FollowsPrimed DEF RecorderInv
    <2>3. CASE recorder' = "error" /\ UNCHANGED native
        BY <2>1, <2>3 DEF RecorderInv
    <2> QED BY <1>5, <2>2, <2>3 DEF Start
<1>6. CASE Stop
    <2>1. recorder' = recorder /\ recorder' # "idle" /\ StopNative(events)
        BY <1>6 DEF Stop
    <2>2. CASE Active
        BY <1>1, <2>1, <2>2, EndsFacts DEF StopNative
    <2>3. CASE ~Active
        BY <1>2, <2>1, <2>3 DEF StopNative
    <2> QED BY <2>2, <2>3
<1>7. CASE Pause \/ Resume
    BY <1>7, ObeysFacts DEF Pause, Resume
<1>8. CASE PipeOrUnpipe \/ Close
    BY <1>2, <1>8 DEF PipeOrUnpipe, Close, recVars, natVars
<1>9. CASE FetchSucceeds
    BY <1>2, <1>9, ObeysFacts DEF FetchSucceeds, recVars
<1>10. CASE FetchFails \/ Retry
    BY <1>10, ObeysFacts DEF FetchFails, Retry, recVars
<1>11. CASE DataAvailable
    BY <1>11, DataFacts
<1>12. ASSUME NEW type \in {"pause", "resume", "stop", "error"}, StateEvent(type)
       PROVE  RecorderInv'
    BY <1>12, StateEventFacts
<1>13. CASE UNCHANGED vars
    BY <1>2, <1>13 DEF vars, recVars, natVars
<1> QED BY <1>3, <1>4, <1>5, <1>6, <1>7, <1>8, <1>9, <1>10, <1>11, <1>12, <1>13 DEF Next

-----------------------------------------------------------------------------
\* The chunks on their way to the Recorder.

\* list: tasks still to run; nat: the MediaRecorder's state; top: chunks cut; given: chunks
\* handed to the uploader; had: chunks buffered; full: nothing was left out of the buffer.
\* A stop is the last task.  Chunks come in order, after those that came before, and if
\* nothing was left out each chunk cut is buffered or on its way.
Line(list, nat, top, given, had, full) ==
    /\ list \in Seq(Events) /\ top \in 0..Len(Sizes) /\ had \in Nat
    /\ \A k \in given : k \in 1..top
    /\ \A i \in DOMAIN list : list[i].type = "stop" => i = Len(list) /\ nat = "inactive"
    /\ \A i \in DOMAIN list : list[i].type = "data" =>
         /\ list[i].chunk \in 1..top
         /\ \A k \in given : k < list[i].chunk
         /\ \A j \in DOMAIN list :
              j > i /\ list[j].type = "data" => list[i].chunk < list[j].chunk
    /\ full =>
         /\ had <= top
         /\ \A i \in DOMAIN list : list[i].type = "data" => list[i].chunk > had
         /\ \A k \in (had + 1)..top :
              \E i \in DOMAIN list : list[i].type = "data" /\ list[i].chunk = k

\* A task more at the end, that is not a chunk.
LEMMA LineAppends ==
    ASSUME NEW list, NEW nat, NEW top, NEW given, NEW had, NEW full, NEW e \in Events, NEW now,
           Line(list, nat, top, given, had, full), nat # "inactive", e.type # "data",
           e.type = "stop" => now = "inactive"
    PROVE  Line(Append(list, e), now, top, given, had, full)
<1> DEFINE longer == Append(list, e)
           l == Len(list)
<1>1. /\ longer \in Seq(Events) /\ l \in Nat /\ DOMAIN list = 1..l /\ DOMAIN longer = 1..(l + 1)
      /\ Len(longer) = l + 1 /\ longer[l + 1] = e /\ \A i \in 1..l : longer[i] = list[i]
    BY DEF Line
<1>2. \A i \in DOMAIN longer : i \in 1..l \/ i = l + 1
    BY <1>1
<1> HIDE DEF longer, l
<1>3. \A i \in DOMAIN longer : longer[i].type = "data" =>
        i \in DOMAIN list /\ longer[i] = list[i]
    BY <1>1, <1>2
<1>4. \A i \in DOMAIN longer : longer[i].type = "stop" => i = Len(longer) /\ now = "inactive"
    BY <1>1, <1>2 DEF Line
<1>5. \A i \in DOMAIN list : i \in DOMAIN longer /\ longer[i] = list[i]
    BY <1>1
<1>6. full => \A k \in (had + 1)..top :
                \E i \in DOMAIN longer : longer[i].type = "data" /\ longer[i].chunk = k
    <2> SUFFICES ASSUME full, NEW k \in (had + 1)..top
                 PROVE  \E i \in DOMAIN longer : longer[i].type = "data" /\ longer[i].chunk = k
        OBVIOUS
    <2>1. PICK i \in DOMAIN list : list[i].type = "data" /\ list[i].chunk = k
        BY DEF Line
    <2> QED BY <1>5, <2>1
<1>7. Line(longer, now, top, given, had, full)
    BY <1>1, <1>3, <1>4, <1>6 DEF Line
<1> QED BY <1>7 DEF longer

\* A chunk more at the end.
LEMMA LineGrows ==
    ASSUME NEW list, NEW nat, NEW top, NEW given, NEW had, NEW full,
           Line(list, nat, top, given, had, full), nat # "inactive", top < Len(Sizes)
    PROVE  /\ Data(top + 1) \in Events
           /\ Line(Append(list, Data(top + 1)), nat, top + 1, given, had, full)
<1> DEFINE longer == Append(list, Data(top + 1))
           l == Len(list)
<1>0. Len(Sizes) \in Nat /\ top \in Nat
    BY RecordingConstants DEF Line
<1>1. Data(top + 1) \in Events /\ Data(top + 1).type = "data" /\ Data(top + 1).chunk = top + 1
    BY <1>0 DEF Data, Events, EventTypes
<1>2. /\ longer \in Seq(Events) /\ l \in Nat /\ DOMAIN list = 1..l /\ DOMAIN longer = 1..(l + 1)
      /\ Len(longer) = l + 1 /\ longer[l + 1] = Data(top + 1)
      /\ \A i \in 1..l : longer[i] = list[i]
    BY <1>1 DEF Line
<1>3. \A i \in DOMAIN longer : i \in 1..l \/ i = l + 1
    BY <1>2
<1> HIDE DEF longer, l
<1>4. top + 1 \in 0..Len(Sizes) /\ \A k \in 1..top : k \in 1..(top + 1) /\ k < top + 1
    BY <1>0 DEF Line
<1>5. \A k \in given : k \in 1..(top + 1) /\ k < top + 1
    BY <1>4 DEF Line
<1>6. \A i \in DOMAIN longer : longer[i].type = "stop" => i = Len(longer) /\ nat = "inactive"
    BY <1>1, <1>2, <1>3 DEF Line
<1>7. \A i \in DOMAIN longer : longer[i].type = "data" =>
        /\ longer[i].chunk \in 1..(top + 1)
        /\ \A k \in given : k < longer[i].chunk
        /\ \A j \in DOMAIN longer :
              j > i /\ longer[j].type = "data" => longer[i].chunk < longer[j].chunk
    <2> SUFFICES ASSUME NEW i \in DOMAIN longer, longer[i].type = "data"
                 PROVE  /\ longer[i].chunk \in 1..(top + 1)
                        /\ \A k \in given : k < longer[i].chunk
                        /\ \A j \in DOMAIN longer :
                             j > i /\ longer[j].type = "data" => longer[i].chunk < longer[j].chunk
        OBVIOUS
    <2>1. CASE i = l + 1
        BY <1>0, <1>1, <1>2, <1>5, <2>1
    <2>2. CASE i \in 1..l
        <3>1. longer[i] = list[i] /\ i \in DOMAIN list
            BY <1>2, <2>2
        <3>2. longer[i].chunk \in 1..top /\ \A k \in given : k < longer[i].chunk
            BY <3>1 DEF Line
        <3>3. ASSUME NEW j \in DOMAIN longer, j > i, longer[j].type = "data"
              PROVE  longer[i].chunk < longer[j].chunk
            <4>1. CASE j = l + 1
                BY <1>1, <1>2, <1>4, <3>2, <4>1
            <4>2. CASE j \in 1..l
                <5>1. longer[j] = list[j] /\ j \in DOMAIN list
                    BY <1>2, <4>2
                <5> QED BY <3>1, <3>3, <5>1 DEF Line
            <4> QED BY <1>3, <4>1, <4>2
        <3> QED BY <1>4, <3>2, <3>3
    <2> QED BY <1>3, <2>1, <2>2
<1>8. ASSUME full
      PROVE  /\ had <= top + 1
             /\ \A i \in DOMAIN longer : longer[i].type = "data" => longer[i].chunk > had
             /\ \A k \in (had + 1)..(top + 1) :
                  \E i \in DOMAIN longer : longer[i].type = "data" /\ longer[i].chunk = k
    <2>1. had <= top /\ had \in Nat /\ had <= top + 1
        BY <1>0, <1>8 DEF Line
    <2>2. \A i \in DOMAIN longer : longer[i].type = "data" => longer[i].chunk > had
        <3>1. \A i \in 1..l : list[i].type = "data" => list[i].chunk > had
            BY <1>2, <1>8 DEF Line
        <3> QED BY <1>0, <1>1, <1>2, <1>3, <2>1, <3>1
    <2>3. ASSUME NEW k \in (had + 1)..(top + 1)
          PROVE  \E i \in DOMAIN longer : longer[i].type = "data" /\ longer[i].chunk = k
        <3>1. CASE k = top + 1
            <4>1. l + 1 \in DOMAIN longer
                BY <1>2
            <4> QED BY <1>1, <1>2, <3>1, <4>1
        <3>2. CASE k # top + 1
            <4>1. k \in (had + 1)..top
                BY <1>0, <2>1, <3>2
            <4>2. PICK i \in DOMAIN list : list[i].type = "data" /\ list[i].chunk = k
                BY <1>8, <4>1 DEF Line
            <4>3. i \in DOMAIN longer /\ longer[i] = list[i]
                BY <1>2
            <4> QED BY <4>2, <4>3
        <3> QED BY <3>1, <3>2
    <2> QED BY <2>1, <2>2, <2>3
<1>9. had \in Nat
    BY DEF Line
<1>10. Line(longer, nat, top + 1, given, had, full)
    BY <1>2, <1>4, <1>5, <1>6, <1>7, <1>8, <1>9 DEF Line
<1> QED BY <1>1, <1>10 DEF longer

\* The first task has run.  If it was a chunk, the chunk comes after those given, may now
\* be given too, and is the next to be buffered unless something was left out.
LEMMA LineRuns ==
    ASSUME NEW list, NEW nat, NEW top, NEW given, NEW had, NEW full,
           Line(list, nat, top, given, had, full), list # <<>>
    PROVE  /\ Head(list).type # "data" => Line(Tail(list), nat, top, given, had, full)
           /\ Head(list).type = "stop" => Tail(list) = <<>> /\ nat = "inactive"
           /\ Head(list).type = "data" =>
                LET k == Head(list).chunk
                IN  /\ k \in 1..top /\ \A g \in given : g < k
                    /\ full => k = had + 1
                    /\ \A more \in {given, given \cup {k}} :
                         /\ Line(Tail(list), nat, top, more, had, FALSE)
                         /\ Line(Tail(list), nat, top, more, had + 1, full)
<1> DEFINE rest == Tail(list)
           l == Len(list)
           k == Head(list).chunk
<1>0. list \in Seq(Events)
    BY DEF Line
<1>1. /\ rest \in Seq(Events) /\ l \in Nat \ {0} /\ DOMAIN list = 1..l
      /\ DOMAIN rest = 1..(l - 1) /\ Len(rest) = l - 1 /\ Head(list) = list[1]
      /\ 1 \in DOMAIN list
      /\ \A i \in 1..(l - 1) : rest[i] = list[i + 1]
    BY <1>0
<1> HIDE DEF rest, l
<1>2. \A i \in DOMAIN rest : i + 1 \in DOMAIN list /\ i + 1 > 1 /\ rest[i] = list[i + 1]
    BY <1>1
<1>3. top \in Nat /\ top \in 0..Len(Sizes) /\ had \in Nat
    BY RecordingConstants DEF Line
<1>4. \A i \in DOMAIN rest : rest[i].type = "stop" => i = Len(rest) /\ nat = "inactive"
    BY <1>1, <1>2 DEF Line
<1>5. ASSUME NEW i \in DOMAIN rest, NEW j \in DOMAIN rest, j > i, rest[i].type = "data",
             rest[j].type = "data"
      PROVE  rest[i].chunk < rest[j].chunk
    <2>1. j + 1 > i + 1
        BY <1>1, <1>5
    <2> QED BY <1>2, <1>5, <2>1 DEF Line
<1>6. \A i \in DOMAIN rest : rest[i].type = "data" =>
        rest[i].chunk \in 1..top /\ \A g \in given : g < rest[i].chunk
    BY <1>2 DEF Line
<1>7. ASSUME full
      PROVE  /\ had <= top
             /\ \A i \in DOMAIN rest : rest[i].type = "data" => rest[i].chunk > had
             /\ \A n \in (had + 1)..top :
                  \/ \E i \in DOMAIN rest : rest[i].type = "data" /\ rest[i].chunk = n
                  \/ Head(list).type = "data" /\ k = n
    <2>1. ASSUME NEW n \in (had + 1)..top
          PROVE  \/ \E i \in DOMAIN rest : rest[i].type = "data" /\ rest[i].chunk = n
                 \/ Head(list).type = "data" /\ k = n
        <3>1. PICK i \in DOMAIN list : list[i].type = "data" /\ list[i].chunk = n
            BY <1>7, <2>1 DEF Line
        <3>2. CASE i = 1
            BY <1>1, <3>1, <3>2
        <3>3. CASE i # 1
            <4>1. i - 1 \in DOMAIN rest /\ rest[i - 1] = list[i]
                BY <1>1, <3>1, <3>3
            <4> QED BY <3>1, <4>1
        <3> QED BY <3>2, <3>3
    <2> QED BY <1>2, <1>7, <2>1 DEF Line
<1>8. Head(list).type # "data" => Line(rest, nat, top, given, had, full)
    <2>1. \A g \in given : g \in 1..top
        BY DEF Line
    <2> QED BY <1>1, <1>3, <1>4, <1>5, <1>6, <1>7, <2>1 DEF Line
<1>9. Head(list).type = "stop" => rest = <<>> /\ nat = "inactive"
    <2>1. l = 1 => rest = <<>>
        BY <1>1
    <2> QED BY <1>1, <2>1 DEF Line, l
<1>10. ASSUME Head(list).type = "data"
       PROVE  /\ k \in 1..top /\ \A g \in given : g < k
              /\ full => k = had + 1
              /\ \A more \in {given, given \cup {k}} :
                   /\ Line(rest, nat, top, more, had, FALSE)
                   /\ Line(rest, nat, top, more, had + 1, full)
    <2>1. k \in 1..top /\ \A g \in given : g < k
        BY <1>1, <1>10 DEF Line
    <2>2. \A i \in DOMAIN rest : rest[i].type = "data" => k < rest[i].chunk
        BY <1>1, <1>2, <1>10 DEF Line
    <2>3. full => k = had + 1
        <3> SUFFICES ASSUME full PROVE k = had + 1
            OBVIOUS
        <3>1. k > had
            BY <1>1, <1>10 DEF Line
        <3>2. had + 1 \in (had + 1)..top
            BY <1>3, <2>1, <3>1
        <3>3. \/ \E i \in DOMAIN rest : rest[i].type = "data" /\ rest[i].chunk = had + 1
              \/ k = had + 1
            BY <1>7, <3>2
        <3> QED BY <1>3, <2>1, <2>2, <3>1, <3>3
    <2>4. ASSUME full
          PROVE  /\ had + 1 <= top
                 /\ \A i \in DOMAIN rest : rest[i].type = "data" => rest[i].chunk > had + 1
                 /\ \A n \in ((had + 1) + 1)..top :
                      \E i \in DOMAIN rest : rest[i].type = "data" /\ rest[i].chunk = n
        <3>1. had + 1 <= top
            BY <1>3, <2>1, <2>3, <2>4
        <3>2. \A i \in DOMAIN rest : rest[i].type = "data" => rest[i].chunk > had + 1
            BY <1>3, <1>6, <2>1, <2>2, <2>3, <2>4
        <3>3. \A n \in ((had + 1) + 1)..top : n \in (had + 1)..top /\ n # had + 1
            BY <1>3
        <3> QED BY <1>7, <2>3, <2>4, <3>1, <3>2, <3>3
    <2>5. ASSUME NEW more \in {given, given \cup {k}}
          PROVE  Line(rest, nat, top, more, had, FALSE) /\ Line(rest, nat, top, more, had + 1, full)
        <3>1. \A g \in more : g \in 1..top
            BY <2>1 DEF Line
        <3>2. \A i \in DOMAIN rest : rest[i].type = "data" => \A g \in more : g < rest[i].chunk
            BY <1>6, <2>2
        <3>3. had + 1 \in Nat
            BY <1>3
        <3>4. Line(rest, nat, top, more, had, FALSE)
            BY <1>1, <1>3, <1>4, <1>5, <1>6, <3>1, <3>2 DEF Line
        <3>5. Line(rest, nat, top, more, had + 1, full)
            BY <1>1, <1>3, <1>4, <1>5, <1>6, <2>4, <3>1, <3>2, <3>3 DEF Line
        <3> QED BY <3>4, <3>5
    <2> QED BY <2>1, <2>3, <2>5
<1> QED BY <1>8, <1>9, <1>10 DEF rest

\* The recording ends: a stop is the last task, after a last chunk perhaps.
LEMMA LineEnds ==
    ASSUME NEW pending, NEW given, NEW had, NEW full, Ends(pending), native # "inactive",
           Line(pending, native, produced, given, had, full)
    PROVE  Line(events', native', produced', given, had, full) /\ native' = "inactive"
<1>1. Task("stop") \in Events /\ Task("stop").type = "stop" /\ native' = "inactive"
    BY DEF Task, Events, EventTypes, None, Ends
<1>2. CASE events' = Append(pending, Task("stop")) /\ produced' = produced
    BY <1>1, <1>2, LineAppends
<1>3. CASE /\ produced < Len(Sizes) /\ produced' = produced + 1
           /\ events' = pending \o <<Data(produced'), Task("stop")>>
    <2>1. /\ Data(produced + 1) \in Events
          /\ Line(Append(pending, Data(produced + 1)), native, produced + 1, given, had, full)
        BY <1>3, LineGrows
    <2>2. events' = Append(Append(pending, Data(produced + 1)), Task("stop"))
        BY <1>1, <1>3, <2>1 DEF Line
    <2> QED BY <1>1, <1>3, <2>1, <2>2, LineAppends
<1> QED BY <1>1, <1>2, <1>3 DEF Ends

\* The MediaRecorder is told to pause or resume.
LEMMA LineObeys ==
    ASSUME NEW command, NEW given, NEW had, NEW full, Obeys(command, events),
           produced' = produced, Line(events, native, produced, given, had, full)
    PROVE  Line(events', native', produced', given, had, full)
<1>1. ASSUME NEW type \in {"pause", "resume"}
      PROVE  Task(type) \in Events /\ Task(type).type = type
    BY DEF Task, Events, EventTypes, None
<1>2. CASE native = "recording" /\ native' = "paused" /\ events' = Append(events, Task("pause"))
    BY <1>1, <1>2, LineAppends
<1>3. CASE native = "paused" /\ native' = "recording" /\ events' = Append(events, Task("resume"))
    BY <1>1, <1>3, LineAppends
<1>4. CASE native' = native /\ events' = events
    BY <1>4
<1> QED BY <1>2, <1>3, <1>4 DEF Obeys

\* Once stopped, the Recorder has heard everything.
Silent(here, nat, list) == here = "stopped" => nat = "inactive" /\ list = <<>>

BlobInv ==
    /\ Line(events, native, produced, handed, Len(chunks), ~overflowed)
    /\ chunks \in Seq(Nat)
    /\ ~overflowed => \A k \in 1..Len(chunks) : chunks[k] = k
    /\ Silent(recorder, native, events)

\* A chunk is buffered, or overflows the buffer and ends the recording.
LEMMA BlobData ==
    ASSUME BlobInv, DataAvailable
    PROVE  BlobInv'
<1> DEFINE rest == Tail(events)
           k == Head(events).chunk
<1>1. /\ events # <<>> /\ Head(events).type = "data"
      /\ Line(events, native, produced, handed, Len(chunks), ~overflowed)
    BY DEF DataAvailable, NextTask, BlobInv
<1>2. /\ k \in 1..produced /\ produced \in Nat
      /\ ~overflowed => k = Len(chunks) + 1
      /\ \A more \in {handed, handed \cup {k}} :
           /\ Line(rest, native, produced, more, Len(chunks), FALSE)
           /\ Line(rest, native, produced, more, Len(chunks) + 1, ~overflowed)
    <2>1. produced \in Nat
        BY <1>1, RecordingConstants DEF Line
    <2> QED BY <1>1, <2>1, LineRuns
<1>3. recorder # "stopped" /\ chunks \in Seq(Nat)
    BY <1>1 DEF BlobInv, Silent
<1>4. handed' \in {handed, handed \cup {k}}
    BY DEF DataAvailable, Send, upVars
<1> HIDE DEF rest, k
<1>5. CASE recorder' = "error" /\ overflowed' /\ StopNative(rest) /\ UNCHANGED <<chunks, upVars>>
    <2>1. handed' = handed /\ chunks' = chunks
        BY <1>5 DEF upVars
    <2>2. Line(rest, native, produced, handed, Len(chunks), FALSE)
        BY <1>2
    <2>3. Line(events', native', produced', handed, Len(chunks), FALSE)
        <3>1. CASE Active
            BY <1>5, <2>2, <3>1, LineEnds DEF StopNative, Active
        <3>2. CASE ~Active
            BY <1>5, <2>2, <3>2 DEF StopNative
        <3> QED BY <3>1, <3>2
    <2>4. (~overflowed') = FALSE
        BY <1>5
    <2>5. Line(events', native', produced', handed', Len(chunks'), ~overflowed')
        BY <2>1, <2>3, <2>4
    <2> QED BY <1>3, <1>5, <2>1, <2>5 DEF BlobInv, Silent
<1>6. CASE /\ chunks' = Append(chunks, k) /\ events' = rest
           /\ UNCHANGED <<recorder, overflowed, native, produced>>
    <2>1. /\ chunks' \in Seq(Nat) /\ Len(chunks') = Len(chunks) + 1 /\ Len(chunks) \in Nat
          /\ chunks'[Len(chunks) + 1] = k
          /\ \A n \in 1..Len(chunks) : chunks'[n] = chunks[n]
        BY <1>2, <1>3, <1>6
    <2>2. Line(events', native', produced', handed', Len(chunks'), ~overflowed')
        BY <1>2, <1>4, <1>6, <2>1
    <2>3. ~overflowed' => \A n \in 1..Len(chunks') : chunks'[n] = n
        <3> SUFFICES ASSUME ~overflowed', NEW n \in 1..Len(chunks') PROVE chunks'[n] = n
            OBVIOUS
        <3>1. ~overflowed /\ k = Len(chunks) + 1
            BY <1>2, <1>6
        <3>2. CASE n = Len(chunks) + 1
            BY <2>1, <3>1, <3>2
        <3>3. CASE n \in 1..Len(chunks)
            BY <2>1, <3>1, <3>3 DEF BlobInv
        <3> QED BY <2>1, <3>2, <3>3
    <2> QED BY <1>3, <1>6, <2>1, <2>2, <2>3 DEF BlobInv, Silent
<1> QED BY <1>5, <1>6 DEF DataAvailable, Buffer, rest, k

\* Every step keeps the buffer and what is on its way to it together.
LEMMA BlobStep == RecorderInv /\ BlobInv /\ [Next]_vars => BlobInv'
<1> SUFFICES ASSUME RecorderInv, BlobInv, [Next]_vars PROVE BlobInv'
    OBVIOUS
<1>1. Line(events, native, produced, handed, Len(chunks), ~overflowed)
    BY DEF BlobInv
<1>2. ASSUME UNCHANGED <<handed, chunks, overflowed, recorder>>,
             Line(events', native', produced', handed, Len(chunks), ~overflowed),
             native = "inactive" => native' = native /\ events' = events
      PROVE  BlobInv'
    <2>1. Line(events', native', produced', handed', Len(chunks'), ~overflowed')
        BY <1>2
    <2> QED BY <1>2, <2>1 DEF BlobInv, Silent
<1>3. ASSUME UNCHANGED <<events, native, produced, handed, chunks, overflowed, recorder>>
      PROVE  BlobInv'
    BY <1>1, <1>2, <1>3
<1>4. CASE CutsChunk
    <2>1. Line(events', native', produced', handed, Len(chunks), ~overflowed)
        BY <1>1, <1>4, LineGrows DEF CutsChunk
    <2> QED BY <1>2, <1>4, <2>1 DEF CutsChunk, recVars, upVars
<1>5. CASE EndsByItself
    <2>1. native # "inactive" /\ UNCHANGED <<handed, chunks, overflowed, recorder>>
        BY <1>5 DEF EndsByItself, Active, recVars, upVars
    <2>2. Line(events', native', produced', handed, Len(chunks), ~overflowed)
        <3>1. CASE Ends(events)
            BY <1>1, <2>1, <3>1, LineEnds
        <3>2. CASE Ends(Append(events, Task("error")))
            <4>1. Task("error") \in Events /\ Task("error").type = "error"
                BY DEF Task, Events, EventTypes, None
            <4>2. Line(Append(events, Task("error")), native, produced, handed, Len(chunks),
                       ~overflowed)
                BY <1>1, <2>1, <4>1, LineAppends
            <4> QED BY <2>1, <3>2, <4>2, LineEnds
        <3> QED BY <1>5, <3>1, <3>2 DEF EndsByItself
    <2> QED BY <1>2, <2>1, <2>2
<1>6. CASE Start
    <2>1. native = "none" /\ UNCHANGED <<events, produced, handed, chunks, overflowed>>
        BY <1>6 DEF Start, RecorderInv, upVars
    <2>2. events = <<>> /\ native' \in {"none", "recording"} /\ recorder' \in {"recording", "error"}
        BY <1>6, <2>1 DEF Start, RecorderInv
    <2>3. Line(events', native', produced', handed', Len(chunks'), ~overflowed')
        BY <1>1, <2>1, <2>2 DEF Line
    <2> QED BY <2>1, <2>2, <2>3 DEF BlobInv, Silent
<1>7. CASE Stop
    <2>1. UNCHANGED <<handed, chunks, overflowed, recorder>> /\ StopNative(events)
        BY <1>7 DEF Stop, upVars
    <2>2. CASE Active
        <3>1. Ends(events) /\ native # "inactive"
            BY <2>1, <2>2 DEF StopNative, Active
        <3> QED BY <1>1, <1>2, <2>1, <3>1, LineEnds
    <2>3. CASE ~Active
        BY <1>3, <2>1, <2>3 DEF StopNative
    <2> QED BY <2>2, <2>3
<1>8. ASSUME NEW command, Obeys(command, events), produced' = produced,
             UNCHANGED <<handed, chunks, overflowed, recorder>>
      PROVE  BlobInv'
    <2>1. Line(events', native', produced', handed, Len(chunks), ~overflowed)
        BY <1>1, <1>8, LineObeys
    <2>2. native = "inactive" => native' = native /\ events' = events
        BY <1>8 DEF Obeys
    <2> QED BY <1>2, <1>8, <2>1, <2>2
<1>9. CASE Pause \/ Resume
    BY <1>8, <1>9 DEF Pause, Resume, upVars
<1>10. CASE PipeOrUnpipe \/ Close
    BY <1>3, <1>10 DEF PipeOrUnpipe, Close, recVars, natVars, upVars
<1>11. CASE FetchSucceeds
    BY <1>3, <1>8, <1>11 DEF FetchSucceeds, recVars
<1>12. CASE FetchFails \/ Retry
    BY <1>8, <1>12 DEF FetchFails, Retry, recVars
<1>13. CASE DataAvailable
    BY <1>13, BlobData
<1>14. ASSUME NEW type \in {"pause", "resume", "stop", "error"}, StateEvent(type)
       PROVE  BlobInv'
    <2>1. /\ events # <<>> /\ Head(events).type = type /\ events' = Tail(events)
          /\ recorder' = StateAfter(type)
          /\ UNCHANGED <<native, produced, handed, chunks, overflowed>>
        BY <1>14 DEF StateEvent, NextTask, upVars
    <2>2. /\ Line(Tail(events), native, produced, handed, Len(chunks), ~overflowed)
          /\ type = "stop" => Tail(events) = <<>> /\ native = "inactive"
        BY <1>1, <2>1, LineRuns
    <2>3. Line(events', native', produced', handed', Len(chunks'), ~overflowed')
        BY <2>1, <2>2
    <2>4. recorder' = "stopped" => type = "stop"
        BY <2>1 DEF StateAfter
    <2> QED BY <2>1, <2>2, <2>3, <2>4 DEF BlobInv, Silent
<1>15. CASE UNCHANGED vars
    BY <1>3, <1>15 DEF vars, recVars, natVars, upVars
<1> QED BY <1>4, <1>5, <1>6, <1>7, <1>9, <1>10, <1>11, <1>12, <1>13, <1>14, <1>15 DEF Next

\* Nothing is cut before the start.
LEMMA BlobInit == Init => BlobInv
<1> SUFFICES ASSUME Init PROVE BlobInv
    OBVIOUS
<1>1. /\ events = <<>> /\ chunks = <<>> /\ produced = 0 /\ handed = {} /\ native = "none"
      /\ recorder = "idle" /\ overflowed = FALSE
    BY DEF Init
<1>2. Len(chunks) = 0 /\ chunks \in Seq(Nat) /\ events \in Seq(Events) /\ 0 \in 0..Len(Sizes)
    BY <1>1, RecordingConstants
<1>3. Line(events, native, produced, handed, Len(chunks), ~overflowed)
    BY <1>1, <1>2 DEF Line
<1> QED BY <1>1, <1>2, <1>3 DEF BlobInv, Silent

\* The blob of a recording that has stopped holds every chunk that was cut, in order, however
\* it ended, unless maxBufferedBytes was hit (attachListeners, assembleBlob).
THEOREM Blob_Complete == Spec => []BlobIsComplete
<1>1. Init => RecorderInv /\ BlobInv
    BY RecorderInit, BlobInit
<1>2. RecorderInv /\ BlobInv /\ [Next]_vars => RecorderInv' /\ BlobInv'
    BY RecorderStep, BlobStep
<1>3. BlobInv => BlobIsComplete
    <2> SUFFICES ASSUME BlobInv, recorder = "stopped", ~overflowed
                 PROVE  chunks = [k \in 1..produced |-> k]
        BY DEF BlobIsComplete
    <2>1. events = <<>>
        BY DEF BlobInv, Silent
    <2>2. /\ Len(chunks) <= produced /\ produced \in Nat /\ Len(chunks) \in Nat
          /\ \A k \in (Len(chunks) + 1)..produced : \E i \in DOMAIN events : events[i].chunk = k
        BY RecordingConstants DEF BlobInv, Line
    <2>3. Len(chunks) = produced
        <3>1. \A k \in (Len(chunks) + 1)..produced : FALSE
            BY <2>1, <2>2
        <3>2. produced \in (Len(chunks) + 1)..produced \/ Len(chunks) = produced
            BY <2>2
        <3> QED BY <3>1, <3>2
    <2>4. chunks \in Seq(Nat) /\ \A k \in 1..Len(chunks) : chunks[k] = k
        BY DEF BlobInv
    <2>5. chunks = [k \in DOMAIN chunks |-> chunks[k]] /\ DOMAIN chunks = 1..Len(chunks)
        BY <2>4
    <2> QED BY <2>3, <2>4, <2>5
<1> QED BY <1>1, <1>2, <1>3, PTL DEF Spec

-----------------------------------------------------------------------------
\* The uploader.

UploaderInv ==
    /\ queue \in Seq(Nat \ {0})
    /\ up \in {"idle", "uploading", "failed", "closed"}
    /\ ~eager =>
         /\ up = "idle" => queue = <<>> /\ flying = None
         /\ up = "uploading" => flying # None /\ queue # <<>> /\ flying = Head(queue)
         /\ up = "failed" => flying = None

\* pump() sends the head of what is queued, or there is none.
LEMMA PumpFacts ==
    ASSUME NEW list \in Seq(Nat \ {0}), Pump(list), queue' = list
    PROVE  UploaderInv'
<1>1. CASE list = <<>>
    BY <1>1 DEF Pump, UploaderInv
<1>2. CASE list # <<>>
    <2>1. Head(list) # None
        BY <1>2 DEF None
    <2> QED BY <1>2, <2>1 DEF Pump, UploaderInv
<1> QED BY <1>1, <1>2

\* Every step keeps the uploader as it says.
LEMMA UploaderStep == RecorderInv /\ UploaderInv /\ [Next]_vars => UploaderInv'
<1> SUFFICES ASSUME RecorderInv, UploaderInv, [Next]_vars PROVE UploaderInv'
    OBVIOUS
<1>1. ASSUME UNCHANGED <<up, queue, flying, eager>> PROVE UploaderInv'
    BY <1>1 DEF UploaderInv
<1>2. CASE CutsChunk \/ EndsByItself \/ Start \/ Stop \/ Pause \/ Resume \/ PipeOrUnpipe
    BY <1>1, <1>2
    DEF CutsChunk, EndsByItself, Start, Stop, Pause, Resume, PipeOrUnpipe, upVars
<1>3. Shifted \in Seq(Nat \ {0})
    BY DEF UploaderInv, Shifted
<1>4. CASE FetchSucceeds
    <2>1. flying # None /\ queue' = Shifted /\ eager' = eager
        BY <1>4 DEF FetchSucceeds
    <2>2. CASE up = "closed"
        <3>1. flying' = None /\ up' = up
            BY <1>4, <2>2 DEF FetchSucceeds
        <3> QED BY <1>3, <2>1, <2>2, <3>1 DEF UploaderInv
    <2>3. CASE up # "closed"
        BY <1>3, <1>4, <2>1, <2>3, PumpFacts DEF FetchSucceeds, PumpOn
    <2> QED BY <2>2, <2>3
<1>5. CASE FetchFails
    BY <1>5 DEF FetchFails, QueueAfterFailure, UploaderInv
<1>6. CASE Retry
    BY <1>6, PumpFacts DEF Retry, RetryPumps, UploaderInv
<1>7. CASE Close
    BY <1>7 DEF Close, UploaderInv
<1>8. ASSUME NEW k \in Nat \ {0}, Send(k), eager' = eager PROVE UploaderInv'
    <2>1. Append(queue, k) \in Seq(Nat \ {0}) /\ Append(queue, k) # <<>>
        BY DEF UploaderInv
    <2>2. queue # <<>> => Head(Append(queue, k)) = Head(queue)
        BY DEF UploaderInv
    <2>3. CASE UNCHANGED <<up, queue, queuedBytes, flying>>
        BY <1>1, <1>8, <2>3
    <2>4. CASE queue' = Append(queue, k) /\ Pump(queue')
        BY <2>1, <2>4, PumpFacts
    <2>5. CASE /\ queue' = Append(queue, k) /\ UNCHANGED <<up, flying>>
               /\ ~(flying = None /\ up # "failed")
        BY <1>8, <2>1, <2>2, <2>5 DEF UploaderInv
    <2> QED BY <1>8, <2>3, <2>4, <2>5 DEF Send
<1>9. CASE DataAvailable
    <2>1. Head(events).chunk \in Nat \ {0}
        <3>1. events # <<>> /\ Head(events).type = "data" /\ events \in Seq(Events)
            BY <1>9 DEF DataAvailable, NextTask, RecorderInv
        <3>2. Head(events) = events[1] /\ 1 \in DOMAIN events /\ events[1] \in Events
            BY <3>1
        <3> QED BY <3>1, <3>2 DEF RecorderInv, Events, None
    <2>2. UNCHANGED upVars \/ Send(Head(events).chunk)
        BY <1>9 DEF DataAvailable
    <2>3. eager' = eager
        BY <1>9 DEF DataAvailable
    <2> QED BY <1>1, <1>8, <2>1, <2>2, <2>3 DEF upVars
<1>10. ASSUME NEW type \in {"pause", "resume", "stop", "error"}, StateEvent(type)
       PROVE  UploaderInv'
    BY <1>1, <1>10 DEF StateEvent, upVars
<1>11. CASE UNCHANGED vars
    BY <1>1, <1>11 DEF vars, upVars
<1> QED BY <1>2, <1>4, <1>5, <1>6, <1>7, <1>9, <1>10, <1>11 DEF Next

\* For any chunks and limits: once the browser's tasks have run, the Recorder's state is
\* the MediaRecorder's, however it was paused, resumed, stopped or ended; an uploader that
\* says it is idle has nothing left to send, and one that says it is uploading is sending
\* the head of its queue, if no retry() is made inside its own listeners.
THEOREM State_Is_Honest == Spec => []StateIsHonest
<1>1. Init => RecorderInv /\ UploaderInv
    BY RecorderInit DEF Init, UploaderInv
<1>2. RecorderInv /\ UploaderInv /\ [Next]_vars => RecorderInv' /\ UploaderInv'
    BY RecorderStep, UploaderStep
<1>3. RecorderInv /\ UploaderInv => StateIsHonest
    <2> SUFFICES ASSUME RecorderInv, UploaderInv, events = <<>>
                 PROVE  /\ native \in {"recording", "paused"} => recorder = native
                        /\ native = "inactive" => recorder = "stopped"
        BY DEF UploaderInv, StateIsHonest
    <2>1. ~LastIs(events, CatchingUp(native))
        BY DEF LastIs
    <2>2. native # "none" => recorder = StateAfter(CatchingUp(native))
        BY <2>1 DEF RecorderInv, Follows
    <2> QED BY <2>2 DEF CatchingUp, StateAfter
<1> QED BY <1>1, <1>2, <1>3, PTL DEF Spec
-------------------------------------------------------------------------

--------------------------------------------------------------------------
\* What a list of chunks weighs.

\* A set of numbers that holds 0, and the next of each, holds every number.
LEMMA Induction ==
    ASSUME NEW S, 0 \in S, \A n \in Nat : n \in S => n + 1 \in S
    PROVE  Nat \subseteq S
<1> DEFINE T == Nat \ S
           R == OpToRel(<, Nat)
<1>1. IsWellFoundedOn(R, Nat)
    BY NatLessThanWellFounded
<1>2. \A x, y \in Nat : y < x => <<y, x>> \in R
    BY DEF OpToRel
<1>3. T \subseteq Nat
    OBVIOUS
<1> HIDE DEF R
<1> SUFFICES ASSUME T # {} PROVE FALSE
    OBVIOUS
<1> HIDE DEF T
<1>4. PICK x \in T : \A y \in T : ~ (<<y, x>> \in R)
    BY <1>1, <1>3, WFMin
<1>5. x \in Nat /\ x # 0 /\ x \notin S
    BY <1>4 DEF T
<1>6. x - 1 \in Nat /\ x - 1 < x /\ (x - 1) + 1 = x
    BY <1>5
<1>7. x - 1 \in T
    BY <1>5, <1>6 DEF T
<1> QED BY <1>2, <1>4, <1>5, <1>6, <1>7

\* sum holds what the first chunks of `list` weigh.
Sums(sum, list) ==
    /\ sum \in [0..Len(list) -> Int]
    /\ sum[0] = 0
    /\ \A n \in 1..Len(list) : sum[n] = sum[n - 1] + Sizes[list[n]]

\* There are such sums,
LEMMA SumsExist ==
    ASSUME NEW list \in Seq(Chunks)
    PROVE  \E sum : Sums(sum, list)
<1> DEFINE Upto(n, sum) == /\ sum \in [0..n -> Int] /\ sum[0] = 0
                           /\ \A m \in 1..n : sum[m] = sum[m - 1] + Sizes[list[m]]
           S == {n \in Nat : n <= Len(list) => \E sum : Upto(n, sum)}
<1>1. Len(list) \in Nat /\ \A n \in 1..Len(list) : Sizes[list[n]] \in Int
    BY RecordingConstants DEF Chunks
<1>2. 0 \in S
    <2>1. Upto(0, [m \in 0..0 |-> 0])
        OBVIOUS
    <2> QED BY <2>1
<1>3. ASSUME NEW n \in Nat, n \in S PROVE n + 1 \in S
    <2> SUFFICES ASSUME n + 1 <= Len(list) PROVE \E sum : Upto(n + 1, sum)
        <3>1. n + 1 \in Nat
            OBVIOUS
        <3> QED BY <3>1
    <2>0. n <= Len(list)
        BY <1>1
    <2>1. PICK sum : Upto(n, sum)
        BY <1>3, <2>0
    <2> DEFINE more == [m \in 0..(n + 1) |->
                          IF m <= n THEN sum[m] ELSE sum[n] + Sizes[list[n + 1]]]
    <2>2. more \in [0..(n + 1) -> Int]
        <3>1. n \in 0..n /\ sum[n] \in Int /\ n + 1 \in 1..Len(list)
            BY <1>1, <2>1
        <3>2. sum[n] + Sizes[list[n + 1]] \in Int
            BY <1>1, <3>1
        <3>3. \A m \in 0..(n + 1) : m <= n => sum[m] \in Int
            BY <2>1
        <3> QED BY <3>2, <3>3
    <2>3. more[0] = 0 /\ more[n + 1] = sum[n] + Sizes[list[n + 1]] /\ more[n] = sum[n]
        <3>1. 0 \in 0..(n + 1) /\ n + 1 \in 0..(n + 1) /\ n \in 0..(n + 1) /\ 0 <= n /\ ~(n + 1 <= n)
            OBVIOUS
        <3>2. sum[0] = 0
            BY <2>1
        <3> QED BY <3>1, <3>2
    <2>4. \A m \in 1..n : more[m] = sum[m] /\ more[m - 1] = sum[m - 1]
        OBVIOUS
    <2> HIDE DEF more
    <2>5. \A m \in 1..(n + 1) : more[m] = more[m - 1] + Sizes[list[m]]
        <3> TAKE m \in 1..(n + 1)
        <3>1. CASE m \in 1..n
            <4>1. sum[m] = sum[m - 1] + Sizes[list[m]]
                BY <2>1, <3>1
            <4> QED BY <2>4, <3>1, <4>1
        <3>2. CASE m = n + 1
            <4>1. m - 1 = n
                BY <3>2
            <4> QED BY <2>3, <3>2, <4>1
        <3>3. m \in 1..n \/ m = n + 1
            OBVIOUS
        <3> QED BY <3>1, <3>2, <3>3
    <2> QED BY <2>2, <2>3, <2>5
<1> HIDE DEF S
<1>4. Len(list) \in S
    BY <1>1, <1>2, <1>3, Induction
<1> QED BY <1>4 DEF S, Sums

\* and Bytes is the last of any.
LEMMA BytesAreSums ==
    ASSUME NEW list \in Seq(Chunks), NEW sum, Sums(sum, list)
    PROVE  Bytes(list) = sum[Len(list)] /\ sum[Len(list)] \in Int
<1> DEFINE Total(f) == [n \in 0..Len(list) |->
                          IF n = 0 THEN 0 ELSE f[n - 1] + Sizes[list[n]]]
           total == CHOOSE f : f = Total(f)
           S == {n \in Nat : n <= Len(list) => total[n] = sum[n]}
<1>1. Len(list) \in Nat
    OBVIOUS
<1>2. sum = Total(sum)
    <2>1. \A n \in 0..Len(list) : sum[n] = Total(sum)[n]
        BY <1>1 DEF Sums
    <2> QED BY <2>1 DEF Sums
<1>3. total = Total(total)
    BY <1>2
<1>4. Bytes(list) = total[Len(list)]
    BY DEF Bytes
<1> HIDE DEF total
<1>5. 0 \in S
    BY <1>1, <1>3 DEF Sums
<1>6. ASSUME NEW n \in Nat, n \in S PROVE n + 1 \in S
    <2> SUFFICES ASSUME n + 1 <= Len(list) PROVE total[n + 1] = sum[n + 1]
        OBVIOUS
    <2>1. total[n] = sum[n]
        BY <1>1, <1>6
    <2>2. total[n + 1] = total[n] + Sizes[list[n + 1]]
        BY <1>1, <1>3
    <2>3. sum[n + 1] = sum[n] + Sizes[list[n + 1]]
        BY <1>1 DEF Sums
    <2> QED BY <2>1, <2>2, <2>3
<1> HIDE DEF S
<1>7. Len(list) \in S
    BY <1>1, <1>5, <1>6, Induction
<1>8. total[Len(list)] = sum[Len(list)]
    BY <1>1, <1>7 DEF S
<1> QED BY <1>1, <1>4, <1>8 DEF Sums

\* Nothing weighs nothing; a chunk more at the end adds its size; the first takes its size away.
LEMMA BytesFacts ==
    /\ Bytes(<<>>) = 0
    /\ \A list \in Seq(Chunks), k \in Chunks :
         /\ Bytes(list) \in Int
         /\ Bytes(Append(list, k)) = Bytes(list) + Sizes[k]
         /\ list # <<>> => Bytes(Tail(list)) = Bytes(list) - Sizes[Head(list)]
<1>1. Bytes(<<>>) = 0
    <2>1. <<>> \in Seq(Chunks) /\ Sums([n \in 0..0 |-> 0], <<>>)
        BY DEF Sums
    <2>2. Bytes(<<>>) = [n \in 0..0 |-> 0][Len(<<>>)]
        BY <2>1, BytesAreSums
    <2> QED BY <2>2
<1>2. ASSUME NEW list \in Seq(Chunks), NEW k \in Chunks
      PROVE  Bytes(list) \in Int /\ Bytes(Append(list, k)) = Bytes(list) + Sizes[k]
    <2> DEFINE longer == Append(list, k)
               l == Len(list)
    <2>1. PICK sum : Sums(sum, list)
        BY SumsExist
    <2>2. Bytes(list) = sum[l] /\ sum[l] \in Int
        BY <2>1, BytesAreSums
    <2>3. /\ longer \in Seq(Chunks) /\ Len(longer) = l + 1 /\ longer[l + 1] = k /\ l \in Nat
          /\ \A n \in 1..l : longer[n] = list[n]
        OBVIOUS
    <2>4. Sizes[k] \in Int
        BY RecordingConstants DEF Chunks
    <2> DEFINE more == [n \in 0..(l + 1) |-> IF n <= l THEN sum[n] ELSE sum[l] + Sizes[k]]
    <2>5. more \in [0..(l + 1) -> Int]
        <3>1. \A n \in 0..(l + 1) : n <= l => sum[n] \in Int
            BY <2>1, <2>3 DEF Sums
        <3> QED BY <2>2, <2>4, <3>1
    <2>6. more[0] = 0 /\ more[l + 1] = sum[l] + Sizes[k] /\ more[l] = sum[l]
        BY <2>1, <2>3 DEF Sums
    <2>7. \A n \in 1..l : more[n] = sum[n] /\ more[n - 1] = sum[n - 1]
        BY <2>3
    <2> HIDE DEF more, longer
    <2>8. Sums(more, longer)
        <3>1. \A n \in 1..l : more[n] = more[n - 1] + Sizes[longer[n]]
            BY <2>1, <2>3, <2>7 DEF Sums
        <3>2. more[l + 1] = more[(l + 1) - 1] + Sizes[longer[l + 1]]
            BY <2>3, <2>6
        <3>3. \A n \in 1..(l + 1) : n \in 1..l \/ n = l + 1
            BY <2>3
        <3> HIDE DEF l
        <3> QED BY <2>3, <2>5, <2>6, <3>1, <3>2, <3>3 DEF Sums
    <2>9. Bytes(longer) = more[Len(longer)]
        BY <2>3, <2>8, BytesAreSums
    <2> QED BY <2>2, <2>3, <2>6, <2>9 DEF longer
<1>3. ASSUME NEW list \in Seq(Chunks), list # <<>>
      PROVE  Bytes(Tail(list)) = Bytes(list) - Sizes[Head(list)]
    <2> DEFINE rest == Tail(list)
               l == Len(list)
    <2>1. PICK sum : Sums(sum, list)
        BY SumsExist
    <2>2. Bytes(list) = sum[l] /\ sum[l] \in Int
        BY <2>1, BytesAreSums
    <2>3. /\ rest \in Seq(Chunks) /\ Len(rest) = l - 1 /\ l \in Nat \ {0} /\ Head(list) = list[1]
          /\ \A n \in 1..(l - 1) : rest[n] = list[n + 1]
        BY <1>3
    <2>4. sum[1] \in Int /\ sum[1] = Sizes[Head(list)]
        <3>1. 1 \in 1..Len(list) /\ Sizes[Head(list)] \in Int
            BY <2>3, RecordingConstants DEF Chunks
        <3> QED BY <2>1, <2>3, <3>1 DEF Sums
    <2> DEFINE less == [n \in 0..(l - 1) |-> sum[n + 1] - sum[1]]
    <2>5. less \in [0..(l - 1) -> Int]
        BY <2>1, <2>3, <2>4 DEF Sums
    <2>6. less[0] = 0 /\ less[l - 1] = sum[l] - sum[1]
        <3>1. 0 \in 0..(l - 1) /\ l - 1 \in 0..(l - 1) /\ (l - 1) + 1 = l /\ 0 + 1 = 1
            BY <2>3
        <3> QED BY <2>2, <2>4, <3>1
    <2>7. \A n \in 1..(l - 1) : less[n] = sum[n + 1] - sum[1] /\ less[n - 1] = sum[n] - sum[1]
        BY <2>3
    <2>8. \A n \in 1..(l - 1) : /\ sum[n + 1] = sum[n] + Sizes[rest[n]]
                                /\ sum[n] \in Int /\ Sizes[rest[n]] \in Int
        <3>1. \A n \in 1..(l - 1) : n + 1 \in 1..l /\ (n + 1) - 1 = n /\ n \in 0..l
            BY <2>3
        <3>2. \A n \in 1..l : sum[n] = sum[n - 1] + Sizes[list[n]]
            BY <2>1 DEF Sums
        <3>3. \A n \in 0..l : sum[n] \in Int
            BY <2>1 DEF Sums
        <3>4. \A n \in 1..l : Sizes[list[n]] \in Int
            BY RecordingConstants DEF Chunks
        <3> HIDE DEF l, rest
        <3> QED BY <2>3, <3>1, <3>2, <3>3, <3>4
    <2> HIDE DEF less, rest
    <2>9. \A n \in 1..(l - 1) : less[n] = less[n - 1] + Sizes[rest[n]]
        BY <2>4, <2>7, <2>8
    <2>10. Sums(less, rest)
        BY <2>3, <2>5, <2>6, <2>9 DEF Sums
    <2>11. Bytes(rest) = less[Len(rest)]
        BY <2>3, <2>10, BytesAreSums
    <2> QED BY <2>2, <2>3, <2>4, <2>6, <2>11 DEF rest
<1> QED BY <1>1, <1>2, <1>3

-----------------------------------------------------------------------------
\* The chunks of the uploader.

Ascending(list) == \A i, j \in DOMAIN list : i < j => list[i] < list[j]

\* Every chunk of S comes before every chunk of T.
Before(S, T) == \A x \in S, y \in T : x < y

\* A chunk more at the end.
LEMMA SetAppends ==
    ASSUME NEW list \in Seq(Chunks), NEW k \in Chunks
    PROVE  /\ Append(list, k) \in Seq(Chunks)
           /\ ToSet(Append(list, k)) = ToSet(list) \cup {k}
           /\ Ascending(list) /\ Before(ToSet(list), {k}) => Ascending(Append(list, k))
           /\ Append(list, k) # <<>>
           /\ list # <<>> => Head(Append(list, k)) = Head(list)
           /\ list = <<>> => Head(Append(list, k)) = k
<1> DEFINE longer == Append(list, k)
           l == Len(list)
<1>1. /\ longer \in Seq(Chunks) /\ l \in Nat /\ DOMAIN list = 1..l /\ DOMAIN longer = 1..(l + 1)
      /\ longer[l + 1] = k /\ \A i \in 1..l : longer[i] = list[i]
      /\ longer # <<>> /\ Head(longer) = longer[1]
    OBVIOUS
<1>2. list # <<>> => Head(list) = list[1] /\ 1 \in 1..l
    OBVIOUS
<1>3. list = <<>> => l = 0
    OBVIOUS
<1> HIDE DEF longer, l
<1>4. \A i \in DOMAIN longer : i \in 1..l \/ i = l + 1
    BY <1>1
<1>5. ToSet(longer) = ToSet(list) \cup {k}
    <2>1. ToSet(longer) \subseteq ToSet(list) \cup {k}
        BY <1>1, <1>4 DEF ToSet
    <2>2. k \in ToSet(longer)
        <3>1. l + 1 \in DOMAIN longer
            BY <1>1
        <3> QED BY <1>1, <3>1 DEF ToSet
    <2>3. ToSet(list) \subseteq ToSet(longer)
        <3>1. \A i \in DOMAIN list : i \in DOMAIN longer /\ longer[i] = list[i]
            BY <1>1
        <3> QED BY <3>1 DEF ToSet
    <2> QED BY <2>1, <2>2, <2>3
<1>6. ASSUME Ascending(list), Before(ToSet(list), {k}) PROVE Ascending(longer)
    <2>1. \A i \in 1..l : list[i] < k
        BY <1>1, <1>6 DEF Before, ToSet
    <2> QED BY <1>1, <1>4, <1>6, <2>1 DEF Ascending
<1> QED BY <1>1, <1>2, <1>3, <1>5, <1>6 DEF longer

\* The first is taken off.
LEMMA SetShifts ==
    ASSUME NEW list \in Seq(Chunks), list # <<>>
    PROVE  /\ Tail(list) \in Seq(Chunks) /\ Head(list) \in Chunks
           /\ ToSet(list) = {Head(list)} \cup ToSet(Tail(list))
           /\ Ascending(list) => Ascending(Tail(list)) /\ Before({Head(list)}, ToSet(Tail(list)))
<1> DEFINE rest == Tail(list)
           l == Len(list)
<1>1. /\ rest \in Seq(Chunks) /\ l \in Nat \ {0} /\ DOMAIN list = 1..l
      /\ DOMAIN rest = 1..(l - 1) /\ Head(list) = list[1] /\ Head(list) \in Chunks
      /\ \A i \in 1..(l - 1) : rest[i] = list[i + 1]
    OBVIOUS
<1> HIDE DEF rest, l
<1>2. \A i \in DOMAIN rest : i + 1 \in DOMAIN list /\ i + 1 > 1 /\ rest[i] = list[i + 1]
    BY <1>1
<1>3. \A i \in DOMAIN list : i = 1 \/ (i - 1 \in DOMAIN rest /\ rest[i - 1] = list[i])
    BY <1>1
<1>4. 1 \in DOMAIN list
    BY <1>1
<1>5. ToSet(list) = {Head(list)} \cup ToSet(rest)
    <2>1. ToSet(list) \subseteq {Head(list)} \cup ToSet(rest)
        BY <1>1, <1>3 DEF ToSet
    <2>2. {Head(list)} \cup ToSet(rest) \subseteq ToSet(list)
        BY <1>1, <1>2, <1>4 DEF ToSet
    <2> QED BY <2>1, <2>2
<1>6. ASSUME Ascending(list) PROVE Ascending(rest) /\ Before({Head(list)}, ToSet(rest))
    <2>1. Ascending(rest)
        <3> SUFFICES ASSUME NEW i \in DOMAIN rest, NEW j \in DOMAIN rest, i < j
                     PROVE  rest[i] < rest[j]
            BY DEF Ascending
        <3>1. i + 1 < j + 1
            BY <1>1
        <3> QED BY <1>2, <1>6, <3>1 DEF Ascending
    <2>2. \A i \in DOMAIN rest : list[1] < rest[i]
        BY <1>2, <1>4, <1>6 DEF Ascending
    <2> QED BY <1>1, <2>1, <2>2 DEF Before, ToSet
<1> QED BY <1>1, <1>5, <1>6 DEF rest

\* Two lists, one after the other.
LEMMA AscendingJoins ==
    ASSUME NEW a \in Seq(Chunks), NEW b \in Seq(Chunks)
    PROVE  /\ ToSet(a \o b) = ToSet(a) \cup ToSet(b)
           /\ Ascending(a) /\ Ascending(b) /\ Before(ToSet(a), ToSet(b)) => Ascending(a \o b)
<1> DEFINE all == a \o b
           l == Len(a)
           m == Len(b)
<1>1. /\ l \in Nat /\ m \in Nat /\ DOMAIN a = 1..l /\ DOMAIN b = 1..m /\ DOMAIN all = 1..(l + m)
      /\ \A i \in 1..(l + m) : all[i] = IF i <= l THEN a[i] ELSE b[i - l]
    OBVIOUS
<1> HIDE DEF all, l, m
<1>2. \A i \in DOMAIN all : \/ i \in DOMAIN a /\ all[i] = a[i]
                            \/ i > l /\ i - l \in DOMAIN b /\ all[i] = b[i - l]
    BY <1>1
<1>3. ToSet(all) = ToSet(a) \cup ToSet(b)
    <2>1. ToSet(all) \subseteq ToSet(a) \cup ToSet(b)
        BY <1>2 DEF ToSet
    <2>2. ToSet(a) \subseteq ToSet(all)
        <3>1. \A i \in DOMAIN a : i \in DOMAIN all /\ all[i] = a[i]
            BY <1>1
        <3> QED BY <3>1 DEF ToSet
    <2>3. ToSet(b) \subseteq ToSet(all)
        <3>1. \A i \in DOMAIN b : i + l \in DOMAIN all /\ all[i + l] = b[i]
            BY <1>1
        <3> QED BY <3>1 DEF ToSet
    <2> QED BY <2>1, <2>2, <2>3
<1>4. ASSUME Ascending(a), Ascending(b), Before(ToSet(a), ToSet(b))
      PROVE  Ascending(all)
    <2> SUFFICES ASSUME NEW i \in DOMAIN all, NEW j \in DOMAIN all, i < j
                 PROVE  all[i] < all[j]
        BY DEF Ascending
    <2>1. CASE i \in DOMAIN a /\ j \in DOMAIN a
        BY <1>1, <1>4, <2>1 DEF Ascending
    <2>2. CASE i \in DOMAIN a /\ j > l
        <3>1. all[i] = a[i] /\ a[i] \in ToSet(a)
            BY <1>1, <2>2 DEF ToSet
        <3>2. all[j] \in ToSet(b)
            BY <1>1, <1>2, <2>2 DEF ToSet
        <3> QED BY <1>4, <3>1, <3>2 DEF Before
    <2>3. CASE i > l /\ j > l
        <3>1. i - l < j - l
            BY <1>1, <2>3
        <3> QED BY <1>1, <1>2, <1>4, <2>3, <3>1 DEF Ascending
    <2> QED BY <1>1, <1>2, <2>1, <2>2, <2>3
<1> QED BY <1>3, <1>4 DEF all

\* The chunk of the fetch is the head of the queue; one that is in flight when close() comes
\* follows what was acknowledged.
AccountInv ==
    /\ queue \in Seq(Chunks) /\ acked \in Seq(Chunks) /\ queuedBytes \in Int
    /\ flying \in Chunks \cup {None}
    /\ up \in {"idle", "uploading", "failed", "closed"}
    /\ Ascending(acked) /\ Ascending(queue) /\ Before(ToSet(acked), ToSet(queue))
    /\ handed = ToSet(acked) \cup ToSet(queue) \cup refused \cup cleared
    /\ flying # None /\ up # "closed" => queue # <<>> /\ flying = Head(queue)
    /\ up = "closed" => queue = <<>>
    /\ up = "closed" /\ flying # None =>
         flying \in handed /\ Before(ToSet(acked), {flying}) /\ queuedBytes = 0
    /\ up # "closed" => queuedBytes = Bytes(queue) /\ queuedBytes <= MaxQueuedBytes

\* pump() sends the head of what is queued, or there is none.
LEMMA AccountPump ==
    ASSUME NEW list \in Seq(Chunks), Pump(list)
    PROVE  /\ up' \in {"idle", "uploading"} /\ flying' \in Chunks \cup {None}
           /\ flying' # None => list # <<>> /\ flying' = Head(list)
<1>1. list # <<>> => Head(list) \in Chunks
    OBVIOUS
<1> QED BY <1>1 DEF Pump

\* A chunk is acknowledged.
LEMMA AccountAck ==
    ASSUME AccountInv, FetchSucceeds
    PROVE  AccountInv'
<1>1. /\ flying # None /\ flying \in Chunks /\ queue' = Shifted /\ acked' = Append(acked, flying)
      /\ queuedBytes' = queuedBytes - Sizes[flying]
      /\ UNCHANGED <<handed, refused, cleared>>
    BY DEF FetchSucceeds, AccountInv, BytesAfterAck
<1>2. /\ acked' \in Seq(Chunks) /\ ToSet(acked') = ToSet(acked) \cup {flying}
      /\ Before(ToSet(acked), {flying}) => Ascending(acked')
    BY <1>1, SetAppends DEF AccountInv
<1>3. queuedBytes' \in Int /\ Sizes[flying] \in Nat
    <2>1. Sizes[flying] \in Nat
        BY <1>1, RecordingConstants DEF Chunks
    <2> QED BY <1>1, <2>1 DEF AccountInv
<1>4. CASE up = "closed"
    <2>1. /\ flying' = None /\ up' = up /\ queue = <<>> /\ queue' = <<>>
          /\ flying \in handed /\ Before(ToSet(acked), {flying})
        BY <1>1, <1>4 DEF FetchSucceeds, AccountInv, Shifted
    <2>2. ToSet(<<>>) = {} /\ Ascending(<<>>) /\ <<>> \in Seq(Chunks)
        BY DEF ToSet, Ascending
    <2>3. handed' = ToSet(acked') \cup ToSet(queue') \cup refused' \cup cleared'
        BY <1>1, <1>2, <2>1, <2>2 DEF AccountInv
    <2>4. Ascending(acked') /\ Ascending(queue') /\ Before(ToSet(acked'), ToSet(queue'))
        BY <1>2, <2>1, <2>2 DEF Before
    <2> QED BY <1>2, <1>3, <1>4, <2>1, <2>2, <2>3, <2>4 DEF AccountInv, ToSet, Ascending, Before
<1>5. CASE up # "closed"
    <2>1. queue # <<>> /\ flying = Head(queue) /\ queue' = Tail(queue) /\ Pump(queue')
        BY <1>1, <1>5 DEF FetchSucceeds, AccountInv, Shifted, PumpOn
    <2>2. /\ queue' \in Seq(Chunks) /\ ToSet(queue) = {flying} \cup ToSet(queue')
          /\ Ascending(queue') /\ Before({flying}, ToSet(queue'))
        BY <2>1, SetShifts DEF AccountInv
    <2>3. handed' = ToSet(acked') \cup ToSet(queue') \cup refused' \cup cleared'
        BY <1>1, <1>2, <2>2 DEF AccountInv
    <2>4. Ascending(acked') /\ Before(ToSet(acked'), ToSet(queue'))
        BY <1>2, <2>2 DEF AccountInv, Before
    <2>5. queuedBytes' = Bytes(queue') /\ queuedBytes' <= MaxQueuedBytes
        <3>1. Bytes(queue') = Bytes(queue) - Sizes[flying] /\ Bytes(queue) \in Int
            BY <1>1, <2>1, BytesFacts DEF AccountInv
        <3> QED BY <1>1, <1>3, <1>5, <3>1, RecordingConstants DEF AccountInv
    <2>6. /\ up' \in {"idle", "uploading"} /\ flying' \in Chunks \cup {None}
          /\ flying' # None => queue' # <<>> /\ flying' = Head(queue')
        BY <2>1, <2>2, AccountPump
    <2> QED BY <1>2, <1>3, <2>2, <2>3, <2>4, <2>5, <2>6 DEF AccountInv, ToSet, Ascending, Before
<1> QED BY <1>4, <1>5

\* A chunk is handed over that comes after all before it.
LEMMA AccountSend ==
    ASSUME AccountInv, NEW k \in Chunks, Send(k), Before(handed, {k})
    PROVE  AccountInv'
<1>1. handed' = handed \cup {k} /\ UNCHANGED <<cleared, acked>>
    BY DEF Send
<1>2. CASE refused' = refused \cup {k} /\ UNCHANGED <<up, queue, queuedBytes, flying>>
    <2>1. handed' = ToSet(acked') \cup ToSet(queue') \cup refused' \cup cleared'
        BY <1>1, <1>2 DEF AccountInv
    <2>2. up' = "closed" /\ flying' # None =>
            flying' \in handed' /\ Before(ToSet(acked'), {flying'}) /\ queuedBytes' = 0
        BY <1>1, <1>2 DEF AccountInv
    <2>3. /\ queue' = queue /\ acked' = acked /\ queuedBytes' = queuedBytes /\ flying' = flying
          /\ up' = up
        BY <1>1, <1>2
    <2> QED BY <2>1, <2>2, <2>3 DEF AccountInv, ToSet, Ascending, Before
<1>3. CASE /\ ~(up = "closed" \/ Overflows(k)) /\ queue' = Append(queue, k)
           /\ queuedBytes' = queuedBytes + Sizes[k] /\ UNCHANGED refused
    <2>1. /\ queue' \in Seq(Chunks) /\ ToSet(queue') = ToSet(queue) \cup {k} /\ queue' # <<>>
          /\ queue # <<>> => Head(queue') = Head(queue)
          /\ Ascending(queue) /\ Before(ToSet(queue), {k}) => Ascending(queue')
        BY <1>3, SetAppends DEF AccountInv
    <2>2. Before(ToSet(acked), {k}) /\ Before(ToSet(queue), {k})
        BY DEF AccountInv, Before
    <2>3. handed' = ToSet(acked') \cup ToSet(queue') \cup refused' \cup cleared'
        BY <1>1, <1>3, <2>1 DEF AccountInv
    <2>4. Ascending(queue') /\ Before(ToSet(acked'), ToSet(queue'))
        BY <1>1, <2>1, <2>2 DEF AccountInv, Before
    <2>5. queuedBytes' = Bytes(queue') /\ queuedBytes' <= MaxQueuedBytes /\ queuedBytes' \in Int
        <3>1. Bytes(queue') = Bytes(queue) + Sizes[k] /\ Sizes[k] \in Nat
            BY <1>3, BytesFacts, RecordingConstants DEF AccountInv, Chunks
        <3> QED BY <1>3, <3>1, RecordingConstants DEF AccountInv, Overflows
    <2>6. /\ up' \in {"idle", "uploading", "failed"} /\ flying' \in Chunks \cup {None}
          /\ flying' # None => flying' = Head(queue')
        <3>1. CASE Pump(queue')
            BY <2>1, <3>1, AccountPump
        <3>2. CASE UNCHANGED <<up, flying>>
            BY <1>3, <2>1, <3>2 DEF AccountInv
        <3> QED BY <1>3, <3>1, <3>2 DEF Send
    <2>7. acked' \in Seq(Chunks) /\ Ascending(acked')
        BY <1>1 DEF AccountInv, Ascending
    <2> QED BY <2>1, <2>3, <2>4, <2>5, <2>6, <2>7 DEF AccountInv, ToSet, Ascending, Before
<1> QED BY <1>2, <1>3 DEF Send

\* Every step keeps the account.
LEMMA AccountStep == RecorderInv /\ BlobInv /\ AccountInv /\ [Next]_vars => AccountInv'
<1> SUFFICES ASSUME RecorderInv, BlobInv, AccountInv, [Next]_vars PROVE AccountInv'
    OBVIOUS
<1>1. ASSUME UNCHANGED upVars PROVE AccountInv'
    BY <1>1 DEF AccountInv, upVars, ToSet, Ascending, Before
<1>2. CASE CutsChunk \/ EndsByItself \/ Start \/ Stop \/ Pause \/ Resume \/ PipeOrUnpipe
    BY <1>1, <1>2 DEF CutsChunk, EndsByItself, Start, Stop, Pause, Resume, PipeOrUnpipe
<1>3. CASE FetchSucceeds
    BY <1>3, AccountAck
<1>4. CASE FetchFails
    <2>1. /\ flying # None /\ flying' = None /\ up' \in {"idle", "failed"}
          /\ UNCHANGED <<queue, acked, queuedBytes, handed, refused, cleared>>
        BY <1>4 DEF FetchFails, QueueAfterFailure
    <2>2. queuedBytes = Bytes(queue) /\ queuedBytes <= MaxQueuedBytes
        BY <2>1, BytesFacts, RecordingConstants DEF AccountInv
    <2> QED BY <2>1, <2>2 DEF AccountInv, ToSet, Ascending, Before
<1>5. CASE Retry
    <2>1. up = "failed" /\ Pump(queue) /\ UNCHANGED <<queue, acked, queuedBytes, handed, refused, cleared>>
        BY <1>5 DEF Retry, RetryPumps
    <2>2. /\ up' \in {"idle", "uploading"} /\ flying' \in Chunks \cup {None}
          /\ flying' # None => queue # <<>> /\ flying' = Head(queue)
        BY <2>1, AccountPump DEF AccountInv
    <2> QED BY <2>1, <2>2 DEF AccountInv, ToSet, Ascending, Before
<1>6. CASE Close
    <2>1. /\ up # "closed" /\ up' = "closed" /\ queue' = <<>> /\ queuedBytes' = 0
          /\ cleared' = cleared \cup ToSet(queue)
          /\ UNCHANGED <<flying, handed, refused, acked>>
        BY <1>6 DEF Close
    <2>2. ToSet(<<>>) = {} /\ Ascending(<<>>) /\ <<>> \in Seq(Chunks)
        BY DEF ToSet, Ascending
    <2>3. handed' = ToSet(acked') \cup ToSet(queue') \cup refused' \cup cleared'
        BY <2>1, <2>2 DEF AccountInv
    <2>4. flying' # None => flying' \in handed' /\ Before(ToSet(acked'), {flying'})
        <3> SUFFICES ASSUME flying # None PROVE flying \in handed /\ Before(ToSet(acked), {flying})
            BY <2>1
        <3>1. queue # <<>> /\ flying = Head(queue)
            BY <2>1 DEF AccountInv
        <3>2. flying \in ToSet(queue)
            BY <3>1, SetShifts DEF AccountInv
        <3> QED BY <3>2 DEF AccountInv, Before
    <2>5. Ascending(queue') /\ Before(ToSet(acked'), ToSet(queue'))
        BY <2>1, <2>2 DEF Before
    <2> QED BY <2>1, <2>2, <2>3, <2>4, <2>5 DEF AccountInv, ToSet, Ascending, Before
<1>7. CASE DataAvailable
    <2> DEFINE k == Head(events).chunk
    <2>1. k \in 1..produced /\ \A g \in handed : g < k
        BY <1>7, LineRuns DEF DataAvailable, NextTask, BlobInv
    <2>2. k \in Chunks
        BY <2>1, RecordingConstants DEF BlobInv, Line, Chunks
    <2>3. Before(handed, {k})
        BY <2>1 DEF Before
    <2>4. UNCHANGED upVars \/ Send(k)
        BY <1>7 DEF DataAvailable
    <2> HIDE DEF k
    <2> QED BY <1>1, <2>2, <2>3, <2>4, AccountSend
<1>8. ASSUME NEW type \in {"pause", "resume", "stop", "error"}, StateEvent(type)
      PROVE  AccountInv'
    BY <1>1, <1>8 DEF StateEvent
<1>9. CASE UNCHANGED vars
    BY <1>1, <1>9 DEF vars
<1> QED BY <1>2, <1>3, <1>4, <1>5, <1>6, <1>7, <1>8, <1>9 DEF Next

\* Chunks are acknowledged in the order they were recorded, each once, and none that was
\* handed over disappears unless it was rejected or dropped by close(); pendingBytes is what
\* the queue weighs and within its limit (send, pump, retry, close).
THEOREM Chunks_Accounted == Spec => []ChunksAccounted
<1>1. Init => RecorderInv /\ BlobInv /\ AccountInv
    <2> SUFFICES ASSUME Init PROVE AccountInv
        BY RecorderInit, BlobInit
    <2>1. <<>> \in Seq(Chunks) /\ ToSet(<<>>) = {} /\ Ascending(<<>>) /\ Bytes(<<>>) = 0
        BY BytesFacts DEF ToSet, Ascending
    <2> QED BY <2>1, RecordingConstants DEF Init, AccountInv, Before
<1>2. RecorderInv /\ BlobInv /\ AccountInv /\ [Next]_vars => RecorderInv' /\ BlobInv' /\ AccountInv'
    BY RecorderStep, BlobStep, AccountStep
<1>3. AccountInv => ChunksAccounted
    <2> SUFFICES ASSUME AccountInv PROVE ChunksAccounted
        OBVIOUS
    <2>1. ToSet(acked \o queue) = ToSet(acked) \cup ToSet(queue) /\ Ascending(acked \o queue)
        BY AscendingJoins DEF AccountInv
    <2>2. handed = ToSet(acked \o queue) \cup refused \cup cleared
        BY <2>1 DEF AccountInv
    <2>3. up # "closed" => queuedBytes = Bytes(queue) /\ queuedBytes <= MaxQueuedBytes
        BY DEF AccountInv
    <2> QED BY <2>1, <2>2, <2>3 DEF ChunksAccounted, Ascending
<1> QED BY <1>1, <1>2, <1>3, PTL DEF Spec
=============================================================================

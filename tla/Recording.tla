----------------------------- MODULE Recording -----------------------------
(***************************************************************************)
(* A recording streamed to a server: `Recorder` over the browser's         *)
(* MediaRecorder, `HttpUploader`, and `pipeRecorderTo` between them        *)
(* (packages/core/src/recording).                                          *)
(*                                                                         *)
(* The browser changes the MediaRecorder's state at once and tells the     *)
(* Recorder in a task of its own, in order: `recorder` lags `native` by    *)
(* the tasks in `events`.  What a listener calls synchronously (the pipe,  *)
(* the uploader up to its fetch) is part of the step that emits.           *)
(***************************************************************************)
EXTENDS Integers, Sequences, FiniteSets, SequencesExt

CONSTANTS
    Sizes,              \* bound: Sizes[k] is the size of the k-th chunk recorded
    MaxBufferedBytes,   \* RecorderOptions.maxBufferedBytes
    MaxQueuedBytes,     \* UploaderOptions.maxQueuedBytes
    MaxStops,           \* bound: calls of stop() that wait for the stop event
    Eager               \* may the application retry inside the `failed` listener?

Chunks == DOMAIN Sizes

ASSUME RecordingConstants ==
    /\ Sizes \in Seq(Nat \ {0})
    /\ MaxBufferedBytes \in Nat /\ MaxQueuedBytes \in Nat /\ MaxStops \in Nat
    /\ Eager \subseteq BOOLEAN

VARIABLES
    recorder,       \* recorderState
    chunks,         \* chunkList; bufferedBytes is Bytes(chunks)
    stopResolver,   \* the stop() whose promise the stop event resolves, or none
    native,         \* the MediaRecorder's own state
    events,         \* its tasks not run yet
    produced,       \* chunks it has cut so far
    up,             \* the uploader's currentState
    queue,          \* its queue
    queuedBytes,    \* its queuedBytes
    flying,         \* the chunk of the fetch in flight (inFlight), or none
    piped,          \* is pipeRecorderTo attached?
    eager,          \* does the application retry inside the listener?
    \* history
    stops,          \* calls of stop() that waited for the stop event
    stopped,        \* those whose promise has been resolved
    userPaused,     \* the last pause was the user's
    overflowed,     \* maxBufferedBytes was hit
    failedOnce,     \* an upload has failed
    handed,         \* chunks given to uploader.send
    refused,        \* chunks send() rejected
    cleared,        \* chunks dropped by close()
    acked           \* chunks acknowledged, in order

stopVars == <<stopResolver, stops, stopped>>
recVars == <<recorder, chunks, stopVars, userPaused, overflowed>>
natVars == <<native, events, produced>>
upVars == <<up, queue, queuedBytes, flying, failedOnce, handed, refused, cleared, acked>>
vars == <<recVars, natVars, upVars, piped, eager>>

None == 0

\* The bytes of a list of chunks: sum[n] is those of the first n.
Bytes(list) ==
    LET sum[n \in 0..Len(list)] == IF n = 0 THEN 0 ELSE sum[n - 1] + Sizes[list[n]]
    IN  sum[Len(list)]

Task(type) == [type |-> type, chunk |-> None]
Data(k) == [type |-> "data", chunk |-> k]
NextTask(type) == events # <<>> /\ Head(events).type = type

Init ==
    /\ recorder = "idle" /\ chunks = <<>>
    /\ stopResolver = None /\ stops = 0 /\ stopped = {}
    /\ native = "none" /\ events = <<>> /\ produced = 0
    /\ up = "idle" /\ queue = <<>> /\ queuedBytes = 0 /\ flying = None
    /\ piped \in BOOLEAN /\ eager \in Eager
    /\ userPaused = FALSE /\ overflowed = FALSE /\ failedOnce = FALSE
    /\ handed = {} /\ refused = {} /\ cleared = {} /\ acked = <<>>

-----------------------------------------------------------------------------
\* The MediaRecorder.

\* What pause() and resume() do to it; in any other state they throw or do nothing.
Obeys(command, pending) ==
    CASE command = "pause" /\ native = "recording" ->
           native' = "paused" /\ events' = Append(pending, Task("pause"))
      [] command = "resume" /\ native = "paused" ->
           native' = "recording" /\ events' = Append(pending, Task("resume"))
      [] OTHER -> native' = native /\ events' = pending

Active == native \in {"recording", "paused"}

\* It stops: a last chunk, if there is anything in it, then the stop event.
Ends(pending) ==
    /\ native' = "inactive"
    /\ \/ /\ events' = Append(pending, Task("stop"))
          /\ produced' = produced
       \/ /\ produced < Len(Sizes)
          /\ produced' = produced + 1
          /\ events' = pending \o <<Data(produced'), Task("stop")>>

StopIfRecording(pending) ==         \* bug: stop() ignores a paused recorder
    IF native = "recording" THEN Ends(pending)
    ELSE events' = pending /\ UNCHANGED <<native, produced>>
StopNative(pending) ==
    IF Active THEN Ends(pending)
    ELSE events' = pending /\ UNCHANGED <<native, produced>>

CutsChunk ==
    /\ native = "recording" /\ produced < Len(Sizes)
    /\ produced' = produced + 1
    /\ events' = Append(events, Data(produced'))
    /\ UNCHANGED <<recVars, native, upVars, piped, eager>>

\* The stream's tracks end, or the recorder fails.
EndsByItself ==
    /\ Active
    /\ \/ Ends(events)
       \/ Ends(Append(events, Task("error")))
    /\ UNCHANGED <<recVars, upVars, piped, eager>>

-----------------------------------------------------------------------------
\* Recorder: the methods.

Start ==
    /\ recorder = "idle"
    /\ \/ /\ recorder' = "recording" /\ native' = "recording"
       \/ /\ recorder' = "error" /\ UNCHANGED native   \* the constructor throws
    /\ UNCHANGED <<chunks, stopVars, userPaused, overflowed, events, produced,
                   upVars, piped, eager>>

\* There is one slot for the resolver: another stop() takes it, and the promise of the
\* one before is never resolved.
Stop ==
    /\ recorder \in {"recording", "paused"}
    /\ stops < MaxStops
    /\ stops' = stops + 1
    /\ stopResolver' = stops'
    /\ StopNative(events)
    /\ UNCHANGED <<recorder, chunks, stopped, userPaused, overflowed, upVars, piped, eager>>

Pause ==
    /\ recorder = "recording"
    /\ Obeys("pause", events)
    /\ userPaused' = (userPaused \/ native = "recording")
    /\ UNCHANGED <<recorder, chunks, stopVars, overflowed, produced, upVars, piped, eager>>

Resume ==
    /\ recorder = "paused"
    /\ Obeys("resume", events)
    /\ userPaused' = FALSE
    /\ UNCHANGED <<recorder, chunks, stopVars, overflowed, produced, upVars, piped, eager>>

\* pipeTo, and the disposer it returns.
PipeOrUnpipe ==
    /\ piped' = ~piped
    /\ UNCHANGED <<recVars, natVars, upVars, eager>>

-----------------------------------------------------------------------------
\* HttpUploader.

\* pump() past its early returns.
Pump(pending) ==
    IF pending = <<>>
    THEN up' = "idle" /\ flying' = None
    ELSE up' = "uploading" /\ flying' = Head(pending)

Overflows(k) == queuedBytes + Sizes[k] > MaxQueuedBytes

Send(k) ==
    /\ handed' = handed \cup {k}
    /\ UNCHANGED <<failedOnce, cleared, acked>>
    /\ IF up = "closed" \/ Overflows(k)
       THEN /\ refused' = refused \cup {k}
            /\ UNCHANGED <<up, queue, queuedBytes, flying>>
       ELSE /\ queue' = Append(queue, k)
            /\ queuedBytes' = queuedBytes + Sizes[k]
            /\ UNCHANGED refused
            /\ IF flying = None /\ up # "failed" THEN Pump(queue')
               ELSE UNCHANGED <<up, flying>>

\* What the pipe asks of the MediaRecorder when the uploader's state changes.
OnFailed == IF piped /\ recorder = "recording" THEN "pause" ELSE "nothing"
OnIdle == IF piped /\ recorder = "paused" THEN "resume" ELSE "nothing"

HeadKept == queue                   \* bug: the acknowledged chunk stays queued
Shifted == IF queue = <<>> THEN <<>> ELSE Tail(queue)

BytesKept == queuedBytes            \* bug: an ack does not release its bytes
BytesAfterAck == queuedBytes - Sizes[flying]

PumpStays == up' = "uploading" /\ flying' = None   \* bug: the next chunk is not sent
PumpOn == Pump(Shifted)

FetchSucceeds ==
    /\ flying # None
    /\ queue' = Shifted
    /\ queuedBytes' = BytesAfterAck
    /\ acked' = Append(acked, flying)
    /\ IF up = "closed"
       THEN flying' = None /\ UNCHANGED <<up, native, events>>
       ELSE /\ PumpOn
            /\ Obeys(IF Shifted = <<>> THEN OnIdle ELSE "nothing", events)
    /\ UNCHANGED <<recVars, produced, failedOnce, handed, refused, cleared, piped, eager>>

FailedChunkDropped == Shifted       \* bug: a failed chunk is taken off the queue
QueueAfterFailure == queue

\* The `failed` and `error` listeners run before inFlight is reset: a retry() made
\* in one of them turns `failed` into `idle` and sends nothing.
FetchFails ==
    /\ flying # None
    /\ flying' = None
    /\ queue' = QueueAfterFailure
    /\ failedOnce' = TRUE
    /\ up' = IF eager THEN "idle" ELSE "failed"
    /\ Obeys(IF eager /\ recorder # "recording" THEN OnIdle ELSE OnFailed, events)
    /\ UNCHANGED <<recVars, produced, queuedBytes, handed, refused, cleared, acked, piped, eager>>

RetryForgetsPump == up' = "idle" /\ UNCHANGED flying   \* bug: retry() does not pump
RetryPumps == Pump(queue)

Retry ==
    /\ up = "failed"
    /\ RetryPumps
    /\ Obeys(OnIdle, events)
    /\ UNCHANGED <<recVars, produced, queue, queuedBytes, failedOnce, handed, refused,
                   cleared, acked, piped, eager>>

Close ==
    /\ up # "closed"
    /\ up' = "closed"
    /\ queue' = <<>> /\ queuedBytes' = 0
    /\ cleared' = cleared \cup ToSet(queue)
    /\ UNCHANGED <<recVars, natVars, flying, failedOnce, handed, refused, acked, piped, eager>>

-----------------------------------------------------------------------------
\* Recorder: the MediaRecorder's events.

NotIfPiped(k) ==                    \* bug: a streamed chunk is not kept for the blob
    IF piped THEN chunks ELSE Append(chunks, k)
Buffer(k) == Append(chunks, k)

DataAvailable ==
    /\ NextTask("data")
    /\ UNCHANGED <<stopVars, userPaused, piped, eager>>
    /\ LET k == Head(events).chunk IN
       IF Bytes(chunks) + Sizes[k] > MaxBufferedBytes
       THEN /\ recorder' = "error" /\ overflowed' = TRUE
            /\ StopNative(Tail(events))
            /\ UNCHANGED <<chunks, upVars>>
       ELSE /\ chunks' = Buffer(k)
            /\ IF piped THEN Send(k) ELSE UNCHANGED upVars
            /\ events' = Tail(events)
            /\ UNCHANGED <<recorder, overflowed, native, produced>>

ResumeIgnored(type) ==              \* bug: no listener for "resume"
    CASE type = "pause" -> "paused" [] type = "resume" -> recorder
      [] type = "stop" -> "stopped" [] type = "error" -> "error"
StateAfter(type) ==
    CASE type = "pause" -> "paused" [] type = "resume" -> "recording"
      [] type = "stop" -> "stopped" [] type = "error" -> "error"

\* The pause, resume, stop and error events.
StateEvent(type) ==
    /\ NextTask(type)
    /\ events' = Tail(events)
    /\ recorder' = StateAfter(type)
    /\ IF type = "stop"
       THEN stopped' = stopped \cup ({stopResolver} \ {None}) /\ stopResolver' = None
       ELSE UNCHANGED <<stopped, stopResolver>>
    /\ UNCHANGED <<stops, chunks, userPaused, overflowed, native, produced, upVars, piped, eager>>

-----------------------------------------------------------------------------
Next ==
    \/ CutsChunk \/ EndsByItself
    \/ Start \/ Stop \/ Pause \/ Resume \/ PipeOrUnpipe
    \/ FetchSucceeds \/ FetchFails \/ Retry \/ Close
    \/ DataAvailable \/ \E type \in {"pause", "resume", "stop", "error"} : StateEvent(type)

\* The browser runs its tasks, a fetch ends, the server is not down for ever, and
\* the application retries after a failure (uploader.ts: "must call retry()").
Fairness ==
    /\ WF_vars(DataAvailable)
    /\ WF_vars(\E type \in {"pause", "resume", "stop", "error"} : StateEvent(type))
    /\ SF_vars(FetchSucceeds) /\ WF_vars(Retry)

Spec == Init /\ [][Next]_vars
FairSpec == Spec /\ Fairness

-----------------------------------------------------------------------------
TypeOK ==
    /\ recorder \in {"idle", "recording", "paused", "stopped", "error"}
    /\ native \in {"none", "recording", "paused", "inactive"}
    /\ \A i \in DOMAIN events :
         events[i] \in [type : {"data", "pause", "resume", "stop", "error"},
                        chunk : Chunks \cup {None}]
    /\ up \in {"idle", "uploading", "failed", "closed"}
    /\ chunks \in Seq(Chunks) /\ queue \in Seq(Chunks) /\ acked \in Seq(Chunks)
    /\ queuedBytes \in Int /\ flying \in Chunks \cup {None} /\ produced \in 0..Len(Sizes)
    /\ handed \subseteq Chunks /\ refused \subseteq Chunks /\ cleared \subseteq Chunks
    /\ stops \in 0..MaxStops /\ stopResolver \in 0..stops /\ stopped \subseteq 1..stops
    /\ {piped, eager, userPaused, overflowed, failedOnce} \subseteq BOOLEAN

\* The blob of a recording that has stopped holds every chunk the browser cut, in
\* order, even when it ended by itself or was stopped while paused; only an overflow
\* of maxBufferedBytes may leave a gap (attachListeners, assembleBlob).
BlobIsComplete ==
    recorder = "stopped" /\ ~overflowed =>
      chunks = [k \in 1..produced |-> k]

\* The server acknowledges the chunks in the order they were recorded, each once, and
\* those still queued come after; no chunk handed to the uploader disappears: it is
\* acknowledged or queued, unless send() rejected it or close() dropped it; and
\* pendingBytes, until then, is what the queue weighs (send, pump, retry, close).
ChunksAccounted ==
    LET all == acked \o queue
    IN  /\ \A i, j \in DOMAIN all : i < j => all[i] < all[j]
        /\ handed = ToSet(all) \cup refused \cup cleared
        /\ up # "closed" => queuedBytes = Bytes(queue) /\ queuedBytes <= MaxQueuedBytes

\* Once the browser's tasks have run, the Recorder's state is the MediaRecorder's, whoever
\* paused, resumed or stopped it, and however it ended (attachListeners).  An uploader that
\* says it is idle has nothing left to send, and one that says it is uploading is, if no
\* retry() is made inside its own listeners (pump, retry).
StateIsHonest ==
    /\ events = <<>> =>
         /\ native \in {"recording", "paused"} => recorder = native
         /\ native = "inactive" => recorder = "stopped"
    /\ ~eager =>
         /\ up = "idle" => queue = <<>> /\ flying = None
         /\ up = "uploading" => flying # None /\ queue # <<>> /\ flying = Head(queue)

\* The pipe resumes the recorder "on `uploader` `idle` after recovery" (pipe.ts): as
\* long as no upload has failed, a recorder the user paused stays paused.
OnlyRecoveryResumes == userPaused /\ ~failedOnce => native # "recording"

\* Whatever has been queued is delivered in the end, through any number of failed
\* uploads, unless the uploader is closed (pump, retry).
QueueDrains == <>[](queue = <<>> \/ eager)

\* A stop() resolves, whatever the recorder was doing, unless another is called before the
\* stop event: that one takes its resolver, and then the last of them resolves (stop, the
\* stop event).
StopResolves ==
    \A n \in 1..MaxStops : stops >= n ~> (n \in stopped \/ stops > n)
=============================================================================

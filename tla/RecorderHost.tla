---------------------------- MODULE RecorderHost ----------------------------
(***************************************************************************)
(* The owners of a Recorder: <forinda-recorder> with a slotted             *)
(* <forinda-uploader>, and useRecorder and useUploader of React and Vue.   *)
(* A Recorder is reduced to its state and its MediaRecorder's tasks, an    *)
(* Uploader to what it was sent (Recording has both in full).  An element  *)
(* is moved in the document at will; React may clean up the effects of a   *)
(* component and run them again (StrictMode, Activity): its refs, its      *)
(* state and the Recorders' listeners stay.                                *)
(***************************************************************************)
EXTENDS Naturals, Sequences, SequencesExt

CONSTANTS
    MaxRecorders,       \* bound: Recorders made
    MaxChunks           \* bound: chunks each of them records

Recorders == 1..MaxRecorders

VARIABLES
    opts,           \* environment: [host, auto (the auto-start attribute)]
    mounted,        \* "no", "yes", "gone": unmounted, or its effects cleaned up
    hasStream,      \* streamRef, or the hook's stream
    made, held,     \* Recorders made; the one held, or 0
    rec, native,    \* recorderState; the MediaRecorder's state
    tasks,          \* the MediaRecorder's tasks that have not run
    cut, got,       \* chunks recorded; chunks the Recorder has, in order
    piped,          \* pipes of each Recorder that were not disposed
    feeding,        \* the Recorder that a mounted useUploader was given, or 0
    sink,           \* the uploader piped to: "none", "open", "closed"
    sent,           \* the chunks it was sent
    shown, blob, url, urls,     \* rendered: state, final blob, its URL; URLs not revoked
    adrift,         \* history: attached, or mounted again, with a Recorder held or at work
    late,           \* history: start() of a hook that is gone
    slotted         \* history: the Recorders started with an uploader slotted

recVars == <<rec, native, tasks, cut, got>>
pipeVars == <<piped, feeding, sink, sent>>
viewVars == <<shown, blob, url, urls>>
vars == <<opts, mounted, hasStream, made, held, recVars, pipeVars, viewVars, adrift,
          late, slotted>>

Running(r) == rec[r] \in {"recording", "paused"}
AtWork(r) == native[r] \in {"recording", "paused"} \/ tasks[r] # <<>>
Element == opts.host = "element"

Init ==
    /\ opts \in {o \in [host : {"element", "react", "vue"}, auto : BOOLEAN] :
                   o.auto => o.host = "element"}
    /\ mounted = "no" /\ hasStream = FALSE /\ made = 0 /\ held = 0
    /\ rec = [r \in Recorders |-> "idle"] /\ native = [r \in Recorders |-> "none"]
    /\ tasks = [r \in Recorders |-> <<>>]
    /\ cut = [r \in Recorders |-> 0] /\ got = [r \in Recorders |-> <<>>]
    /\ piped = [r \in Recorders |-> 0] /\ feeding = 0 /\ sink = "none"
    /\ sent = [r \in Recorders |-> <<>>]
    /\ shown = "idle" /\ blob = 0 /\ url = 0 /\ urls = {}
    /\ adrift = FALSE /\ late = FALSE /\ slotted = {}

-----------------------------------------------------------------------------
\* Recorders.

\* The MediaRecorder stops: a last chunk, if there is anything in it, and the stop event.
Ends(r) ==
    /\ native' = [native EXCEPT ![r] = "inactive"]
    /\ \/ tasks' = [tasks EXCEPT ![r] = Append(@, "stop")] /\ UNCHANGED cut
       \/ /\ cut[r] < MaxChunks /\ cut' = [cut EXCEPT ![r] = @ + 1]
          /\ tasks' = [tasks EXCEPT ![r] = @ \o <<"data", "stop">>]

StopRecorder(r) ==
    IF r # 0 /\ Running(r) /\ native[r] \in {"recording", "paused"} THEN Ends(r)
    ELSE UNCHANGED <<native, tasks, cut>>

CutsChunk(r) ==
    /\ native[r] = "recording" /\ cut[r] < MaxChunks
    /\ cut' = [cut EXCEPT ![r] = @ + 1] /\ tasks' = [tasks EXCEPT ![r] = Append(@, "data")]
    /\ UNCHANGED <<opts, mounted, hasStream, made, held, rec, native, got, pipeVars, viewVars,
                   adrift, late, slotted>>

\* The tracks end.
EndsByItself(r) ==
    /\ native[r] \in {"recording", "paused"} /\ Ends(r)
    /\ UNCHANGED <<opts, mounted, hasStream, made, held, rec, got, pipeVars, viewVars, adrift,
                   late, slotted>>

\* start() of a new Recorder; the constructor of the MediaRecorder may throw, and so does
\* start() before it when no mime type is supported.
StartsRecorder(r) ==
    \/ /\ rec' = [rec EXCEPT ![r] = "recording"] /\ native' = [native EXCEPT ![r] = "recording"]
       /\ shown' = "recording" /\ held' = r
    \/ /\ rec' = [rec EXCEPT ![r] = "error"] /\ UNCHANGED native
       /\ shown' = "error" /\ held' = IF Element THEN 0 ELSE r
    \/ /\ held' = (IF Element THEN 0 ELSE r) /\ UNCHANGED <<rec, native, shown>>

NextTask(r) == Head(tasks[r])
Pop(r) == tasks' = [tasks EXCEPT ![r] = Tail(@)]

\* dataavailable: kept, and sent once by every pipe to an uploader that is not closed.
DataArrives(r) ==
    LET k == Len(got[r]) + 1 IN
    /\ tasks[r] # <<>> /\ NextTask(r) = "data" /\ Pop(r)
    /\ got' = [got EXCEPT ![r] = Append(@, k)]
    /\ sent' = IF sink = "closed" THEN sent
               ELSE [sent EXCEPT ![r] = @ \o [i \in 1..piped[r] |-> k]]
    /\ UNCHANGED <<opts, mounted, hasStream, made, held, rec, native, cut, piped, feeding, sink,
                   viewVars, adrift, late, slotted>>

\* The state events of every Recorder the host made, whichever it holds.
Told(r, s) == rec' = [rec EXCEPT ![r] = s] /\ shown' = s

PausedOrResumed(r) ==
    /\ tasks[r] # <<>> /\ NextTask(r) \in {"recording", "paused"} /\ Pop(r)
    /\ Told(r, NextTask(r))
    /\ UNCHANGED <<opts, mounted, hasStream, made, held, native, cut, got, pipeVars, blob, url,
                   urls, adrift, late, slotted>>

\* The stop event: an element makes an URL it never revokes, a hook renders the blob.
StopArrives(r) ==
    /\ tasks[r] # <<>> /\ NextTask(r) = "stop" /\ Pop(r) /\ Told(r, "stopped")
    /\ urls' = IF Element THEN urls \cup {r} ELSE urls
    /\ blob' = IF Element THEN blob ELSE r
    /\ UNCHANGED <<opts, mounted, hasStream, made, held, native, cut, got, pipeVars, url, adrift,
                   late, slotted>>

-----------------------------------------------------------------------------
\* Pause and resume, of element and hook.

Pauses ==
    /\ held # 0 /\ rec[held] = "recording" /\ native[held] = "recording"
    /\ native' = [native EXCEPT ![held] = "paused"]
    /\ tasks' = [tasks EXCEPT ![held] = Append(@, "paused")]
    /\ UNCHANGED <<opts, mounted, hasStream, made, held, rec, cut, got, pipeVars, viewVars, adrift,
                   late, slotted>>

Resumes ==
    /\ held # 0 /\ rec[held] = "paused" /\ native[held] = "paused"
    /\ native' = [native EXCEPT ![held] = "recording"]
    /\ tasks' = [tasks EXCEPT ![held] = Append(@, "recording")]
    /\ UNCHANGED <<opts, mounted, hasStream, made, held, rec, cut, got, pipeVars, viewVars, adrift,
                   late, slotted>>

-----------------------------------------------------------------------------
\* The element.

StillPiped == piped                 \* bug: the disposers are dropped, not called
\* `pipeDisposers` are called.
Unpiped == [r \in Recorders |-> 0]

\* start() past its early returns; one slotted uploader is piped to.
Records ==
    /\ made < MaxRecorders /\ made' = made + 1
    /\ StartsRecorder(made + 1)
    /\ piped' = IF sink = "open" THEN [piped EXCEPT ![made + 1] = 1] ELSE piped
    /\ slotted' = IF sink = "open" THEN slotted \cup {made + 1} ELSE slotted

ElementStarts ==
    /\ Element /\ hasStream /\ held = 0 /\ Records
    /\ UNCHANGED <<opts, mounted, hasStream, tasks, cut, got, feeding, sink, sent, blob, url,
                   urls, adrift, late>>

\* The `stream` property is set, replaced or cleared, whatever is recorded.
StreamSet ==
    /\ Element /\ hasStream' \in BOOLEAN
    /\ IF opts.auto /\ hasStream' /\ held = 0 THEN Records
       ELSE UNCHANGED <<made, rec, native, shown, held, piped, slotted>>
    /\ UNCHANGED <<opts, mounted, tasks, cut, got, feeding, sink, sent, blob, url,
                   urls, adrift, late>>

\* start() reads it from the element `for` names.
StreamRead ==
    /\ Element /\ ~hasStream /\ hasStream' = TRUE
    /\ IF held = 0 THEN Records
       ELSE UNCHANGED <<made, rec, native, shown, held, piped, slotted>>
    /\ UNCHANGED <<opts, mounted, tasks, cut, got, feeding, sink, sent, blob, url,
                   urls, adrift, late>>

\* stop() keeps the Recorder: the next start() does nothing.
ElementStops ==
    /\ Element /\ held # 0 /\ piped' = Unpiped
    /\ StopRecorder(held)
    /\ UNCHANGED <<opts, mounted, hasStream, made, held, rec, got, feeding, sink, sent, viewVars,
                   adrift, late, slotted>>

Adrifts == adrift' = (adrift \/ held # 0 \/ \E r \in Recorders : AtWork(r))

ElementAttached ==
    /\ Element /\ mounted = "no" /\ mounted' = "yes"
    /\ shown' = "idle"
    /\ Adrifts
    /\ UNCHANGED <<opts, hasStream, made, held, recVars, pipeVars, blob, url, urls, late, slotted>>

IfRecording(r) == IF r # 0 /\ rec[r] = "recording" THEN r ELSE 0
                                    \* bug: a paused recorder is left alone
IfRunning(r) == IF r # 0 /\ Running(r) THEN r ELSE 0

ElementDetached ==
    /\ Element /\ mounted = "yes" /\ mounted' = "no"
    /\ piped' = Unpiped
    /\ StopRecorder(IfRunning(held)) /\ held' = 0
    /\ UNCHANGED <<opts, hasStream, made, rec, got, feeding, sink, sent, viewVars,
                   adrift, late, slotted>>

\* <forinda-uploader>: slotted before start(); removed, it closes its uploader, to which the
\* pipe goes on sending.
UploaderSlotted ==
    /\ Element /\ sink = "none" /\ sink' = "open"
    /\ UNCHANGED <<opts, mounted, hasStream, made, held, recVars, piped, feeding, sent, viewVars,
                   adrift, late, slotted>>

UploaderRemoved ==
    /\ Element /\ sink = "open" /\ sink' = "closed"
    /\ UNCHANGED <<opts, mounted, hasStream, made, held, recVars, piped, feeding, sent, viewVars,
                   adrift, late, slotted>>

-----------------------------------------------------------------------------
\* The hooks.

HookMounts ==
    /\ ~Element /\ mounted = "no" /\ mounted' = "yes" /\ hasStream' = TRUE
    /\ UNCHANGED <<opts, made, held, recVars, pipeVars, viewVars, adrift, late, slotted>>

\* start(): a second one throws, after what is rendered was cleared.
Starts ==
    /\ mounted # "no" /\ made < MaxRecorders
    /\ blob' = 0 /\ late' = (late \/ mounted = "gone")
    /\ IF held = 0 THEN made' = made + 1 /\ StartsRecorder(made + 1)
       ELSE UNCHANGED <<made, held, rec, native, shown>>
    /\ UNCHANGED <<opts, mounted, hasStream, tasks, cut, got, pipeVars, url, urls, adrift,
                   slotted>>

HookStarts    == opts.host = "react" /\ Starts
VueHookStarts == opts.host = "vue" /\ Starts

HookStops ==
    /\ ~Element /\ held # 0 /\ StopRecorder(held)
    /\ UNCHANGED <<opts, mounted, hasStream, made, held, rec, got, pipeVars, viewVars, adrift,
                   late, slotted>>

\* The effect on [blob], the watcher: the last URL is revoked, a new one made.
Updates ==
    /\ mounted = "yes" /\ url # blob
    /\ url' = blob /\ urls' = (urls \ {url}) \cup ({blob} \ {0})
    /\ UNCHANGED <<opts, mounted, hasStream, made, held, recVars, pipeVars, shown, blob, adrift,
                   late, slotted>>

UrlUpdated    == opts.host = "react" /\ Updates
VueUrlUpdated == opts.host = "vue" /\ Updates

Unmounts ==
    /\ mounted = "yes" /\ mounted' = "gone"
    /\ StopRecorder(IfRunning(held)) /\ held' = 0
    /\ urls' = urls \ {url}
    /\ UNCHANGED <<opts, hasStream, made, rec, got, pipeVars, shown, blob, url, adrift, late, slotted>>

\* React runs the effects again: the [blob] one makes a new URL.
ReactReturns ==
    /\ opts.host = "react" /\ mounted = "gone" /\ mounted' = "yes" /\ Adrifts
    /\ url' = blob /\ urls' = urls \cup ({blob} \ {0})
    /\ UNCHANGED <<opts, hasStream, made, held, recVars, pipeVars, shown, blob, late, slotted>>

ReactUnmounts == opts.host = "react" /\ Unmounts
VueDisposes   == opts.host = "vue" /\ Unmounts

\* useUploader of a component that is given the Recorder, mounted and unmounted at will.
Pipes ==
    /\ feeding = 0 /\ held # 0 /\ feeding' = held
    /\ piped' = [piped EXCEPT ![held] = @ + 1] /\ sink' = "open"
    /\ UNCHANGED <<opts, mounted, hasStream, made, held, recVars, sent, viewVars, adrift, late, slotted>>

LetsGo ==
    /\ feeding # 0 /\ feeding' = 0 /\ piped' = Unpiped
    /\ UNCHANGED <<opts, mounted, hasStream, made, held, recVars, sink, sent, viewVars, adrift,
                   late, slotted>>

ReactPipes    == opts.host = "react" /\ Pipes
ReactUnpipes  == opts.host = "react" /\ LetsGo
VuePipes      == opts.host = "vue" /\ Pipes
VueUnpipes    == opts.host = "vue" /\ LetsGo

Next ==
    \/ ElementStarts \/ StreamSet \/ StreamRead \/ ElementStops \/ ElementAttached
    \/ ElementDetached \/ UploaderSlotted \/ UploaderRemoved
    \/ HookMounts \/ HookStarts \/ VueHookStarts \/ HookStops \/ UrlUpdated \/ VueUrlUpdated
    \/ ReactUnmounts \/ ReactReturns \/ VueDisposes
    \/ ReactPipes \/ ReactUnpipes \/ VuePipes \/ VueUnpipes \/ Pauses \/ Resumes
    \/ \E r \in Recorders : \/ CutsChunk(r) \/ EndsByItself(r) \/ DataArrives(r)
                            \/ PausedOrResumed(r) \/ StopArrives(r)

Spec == Init /\ [][Next]_vars

-----------------------------------------------------------------------------
\* An owner that is gone, or an element that let go of its Recorder, records nothing:
\* whatever the user, the tracks and the pipe did to the Recorder, no MediaRecorder is left
\* running.  Not so when start() of a hook was called after it was gone.
GoneIsOff ==
    (mounted = "gone" /\ ~late) \/ (mounted # "yes" /\ held = 0) =>
      \A r \in Recorders : native[r] \in {"none", "inactive"}

\* The state rendered, which the element's button acts on, is that of the Recorder held; it
\* is no recording's when none is held or the one held has not started.  Not so when the
\* owner was attached, or mounted again, while one was at work.
ShownIsHeld ==
    mounted = "yes" /\ ~adrift =>
      \/ held # 0 /\ shown = rec[held]
      \/ (held # 0 => rec[held] = "idle") /\ shown \notin {"recording", "paused"}

\* However often uploader, component and element come and go, each chunk is uploaded at most
\* once, in order; while an uploader stays slotted and the element is not stopped, it has
\* had every chunk; and a hook that is gone holds no URL of a blob.
UploadedOnce ==
    /\ \A r \in Recorders : \A i, j \in DOMAIN sent[r] : i < j => sent[r][i] < sent[r][j]
    /\ \A r \in slotted : piped[r] > 0 /\ sink = "open" => sent[r] = got[r]
    /\ mounted = "gone" => urls = {}
=============================================================================

------------------------------ MODULE Capture ------------------------------
(***************************************************************************)
(* The owners of captured streams: useUserMedia and useDisplayMedia of     *)
(* React and Vue, and <forinda-video-publisher> up to its publisher.  A    *)
(* request is a getUserMedia() or getDisplayMedia() that waits for the     *)
(* user; its stream is named by its number, and is live until its tracks   *)
(* are stopped.                                                            *)
(*                                                                         *)
(* React runs an effect's cleanup and the effect again only right after    *)
(* the mount (StrictMode); an element is moved at any time; a Vue scope is *)
(* disposed of once.                                                       *)
(***************************************************************************)
EXTENDS Naturals

CONSTANT MaxRequests        \* bound: requests made

Requests == 1..MaxRequests

VARIABLES
    opts,               \* environment: [host, source, autoStart]
    mounted,            \* "no", "yes", "gone"
    used,               \* requests made
    pending, aborted,   \* those not answered; those whose controller aborted
    ctrl,               \* the request whose AbortController is held, or 0
    live,               \* the streams whose tracks are live
    shown, status,      \* the stream and the state rendered; 0 is none
    raced               \* history: a request nobody can abort was overtaken

vars == <<opts, mounted, used, pending, aborted, ctrl, live, shown, status, raced>>

Options ==
    {o \in [host : {"react", "vue", "element"}, source : {"user", "display"}, autoStart : BOOLEAN] :
       o.source = "user" \/ o.host = "element" => o.autoStart}

Init ==
    /\ opts \in Options
    /\ mounted = "no" /\ used = 0 /\ pending = {} /\ aborted = {} /\ ctrl = 0
    /\ live = {} /\ shown = 0 /\ status = "idle" /\ raced = FALSE

Is(host, source) == opts.host = host /\ opts.source = source

-----------------------------------------------------------------------------
\* request(): the state is rendered, the browser asks the user.
Ask ==
    /\ used < MaxRequests /\ used' = used + 1
    /\ pending' = pending \cup {used + 1}
    /\ status' = "requesting"

\* The tracks of the current stream stop.
Release == live' = live \ {shown} /\ shown' = 0

\* stop() of the hooks.
Stop == Release /\ status' = "idle"

Abort == aborted' = aborted \cup ({ctrl} \ {0})

\* The effect, the setup function, connectedCallback: a request of their own.
Starts ==
    /\ Ask /\ ctrl' = used + 1 /\ mounted' = "yes"
    /\ UNCHANGED <<opts, aborted, live, shown, raced>>

\* Mounted without autoStart.
Waits ==
    /\ mounted = "no" /\ used = 0 /\ mounted' = "yes"
    /\ UNCHANGED <<opts, used, pending, aborted, ctrl, live, shown, status, raced>>

\* ... and, in React, unmounted without a cleanup.
Vanishes ==
    /\ mounted' = "gone" /\ shown' = 0
    /\ raced' = (raced \/ live # {} \/ pending # {})
    /\ UNCHANGED <<opts, used, pending, aborted, ctrl, live, status>>

-----------------------------------------------------------------------------
\* React.

StrictMode == mounted = "no" /\ used <= 1

ReactMounts == StrictMode /\ Starts

ReactUnmounts ==
    /\ mounted = "yes" /\ mounted' = IF used = 1 THEN "no" ELSE "gone"
    /\ Abort /\ Release
    /\ raced' = (raced \/ pending \ (aborted \cup {ctrl}) # {})
    /\ UNCHANGED <<opts, used, pending, ctrl, status>>

\* refresh() has a controller that nobody else sees.
ReactRefreshes ==
    /\ mounted = "yes" /\ Release /\ Ask
    /\ raced' = (raced \/ pending \ aborted # {})
    /\ UNCHANGED <<opts, mounted, aborted, ctrl>>

ReactUserMediaMounts    == Is("react", "user") /\ ReactMounts
ReactUserMediaUnmounts  == Is("react", "user") /\ ReactUnmounts
ReactUserMediaRefreshes == Is("react", "user") /\ ReactRefreshes

ReactDisplayMediaMounts ==
    Is("react", "display") /\ IF opts.autoStart THEN ReactMounts ELSE Waits
ReactDisplayMediaUnmounts ==
    /\ Is("react", "display") /\ mounted = "yes"
    /\ IF opts.autoStart THEN ReactUnmounts ELSE Vanishes
ReactDisplayMediaRefreshes == Is("react", "display") /\ ReactRefreshes

-----------------------------------------------------------------------------
\* Vue: the last request's controller is held.

LastKept == aborted                 \* bug: refresh() leaves the last request alone
LastAborted == aborted \cup ({ctrl} \ {0})

VueRefreshes ==
    /\ mounted = "yes" /\ aborted' = LastAborted
    /\ Release /\ Ask /\ ctrl' = used + 1
    /\ UNCHANGED <<opts, mounted, raced>>

VueDisposes ==
    /\ mounted = "yes" /\ mounted' = "gone"
    /\ Abort /\ Stop
    /\ UNCHANGED <<opts, used, pending, ctrl, raced>>

VueUserMediaSetup     == Is("vue", "user") /\ mounted = "no" /\ Starts
VueUserMediaDisposes  == Is("vue", "user") /\ VueDisposes
VueUserMediaRefreshes == Is("vue", "user") /\ VueRefreshes

VueDisplayMediaSetup ==
    Is("vue", "display") /\ mounted = "no" /\ IF opts.autoStart THEN Starts ELSE Waits
VueDisplayMediaDisposes  == Is("vue", "display") /\ VueDisposes
VueDisplayMediaRefreshes == Is("vue", "display") /\ VueRefreshes

\* stop() returned by the hooks; it aborts nothing.
UserStops ==
    /\ opts.host # "element" /\ mounted = "yes" /\ Stop
    /\ UNCHANGED <<opts, mounted, used, pending, aborted, ctrl, raced>>

-----------------------------------------------------------------------------
\* <forinda-video-publisher>; it renders no state.

ElementConnected ==
    opts.host = "element" /\ mounted = "no" /\ Starts

\* teardown().
ElementDisconnected ==
    /\ opts.host = "element" /\ mounted = "yes" /\ mounted' = "no"
    /\ Abort /\ Release /\ ctrl' = 0
    /\ UNCHANGED <<opts, used, pending, status, raced>>

-----------------------------------------------------------------------------
\* The user answers.

AbortUnseen(r) == FALSE             \* bug: the signal is not looked at after the await
Discarded(r) == r \in aborted

\* A stream that nobody waits for is stopped at once; one that is rendered replaces what
\* was rendered.
Granted(r) ==
    /\ r \in pending /\ pending' = pending \ {r}
    /\ live' = IF Discarded(r) THEN live ELSE live \cup {r}
    /\ IF Discarded(r) \/ mounted # "yes" THEN UNCHANGED <<shown, status>>
       ELSE shown' = r /\ status' = "granted"
    /\ UNCHANGED <<opts, mounted, used, aborted, ctrl, raced>>

Rejected(r) ==
    /\ r \in pending /\ pending' = pending \ {r}
    /\ status' = IF Discarded(r) \/ mounted # "yes" THEN status ELSE "denied"
    /\ UNCHANGED <<opts, mounted, used, aborted, ctrl, live, shown, raced>>

Refused(r)        == opts.source = "user" /\ Rejected(r)
SharingRefused(r) == opts.source = "display" /\ Rejected(r)

\* The browser's own "Stop sharing"; the hooks listen, the element does not.
SharingEnds(r) ==
    /\ opts.source = "display" /\ r \in live /\ live' = live \ {r}
    /\ IF opts.host = "element" \/ r \in aborted \/ mounted # "yes" THEN UNCHANGED <<shown, status>>
       ELSE shown' = 0 /\ status' = "ended"
    /\ UNCHANGED <<opts, mounted, used, pending, aborted, ctrl, raced>>

Next ==
    \/ ReactUserMediaMounts \/ ReactUserMediaUnmounts \/ ReactUserMediaRefreshes
    \/ ReactDisplayMediaMounts \/ ReactDisplayMediaUnmounts \/ ReactDisplayMediaRefreshes
    \/ VueUserMediaSetup \/ VueUserMediaDisposes \/ VueUserMediaRefreshes
    \/ VueDisplayMediaSetup \/ VueDisplayMediaDisposes \/ VueDisplayMediaRefreshes
    \/ UserStops \/ ElementConnected \/ ElementDisconnected
    \/ \E r \in Requests : Granted(r) \/ Refused(r) \/ SharingRefused(r) \/ SharingEnds(r)

Spec == Init /\ [][Next]_vars

-----------------------------------------------------------------------------
\* Camera and screen are released: whatever requests overlap with refresh(), stop() and
\* unmounting, the one live stream is the one rendered, and nothing is live once the
\* owner is gone.  Not so in React when refresh() or an unmount overtakes a request that
\* no controller can abort, nor when a screen share that was not autostarted unmounts.
LiveIsShown == ~raced => live \subseteq {shown}

\* The state rendered is true of the stream rendered.
GrantedMeansShown ==
    ~raced /\ opts.host # "element" /\ mounted = "yes" => (status = "granted" <=> shown # 0)
=============================================================================

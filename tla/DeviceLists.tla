---------------------------- MODULE DeviceLists ----------------------------
(***************************************************************************)
(* watchDevices and its users: useDevices of React and Vue, and            *)
(* <forinda-video-device-picker>.  Every devicechange asks the browser for *)
(* the devices again; the answers are rendered in the order they come.     *)
(*                                                                         *)
(* External: the browser reads the devices at some time after it is asked, *)
(* and answers later, in any order.  Devices are numbered in its order.    *)
(***************************************************************************)
EXTENDS Naturals, FiniteSetsExt

CONSTANTS
    Cameras, Speakers,  \* the devices there may be, numbers
    MaxAsks             \* bound: enumerateDevices() called

Asks == 1..MaxAsks
Devices == Cameras \cup Speakers

VARIABLES
    host,               \* environment: "react", "vue" or "element"
    plugged,            \* the devices there are
    mounted, watcher,   \* "no", "yes", "gone"; how often it was mounted
    asked,              \* calls made
    call,               \* each call: [at, watcher, list]; watcher 0 is refresh()
    list,               \* rendered: the devices of each kind
    value,              \* of the picker, or 0
    picked,             \* history: the user's pick, while no list without it is rendered
    unset,              \* history: since the last list, `value` was set to no listed device
    newest,             \* history: the newest call settled
    overtaken           \* history: it has failed, or an older one was answered after it

vars == <<host, plugged, mounted, watcher, asked, call, list, value, picked, unset, newest,
          overtaken>>

NoCall == [at |-> "none", watcher |-> 0, list |-> {}]

\* groupDevices()
Grouped(devices) == [camera |-> devices \cap Cameras, speaker |-> devices \cap Speakers]

\* pickList(), of kind="camera".
PickList(groups) == groups.camera

Init ==
    /\ host \in {"react", "vue", "element"}
    /\ plugged \in SUBSET Devices
    /\ mounted = "no" /\ watcher = 0 /\ asked = 0 /\ call = [n \in Asks |-> NoCall]
    /\ list = Grouped({}) /\ value = 0 /\ picked = 0 /\ unset = FALSE
    /\ newest = 0 /\ overtaken = FALSE

-----------------------------------------------------------------------------
Ask(w) ==
    /\ asked < MaxAsks /\ asked' = asked + 1
    /\ call' = [call EXCEPT ![asked + 1] = [at |-> "asked", watcher |-> w, list |-> {}]]

\* watchDevices(): listen, and ask at once.  React's StrictMode mounts twice, an element is
\* moved at will.
Watches ==
    /\ mounted = "no" /\ mounted' = "yes" /\ watcher' = watcher + 1
    /\ Ask(watcher + 1)
    /\ UNCHANGED <<host, plugged, list, value, picked, unset, newest, overtaken>>

ReactMounts   == host = "react" /\ watcher < 2 /\ Watches
VueSetup      == host = "vue" /\ Watches
PickerAttached == host = "element" /\ Watches

\* The watcher is cancelled, the list stays.
Cancels(next) ==
    /\ mounted = "yes" /\ mounted' = next
    /\ UNCHANGED <<host, plugged, watcher, asked, call, list, value, picked, unset, newest,
                   overtaken>>

ReactUnmounts  == host = "react" /\ Cancels(IF watcher = 1 THEN "no" ELSE "gone")
VueDisposes    == host = "vue" /\ Cancels("gone")
PickerDetached == host = "element" /\ Cancels("no")

\* devicechange
Plugs(d) ==
    /\ plugged' = (plugged \ {d}) \cup ({d} \ plugged)
    /\ IF mounted = "yes" THEN Ask(watcher) ELSE UNCHANGED <<asked, call>>
    /\ UNCHANGED <<host, mounted, watcher, list, value, picked, unset, newest, overtaken>>

\* refresh(), which no unmount cancels.
ReactRefreshes ==
    /\ host = "react" /\ mounted = "yes" /\ Ask(0)
    /\ UNCHANGED <<host, plugged, mounted, watcher, list, value, picked, unset, newest, overtaken>>
VueRefreshes ==
    /\ host = "vue" /\ mounted = "yes" /\ Ask(0)
    /\ UNCHANGED <<host, plugged, mounted, watcher, list, value, picked, unset, newest, overtaken>>

Reads(n) ==
    /\ call[n].at = "asked"
    /\ call' = [call EXCEPT ![n].at = "read", ![n].list = plugged]
    /\ UNCHANGED <<host, plugged, mounted, watcher, asked, list, value, picked, unset, newest,
                   overtaken>>

-----------------------------------------------------------------------------
\* The answer is rendered, unless its watcher was cancelled.

FirstAlways(devices) == IF devices = {} THEN 0 ELSE Min(devices)
                                    \* bug: every list resets the selection
\* The picker keeps its selection, or takes the first device.
Selected(devices) == IF value \in devices THEN value ELSE IF devices = {} THEN 0 ELSE Min(devices)

Cancelled(n) == IF call[n].watcher = 0 THEN mounted = "gone" /\ host = "react"
                ELSE mounted # "yes" \/ call[n].watcher # watcher

Answered(n) ==
    /\ call[n].at = "read" /\ call' = [call EXCEPT ![n] = NoCall]
    /\ IF Cancelled(n) THEN UNCHANGED <<list, value, picked, unset, newest, overtaken>>
       ELSE LET devices == PickList(Grouped(call[n].list)) IN
            /\ list' = Grouped(call[n].list)
            /\ value' = IF host = "element" THEN Selected(devices) ELSE 0
            /\ picked' = IF picked \in devices THEN picked ELSE 0
            /\ unset' = FALSE
            /\ newest' = Max({newest, n}) /\ overtaken' = (n < newest)
    /\ UNCHANGED <<host, plugged, mounted, watcher, asked>>

\* enumerateDevices() fails: the hooks catch it, the watcher's caller does not hear of it;
\* the list stays and nobody asks again.
Rejected(n) ==
    /\ call[n].at # "none" /\ call' = [call EXCEPT ![n] = NoCall]
    /\ IF Cancelled(n) THEN UNCHANGED <<newest, overtaken>>
       ELSE newest' = Max({newest, n}) /\ overtaken' = (overtaken \/ n > newest)
    /\ UNCHANGED <<host, plugged, mounted, watcher, asked, list, value, picked, unset>>

\* The user picks, or the application sets `value`, to a device of the list.
Picks(d) ==
    /\ host = "element" /\ d \in PickList(list) /\ d # picked
    /\ value' = d /\ picked' = d /\ unset' = FALSE
    /\ UNCHANGED <<host, plugged, mounted, watcher, asked, call, list, newest, overtaken>>

\* The application sets `value` to anything else: the <select> has no such option.
SetsUnlisted ==
    /\ host = "element" /\ ~unset
    /\ value' = 0 /\ picked' = 0 /\ unset' = TRUE
    /\ UNCHANGED <<host, plugged, mounted, watcher, asked, call, list, newest, overtaken>>

Next ==
    \/ ReactMounts \/ ReactUnmounts \/ ReactRefreshes
    \/ VueSetup \/ VueDisposes \/ VueRefreshes \/ PickerAttached \/ PickerDetached
    \/ \E d \in Devices : Plugs(d) \/ Picks(d)
    \/ SetsUnlisted
    \/ \E n \in Asks : Reads(n) \/ Answered(n) \/ Rejected(n)

Spec == Init /\ [][Next]_vars

-----------------------------------------------------------------------------
\* The list rendered is that of the devices there are once every call is settled, through
\* plugging, remounting and refreshing; not so when the newest call has failed, or an older
\* one was answered after it.
ListIsTrue ==
    mounted = "yes" /\ ~overtaken /\ (\A n \in Asks : call[n] = NoCall) => list = Grouped(plugged)

\* The picker's value is of its list, it has one if the list is not empty and nobody has
\* set it to something else since, and the user's pick stays as long as it is listed.
SelectionStays ==
    host = "element" => /\ value # 0 => value \in PickList(list)
                        /\ value = 0 => PickList(list) = {} \/ unset
                        /\ picked # 0 => value = picked
=============================================================================

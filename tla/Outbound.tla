------------------------------ MODULE Outbound ------------------------------
(***************************************************************************)
(* replaceVideoTrack() of a Publisher, which awaits one viewer's sender    *)
(* after the other while viewers come and go and other calls run.          *)
(* replaceAudioTrack() is the same over senders of its own.                *)
(*                                                                         *)
(* A connection is one entry of `viewers`, numbered in the order of        *)
(* creation, which is that of the Map.  Mesh has how they come and go.     *)
(* External: a sender's replaceTrack() calls take effect in the order they *)
(* were made, and may be rejected.                                         *)
(***************************************************************************)
EXTENDS Naturals, Sequences, FiniteSets, FiniteSetsExt

CONSTANTS
    MaxConnections,     \* bound: connections made
    MaxCalls            \* bound: replaceVideoTrack() called

Connections == 1..MaxConnections
Calls == 1..MaxCalls

VARIABLES
    made, entries,      \* connections made; those there are
    sends,              \* the track each sender sends: its call, or 0 for the stream's own
    swaps,              \* per sender: the calls whose replaceTrack() is to take effect
    called, loop,       \* calls made; each call: the entry it awaits, or 0
    began,              \* history: connections made when the last call began
    broken              \* history: a replacement was rejected, or its viewer left

vars == <<made, entries, sends, swaps, called, loop, began, broken>>

Init ==
    /\ made = 0 /\ entries = {}
    /\ sends = [e \in Connections |-> 0] /\ swaps = [e \in Connections |-> <<>>]
    /\ called = 0 /\ loop = [c \in Calls |-> 0]
    /\ began = 0 /\ broken = FALSE

-----------------------------------------------------------------------------
\* A new viewer is sent the tracks of the stream the publisher was made with.
ViewerJoins ==
    /\ made < MaxConnections /\ made' = made + 1
    /\ entries' = entries \cup {made + 1}
    /\ UNCHANGED <<sends, swaps, called, loop, began, broken>>

\* teardownViewer()
ViewerGoes(e) ==
    /\ e \in entries /\ entries' = entries \ {e}
    /\ broken' = (broken \/ swaps[e] # <<>>)
    /\ UNCHANGED <<made, sends, swaps, called, loop, began>>

-----------------------------------------------------------------------------
\* replaceVideoTrack(): one viewer after the other, as the Map has them by then.

OnlyFirst(e) == 0                   \* bug: the loop is left after the first viewer
NextEntry(e) == LET later == {d \in entries : d > e} IN IF later = {} THEN 0 ELSE Min(later)

Replace ==
    /\ entries # {} /\ called < MaxCalls /\ called' = called + 1
    /\ began' = made
    /\ LET e == Min(entries) IN
       /\ loop' = [loop EXCEPT ![called + 1] = e]
       /\ swaps' = [swaps EXCEPT ![e] = Append(@, called + 1)]
    /\ UNCHANGED <<made, entries, sends, broken>>

\* replaceTrack() has taken effect: on to the next viewer.
Replaced(e) ==
    /\ e \in entries /\ swaps[e] # <<>>
    /\ LET c == Head(swaps[e])
           next == NextEntry(e)
           rest == [swaps EXCEPT ![e] = Tail(@)]
       IN /\ sends' = [sends EXCEPT ![e] = c]
          /\ loop' = [loop EXCEPT ![c] = next]
          /\ swaps' = IF next = 0 THEN rest ELSE [rest EXCEPT ![next] = Append(@, c)]
    /\ UNCHANGED <<made, entries, called, began, broken>>

\* Rejected, and the call with it; or never settled, if the viewer has left.
ReplaceRejected(e) ==
    /\ swaps[e] # <<>> /\ swaps' = [swaps EXCEPT ![e] = Tail(@)]
    /\ loop' = [loop EXCEPT ![Head(swaps[e])] = 0]
    /\ broken' = TRUE
    /\ UNCHANGED <<made, entries, sends, called, began>>

Next ==
    \/ ViewerJoins \/ Replace
    \/ \E e \in Connections : ViewerGoes(e) \/ Replaced(e) \/ ReplaceRejected(e)

Spec == Init /\ [][Next]_vars

-----------------------------------------------------------------------------
\* Once every call is through, all viewers that were there when the last one began send its
\* track, however calls overlap and viewers come and go; not so if one was rejected, or
\* awaited a viewer that left (the viewers behind it are never reached).
SwapsReachAll ==
    ~broken /\ (\A c \in Calls : loop[c] = 0) =>
      \A e \in entries : e <= began => sends[e] = called
=============================================================================

------------------------------ MODULE Emitter ------------------------------
(***************************************************************************)
(* `Emitter` of packages/core: the synchronous events under every class    *)
(* of the SDK, here one event of one emitter.  A listener runs inside      *)
(* emit() and may itself subscribe, unsubscribe and emit again: a step is  *)
(* the call of one listener, or one call that the running listener (or,    *)
(* when no emit() runs, the application) makes.  A listener that throws is *)
(* one that has finished.  Listeners are numbered as they are added, so    *)
(* the insertion order of the event's Set is that of the numbers.          *)
(***************************************************************************)
EXTENDS Naturals, Sequences, SequencesExt

CONSTANTS
    MaxListeners,       \* bound: on() and once() called
    MaxEmits            \* bound: emit() called

Listeners == 1..MaxListeners
Emits == 1..MaxEmits

VARIABLES
    bucket,     \* the event's listeners
    made, single,   \* listeners made, each by one call; those made by once()
    stack,      \* the emissions that run, innermost last: [n, rest] of its snapshot
    emitted,    \* emit() called
    told,       \* history: the emissions each listener was told of, in order
    stayed,     \* history: of each emission, who was subscribed from its beginning on
    nested      \* history: an emission began within another

vars == <<bucket, made, single, stack, emitted, told, stayed, nested>>

Init ==
    /\ bucket = {} /\ made = 0 /\ single = {} /\ stack = <<>> /\ emitted = 0
    /\ told = [l \in Listeners |-> <<>>] /\ stayed = [n \in Emits |-> {}] /\ nested = FALSE

Added ==
    /\ made < MaxListeners /\ made' = made + 1
    /\ bucket' = bucket \cup {made + 1}
    /\ UNCHANGED <<stack, emitted, told, stayed, nested>>

On   == Added /\ UNCHANGED single
Once == Added /\ single' = single \cup {made + 1}

Removed(l) ==
    /\ bucket' = bucket \ {l}
    /\ stayed' = [n \in Emits |-> stayed[n] \ {l}]

Off(l) ==
    /\ l \in bucket /\ Removed(l)
    /\ UNCHANGED <<made, single, stack, emitted, told, nested>>

RemoveAllListeners ==
    /\ bucket # {} /\ bucket' = {} /\ stayed' = [n \in Emits |-> {}]
    /\ UNCHANGED <<made, single, stack, emitted, told, nested>>

\* emit() takes a snapshot of the listeners; without any it returns at once.
Emit ==
    /\ emitted < MaxEmits /\ bucket # {} /\ emitted' = emitted + 1
    /\ stack' = Append(stack, [n |-> emitted + 1, rest |-> bucket])
    /\ stayed' = [stayed EXCEPT ![emitted + 1] = bucket]
    /\ nested' = (nested \/ stack # <<>>)
    /\ UNCHANGED <<bucket, made, single, told>>

StaysSubscribed(l) == UNCHANGED <<bucket, stayed>>     \* bug: once() does not unsubscribe
FirstCall(l) == IF l \in single THEN Removed(l) ELSE UNCHANGED <<bucket, stayed>>

\* The one that was added first.
First(listeners) == CHOOSE l \in listeners : \A k \in listeners : l <= k

\* The next listener of the innermost emission; one of once() unsubscribes first.
Calls ==
    /\ stack # <<>> /\ Last(stack).rest # {}
    /\ LET frame == Last(stack)
           l == First(frame.rest)
       IN /\ stack' = [stack EXCEPT ![Len(stack)].rest = @ \ {l}]
          /\ told' = [told EXCEPT ![l] = Append(@, frame.n)]
          /\ FirstCall(l)
    /\ UNCHANGED <<made, single, emitted, nested>>

Returns ==
    /\ stack # <<>> /\ Last(stack).rest = {}
    /\ stack' = Front(stack)
    /\ UNCHANGED <<bucket, made, single, emitted, told, stayed, nested>>

Next == On \/ Once \/ Emit \/ Calls \/ Returns \/ RemoveAllListeners \/ \E l \in Listeners : Off(l)

Spec == Init /\ [][Next]_vars

-----------------------------------------------------------------------------
Running == {stack[i].n : i \in DOMAIN stack}

\* Whatever listeners do to the emitter while they are told, each is told of an emission at
\* most once, and, when emit() has returned, has been if it was subscribed throughout; one
\* of once() is told once, unless an emission began within another (the outer snapshot
\* still holds it).
ToldOnce ==
    \A l \in Listeners :
      /\ IsInjective(told[l])
      /\ \A n \in 1..emitted : n \notin Running /\ l \in stayed[n] => n \in ToSet(told[l])
      /\ l \in single /\ ~nested => Len(told[l]) <= 1
=============================================================================

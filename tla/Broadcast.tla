----------------------------- MODULE Broadcast -----------------------------
(***************************************************************************)
(* `BroadcastSignaling`: a SignalingTransport over the browser's           *)
(* BroadcastChannel, without a server.  External: a BroadcastChannel       *)
(* delivers what is posted to every other one of that name that is open,   *)
(* by a task of its own, in order; nothing is delivered to a closed one.   *)
(***************************************************************************)
EXTENDS Naturals, Sequences, SequencesExt

CONSTANTS
    Clients,            \* the transports
    MaxPosts,           \* bound: messages sent
    MaxConnects         \* bound: connect() called when it is not connected

VARIABLES
    state,              \* _state
    channel,            \* the client's open BroadcastChannels, of which `bc` is the newest
    made,               \* BroadcastChannels the client made
    tasks,              \* messages on their way: [to, channel, post]
    posts,              \* messages sent
    received,           \* history: what each client's handlers were told
    reached             \* history: the messages sent while it was connected and has been since

vars == <<state, channel, made, tasks, posts, received, reached>>

Init ==
    /\ state = [c \in Clients |-> "idle"] /\ channel = [c \in Clients |-> {}]
    /\ made = [c \in Clients |-> 0] /\ tasks = <<>> /\ posts = 0
    /\ received = [c \in Clients |-> <<>>] /\ reached = [c \in Clients |-> {}]

\* connect(), again after disconnect() as well.
Connect(c) ==
    /\ state[c] # "connected" /\ made[c] < MaxConnects
    /\ state' = [state EXCEPT ![c] = "connected"]
    /\ made' = [made EXCEPT ![c] = @ + 1] /\ channel' = [channel EXCEPT ![c] = @ \cup {made[c] + 1}]
    /\ UNCHANGED <<tasks, posts, received, reached>>

NotClosed(c) == channel             \* bug: the channel is left open
Closed(c) == [channel EXCEPT ![c] = {}]

Disconnect(c) ==
    /\ state[c] # "closed" /\ state' = [state EXCEPT ![c] = "closed"]
    /\ channel' = Closed(c)
    /\ reached' = [reached EXCEPT ![c] = {}]
    /\ UNCHANGED <<made, tasks, posts, received>>

\* The open channels but the one posted to.
Others(c) == (UNION {{[to |-> d, channel |-> n] : n \in channel[d]} : d \in Clients})
                \ {[to |-> c, channel |-> made[c]]}

\* send(); it rejects without a connection.
Send(c) ==
    /\ state[c] = "connected" /\ posts < MaxPosts /\ posts' = posts + 1
    /\ LET to == SetToSeq(Others(c)) IN
       tasks' = tasks \o [i \in DOMAIN to |-> [to |-> to[i].to, channel |-> to[i].channel,
                                              post |-> posts + 1]]
    /\ reached' = [d \in Clients |-> IF d # c /\ state[d] = "connected" THEN reached[d] \cup {posts + 1}
                                    ELSE reached[d]]
    /\ UNCHANGED <<state, channel, made, received>>

\* onChannelMessage, if that channel is still open.
OnChannelMessage ==
    /\ tasks # <<>> /\ tasks' = Tail(tasks)
    /\ LET task == Head(tasks) IN
       received' = IF task.channel \in channel[task.to]
                   THEN [received EXCEPT ![task.to] = Append(@, task.post)] ELSE received
    /\ UNCHANGED <<state, channel, made, posts, reached>>

Next == OnChannelMessage \/ \E c \in Clients : Connect(c) \/ Disconnect(c) \/ Send(c)

Spec == Init /\ [][Next]_vars

-----------------------------------------------------------------------------
\* Each client has every message at most once and in order, through disconnect() and
\* connect(), and none is lost to a client that stayed connected (onChannelMessage, connect,
\* disconnect).
ReceivedOnce ==
    /\ \A c \in Clients : \A i, j \in DOMAIN received[c] : i < j => received[c][i] < received[c][j]
    /\ tasks = <<>> => \A c \in Clients : reached[c] \subseteq ToSet(received[c])
=============================================================================

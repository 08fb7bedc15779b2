# Verification of the Forinda RTC SDK

TLA+ models of the SDK in `packages/`, checked with TLC; every safety property that a
passing run checks is also proved with TLAPS, for all values of the constants.
`PROJECT.json` lists the runs, the source lines every definition models, the hazards the
properties are for, and the mutants that show each property can fail.

## 1. The system

A publisher sends media to viewers over WebRTC. Both find each other through a
signaling server that keeps rooms; presence, chat and moderation use the same
connection. Everything is single-threaded JavaScript: a handler runs until it
returns or reaches an `await`, so the steps of the models are handlers, cut at
their awaits, and the interleavings are those of handlers, messages, socket
events, timers and answers of callbacks.

| Part (package) | State | Operations | Hard behaviour |
|---|---|---|---|
| Signaling engine: `Session`, `Room`, `TokenBucket` (`signaling-protocol`) | sockets and their binding, rooms with entries, directors, presence, chat buffer; `peerIndex`; buckets | connection, message (12 kinds), disconnect | `await authenticate` in the middle of a join; two sockets with one identity; a late close of an old socket; four ways out of a room; limits |
| Server adapters (`signaling-adapter-ws`, `-express`) | `socketToWs`, `peerToSocket` | connection, message, close | the route is learned before the session accepts the join |
| WebSocket transport (`signaling-ws`) | state, socket, listeners, reconnect timer, heartbeat, outbound queue | connect, disconnect, send, socket events, timers | reconnect, `await auth()`, queue across reconnects, overlapping attempts, state listeners that call the transport before its handler goes on |
| Broadcast transport (`signaling-broadcast`) | state, channel | connect, disconnect, send | a message that is still queued when the channel closes |
| `Emitter` (`core`) | the listeners of each event | on, once, off, emit, removeAllListeners | listeners that subscribe, unsubscribe and emit while they are told |
| Media and devices (`core`, hooks, elements) | stream and status rendered, the abort controller, the list of devices | request, refresh, stop, devicechange | the user answers a prompt after the component asked again or is gone |
| Track replacement (`core`) | senders, the loop over them | replaceVideoTrack | viewers that come and go while they are awaited, calls that overlap |
| Connection statistics (`core`, hooks) | collectors, what is rendered | getStats, polls | late answers (not modelled) |
| `StateMachine`, `RetryPolicy` (`core`) | one of six states; attempts, first and last attempt time | transition; nextDelayMs, markSuccess | forbidden transitions are silently refused; when the budget resets |
| `Publisher`, `Viewer`, `Negotiator` (`core`) | lifecycle, one peer connection per viewer, retry timer | start, stop, messages, connection states | retries on top of the transport's own reconnect, stop during start, rejoin before peer-left, crossing offers |
| `Room` leader (`core`) | state, role joined, in-flight promises, director set | ensureConnected, ensureJoined, close | one join shared by several children; close during connect |
| `RoomChannel` (`core`) | state, presence map, chat buffer, pending chats with timers, own attribute keys, retry timer | start, stop, setAttribute, sendChat, messages, retries | echo against ack timeout, resynchronisation after a drop |
| `Recorder`, `Uploader`, pipe (`core`) | recorder state, chunks; queue, in-flight upload, state | start, stop, pause, resume, chunk, upload answers, retry, close | backpressure, bounded buffers, close or retry during an upload |
| SFU publisher and viewer (`sfu-livekit`) | state, room, publications, subscribed tracks | start, stop, replaceVideoTrack, room events | stop during start, overlapping replacements, failures half-way |
| React, Vue, web components | component state, one object per mount | mount, unmount, start, stop, events | StrictMode's second mount while the first object stops, effects that run again around a recorder at work, elements that move, uploaders that come and go |

Interactions: a client's transport carries JSON messages to an adapter, which
hands them to the session; the session answers through `onSend`, which the
adapter routes by peer id. Publisher, viewer and channel subscribe to one
transport; attached to a `Room` they share one join. The recorder's events feed
the uploader and the uploader's states pause the recorder.

What makes each part correct:

* engine: rooms never exceed their capacity, directors are members and are
  appointed only by the rules, empty rooms vanish, clients can rebuild the room
  from what they were told, messages reach exactly the members, history is the
  most recent chats;
* adapter: routes point at open sockets, members are reached;
* transport: one attempt at a time, every message once and in order, a dropped
  connection comes back, nothing is retried after `disconnect()`;
* publisher and viewer: a session that can recover does, one connection per
  viewer, stop is final, retries are bounded;
* channel: a chat has one entry with one final status, presence converges to the
  server's;
* room leader: one join however many children start, a start that returned means
  joined, what is rendered is what the server holds, every start settles;
* components: what is rendered is so, what is unmounted leaves nothing behind
  (member, live track, SFU room, MediaRecorder), what stays mounted gets into the
  room, replaced tracks are replaced everywhere, nothing is delivered twice;
* recording: chunks are uploaded in order, none lost silently, limits hold, a
  failed upload pauses and a recovered one resumes.

## 2. Modules

| Module | Models |
|---|---|
| `Session` | `session.ts`, `rooms.ts`, `rate-limit.ts`: state, one action per handler |
| `ModeratedRooms` | abstract specification of the engine: members and directors of each room |
| `SessionProperties` | what the engine promises; `ModeratedRooms` with `members` read off the entries |
| `SignalingServer` | the ws adapter (`adapter.ts`) composed with `Session` |
| `SessionProofs` | the theorems about the engine (its rooms and directors, what its clients are told and sent) and about the adapter's routes |
| `WsTransport` | `signaling-ws/src/transport.ts` |
| `WsTransportProofs` | the theorems about the transport |
| `Recording` | `recorder.ts`, `uploader.ts`, `pipe.ts` of `core/src/recording`, over the browser's MediaRecorder |
| `RecordingProofs` | the theorems about `Recording` |
| `RoomChannel` | `core/src/room/room-channel.ts`, standalone (`manageJoin`), over a transport and a server reduced to what the channel can tell |
| `RoomChannelProofs` | the theorems about the channel |
| `Mesh` | `publisher.ts`, `viewer.ts`, `negotiation.ts`, `connection-state.ts`, `retry/policy.ts` of `core`: a publisher and its viewers, composed over a transport and a server reduced to what they can tell |
| `MeshProofs` | the theorems about publisher and viewers |
| `RoomLeader` | `core/src/room/room.ts` with the starts of attached publishers, viewers and channels, and what `useRoom` renders |
| `RoomLeaderProofs` | the theorems about `RoomLeader` |
| `SessionHost` | the bindings that own a publisher, a viewer or a channel: `usePublisher`, `useViewer`, `useRoomChannel` of React and Vue, `video-viewer.ts` |
| `Capture` | `useUserMedia`, `useDisplayMedia`, the captures of `video-publisher.ts` |
| `SfuSession` | `sfu-livekit/src/publisher.ts`, `viewer.ts` and their hooks, over LiveKit's room |
| `RecorderHost` | `useRecorder`, `useUploader`, `<forinda-recorder>`, `<forinda-uploader>` around `Recorder` and its pipes |
| `RoomViews` | `usePresence`, `useChat`, `useRaiseHand`; `definePresenceDiff` |
| `DeviceLists` | `watchDevices`, `useDevices`, `<forinda-video-device-picker>` |
| `Outbound` | `replaceVideoTrack()` of the publisher: the loop over its viewers' senders |
| `Emitter` | `core/src/events/emitter.ts` |
| `Broadcast` | `signaling-broadcast/src/transport.ts` |
| `MCSession`, `MCServer`, `MCWs`, `MCRecording`, `MCChannel`, `MCMesh`, `MCRoom` | small instances for TLC |
| `MCPage` | the nine modules from `SessionHost` to `Broadcast`, side by side: one instance of each, of which a behaviour takes one |
| `BindingProofs` | the inductive invariants of `SessionHost`, `Capture`, `DeviceLists` and `RoomViews` |
| `PageProofs` | those of the other parts of a page, and the theorems about all of them |

### Session

Variables follow the code: `rooms` is the key set of `roomMap`, `peerMap`,
`directors`, `presence`, `chat` are the fields of each `Room`, `bound` the
`peerId`/`roomId` of a socket record, `peerIndex` and `buckets` the maps of the
same name, `pending` the joins suspended at `await this.authenticate`. A join
with an authenticator is `RequestJoin` and, later, `ResolveJoin` or `RejectJoin`,
with anything in between; without one it is `ApplyJoin`, one step. A handler that
throws before changing state is not a step. `RemovePeer` is the part that leave,
disconnect and kick share.

Deliveries are modelled by what they tell the addressee: `view[q]` is the set of
peers `q` was told of by `peer-joined`/`peer-left`, the presence it was sent and
the history replayed to it, since its last accepted join. `said` counts the
chats of a room, so that "most recent" can be stated. sdp, ice and set-bitrate
change nothing; `Routable` is the set of peers they can reach.

Sockets are never reused (their ids are uuids). `Claims[s]` says which (peer,
room) pairs socket `s` puts in its messages: it is how an instance decides
whether peers share identities, switch rooms or open two tabs.

### SignalingServer

Adds `peerToSocket` and binds each of its updates to the session's step that
runs in the same callback: `OnJoin` routes first and then joins, waits or is
refused; `OnClose` drops the routes and disconnects.

### WsTransport

A socket is opening, open or closing until its close event. `auths` counts
`openSocket()` calls suspended at `await auth()`, `timer` is the retry whose handle
`reconnectTimer` holds, `strays` the timers whose handle was overwritten. `opts`
holds the transport's options and the application's use of `connect()`; it is
chosen in `Init` and never changes, so one run covers all of them. `Attempts`
(sockets, suspended authentications, timers, methods about to make one) grows only in
`Connect`, which is where it is bounded.

`transitionTo` calls its listeners before the rest of the method that changes the state, and
a listener may call `connect()`, `disconnect()` and `send()`. So `connect()`, `onOpen` and
`onClose` are two steps each: up to their listeners, which pushes the method on the stack
`within`, and from there (`ConnectEnds`, `OpenEnds`, `CloseEnds`). While the stack is not
empty only the application's calls and those ends can happen: socket events, timers and
promises wait for the JavaScript stack. `opts.beats` is a positive `heartbeatIntervalMs`.
Two history variables mark what a listener did there: `interrupted`, the methods whose
listeners called `disconnect()`, and `hasty`, the messages sent before `onOpen` flushed the
queue.

### Recording

`recorder` is `recorderState`, `native` the MediaRecorder's own state, `events` the tasks
the browser has queued: methods act on `native` at once, the recorder hears of it in order
and later. `up`, `queue`, `queuedBytes` are the uploader's fields and `flying` the entry its
suspended `pump()` holds, or none when `inFlight` is false. Listeners run inside the step
that emits, so a `DataAvailable` step goes through the pipe into `send()` and up to `fetch`,
and a `FetchFails` step pauses the recorder. `stopResolver` is the number of the `stop()`
whose promise the one slot holds: a later `stop()` takes it, and the promise of the earlier
one is never resolved. `eager` is the application that calls `retry()` inside the uploader's
own `failed` or `error` listener. The variables under "history" are not in the code: they
say what became of each chunk and who paused.

### RoomChannel

`chan` is `_state`; `starting` and `attempting` are `start()` and `attemptReconnect()`
suspended at `await connect()`; `timers` the keys of `chatAckTimers`; `status` the
status of the entries this channel made, so that `pendingChats` is the set of
pending ones. `buffer` marks the entries made on receipt. The transport is `tstate`
and the socket under it (`sock`: waiting for `auth`, opening, open), with the
messages on their way in `out` and `in`; a drop empties `in` and what was written.
The server keeps membership, presence (one attribute per peer) and the chats it
accepted. `opts.auto` is the transport's `reconnect` option, `opts.replay` the
channel's `replayHistory`. `wanted` and `unsure` are history: the value last given
to my attribute, and whether its echo could be lost with a connection. Once the
channel is stopped nobody uses it (`InUse`). Left out: an application that closes
the transport itself, and a `start()` on a transport that is already reconnecting.

### Mesh

Every client has a `state` (its `StateMachine`: `To` refuses what the table of
transitions does not allow), `stopping`, what it awaits (`waiting`: `start()` or
`attemptReconnect()` suspended in `connect()`), its retry `timers`, `attempts`
(`RetryPolicy`) and `fresh` (the success timer). `entry` is the publisher's `viewers`
map, `pc` a viewer's peer connection with what its negotiator and its flags know. Peer
connections are numbered and no number is used again, so that an offer or an answer
made for a connection that is gone can be told from one for its successor; two ends
carry media when each refers to the other (`Mated`). `tstate` and `sock` are a
client's transport and its socket, `out` and `in` the messages on their way, `members`
the room.

`opts` is the environment, chosen in `Init`: `auto`, the transports reconnect by
themselves; `auth`, they have an `auth` callback; `ice`, a peer connection may fail;
`prompt`, a retry's delay is longer than any message takes. Abstractions: a viewer
takes an offer and answers it in one step; ICE candidates and messages a client
ignores are left out; only the publisher offers, so offers never cross; the server
drops a peer together with its socket (a late close is `Session`'s subject); `auto`
excludes `ice`, because `connect()` on a transport that is reconnecting is
`WsTransport`'s subject; clients attached to a `Room` are left out.

### RoomLeader

`joinMemo` is `joinPromise`, `joinAt` where the async function behind it is suspended,
`connecting` whether there is a `connectPromise`; `child` says what the `start()` of each
attached object awaits, so that the continuations of one promise may run in any order.
The server is `Session` as one member sees it, with one other member who may be a
director. `shown` is `useRoom`'s state; its listener runs after the room's own for the
same message (`ReadByHook`). `joins`, `promoted` and `late` are history.

### The parts of a page

The core's objects are reduced to what their owners can tell; `Mesh`, `RoomChannel`,
`Recording` have them in full. Each module names in its header what is external.

* `SessionHost`: `cur` is the object of the present mount, `last` the one before, whose
  `stop()` may still be under way; every mount makes an object with a peer id of its own.
  Objects have a transport each or share one (`opts.shared`), so that the `disconnect()`
  of one meets the `connect()` of the other. `raced` are the objects stopped while they
  awaited `connect()`. A link has one socket here: when `connect()` or a retry opens
  another beside it (`connect()` does not clear `reconnectTimer`), all objects become
  `raced`, and `WsTransport`, which has both sockets, says what happens. Two assumptions on
  the environment: an opening socket opens (nothing fails here but what the objects do to
  each other), and not before the socket closed earlier on the same link has reported its
  close (`Opens`).
* `Capture`: a request is a stream by number; `ctrl` is the request whose
  `AbortController` is held, `live` are the streams whose tracks run.
* `SfuSession`: `at` is where `start()` is suspended (loading the client, connecting,
  publishing; each may be rejected), `left` the tracks of the stream it has yet to publish,
  any number of each kind, `current` the publication each replacement takes back.
  `forgotten` are the publications `start()` kept a later one of their kind for. `early`,
  `failed` and `overlapped` are history.
* `RecorderHost`: `piped[r]` counts the pipes from recorder `r`, `feeding` is the recorder
  of `useUploader`, `slotted` the recorders whose element has kept its uploader. React may
  clean up a component's effects and run them again (`ReactReturns`): refs, state and the
  recorders' listeners stay, so the events of a recorder that was let go are still rendered.
  The element's stream is set, replaced and cleared at any time. `adrift` marks an owner
  that was attached, or came back, with a recorder held or at work, `late` a hook's
  `start()` after the unmount.
* `RoomViews`: a component renders presence or chat; it is given a channel, another one, or
  none, at any time. `asked`
  holds my joins and updates on their way: a join is answered with a snapshot that
  replaces the map and does not hold me, and is followed by the resync of my own attributes
  (`own`), an update with its echo. The hand is raised, lowered, toggled and cleared. `wish`,
  `hasty` and `replayed` are history.
* `DeviceLists`: each call has the moment it read the devices and the watcher that asked, and
  may be refused. The picker's `value` is set by the user to a device listed, by the
  application to anything; the model's 0 is every value that is no option (`unset`).
* `Outbound`: connections are numbered in the order of the `viewers` map; a replacement
  is a call that awaits one entry after the other (`loop`).
* `Emitter`: listeners are numbered as they are added, which is the order of the event's
  Set; `stack` holds the emissions that run, each with the rest of its snapshot; the
  running listener may make any call.
* `Broadcast`: `channel[c]` are the open BroadcastChannels of a client, `tasks` the
  deliveries queued.

## 3. Runs

| Run | Instance | Shows |
|---|---|---|
| `rooms` | 2 sockets, 3 peers, 2 rooms of capacity 2, authenticator, enforcement, 2 joins waiting for it; the sockets change rooms and identities, one peer is in both rooms | capacity, no empty rooms, directors are members and appointed only by the rules; `Session` implements `ModeratedRooms` |
| `views` | 1 room, shared identities, presence at one message per second and mute, no authenticator | members' views (members and presence) equal the room; sdp/ice reach exactly the members; `Session` implements `ModeratedRooms` where two sockets have one identity in one room |
| `server` | 2 sockets, chat history of 2 with 3 chats, 1 chat per second, no authenticator | types, history is the most recent chats, routes are open and members reached over them |
| `transport` | 2 attempts, 3 messages, every option, listeners that call the transport | one attempt, with a heartbeat; every message once and in order; the retry loop and its end |
| `recording` | 4 chunks of 1, 1, 2, 1 bytes, buffer of 4, upload queue of 2, 2 calls of `stop()`, retry inside or outside the listener | the blob is complete, chunks acknowledged in order and none lost, the states say what the browser does, the queue drains, the last `stop()` resolves |
| `channel` | one other member, 2 chats, 1 attribute, 2 drops, 2 attempts; with and without the transport's own reconnect and history replay | membership after a reconnect, presence converges, statuses and timers of chats, no doubled chat, reconnecting ends |
| `mesh` | one viewer, 2 drops, 2 attempts, 1 failing peer connection; five environments | `peers()` is the viewers of the room and a viewer has a connection exactly if the publisher is there, the ends of connections match, a stopped client leaves, a dropped viewer recovers |
| `leader` | any two of publisher, viewer and channel, 1 drop, 1 act of the other member, with and without `auth` | one join, started children are in the room in the room's role, role and directors rendered are the server's, every start settles |
| `page` | every part of a page: 2 mounts, 3 captures, 2 SFU calls and streams of 2 tracks, 2 recorders, 2 channels, 3 devices, 3 viewers, 3 listeners, 2 tabs | what is rendered is so, nothing is left behind, replaced tracks, no double delivery; a mounted component connects; presence diffs lead from one snapshot to the next |
| `reconnect` | violated | a late close evicts the peer that rejoined |
| `recording_resume` | violated | a drained upload queue resumes a recorder the user paused |
| `mesh_ice` | violated | a viewer whose peer connection failed reconnects for ever |

The properties of `page` are conjunctions over its parts: `RenderedIsTrue`,
`NothingLeftBehind`, `TracksAreCurrent` and `DeliveredOnce` name what they take from
each module, where the property itself and its premise are stated.

Bounds. In `views`, three sockets and three peers are the least that show a shared identity
beside a third party; a fourth repeats one of them. There two sockets have one identity in
one room, so that a late close meets a rejoin; in `rooms` they have one in two rooms.
`rooms` is about joins that wait for the authenticator together: `MaxPending` is 2 there, so
that two peers wait for one place or for one director's seat, and the one answered last
meets what the other has made of the room. Two sockets are enough for that, because a socket
that claims another identity leaves the first one's entry behind, and a room of capacity 2
fills up; a third socket with two waits multiplies the states without another case (the
theorems hold for any number). Without an authenticator (`views`, `server`) nobody waits and
`MaxPending` is never reached. Three chats overflow a history of two. Two connection
attempts let a user's `connect()` overlap a pending retry or a closing socket, also from
inside a listener; three messages let one be written, one wait and one be sent in between.
Two calls of `stop()` are one that is overtaken and one that is not. `MaxPending` and
`MaxChats` are the only bounds in guards of `Session`, `MaxSockets` and `MaxMsgs` those of
`WsTransport`. Four chunks in `Recording` are enough for one to be in flight, one to wait,
one to be refused and one to overflow the recorder's buffer; `Sizes` and `MaxStops` are its
bounds (`recording_resume` allows one `stop()`). In `RoomChannel` two drops use up a budget
of two attempts or hit an attempt under way, and two chats (mine and the other's, or both
mine) overflow nothing but let one time out while the other is echoed; the bounds are
`MaxValue`, `MaxChats`, `MaxSets`, `MaxDrops` and `MaxIncoming`, with `InUse`. One viewer is
enough for `Mesh`, since the publisher treats its viewers independently (one map entry each)
and a viewer ignores the others; two drops let both ends fail, in either order, or one end
fail again in the middle of its retry. `MaxDrops` and `MaxFailures` are its bounds in
guards; `MaxAttempts` is the code's own.

In `RoomLeader` two children are the least that share a join, and a third adds another
pair of the same kinds; `MaxStarts`, `MaxDrops` and `MaxActs` are its bounds. The bounds of
`page` are the least at which its cases happen: two mounts overlap, three captures let two
be overtaken, two replacements overlap over three viewers, three listeners let one subscribe
or remove another while a third emits, three posts find a channel open, closing and
reopened; a stream of two tracks has two of a kind or one of each. Each recorder records
one chunk there, so the run shows that a chunk is not sent twice and not that chunks keep
their order, which the theorem shows for any number. One replacement of a kind overlaps
another: what the next one does is guarded until they are over (`Replace`), since the
property says nothing after an overlap. Each bound is a constant that guards one action,
named in its module.

Deadlock is not checked where a system really stops: sockets are never reused, so an
instance ends when all have closed, and a closed transport stops.

Fairness. `Session` is checked for safety only. `WsTransport!Fairness`: timers fire,
listeners return, `auth` answers, a socket that is opening or closing ends up closed or
open, and an attempt that is made again and again is not refused for ever (strong fairness
of `SocketOpens`). All but the last are guarantees of the browser; the last is the
environment under which "reconnects" means anything. Nothing is assumed of the application,
the server or of drops. `Recording!Fairness`: the browser runs its tasks, the application
calls `retry()` after a failure (the uploader's header asks for it), and a chunk sent again
and again is accepted at last (strong fairness of `FetchSucceeds`: a server that never
accepts drains nothing). `RoomChannel!Fairness`: timers fire and a suspended `connect()`
settles, one way or the other; nothing is assumed of the network. `Mesh!Fairness`: timers
fire, a suspended `connect()` settles, an opening socket opens, messages arrive, an offer is
made, and two ends that refer to each other connect; nothing is assumed of `start()`,
`stop()`, drops or failures. `RoomLeader!Fairness`: promises settle and their continuations
run. `page` assumes of its `SessionHost` part that promises settle, timers fire, sockets
open and close and messages arrive; of mounts, unmounts and users nothing.

### Premises

These restrict a property to the uses it is true of. Most of them are history variables that
mark one sequence of calls; what the code does in it is listed under "Observations".

| Property | Holds |
|---|---|
| `ViewsAgree`, `MembersRoutable` | where no peer id is used in two rooms (`OneRoomPerPeer`) |
| `MembersAreReached` | its second half: where a peer has one socket and a socket one peer and room, and nobody waits for an authenticator (`OneSocketPerPeer`) |
| `OneAttempt`, `NoRetryAfterDisconnect`, the order of `EachMessageOnce`, `Recovers` | where the application calls `connect()` once (`ConnectedOnce`); the heartbeat, and that no message is forgotten or repeated, hold however often it is called |
| `OneAttempt` | a heartbeat may outlive a connection whose listener of `connected` called `disconnect()`, on its closing socket |
| `NoRetryAfterDisconnect` | unless a listener of `reconnecting` called `disconnect()` (`interrupted`) |
| `EachMessageOnce` | a message that a listener of `connected` sends may overtake the queue (`hasty`) |
| `Recovers` | until `auth` fails (`rejected`) |
| `StateIsHonest`, `QueueDrains` | where `retry()` is not called inside the uploader's own listener (`~eager`) |
| `StopResolves` | for a `stop()` that no other one overtakes before the stop event |
| `JoinedUnlessAuto` | over a transport that does not reconnect by itself (`~auto`) |
| `EchoedPresenceSurvives` | for attributes whose echo was not lost with a connection (`~unsure`) |
| `StoppedLeaves` | over a transport without an `auth` callback (`~auth`) |
| `EndsMatch` | where a message is faster than a retry (`prompt`) and no peer connection fails (`~ice`) |
| `ViewerRecovers` | the same, without `auth` and without a transport that reconnects by itself, as long as the publisher stays (`PublisherStays`) |
| `UpMeansJoined`, `ShownAgree` | before a drop, and unless a start was `late`; `ShownAgree` also unless somebody was promoted or demoted, which only the target is told (`~promoted`) |
| `UnmountLeaves`, `LiveIsShown`, `GrantedMeansShown` | unless an object was stopped while it awaited `connect()` or a transport had two sockets; unless a request had no controller to abort it (`raced`) |
| `StateIsRooms` | unless `stop()` came before the room was made (`early`) or a publication of `start()` failed (`failed`) |
| `PublishedIsCurrent` | unless replacements overlapped (`overlapped`), and for publications that `start()` did not replace by a later one of the kind (`forgotten`) |
| `GoneIsOff` | unless `start()` of a hook was called after it was gone (`late`) |
| `ShownIsHeld` | unless the owner was attached, or came back, with a recorder held or at work (`adrift`) |
| `ListIsTrue` | unless the newest call failed or an older one was answered after it (`overtaken`) |
| `SelectionStays` | the picker selects something unless `value` was set to no option since the last list (`unset`) |
| `ViewsAreTrue` | its chats: unless a history was replayed since the last chat (`replayed`) |
| `TogglesAlternate` | unless `toggle()` was called before an echo, or a write was lost with a connection (`hasty`) |
| `SwapsReachAll` | unless a replacement was rejected or its viewer left (`broken`); for the viewers there were when the last one began |
| `ToldOnce` | a `once()` listener: unless its event was emitted again by a listener before it (`nested`) |

So these cases have no property of their own and are only described: a socket that closes
during `authenticate` (`session.ts:357`), the route a refused join takes (`adapter.ts:167`),
the end of the retry loop (`transport.ts:241`), the channel over an automatic transport
(`room-channel.ts:127`), an attribute whose echo was lost (`room-channel.ts:267`), `stop()`
during `start()` with `auth` (`publisher.ts:156`), messages slower than a retry
(`negotiation.ts:86`).

## 4. Findings

Runs that are violated:

* The close of a replaced socket evicts the peer that rejoined (`reconnect`).
* The pipe resumes a recorder the user paused whenever the upload queue empties
  (`recording_resume`).
* A viewer whose peer connection fails keeps its transport and joins again; the
  publisher, which still knows it, ignores the `peer-joined` and makes no offer, so the
  viewer stays `reconnecting` for ever (`mesh_ice`).

### Observations

Behaviour the models show and whose properties exclude it, by premise:

* `session.ts:357` — a socket that closes during `authenticate` leaves a member nobody is
  behind. Direct chats are kept in the history replayed to other joiners (`PushChat` has no
  condition on `to`).
* `transport.ts:241` — a failing `auth` callback ends the transport's retry loop.
* `transport.ts:161`, `transport.ts:217` — state listeners are called before `onOpen` and
  `onClose` go on. `disconnect()` in a listener of `reconnecting` has no timer to clear, the
  retry is armed after it and connects a transport the user has closed, which is then
  `connected`; in a listener of `connected` it is followed by the start of the heartbeat, which
  runs until the socket's close event. What such a listener sends goes out before the
  messages queued earlier. `disconnect()` in a listener of `connecting` is followed by
  `openSocket()`.
* `recorder.ts:138` — a second `stop()` before the stop event replaces the one resolver; the
  promise of the first never settles.
* `room-channel.ts:127` — over a transport that reconnects by itself (the default) the
  channel stays `connected` after a drop and never joins again
  (`docs/troubleshooting.md:35`). `stop()` while `auth` is pending joins all the same.
* `room.ts:154` — a viewer that starts while the publisher's join is under way is told it
  joined: the role is compared only with a join that is over (138-142). A promotion or a
  demotion is told to its target only, so `directors` lag for the others. After a drop
  `joinedRole` stays set and nothing joins again. `ensureConnected()` that was under way at
  `close()` sets the room's state to `connected`.
* `use-room-channel.ts`, `use-publisher.ts` — an object that is unmounted while it awaits
  `connect()`, as StrictMode does to every autostarted one, joins after it was stopped, and
  stays in the room until its socket closes.
* `use-user-media.ts` — `refresh()` of the React hooks has no controller: two of them, or
  one and an unmount, leave a stream live that nothing renders. A screen share that was
  not autostarted is not released at the unmount.
* `sfu-livekit/src/publisher.ts:97` — `stop()` while the client library loads leaves a room
  that connects afterwards; a publish that fails leaves the room connected; a user's
  `stop()` raises `sfu_disconnected`; overlapping replacements forget a publication, and so does
  `start()` (77-83) of all but the last track of a kind.
* `elements/recorder.ts:195` — `stop()` disposes of the pipes before the recorder's last
  chunk, which is not uploaded; `start()` after `stop()` does nothing; an element attached
  again while its recorder runs renders `idle`; it never revokes its object URLs.
  `elements/recorder.ts:96` says of the `stream` setter "Tearing it down stops any active
  recording"; the setter stops nothing.
* `use-recorder.ts` — a second `start()` clears the blob and then throws; when React runs the
  effects again, the first recorder's late `stopped` and its blob are rendered over the
  second recording; `start()` after the unmount records with nobody to stop it.
* `use-chat.ts:32` — the hook listens to `chat` only: acknowledgements, failures and a
  replayed history are rendered with the next chat. `use-raise-hand.ts:32` — a second
  toggle before the echo asks for the same value again.
* `devices.ts:62` — answers of two `devicechange`s that come out of order leave the older
  list, and an `enumerateDevices()` that is rejected leaves the list there was.
  `video-device-picker.ts:94` — the `value` setter takes any id; one that is not listed selects
  nothing until the next list resets it.
* `use-connection-stats.ts` — answers of `getStats()` are rendered in the order they come.
* `publisher.ts:391` — viewers that join after `replaceVideoTrack()` are sent the original
  track; a viewer that leaves while its sender is awaited may end the loop before the rest.
* `emitter.ts:81` — a listener of `once()` is called twice when the event is emitted again
  by a listener before it; one that was removed is still called by the emission under way.
* `broadcast/transport.ts` — messages reach the other tabs by a task, also of a client
  that has disconnected since.

## 5. Proofs

`SessionProofs` proves, for all values of the constants allowed by
`SessionConstants` (any finite set of peers, any sockets, rooms, limits, with or
without authenticator and enforcement):

* `TypeCorrect`: `TypeOK`. It is inductive; each action has a step, the shared
  parts (`RemovePeer`, `SetPresence`, `Admit`, `Consume`, `PushChat`) a lemma.
* `Capacity_Safe`, `Rooms_Collected`, `Directors_Present`. The inductive invariant
  is `RoomInv`: `TypeOK` with the three of them together. They need each other:
  the directors of a dropped room vanish because it had no members, and a room
  is dropped because its members, not its directors, are counted. `StepCases`
  reduces every step of the engine to four effects on rooms (admit, remove,
  change directors, none), so that the room lemmas are proved once per effect.
* `Directors_Appointed`, the action property, from `RoomInv` and `StepCases`.
* `Implements_ModeratedRooms`: the refinement, again from `RoomInv`: initial
  states map to initial states, every step to a step or a stutter.

It proves, too, what the clients are told and sent:

* `History_Recent`: the buffer replayed to a late joiner is the last `ChatLimit` chats of
  its room. The invariant `HistoryInv` ties every buffer to the count `said` of its room;
  `PushChatRecent` is the buffer's own lemma, `ChatCases` reduces a step to "nothing",
  "emptied with its count" and "one more chat".
* `Members_Routable`: where no peer id is used in two rooms, the index that routes sdp
  and ice holds exactly the members. It needs `ClaimsInv`: every binding, suspended join
  and entry comes from a join some socket sends, so a premise about what clients send
  becomes one about rooms: a peer is in one room only, and `handleDisconnect`, which
  drops a route whatever other room needs it, drops nobody else's. It needs `NoEmptyRooms`
  too: the room of a late disconnect may be gone, and then has no members.
* `Views_Agree`: under the same premise, what a member was told since it joined is
  its room. Its invariant is `ViewsInv`; `GoneAgrees`, `CameAgrees` and `ShowsAgrees` are
  the three ways a room changes, seen by a member.

and `Members_Reached`: a member whose entry names an open socket is reached through it, in
the WebSocket adapter over the whole engine. The invariant is `ServerInv`: `RouteInv` (a
route leads to an open socket that named the peer), `FollowInv` (where a peer id is one
socket's, the route of every member and of every join that waits is its socket, since
nothing is routed anew when the authenticator answers) and `PlainInv` (where a socket
speaks for one peer and room and nobody waits, the socket of every member is open and
bound to it, so that its close ends the membership). It contains the engine's `RoomInv`:
`PlainInv` needs that a closing socket bound to a room that is gone leaves no member
behind, which is `NoEmptyRooms`.

`RoomLeaderProofs` proves three properties of a room for any set of children and any bounds:

* `One_Join`: at most one join leaves the room, whatever starts share its promise and
  whatever attempts failed. The invariant `JoinInv` is the life of `joinPromise`: forgotten
  only by a failure, which has sent nothing, and kept for good once the join is sent.
* `Up_Joined`: a child whose `start()` returned is known to the server in the room's role.
  `LinkInv` says what `close()` leaves behind, `RoleInv` where the join is: not sent, on its
  way, or received. `ChildrenAssumption` says only that the children are publishers, viewers
  and channels, which fixes the role each asks for.
* `Shown_Agree`: what `useRoom` renders is what the server holds. `ViewInv` says of every
  person that the last message about them on its way, or else `directorSet`, is the
  server's: the state of a room in the middle of its messages (`Brings`).

`WsTransportProofs` proves the three safety properties of the browser's transport for any
number of sockets, messages and any options:

* `One_Attempt`, `No_Retry_After_Disconnect`. The invariant `OneAttemptInv` says where
  the one attempt can be (a listening socket, a call of `auth`, the timer, a `connect()` or
  `onClose` whose listeners are being called) and that
  nothing is left at "idle"; `CreateFacts` and `ClosingFacts` are the two ways
  sockets change. A cardinality appears only at the end, when `Attempts <= 1` is read off.
* `Each_Message_Once`. `MessagesInv` keeps what is written, what waits and what is lost
  apart and their union `1..(next - 1)`, for every use of `connect()`; and ordered, where
  it is called once: there the socket that opens is `this.ws`, so a connection has an empty
  queue. `SendKept` and `OpenKept` are the steps that move messages; `ConcatFacts`,
  `TailFacts` and `DistinctCount` are about sequences only.

`RecordingProofs` proves the three safety properties of a recording for any chunks and any
limits:

* `State_Is_Honest`. `RecorderInv` says that the last task in `events` that changes
  `recorderState` brings it where the MediaRecorder is already (`Follows`), and that a
  stop is the last task of all: without that, a chunk that overflows the buffer after the
  end would leave the Recorder in "error". `UploaderInv` is the uploader's half; it needs
  `eager` to be false, since a retry inside the `failed` listener is forgotten (see the
  findings).
* `Blob_Complete`. `BlobInv` is about the chunks on their way to the Recorder (`Line`): they
  come in order, after those buffered, none between the buffer and them is missing, and a
  stop comes last, so that a Recorder that hears `stopped` has heard every chunk.
* `Chunks_Accounted`. `AccountInv` keeps the acknowledged chunks before the queued ones, what
  is handed over in one of four places, and the chunk of a fetch at the head of the queue;
  it covers the fetch that is still under way when `close()` comes. `queuedBytes` is the sum
  of the queue's sizes: `BytesAreSums` (with the lemma `Induction`) shows that `Bytes`, a
  function that recurs over the length of a list, is a sum, so that a push adds and a shift
  subtracts one chunk.

`RoomChannelProofs` proves, for any number of members, chats, drops and attempts and every
option, besides the types of the channel (`ChannelTypes`):

* `ConnectedIsJoined`: a channel that says it is connected is a member once its messages have
  arrived. `LifeInv` relates the channel's state, the transport's, what is on its way and
  membership; it says, for instance, that a socket that waits for `auth` outside an attempt
  belongs to `start()`.
* `MapConverges`: the presence map becomes the server's. `PresenceInv` says of each peer that
  the last message about it on its way, or else the map, has the server's value.
* `AttributeSurvives`: an echoed attribute is what the others see after a reconnect.
  `AttributeInv` follows it through the messages both ways: the last update written says what
  is wanted and comes after the join, what comes back after the last echo says it too.
* `ConfirmedIsAccepted`, `NothingDoubled`. `ChatInv` has one part for each place a chat can be
  (unsaid, on its way out, in the log, on its way back, in a history, shown); together they
  say that a chat is in one of them at a time, except a failed one, whose late echo is a
  second entry. It relies on the join being the only message that asks for a history.

`MeshProofs` proves the three safety properties of a publisher and its viewers, and
`Mesh_Types`, for any viewers, attempts, drops and failures and each environment:

* `Mesh_Leaves`: a client that stopped leaves. `OwnInv` is one client's part, with a conjunct
  per subject: its transport, what it can be told, the state before `start()`, that `leave`
  is the last thing it says, its one retry timer, its one join where the transport reconnects
  by itself, and that it keeps no connection outside the room. Each action has a lemma on
  what it does to its own client, and `OthersOwn` the rest.
* `Mesh_Knows`: peers know each other once everything has arrived. `NewsInv` says that what an
  end has, corrected by the `peer-joined` and `peer-left` on their way to it (`Ends`), is the
  room; a viewer whose retry or join is still to come is exempted, since it will be greeted
  again. It needs `OwnInv`: a client that lost its socket has torn its connections down, or
  its transport reconnects by itself and keeps them, in which case it was never told to.
* `Mesh_Ends`: the two ends of a connection then refer to each other. `Pair` is about the
  publisher and one viewer that are in the room or about to join: while one of them is away
  there is no connection and nothing on its way about one (`Clean`), and while both are there
  they are in one of four phases (`Phase`): no offer made, the offer on its way, its answer on
  its way, both known; so there is at most one offer or answer in the four lists between them,
  and it is of the two connections at hand. `BareInv` adds to `OwnInv` that a client outside
  the room has nothing to say but its join. Where the premise is needed is one step: a retry
  starts clean (`QuietClean`) because no message is on its way when its timer fires.

Several invariants say of a list of messages that the last one about someone decides
(`Brings`, `Told`, `Ends`, `Follows`). Their lemmas, one for a message appended and one for a
message read, are about sequences only, and the proof of a step cites them for the lists it
changes.

`BindingProofs` and `PageProofs` prove the five safety properties of `page`, for any
number of mounts, calls, tracks, recorders, chunks, listeners, connections and messages, any
cameras and speakers and any finite set of tabs (`PageBounds`). A behaviour of `MCPage` is one
of its parts: `PageInv` says that the part's own invariant holds, each part `X` has `XInit`,
`XStep` (a step of the part keeps `XInv`) and `XSays` (what it implies), and `PageStep` puts
them together. `Page_Rendered`, `Page_NothingLeft`, `Page_Tracks`, `Page_Delivered` and
`Page_Diffs` follow.

* `HostInv` (`SessionHost`) follows a member from the join it sends to the room. On every link
  the joins and leaves that are unsent or on their way form a row (`Row`) that begins with whom
  the socket is bound to and in which a join is followed by its own leave before the next join;
  so one object at a time can be in the room through a link, the last one said (`Tip`). If that
  object is stopping, its socket is an old one, whose close event ends the membership. That
  `wire` and `out` are such rows relies on `leave` being the last thing an object says, which a
  lost race breaks: hence `raced = {}`.
* `MediaInv` (`Capture`): unless a refresh without a controller was overtaken, at most one
  request that was not aborted waits, nothing is live meanwhile, and nothing is live but what
  is shown.
* `SfuInv` (`SfuSession`): where `start()` is suspended says what the room may be (`SfuRooms`);
  unless replacements overlapped, one call at a time is under way for a kind, and
  what it took off is what `current` says (`SfuAlone`); the publications that `start()` forgets
  are set apart (`OfKind`).
* `RecInv` (`RecorderHost`): only the Recorder that is held can be running, and its stop is
  not queued while it is (`RecOn`); one that is off has its stop event to come or had it
  (`RecLast`), and while nothing is adrift no other one has an event to come, so that what
  is rendered is the held one's state (`RecShown`); what was sent is an increasing part of
  what was got, and all of it where the uploader stayed (`RecSent`).
* `ViewsInv` (`RoomViews`): where nothing was hasty, the messages on their way decide the
  hand: read in order from what the map says now, a join lowering it and an update setting
  it, they end in `wish` (`HandEnds`, `HandAwaited`); a hand that ends up is an attribute of
  mine, so that a rejoin resyncs it (`HandIsOwn`). The chat shown differs from the channel's
  in statuses only. `DeltaPatches` and `DiffOf` are the lemmas on `definePresenceDiff`: a
  diff patches any snapshot to any other.
* `ListsInv` (`DeviceLists`): while a list is watched there is a call since whose start
  no device changed unread (`AskedSince`); when all are settled it is the newest, and unless it
  was refused the list is its answer.
* `OutInv` (`Outbound`): the replacements under way stand one behind the other: a later call
  is never further along the viewers than an earlier one, and every entry behind
  the last one sends its track (`OutOrdered`).
* `EvInv` (`Emitter`): a listener that is still in the rest of an emission has not been told
  of it (`EvTold`), one that stays subscribed has been told or is in the rest (`EvStayed`).
* `BcInv` (`Broadcast`): the deliveries queued for one channel are in the order of their posts
  and after everything its client received.

Every safety property of the passing runs is proved; the liveness properties are only
model-checked. Out of the prover's reach are liveness under fairness (`Recovers`, `QueueDrains`,
`StopResolves`, `ReconnectEnds`, `ViewerRecovers`, `StartsSettle`, `MountedConnects`) and
`ENABLED`; what an operator computes by a fold of the community modules, for which no
induction theorem can be instantiated. Induction over numbers is available in the form of
sets (a set of naturals without a least element is empty, `Induction` in `RecordingProofs`),
which is why `Bytes` is a recursive function and not a fold. No module has a RECURSIVE
operator. The `TypeOK` of `WsTransport`, `Recording` and `Mesh` states the types of their
variables for the reader; no run spends a property on it.

## 6. Plan

1. `Session`, `SignalingServer`, `WsTransport`, `Recording`, `RoomChannel`, `Mesh`,
   `RoomLeader` and the parts of a page — done.
2. Proofs of every safety property the runs check — done.
3. Composition of `RoomLeader` with the full `RoomChannel` and `Mesh` in place of the
   starts of their attached forms.
4. Crossing offers in `Negotiator` (`polite`, `makingOffer`, `ignoreOffer`), which neither
   `Publisher` nor `Viewer` makes but an application can.

Abstract specifications: `ModeratedRooms` (done); a reliable FIFO for the transport's
queue and for the uploader; a two-party session for publisher and viewer.

## 7. Not modelled

Parsing and validation (they reject before any state changes), media, codecs and SDP
contents, connection statistics (an answer replaces the last one, and what is collected is
filtered by the viewers there are), logging, backoff delays (only "later"), the CLI and the
stub adapters; of the bindings, rendering itself, attribute parsing, and options that change
while a component is mounted, which make a new object as a new mount does, and `start()` of
a publisher's, viewer's or SFU hook that is called after the unmount (the recorder's is
modelled). `PROJECT.json` gives the reason for each part.

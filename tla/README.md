# TLA+ verification of avi-net-device

A formal model of the AVI peer-to-peer device stack: what the code under `src/`
does, written as TLA+, checked with TLC on small instances and, but for
liveness, proved with TLAPS for every instance.

    tlasany M.tla                               parse a module
    tlc -workers 2 -config X.cfg M.tla          model-check one run
    tlapm RuntimeProofs.tla                     check the proofs of a module

`PROJECT.json` lists the components, the runs, the mutants that show each
property can fail, the source lines behind each definition, the findings, the
hazards and the theorems.

## 1. The system

| Component | Source | State | Operations |
|---|---|---|---|
| Replicated context | `p2p/src/protocols/context.rs` | a JSON document, a vector clock, a timestamp in seconds, the device id | `apply_patch`, `replace_data`, `merge`, `increment`; path helpers |
| Runtime actor | `p2p/src/runtime.rs`, `protocols/stream.rs`, `events.rs` | connected, discovered, synced and known peers, topics, stream table, the local context | one `select!` loop: heartbeat tick, command, swarm event |
| libp2p behaviours | `p2p/src/behaviour.rs` | connections, subscriptions, queued requests (third party) | gossipsub, request-response, identify, mDNS, Kademlia |
| Node handle | `p2p/src/node.rs`, `command.rs` | three `mpsc` channels of 100, a broadcast channel of 1000, the shutdown oneshot | every public call; the forwarder task; `shutdown` |
| Device facade | `src/device.rs` | the user's end of the event queue, callbacks, topic handlers | the event loop, `update_ctx`, `replace_ctx`, `delete_ctx` |
| Stream dispatcher | `src/stream.rs` | factories, `active_handlers` behind a `RwLock` | one handler per stream event, `request_stream`, `close_stream` |
| Embedded bridge | `p2p/src/bridge.rs` | UDP sessions: device, subscriptions, local-to-mesh stream ids | uplink loop, downlink task |
| Wire protocol | `protocol/src/lib.rs` | none | uplink and downlink message types |
| Embedded client | `embedded/src/lib.rs` | `is_connected`, scratch buffer | `connect`, `poll`, `send` |
| C API | `embedded/src/c_api.rs` | one static queue of 16 commands | `avi_embedded_*`, drained by poll |
| Device query | `src/query.rs` | none | builds and evaluates filters over decoded capabilities (not modelled) |
| Capability schema | `src/capability.rs` | none | serialisable data types |

How they interact. A caller's method on `AviP2pHandle` puts a `Command` with a
oneshot into the command channel and awaits the answer. The runtime task runs
one handler at a time, to its end: it answers, asks libp2p to send, and sends
`AviEvent`s into the event channel, *awaiting room* for each. A forwarder task
copies each event to the broadcast channel (the bridge listens there) and moves
it to the user's channel. The device's event loop takes one event at a time and
awaits the application's callbacks, which may call the handle again. Between
nodes, contexts travel by gossip after a local change and by one `SyncContext`
per connection, on identify; stream messages are independent requests.

What is hard about it:

* *Ordering and loss.* Requests overtake one another, gossip is relayed by
  third nodes, links fail and the two ends notice at different times. A context
  that was merged may be older, newer, concurrent or a duplicate.
* *Interleaving.* The runtime, the forwarder, the event loop and application
  tasks meet only through channels and one lock; a stream exists in the runtime
  before it has a handler and after.
* *Deadlock.* The event loop may await an answer of a runtime that waits for
  room in the channel that the event loop drains.
* *Stale state.* `synced_peers`, `known_peers` and `active_handlers` repeat what
  another component decides.
* *Boundaries.* Whole-second timestamps, stream ids counted per process,
  channel capacities.

What makes each component correct:

* context: clocks never go back and never claim an update that was not made; a
  context has the keys of what its clock covers; equal clocks mean equal data;
* runtime: a stream entry stands for a request that was made and stays with its
  peer; what is gone stays gone; bookkeeping of connections agrees with itself;
  known peers meet again and changes reach them;
* node and dispatcher: calls return, queues keep their bounds, handlers live as
  long as their streams and see callbacks in order, no event is lost unexplained;
* bridge and client: a session's streams and subscriptions end with it; one
  device does not disturb another; a read-modify-write of the context loses
  nothing.

## 2. The modules

| Module | Models | Built on |
|---|---|---|
| `AviContext` | the context document as operators: clocks, patch, replace, merge | |
| `Network` | libp2p as the runtime sees it (external) | `AviContext` |
| `Runtime` | every runtime of a mesh, one action per handler | `Network` |
| `RuntimeProperties` | what the mesh must guarantee; fairness; the refinement mapping | `Runtime`, `VersionedDocument` |
| `VersionedDocument` | abstract: one owner publishes versions, replicas move forward through them | |
| `NodePipeline` | the channels, calls, forwarder and shutdown of one node | |
| `StreamDispatcher` | the device's event loop, its stream handlers and an application task | `NodePipeline` |
| `JsonTree` | the document as a tree, and the edits at a dotted path | |
| `DeviceQuery` | when the entries of devices in the document decode as capabilities | `JsonTree` |
| `ContextCalls` | the tasks of one node that read, edit and write back the document | `DeviceQuery` |
| `ContextLaws` | the laws of merges, stated of every document reached; what a writer must keep to | `ContextCalls`, `AviContext` |
| `Datagrams` | the embedded wire messages and lossy UDP | |
| `EmbeddedClient` | the C API's queue, `connect` and `poll` of each device | `Datagrams` |
| `EmbeddedBridge` | the gateway's sessions, its uplink and downlink tasks | `Datagrams` |
| `Gateway` | devices and gateway together, their properties and fairness | `EmbeddedClient`, `EmbeddedBridge`, `DirectSession` |
| `SessionEffect`, `DirectSession` | abstract: each accepted call acts on its session, in order and once | |
| `MCRuntime`, `MCDevice`, `MCContextCalls`, `MCGateway` | instances for TLC | the above |
| `AviContextProofs` | lemmas about the clock and the merge | `AviContext` |
| `RuntimeProofs`, `MeshProofs` | theorems about `Runtime`: contexts; connections and streams | `RuntimeProperties` |
| `ReplicaProofs` | theorems about what a replica shows; the versioned document | `RuntimeProofs` |
| `ContextCallsProofs` | theorems about `ContextCalls` and its laws | `ContextLaws` |
| `GatewayProofs` | theorems about `Gateway` | `Gateway` |
| `SessionProofs` | theorems about undisturbed sessions; the refinement of `DirectSession` | `GatewayProofs` |
| `DeviceProofs` | theorems about the device above its node | `StreamDispatcher` |

### AviContext

A JSON document is a map from its paths to what is there, a leaf or "an
object", `Absent` where there is nothing. Empty objects are paths like others,
so serde's equality, on which `merge` decides what it returns, is equality of
maps: `{}` and the skeleton `{"avi":{"device":{}}}`, with which every context
starts (`Skeleton`), differ. `deep_merge` is pointwise. This leaves out one
case: a leaf on one side and an object at the same path on the other, which
`JsonTree` has. `PathMapsAgree` says that apart from it the two merges are the
same, and that two documents are equal exactly if their maps are; it is a
theorem. `Merge` and `MergeReturns` are the two results of
`AviContext::merge`, with its four branches and the tie-break on timestamps.

### Runtime and Network

Each field of `struct Runtime` is a function of the node. An action is one
handler, whole; the handler's guards and early returns are its guards. `events`
holds what the last step sent to the event channels, so that action properties
can speak of a change and its report together. `written` and `sent` are
history, read by no action. Ids come from `next_stream_id`, per process, as
`NEXT_STREAM_ID` counts.

`Network` keeps what `runtime.rs` relies on: dials that succeed, fail or are
refused; one link for all connections of a pair (the runtime looks only at the
first to open and the last to close); requests lost with their link, waiting
for a dial, or overtaking one another; gossip that fails with no known
subscriber, may fail for reasons of its own with one (`MayRefuse`: full queues,
a message too large), otherwise reaches all known ones over working links, and
may be relayed to others. A peer may report no listen address (`NoAddr`), which
leaves the one that is known. Two ends notice a failed link independently, in any order, and one may
have redialled before the other noticed.

### NodePipeline and StreamDispatcher

The runtime is reduced to its stream table and to what it answers and emits
for one peer, whose messages arrive in any order. Its handler's events wait in
`outbox`; while one waits, the runtime takes nothing else (`Ready`), which is
what an await inside the `select!` arm means. The event loop's control point is
`at`; `locked` says that it holds `active_handlers` for writing, which it does
for the whole of a callback in `handle_stream_accepted` and
`handle_stream_data`, but not in `handle_stream_requested`. Other critical
sections contain no await that depends on another task, and are one step.
A callback makes at most one call, on its own stream. `Shutdown` may strike
whenever the runtime task waits. Both sides count ids from 1, so an id may name
a stream of each: the table and `active_handlers` have one entry for the two.
Answers and data of the peer arrive for any id it uses or was asked under.
`RequestStream` fails only for something that is no peer id
(`runtime.rs:167`); to a peer that is not connected it answers Ok and dials.

### JsonTree, DeviceQuery and ContextCalls

A document is a function from the paths it has to a leaf or `Object`, so an
edit at a path says which paths stay and which come. `SetNestedValue` puts
objects on the way and fails at a leaf (not at the root, which becomes an
object); `DeleteNestedValue` fails where something on the way is missing, not
where the last name is.

`update_ctx`, `replace_ctx`, `delete_ctx` and the bridge's sensor updates are
two commands to the runtime: `Read` copies the whole document, `Write` sends
the edited copy back, as a patch or in place of what is there. `ContextCalls`
interleaves the tasks of one node that do this: the event loop, which first
makes the calls of the `Started` handler in their order, the bridge, and the
application; and documents of other nodes that `Arrive`, merged in any of the
branches of `AviContext::merge`. A claim of `avi.core` looks first
(`CheckClaim`), then reads, then writes. The clock is left to `Runtime`.

The merge of two documents is written by paths. `ContextLaws` states that it
satisfies the recursion of `deep_merge` in every pair of subtrees, which on
finite documents only one function does.

`DeviceQuery` says when `execute_query` gives an answer (`QueryAnswers`): the
map of all entries is decoded at once. What `serde` asks of an entry is data,
given by place: `Variants` has for a struct, or for each variant of a tagged
enum, the members it must have and the values they may have; `Optional` the
values a field or a map entry may have if it is there. So the required members
of `compute`, of a sensor, of every struct inside an entry count, and a merge of
two sensors of different types must leave one of them decodable. What the
filters of `query.rs` then say of a decoded entry is not modelled.

### Datagrams, EmbeddedClient, EmbeddedBridge and Gateway

Each device has a socket queue in each direction. A fault takes one datagram
out, puts a second copy anywhere behind it, or swaps two neighbours. The C
wrapper's `send` answers Ok also when nothing went out, so a refused send is a
lost datagram.

`EmbeddedClient` has one action for each C function that queues a command. A
call that answers -1 or -2 changes nothing and is none. `phase` is where
`avi_embedded_poll` is: draining the queue, waiting inside `connect`, or in its
one `receive` at the end; calls may queue commands at each of these points.
The queue is a static, one to a device (one program per device).

`EmbeddedBridge` has one action per uplink message, since a handler holds the
lock of the sessions throughout, also while it awaits the node; and the
downlink task, which reads the broadcast channel and stops for good when it
lags. It stops for no other reason: the sender is part of the handle the uplink
task keeps. `NoPeer` is every target of a `StreamStart` that is no peer id: an
empty one ends the handler, another is refused by the runtime and only logged,
to the same effect. Of the node it sees the topics subscribed to, the streams opened and
whether it still runs. A mesh stream may end at any time; the bridge looks at no
such event. `forwarded` is what was handed to the node for each device. With
`taken_off`, `restarted` and `Gateway`'s `careless` it is history: no action's
guard reads it.

A run goes through `Scenarios`, chosen in the initial state: which calls each
application makes and how many, which applications loop on `connect`, which
mesh events there are, and how many faults.

## 3. What is checked

Passing runs:

| Run | Instance | Shows |
|---|---|---|
| `Context` | chain of 3 nodes, 2 writers, 2 keys, 1 outage, at rest | `KeysFollowClock`, `ClockBounded`, `NoSilentChange`, `ClockMonotone` |
| `OneWriter` | 2 nodes from the first dial, an application topic, 2 changes, patch and replace | the replicas refine `VersionedDocument` (`OneWriterIsVersioned`) |
| `Streams` | chain of 3 nodes, both ends request under one id, 1 outage, at rest | `TypeOK`, `EntriesHaveRequests`, `ActiveMeansAccepted`, `NoRevival`, `ReportsComeFromThePeer` |
| `Reconnect` | 2 nodes from the first dial, mDNS and bootstrap, 1 update, 2 outages, fair | `SyncedOnlyWhileConnected`, `KnownPeersReconnect`, `OfflineUpdatesPropagate`, and `OneWriterIsVersioned` across outages |
| `Device` | 1 id of both sides, 1 of the peer, channels of 1, 2 messages of the peer, fair | `TypeOK`, `HandlersFollowStreams`, `CallbacksInOrder`, `DropsAreExplained`, `NobodyWaitsInACircle`, `CallsReturn` |
| `Gateway` | 2 devices, 5 scenarios, up to 2 faults, fair | `TypeOK`, `ConnectedMeansSession`, `HeldStreamsAreOwn`, `StarvedByOthersOnly`, `OrphansAreExplained`, `CallsActDirectly`, `EventuallyConnected` |
| `ContextCalls` | 3 tasks, 1 arrival, entries with a map, a tagged enum and an optional struct | `TypeOK`, `CapsStayDecodable`, `MergeIsRecursive`, `PathMapsAgree`, `ChangesElsewhereWereStale`, `UncontendedCallsAreExact` |

Runs that end in a violation, each against a sentence of the documentation:

| Run | Violates | Because |
|---|---|---|
| `StreamIdsCollide` | `StreamKeepsItsPeer` | ids count from 1 in every process, the table is keyed by the id alone, and an incoming request overwrites |
| `ContextsDiverge` | `EqualClocksAgree` | each side prefers its own value when both wrote in the same second |
| `DeletionUndone` | `DeletionsPropagate` | the `Greater` branch merges an older snapshot back in |
| `UpdateLost` | `UpdatesPropagate` | a "postponed" publication is never sent later, and a peer that redials before the old connection was seen to close is not synced again |
| `AckedNotReceiving` | `AckedMeansReceiving` | one device's `Unsubscribe` takes the gateway off the topic for all of them |

*What the properties of streams say.* An id may name several streams at one
node: one it requested and one for each peer that requested one of it. The
code keeps a single entry for them, and `StreamIdsCollide` shows what that
breaks. `ActiveMeansAccepted`, `ReportsComeFromThePeer` and `NoRevival` say that
the damage stays there: where the id names one stream (`NamesOneStream`), nothing
that happens under the same id elsewhere is felt, two peers of one node with
the same id included. `EntriesHaveRequests` holds without the condition. In the
device, `HandlersFollowStreams` is of streams whose id this node has not given
out (`Theirs`), and the callbacks of ids that do not name a stream of each side
(`Shared`) keep their order.

*What the gateway's properties say.* A device is told once that it is
connected, and then sends without an answer: `ConnectedMeansSession` is what
makes that sound, whatever datagrams are late or doubled, and it excepts a
gateway that has restarted, because there it fails. Two devices may use one
local stream id, and one device may say Hello twice: `HeldStreamsAreOwn` says
that data never ends in a stream of another. `StarvedByOthersOnly` and
`OrphansAreExplained` give the only ways in which a subscription goes deaf and a
mesh stream is left behind: another device leaves the topic; the device says
Hello, or reuses an id, with a stream open. `CallsActDirectly` is a refinement:
queue, datagrams and bridge together implement `DirectSession`, where an
accepted call acts on the session at once. The mapping folds what is under way
over the session (`View`). After a fault nothing is promised.

*What the calls' properties say.* A whole document written back undoes what
came since it was read. `ChangesElsewhereWereStale` says that this is all it
undoes: away from its path, an edit changes only what has changed since its
read. `UncontendedCallsAreExact` says what an edit does when nothing came
between. Neither excludes the lost update itself, which is what the code does.
`CapsStayDecodable` joins edits and merges with queries: no interleaving leaves
an entry that would make every query of the node fail, as long as the calls keep
to `WritersKeepCaps`. That is: a call that sets a value would leave, on an empty
document, whole entries under the devices or none; no call deletes a member of
an entry that `serde` requires; and the documents at start and from other nodes
can be read. Of edits inside an entry this leaves the deletion of what `serde`
does not require. Nothing in the code checks any of it; the calls the library
makes itself keep to it, an application's need not. TLC evaluates it for the
calls of the run, which delete the optional `audio` of an entry, while another
program's entry for the same device, a camera in place of a microphone, is
merged with it; and the theorem takes it as its hypothesis. None of its parts
can go: a call that deletes `sensors` or a sensor's `type`, or sets
`device.caps` to a leaf, violates `CapsStayDecodable`.

*Bounds.* A conflict needs two writers and a third node to relay: three nodes
in a chain. A key set needs two keys to be partial; a third, `top`, is the empty
object every document starts with. Two peers that use one id meet at a node
between them; `Streams` leaves its ends interchangeable (`SYMMETRY`, no liveness
in the run) and identifies states that differ only in what stream commands and
messages do not read (`VIEW`). A lost synchronisation or
a stream that must not revive needs one outage. `MaxInFlight` stops further
stream commands while that many messages are out: two suffice for a pair to
overtake each other. One address is routable; see below for two. The runs "at
rest" start with the connections up and identified, a state `Spec` reaches,
checked from the first dial on by `OneWriter` and `Reconnect`. Channels of one
place reach full and empty in a step or two, where 100 would need a hundred
messages to differ in nothing. The capacity of the command queue is one for two
callers, so that one of them waits. `MaxPending` in `Device` is what the two
event channels, the forwarder and the event loop hold together; see
`CallsReturn`. Two messages are enough for a stream to be requested and closed,
or for a request to cross one made here under the same id.
In `Gateway` two devices share one topic and one local id, so that they meet
wherever they can; a broadcast channel of one place lags at the second event; a
queue of one command is full at once, and two datagrams under way, with one
fault, give every order. Four calls connect, start, send and close a stream.
`ContextCalls` has paths that coincide, contain one another and lie apart, and
of each kind of thing in `DeviceCapabilities` one; one arrival may fall anywhere between the commands of three tasks.
A run's stop without a successor is an error except in `Device`, where a node
that was shut down really comes to rest.

*Fairness.* Weak, and only where the code goes on by itself. Runtime: the
heartbeat ticks every five seconds in a loop that never ends; the `select!`
loop polls all its arms; libp2p reports openings and closings, runs identify on
each connection and delivers a request over a link that stays up; a dial to a
routable address that is not refused comes up. `MaxOutages` bounds how often it
is refused or a link fails. Not fair: anything an application does, and a
link's failing. Device: tokio runs every task that can run, so the runtime, the
forwarder, the event loop and an application call in progress go on. The event
loop's fairness is strong: room in a channel goes to whoever waited longest, so
an application whose requests keep failing cannot keep the loop out for ever. That the
application calls, that the peer speaks and that the node is shut down is never
assumed. Gateway: only for devices whose application runs the loop of
`ARCHITECTURE.md:289`, polling, and calling `connect` while unconnected. Its
library steps and the gateway's uplink task are weakly fair. Strong fairness is assumed
of the loop's call, which comes round again and again whatever else is in the
queue, and of `receive`, which cannot miss a waiting datagram for ever although
it may time out each time before one comes. Faults are bounded.

*CallsReturn* says that every call comes back, shutdown included, and
`NobodyWaitsInACircle` is its safety half: the four tasks are never all stuck
with an event or a call under way. `RuntimeGoesOn` and its like say when a task
can go on, in terms of channels, answers and the lock; the invariant is a
theorem for channels of any capacity, while `CallsReturn` is checked at
capacity one. Both hold up to
`EventCap + UserCap + 2` pending events and not beyond: with one more, TLC
finds the runtime waiting for room for an event, the forwarder for room in the
user's queue, and the event loop, in `update_capabilities`, for the runtime's
answer. With the code's capacities that takes more than 202 events pending
behind one callback that calls the node. Nothing in the repository says that
this cannot happen, so it is recorded here and not as a finding.

*Other observations* made while modelling, which no sentence of the
documentation contradicts: after identify, `known_peers` holds the last listen
address reported; if that one cannot be dialled, the heartbeat retries it for
ever, and `KnownPeersReconnect` fails with a second, unroutable address.
A merge with an older snapshot whose data differ returns true even when
`deep_merge`, which prefers the node's own values, changed nothing, and the
application is told `ContextUpdated` for no change (`context.rs:143`). `GetPeerContext` ignores the peer it
is asked about. A handler whose stream was closed from this side stays in
`active_handlers`: `HandlersFollowStreams` excepts it. A device does not hear
what another device of the same gateway publishes, since gossipsub does not
deliver a node's own messages. A gateway that restarts tells nobody, and its
devices stay `is_connected`. A claim of `avi.core` may fall on one that arrived
since it looked, and replaces it.

Each property of a passing run has a mutant: a definition of the model changed
the way a bug would change the code, under which the run must fail. They stand
beside the definitions they change, marked `Mutant`, and nothing else uses them.

## 4. What is proved

For every set of nodes, keys, values, topics, ids, devices and paths, every
topology, every scenario and every bound. The assumptions are the named
`ASSUME`s of the modules, all about the kind of the constants, which TLC
evaluates in every run, and those a theorem states itself. None of them keeps
apart what the code does not: ids of the two sides may overlap.

`RuntimeProofs`, on contexts:

* `TypeCorrect`: `Spec => []TypeOK`. `TypeOK` is inductive; one lemma per kind
  of handler.
* `ClocksNeverDecrease`: `Spec => ClockMonotone`, and `ClocksAreBounded`:
  `Spec => []ClockBounded`. Both follow from one fact, `NextIsContextStep`:
  whatever a step does to the contexts at rest and in flight is one of three
  things. It makes no new context; it commits one change at one node, and the
  new context may be sent; or it merges one existing context into one replica.
  The two steps of substance are then treated once, by `MergeJoinsClocks`: in
  all four branches of `merge` the receiver ends with the join of both clocks.
* `KeysFollowTheClock`: `Replacement = {} => (Spec => []KeysFollowClock)`. The
  assumption is that documents are patched and not replaced: a replacement drops keys, and
  `DeletionUndone` shows that they may come back. `KeysFollowClock` alone is not
  inductive. A change gets a sequence number one above its writer's clock, and
  only if no other clock has reached that number do the other contexts stay
  right about what they cover; and only if no recorded change has a number
  above its writer's clock is what a merge covers the union of what both
  covered. Hence `KeysInv`: `TypeOK`, `ClockBounded`, `WrittenIsCounted`
  and `KeysFollowClock`.

`MeshProofs`, on connections and streams:

* `SyncedAreConnected`: a context counts as sent only to peers that are connected.
* `EntriesWereRequested`: whatever is in a stream table was requested, however
  many nodes request. The invariant `StreamInvariant` adds that requests carry ids
  below their node's counter, that no two of a node have one id, and that
  every stream message on its way stands for a request. Again a step is
  classified first (`NextIsStreamStep`): it forgets an entry, makes a request,
  uses an entry, or takes in a request or an acceptance.
* `ActiveWereAccepted`, `NothingRevives` and `ReportsAreThePeers`, for any number
  of requesting nodes. Where an id names one stream, a request or an acceptance
  of that id that comes in is of that stream (`sent` never loses a request, so
  the condition held before the step if it holds after), and an entry that is
  there is the other end of the stream that the message is about.

`ContextCallsProofs`:

* `TypeCorrect`: the document and every copy stay trees, and an edit that read
  a document it can be made in cannot fail at its write.
* `EditsUndoOnlyWhatCameBetween`: `Spec => ChangesElsewhereWereStale`, from
  lemmas on what each edit leaves alone away from its path and on what the
  merge takes from a patch.
* `UncontendedCallsDoWhatTheySay`: `Spec => UncontendedCallsAreExact`. What is at
  a path after an edit is computed place by place: below the path a patch clashes
  with the document exactly as the value clashes with the subtree, and beside
  it only the objects on the way can be new. `ClearCtx` keeps no read
  (`NoClearPending`), so every other write has a path.

`GatewayProofs`: `TypeCorrect`, `ConnectedHaveSessions`, `StreamsAreOwn` and
`StarvedByOthers`, for any number of devices and any faults. `ConnectedMeansSession`
is stated with the first datagram that matters; `QuietUntilSession` says the
same of the queue as a whole (to a device without a session no `Welcome` is on
its way), which is what loss, doubling and delay of datagrams preserve. `HeldStreamsAreOwn` needs `TypeOK`, so that a new mesh id is no id in use,
and holds for a stream that has ended as well.

`DeviceProofs`: `TypeCorrect`, `HandlersKeepUp`, `CallbacksKeepOrder` and
`DropsHaveReasons`, for any ids of the two sides, overlapping or not, any number
of tasks and messages and channels of any capacity. None of the last three is inductive: each is about what the
loop will be told later. `DeviceInvariant` therefore speaks of the events on their
way as one sequence, `Pipe`, from the loop's hands through the three channels
to what the runtime has yet to send. Seen so, every step of `Next` leaves the
sequence, drops its first event, appends to it or cuts its end (`Shutdown`).
The invariant has these parts, each needed by the next:

* `LoopFits`, `OpeningFits`, `CommandsFit`: the loop is where its event takes
  it, and a command in the queue is the one its caller waits for. Hence an
  answer is the answer to the question that was asked.
* `PipeFits`: a stream is requested once, and its data comes behind the request
  or after the request was settled. It rests on the order of the channels.
* `StreamLives`: from its request on a stream is being handled, refused, with
  a handler, or ended. `CallbacksInOrder` is one half of it, `DropsAreExplained`
  follows from it and `PipeFits`.
* `StreamsFollowed` strengthens `HandlersFollowStreams` to start when the runtime
  answers `AcceptStream`, not when the handler is stored: the peer may close
  between the two. On a lost connection all streams of the table are
  reported, which needs the table to be finite.

* `NobodyWaits`: `Spec => []NobodyWaitsInACircle`. `WaitInvariant` adds to
  `DeviceInvariant` that a caller who still waits has its command in the queue
  of a running node, that a task has an answer pending exactly while it is at an
  await, that the lock is held only from a callback to the answer of its call,
  and that a requested stream can be given. If nobody goes on, a non-empty command
  queue means that the runtime has an event to send and no room; so the event
  channel is full, the forwarder holds an event, and the user's queue is full
  (`ChannelsFull`). Then the loop is idle and may take an event, or holds the
  one event too many. With an empty command queue every answer is there.

`SessionProofs`, on devices and gateway while nothing is disturbed:

* `CallsAct`: `Spec => CallsActDirectly`. What is under way for a device, in the
  socket and in the queue of calls, is one sequence, `Outstanding`, and the
  mapping folds `Effect` over it from the session as it is. Every step of
  `Next` removes the first message and applies its effect (the bridge,
  `TakeView`), adds one at the end (an accepted call, `CallView`), moves one from
  the queue to the socket (`SendView`), leaves all of it alone (`Aside`), or is a
  disturbance, which counts in `faults`. Only the added message changes the fold,
  by one `Effect`, and that is `Accept` of `DirectSession`. A
  fold is characterised by its runs (`AfterRuns`), by induction over the
  naturals; no theorem of the library gives that without an operator for
  its parameter, so it is drawn from the well-foundedness of finite sets
  (`SetInduction`). A step that is about one device leaves the fold of another.
* `OrphansExplained`: `Spec => []OrphansAreExplained`. Not inductive alone: which
  streams a device gives up without closing is decided by calls that are still
  outstanding. `OthersKeepStreams` says of every careful device that no message
  under way will give up a stream it holds then, and `NodeRuns` that the node
  answers while nothing was disturbed.

`ReplicaProofs`, on what a replica shows:

* `ChangesAreReported`: `Spec => NoSilentChange`. A change of the document that
  is not the node's own is a merge, and a merge that changed the data returns
  true (`ChangedMeansReturned`), in each branch.
* `ReplicasShowVersions`: with one writer, and as long as no step takes a key
  from its document (`KeepsKeys`), `Spec` implements `VersionedDocument`.
  `OneWriterImplementsVersions` has the second hypothesis from the constants:
  patches are arbitrary, replacements have every key (`WholeReplacements`). The
  clock has one component that counts (`OnlyOwnerCounts`), so no two contexts
  are concurrent; `VersionInvariant` says that the owner's changes are numbered
  without gap or double (`Numbered`), that each context at rest and in flight is
  the version of its number (`ContextsAreVersions`) and that versions only grow
  in keys (`Growing`). The last is what makes the `Greater` branch of `merge`
  harmless: merged into a later version, an earlier one adds nothing. Where it
  fails, `DeletionUndone` is the counterexample.
* `EqualClocksShowOneDocument`: under the same hypotheses
  `Spec => []EqualClocksAgree`. Two writers refute it in `ContextsDiverge`, and
  one who deletes refutes it in the instance of `DeletionUndone`.

More of `ContextCallsProofs`:

* `MergeRecurses` and `PathMapsSuffice`, of all trees that meet, from what each
  place of a merge is.
* `QueriesStayAnswered`: `WritersKeepCaps` implies `Spec => []CapsStayDecodable`,
  for every schema, path, call and document. That an entry decodes is a
  condition on places: an object at a place of `Variants` has the members of one
  variant with values it allows. Overlaying one such document on another keeps
  it, also where the two have different variants: the members of the preferred
  side win, so its variant's are complete, and the other's tag is gone. Setting
  a whole entry keeps it, and deleting what no variant requires; and every
  copy a task holds is such a document (`SoundDocuments`).

*What the proofs changed in the model.* The arms of a `CASE` in `Effect`
overlapped: a message to an unknown session met its own arm and the one for
unknown sessions. TLC takes the first that holds, where the semantics leaves the
choice open; it is now an `IF`. The refinement of
`VersionedDocument`, first stated for a writer who only patches, holds for one
who drops no key. The theorems on streams, first stated for one requesting node,
and those on handlers, first for ids kept apart, hold for any where an id names
one stream. That queries stay answered was first stated of entries whose map
fields are objects; with the whole schema it needs that nobody deletes a
required member.

Only model-checked: liveness (`KnownPeersReconnect`, `OfflineUpdatesPropagate`,
`CallsReturn`, `EventuallyConnected`), which the prover cannot reach, and the
statements of the documentation that runs refute, which cannot be theorems but
under the hypotheses above. The theorems on contexts that assume one writing
node, or that documents are only patched, say so in their statements, and a run
shows each assumption to be needed.

## 5. What is not modelled

* Of the runtime: `Started`, and the queries that change nothing
  (`GetConnectedPeers`, `DiscoverPeers`; the `Shutdown` command is sent by nobody).
* Kademlia, Noise, Yamux and gossipsub's own bookkeeping, beyond what
  `Network` says; message sizes, codecs, addresses as strings. A topic message
  of more than 1024 bytes is not passed on to a device.
* `max_peers`, `max_streams`: nothing reads them. Sessions are never removed;
  the limit `ARCHITECTURE.md:313` mentions is not in the code.
* Of the C API: pointers, texts, `avi_embedded_free`, and the `RefCell` that
  `avi_embedded_is_connected` and `avi_embedded_poll` share: the first panics
  if it is called from another task while the second runs. Two clients in one
  program would share the static queue; one is assumed.
* The filters of `query.rs` and how they combine: pure functions of one decoded
  entry. `serde` also reads a struct from an array of its fields; no writer
  makes one, and the model does not take it.
* What a capability says, examples and configuration: data and demonstrations.
* A node's document in `ContextCalls` and its replica in `Runtime` are two
  models of one thing, joined by the branches of `Arrive` and by
  `PathMapsAgree`, which is proved, not by a common state: their product is out
  of TLC's reach.

## 6. Plan

Done: the modules of section 2, in the order of the table. Left, in the order
of what it would add:

1. Two nodes that each run `ContextCalls` on their replica of `Runtime`, for
   the claim of `avi.core` by two devices, if a bound is found at which it can
   be checked.
2. Proofs that join the models: that a replica of `Runtime` under the calls of
   `ContextCalls` keeps the laws of both.
3. The wire codec of `protocols/stream.rs`: length prefixes and their limit.

--------------------------- MODULE EmbeddedBridge ---------------------------
(***************************************************************************)
(* The gateway's bridge between the embedded devices and the mesh          *)
(* (src/p2p/src/bridge.rs): the uplink task, one action per kind of        *)
(* message, and the downlink task.  A handler holds the lock of the        *)
(* sessions from its first line to its last, so it is one step.            *)
(*                                                                         *)
(* Of the node behind the handle the bridge sees the topics it is          *)
(* subscribed to, the mesh streams it opened, and its broadcast channel of *)
(* events; a handle whose node has stopped answers with an error.  What    *)
(* SensorUpdate does to the context document is in ContextCalls.           *)
(***************************************************************************)
EXTENDS Datagrams

CONSTANTS
    NoSession,     \* "no session for this address"
    NoDevice,      \* "no device took the gateway off this topic"
    EventCap       \* the capacity of the broadcast channel

ASSUME EventCapAssumption == EventCap \in Nat \ {0}
ASSUME NoDeviceAssumption == NoDevice \notin Device

VARIABLES
    sessions,        \* the bridge's sessions, by address
    mesh_topics,     \* the topics the gateway's node is subscribed to
    opened,          \* the mesh streams the node opened: their ids are 1, 2, ...
    open,            \* those of them that have not ended
    node_running,    \* the node has not been shut down
    events,          \* the broadcast channel, as the downlink task will see it
    lagged,          \* an event was dropped before the downlink task saw it
    downlink,        \* the downlink task has not ended
    forwarded,       \* history: what was handed to the node for each device
    taken_off,       \* history: the device that last took the gateway off a topic
    restarted        \* history: the gateway has restarted

node == <<mesh_topics, opened, open, node_running>>
channel == <<events, lagged, downlink>>
bridge == <<sessions, node, channel, forwarded, taken_off, restarted>>

NoStream == 0
NoStreams == [i \in LocalId |-> NoStream]

DeviceSession ==
    [device_id : Device, active_streams : [LocalId -> Nat], subscriptions : SUBSET Topic]

ASSUME NoSessionAssumption == NoSession \notin DeviceSession

(* A mesh stream: its target, and for whom it was opened.                  *)
MeshStream == [device : Device, local_stream_id : LocalId, target : Peer]

(* AviEvent::Message on a topic; any other event only takes a place.       *)
MeshEvent == [type : {"Message"}, topic : Topic] \cup [type : {"Other"}]

Publication ==
    [type : {"Publish"}, topic : Topic]
    \cup [type : {"ButtonPress", "SensorUpdate"}]
    \cup [type : {"StreamData"}, target : Peer]

BridgeTypeOK ==
    /\ sessions \in [Device -> DeviceSession \cup {NoSession}]
    /\ mesh_topics \subseteq Topic
    /\ opened \in Seq(MeshStream)
    /\ open \subseteq DOMAIN opened
    /\ node_running \in BOOLEAN
    /\ events \in Seq(MeshEvent) /\ Len(events) <= EventCap
    /\ lagged \in BOOLEAN
    /\ downlink \in BOOLEAN
    /\ forwarded \in [Device -> Seq(Publication)]
    /\ taken_off \in [Topic -> Device \cup {NoDevice}]
    /\ restarted \in BOOLEAN

BridgeInit ==
    /\ sessions = [d \in Device |-> NoSession]
    /\ mesh_topics = {}
    /\ opened = <<>>
    /\ open = {}
    /\ node_running = TRUE
    /\ events = <<>>
    /\ lagged = FALSE
    /\ downlink = TRUE
    /\ forwarded = [d \in Device |-> <<>>]
    /\ taken_off = [t \in Topic |-> NoDevice]
    /\ restarted = FALSE

-----------------------------------------------------------------------------
(* The uplink task.                                                        *)

(* Mutant: a Welcome is sent before there is a session.                    *)
HelloWithoutSession(d) ==
    /\ ReceiveUp(d, "Hello")
    /\ SendDown(d, [type |-> "Welcome"])
    /\ UNCHANGED <<faults, scenario, bridge>>

Hello(d) ==
    /\ ReceiveUp(d, "Hello")
    /\ sessions' = [sessions EXCEPT ![d] =
          [device_id |-> Head(up[d]).device_id, active_streams |-> NoStreams,
           subscriptions |-> {}]]
    /\ SendDown(d, [type |-> "Welcome"])
    /\ UNCHANGED <<faults, scenario, node, channel, forwarded, taken_off, restarted>>

(* Anything else from an address without a session is dropped.             *)
UnknownDevice(d) ==
    /\ sessions[d] = NoSession
    /\ up[d] # <<>> /\ Head(up[d]).type # "Hello"
    /\ up' = [up EXCEPT ![d] = Tail(@)]
    /\ UNCHANGED <<down, faults, scenario, bridge>>

FromSession(d, type) ==
    /\ sessions[d] # NoSession
    /\ ReceiveUp(d, type)

(* Mutant: the session records the topic whatever the node answers.        *)
HandleSubscribeUnanswered(d) ==
    /\ FromSession(d, "Subscribe")
    /\ LET t == Head(up[d]).topic
       IN  /\ IF node_running
              THEN /\ mesh_topics' = mesh_topics \cup {t}
                   /\ taken_off' = [taken_off EXCEPT ![t] = NoDevice]
              ELSE UNCHANGED <<mesh_topics, taken_off>>
           /\ sessions' = [sessions EXCEPT ![d].subscriptions = @ \cup {t}]
           /\ SendDown(d, [type |-> "SubscribeAck", topic |-> t])
    /\ UNCHANGED <<faults, scenario, opened, open, node_running, channel, forwarded, restarted>>

HandleSubscribe(d) ==
    /\ FromSession(d, "Subscribe")
    /\ LET t == Head(up[d]).topic
       IN  IF node_running
           THEN /\ mesh_topics' = mesh_topics \cup {t}
                /\ taken_off' = [taken_off EXCEPT ![t] = NoDevice]
                /\ sessions' = [sessions EXCEPT ![d].subscriptions = @ \cup {t}]
                /\ SendDown(d, [type |-> "SubscribeAck", topic |-> t])
           ELSE UNCHANGED <<mesh_topics, taken_off, sessions, down>>
    /\ UNCHANGED <<faults, scenario, opened, open, node_running, channel, forwarded, restarted>>

HandleUnsubscribe(d) ==
    /\ FromSession(d, "Unsubscribe")
    /\ LET t == Head(up[d]).topic
       IN  /\ sessions' = [sessions EXCEPT ![d].subscriptions = @ \ {t}]
           /\ IF node_running
              THEN /\ mesh_topics' = mesh_topics \ {t}
                   /\ taken_off' = [taken_off EXCEPT ![t] = d]
              ELSE UNCHANGED <<mesh_topics, taken_off>>
           /\ SendDown(d, [type |-> "UnsubscribeAck", topic |-> t])
    /\ UNCHANGED <<faults, scenario, opened, open, node_running, channel, forwarded, restarted>>

(* What is handed to the node and leaves nothing in the bridge.            *)
Forward(d, p) ==
    /\ forwarded' = IF node_running THEN [forwarded EXCEPT ![d] = Append(@, p)] ELSE forwarded
    /\ UNCHANGED <<down, faults, scenario, sessions, node, channel, taken_off, restarted>>

HandlePublish(d) == FromSession(d, "Publish") /\ Forward(d, Head(up[d]))

HandleButtonPress(d) == FromSession(d, "ButtonPress") /\ Forward(d, Head(up[d]))

HandleSensorUpdate(d) == FromSession(d, "SensorUpdate") /\ Forward(d, Head(up[d]))

(* Mutant: one table of local ids for all the devices.                     *)
HandleStreamStartForAll(d) ==
    /\ FromSession(d, "StreamStart")
    /\ LET m == Head(up[d])
           id == Len(opened) + 1
       IN  IF m.target # NoPeer /\ node_running
           THEN /\ opened' = Append(opened,
                      [device |-> d, local_stream_id |-> m.local_stream_id, target |-> m.target])
                /\ open' = open \cup {id}
                /\ sessions' = [e \in Device |-> IF sessions[e] = NoSession THEN NoSession
                      ELSE [sessions[e] EXCEPT !.active_streams[m.local_stream_id] = id]]
           ELSE UNCHANGED <<opened, open, sessions>>
    /\ UNCHANGED <<down, faults, scenario, mesh_topics, node_running, channel, forwarded,
                   taken_off, restarted>>

(* NoPeer stands for every target that is no peer id: the empty one ends   *)
(* the handler at once, another the runtime refuses with an error that is  *)
(* only logged, to the same effect.                                        *)
HandleStreamStart(d) ==
    /\ FromSession(d, "StreamStart")
    /\ LET m == Head(up[d])
           id == Len(opened) + 1
       IN  IF m.target # NoPeer /\ node_running
           THEN /\ opened' = Append(opened,
                      [device |-> d, local_stream_id |-> m.local_stream_id, target |-> m.target])
                /\ open' = open \cup {id}
                /\ sessions' = [sessions EXCEPT ![d].active_streams[m.local_stream_id] = id]
           ELSE UNCHANGED <<opened, open, sessions>>
    /\ UNCHANGED <<down, faults, scenario, mesh_topics, node_running, channel, forwarded, taken_off, restarted>>

HandleStreamData(d) ==
    /\ FromSession(d, "StreamData")
    /\ LET id == sessions[d].active_streams[Head(up[d]).local_stream_id]
       IN  IF id # NoStream
           THEN Forward(d, [type |-> "StreamData", target |-> opened[id].target])
           ELSE UNCHANGED <<down, faults, scenario, bridge>>

(* Mutant: the stream is forgotten and not closed.                         *)
HandleStreamCloseForgotten(d) ==
    /\ FromSession(d, "StreamClose")
    /\ LET i == Head(up[d]).local_stream_id
       IN  sessions' = [sessions EXCEPT ![d].active_streams[i] = NoStream]
    /\ UNCHANGED <<down, faults, scenario, node, channel, forwarded, taken_off, restarted>>

HandleStreamClose(d) ==
    /\ FromSession(d, "StreamClose")
    /\ LET i == Head(up[d]).local_stream_id
       IN  /\ sessions' = [sessions EXCEPT ![d].active_streams[i] = NoStream]
           /\ open' = IF node_running THEN open \ {sessions[d].active_streams[i]} ELSE open
    /\ UNCHANGED <<down, faults, scenario, mesh_topics, opened, node_running, channel,
                   forwarded, taken_off, restarted>>

-----------------------------------------------------------------------------
(* The mesh, and the downlink task.                                        *)

(* The node hears of something.  Gossipsub delivers what other nodes       *)
(* publish on a topic this one is subscribed to.  A full channel drops its *)
(* oldest event; once the downlink task has ended nobody listens.          *)
MeshEventArrives(e) ==
    /\ e \in scenario.events
    /\ node_running /\ downlink
    /\ e.type = "Message" => e.topic \in mesh_topics
    /\ events' = IF Len(events) < EventCap THEN Append(events, e) ELSE Append(Tail(events), e)
    /\ lagged' = (lagged \/ Len(events) = EventCap)
    /\ UNCHANGED <<wire, sessions, node, downlink, forwarded, taken_off, restarted>>

(* A peer refuses or ends a stream, or is gone; the bridge looks at no     *)
(* such event.                                                             *)
MeshStreamEnds(id) ==
    /\ id \in open
    /\ open' = open \ {id}
    /\ UNCHANGED <<wire, sessions, mesh_topics, opened, node_running, channel,
                   forwarded, taken_off, restarted>>

(* The devices an event is sent on to.                                     *)
Audience(e) ==
    {d \in Device : /\ sessions[d] # NoSession
                    /\ e.type = "Message" /\ e.topic \in sessions[d].subscriptions}

HandleDownlinkEvent ==
    /\ downlink /\ ~lagged /\ events # <<>>
    /\ LET e == Head(events)
       IN  /\ \A d \in Audience(e) : Calm(d)
           /\ down' = [d \in Device |-> IF d \in Audience(e) THEN Append(down[d], e) ELSE down[d]]
    /\ events' = Tail(events)
    /\ UNCHANGED <<up, faults, scenario, sessions, node, lagged, downlink, forwarded, taken_off, restarted>>

(* recv answers Lagged, and the loop ends.  It never answers Closed: the   *)
(* sender is part of the handle the uplink task holds for ever.            *)
DownlinkEnds ==
    /\ downlink
    /\ lagged
    /\ downlink' = FALSE
    /\ UNCHANGED <<wire, sessions, node, events, lagged, forwarded, taken_off, restarted>>

NodeStops ==
    /\ Fault
    /\ node_running
    /\ node_running' = FALSE
    /\ open' = {}
    /\ UNCHANGED <<up, down, sessions, mesh_topics, opened, channel, forwarded, taken_off, restarted>>

(* The gateway restarts: nothing of it is kept anywhere.                   *)
RestartGateway ==
    /\ Fault
    /\ sessions' = [d \in Device |-> NoSession]
    /\ mesh_topics' = {}
    /\ opened' = <<>>
    /\ open' = {}
    /\ node_running' = TRUE
    /\ events' = <<>>
    /\ lagged' = FALSE
    /\ downlink' = TRUE
    /\ taken_off' = [t \in Topic |-> NoDevice]
    /\ restarted' = TRUE
    /\ UNCHANGED <<up, down, forwarded>>

UplinkStep(d) ==
    \/ Hello(d)
    \/ UnknownDevice(d)
    \/ HandleSubscribe(d)
    \/ HandleUnsubscribe(d)
    \/ HandlePublish(d)
    \/ HandleButtonPress(d)
    \/ HandleSensorUpdate(d)
    \/ HandleStreamStart(d)
    \/ HandleStreamData(d)
    \/ HandleStreamClose(d)

GatewayStep ==
    \/ \E d \in Device : UplinkStep(d)
    \/ \E e \in MeshEvent : MeshEventArrives(e)
    \/ \E id \in open : MeshStreamEnds(id)
    \/ HandleDownlinkEvent
    \/ DownlinkEnds
    \/ NodeStops
    \/ RestartGateway
=============================================================================

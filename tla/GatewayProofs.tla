--------------------------- MODULE GatewayProofs ---------------------------
(***************************************************************************)
(* Proofs about the embedded devices and their gateway, for any number of  *)
(* devices, topics, local ids, peers, datagrams and faults, and for every  *)
(* scenario.                                                               *)
(***************************************************************************)
EXTENDS TLAPS, SequenceTheorems, Gateway

-----------------------------------------------------------------------------
(* Queues of datagrams.                                                    *)

LEMMA TailIsSeq ==
    ASSUME NEW S, NEW q \in Seq(S), q # <<>>
    PROVE  Tail(q) \in Seq(S) /\ Head(q) \in S /\ Len(Tail(q)) = Len(q) - 1
BY HeadTailProperties

LEMMA AppendIsSeq ==
    ASSUME NEW S, NEW q \in Seq(S), NEW e \in S
    PROVE  Append(q, e) \in Seq(S) /\ Len(Append(q, e)) = Len(q) + 1
BY AppendProperties

LEMMA PartIsSeq ==
    ASSUME NEW S, NEW q \in Seq(S), NEW m \in Nat \ {0}, NEW n \in 0..Len(q)
    PROVE  SubSeq(q, m, n) \in Seq(S)
<1>1. \A i \in m..n : q[i] \in S
  BY LenProperties
<1> QED
  BY <1>1, SubSeqProperties, LenProperties

\* A fault makes of a queue one of the same messages.
LEMMA DisturbedIsSeq ==
    ASSUME NEW S, NEW q \in Seq(S), NEW r \in Disturbed(q)
    PROVE  r \in Seq(S)
<1>1. Len(q) \in Nat /\ DOMAIN q = 1..Len(q)
  BY LenProperties
<1>2. ASSUME NEW i \in DOMAIN q PROVE RemoveAt(q, i) \in Seq(S)
  <2>1. SubSeq(q, 1, i - 1) \in Seq(S)
    BY <1>1, PartIsSeq
  <2>2. SubSeq(q, i + 1, Len(q)) \in Seq(S)
    BY <1>1, PartIsSeq
  <2> QED
    BY <2>1, <2>2, ConcatProperties DEF RemoveAt
<1>3. ASSUME NEW i \in DOMAIN q, NEW j \in (i + 1)..(Len(q) + 1)
      PROVE  InsertAt(q, j, q[i]) \in Seq(S)
  <2>1. SubSeq(q, 1, j - 1) \in Seq(S)
    BY <1>1, PartIsSeq
  <2>2. SubSeq(q, j, Len(q)) \in Seq(S)
    BY <1>1, PartIsSeq
  <2>3. <<q[i]>> \in Seq(S)
    BY <1>1, LenProperties
  <2>4. SubSeq(q, 1, j - 1) \o <<q[i]>> \in Seq(S)
    BY <2>1, <2>3, ConcatProperties
  <2> QED
    BY <2>2, <2>4, ConcatProperties DEF InsertAt
<1>4. ASSUME NEW i \in 1..(Len(q) - 1)
      PROVE  [q EXCEPT ![i] = q[i + 1], ![i + 1] = q[i]] \in Seq(S)
  <2>1. i \in 1..Len(q) /\ i + 1 \in 1..Len(q)
    BY <1>1
  <2>2. q[i] \in S /\ q[i + 1] \in S
    BY <2>1, LenProperties
  <2> DEFINE one == [q EXCEPT ![i] = q[i + 1]]
  <2>3. one \in Seq(S) /\ Len(one) = Len(q)
    BY <2>1, <2>2, ExceptSeq
  <2>4. [one EXCEPT ![i + 1] = q[i]] \in Seq(S)
    BY <2>1, <2>2, <2>3, ExceptSeq
  <2> QED
    BY <2>4
<1>5. r \in Lost(q) \/ r \in Doubled(q) \/ r \in Overtaken(q)
  BY DEF Disturbed
<1>6. CASE r \in Lost(q)
  BY <1>2, <1>6 DEF Lost
<1>7. CASE r \in Doubled(q)
  <2>1. PICK i \in DOMAIN q :
           r \in {InsertAt(q, j, q[i]) : j \in (i + 1)..(Len(q) + 1)}
    BY <1>7 DEF Doubled
  <2> QED
    BY <1>3, <2>1
<1>8. CASE r \in Overtaken(q)
  <2>1. PICK i \in 1..(Len(q) - 1) : r = [q EXCEPT ![i] = q[i + 1], ![i + 1] = q[i]]
    BY <1>8 DEF Overtaken
  <2> QED
    BY <1>4, <2>1
<1> QED
  BY <1>5, <1>6, <1>7, <1>8

-----------------------------------------------------------------------------
(* Types.                                                                  *)

LEMMA ScenarioFacts ==
    ASSUME WireTypeOK
    PROVE  /\ scenario \in Scenario
           /\ \A d \in Device : scenario.calls[d] \subseteq AviCommand /\ scenario.budget[d] \in Nat
           /\ scenario.events \subseteq MeshEvent /\ scenario.faults \in Nat
           /\ scenario.retrying \subseteq Looping
BY ScenarioAssumption DEF WireTypeOK, Scenario

LEMMA PacketType ==
    ASSUME NEW d \in Device, NEW c \in AviCommand
    PROVE  Packet(d, c) \in UplinkMessage
<1>1. CASE c.type = "Connect"
  BY <1>1 DEF Packet, UplinkMessage
<1>2. CASE c.type \in SensorCommand
  BY <1>2 DEF Packet, UplinkMessage, SensorCommand
<1>3. CASE c.type # "Connect" /\ c.type \notin SensorCommand
  <2>1. Packet(d, c) = c
    BY <1>3 DEF Packet
  <2>2. \/ c \in [type : {"ButtonPress"}]
        \/ c \in [type : {"Subscribe", "Unsubscribe", "Publish"}, topic : Topic]
        \/ c \in [type : {"StreamStart"}, local_stream_id : LocalId, target : Peer \cup {NoPeer}]
        \/ c \in [type : {"StreamData", "StreamClose"}, local_stream_id : LocalId]
    BY <1>3 DEF AviCommand
  <2>3. c \in [type : {"ButtonPress"}] => c \in [type : {"ButtonPress", "SensorUpdate"}]
    OBVIOUS
  <2> QED
    BY <2>1, <2>2, <2>3 DEF UplinkMessage
<1> QED
  BY <1>1, <1>2, <1>3

LEMMA SendUpType ==
    ASSUME up \in [Device -> Seq(UplinkMessage)], NEW d \in Device, NEW m \in UplinkMessage,
           SendUp(d, m)
    PROVE  up' \in [Device -> Seq(UplinkMessage)]
<1>1. Append(up[d], m) \in Seq(UplinkMessage)
  BY AppendIsSeq
<1> QED
  BY <1>1 DEF SendUp

LEMMA SendDownType ==
    ASSUME down \in [Device -> Seq(DownlinkMessage)], NEW d \in Device,
           NEW m \in DownlinkMessage, SendDown(d, m)
    PROVE  down' \in [Device -> Seq(DownlinkMessage)]
<1>1. Append(down[d], m) \in Seq(DownlinkMessage)
  BY AppendIsSeq
<1> QED
  BY <1>1 DEF SendDown

LEMMA ReceiveUpType ==
    ASSUME up \in [Device -> Seq(UplinkMessage)], NEW d \in Device, NEW type,
           ReceiveUp(d, type)
    PROVE  /\ up' \in [Device -> Seq(UplinkMessage)]
           /\ Head(up[d]) \in UplinkMessage /\ Head(up[d]).type = type
<1>1. Tail(up[d]) \in Seq(UplinkMessage) /\ Head(up[d]) \in UplinkMessage
  BY TailIsSeq DEF ReceiveUp
<1> QED
  BY <1>1 DEF ReceiveUp

LEMMA ReceiveDownType ==
    ASSUME down \in [Device -> Seq(DownlinkMessage)], NEW d \in Device, ReceiveDown(d)
    PROVE  /\ down' \in [Device -> Seq(DownlinkMessage)]
           /\ Head(down[d]) \in DownlinkMessage
<1>1. Tail(down[d]) \in Seq(DownlinkMessage) /\ Head(down[d]) \in DownlinkMessage
  BY TailIsSeq DEF ReceiveDown
<1> QED
  BY <1>1 DEF ReceiveDown

LEMMA FaultType ==
    ASSUME WireTypeOK, Fault
    PROVE  faults' \in Nat /\ faults' <= scenario'.faults /\ scenario' \in Scenarios
BY ScenarioFacts DEF WireTypeOK, Fault

\* What the messages of each kind carry.
LEMMA UplinkFields ==
    ASSUME NEW m \in UplinkMessage
    PROVE  /\ m.type = "Hello" => m.device_id \in Device
           /\ m.type \in {"Subscribe", "Unsubscribe", "Publish"} => m.topic \in Topic
           /\ m.type \in {"StreamStart", "StreamData", "StreamClose"} => m.local_stream_id \in LocalId
           /\ m.type = "StreamStart" => m.target \in Peer \cup {NoPeer}
           /\ m.type \in {"Publish", "ButtonPress", "SensorUpdate"} => m \in Publication
BY DEF UplinkMessage, Publication
-----------------------------------------------------------------------------
(* Types: the client.                                                      *)

LEMMA EnqueueType ==
    ASSUME ClientTypeOK, NEW d \in Device, NEW c \in AviCommand,
           Len(command_queue[d]) < QueueSize,
           command_queue' = [command_queue EXCEPT ![d] = Append(@, c)]
    PROVE  /\ command_queue' \in [Device -> Seq(AviCommand)]
           /\ \A e \in Device : Len(command_queue'[e]) <= QueueSize
<1>1. /\ Append(command_queue[d], c) \in Seq(AviCommand)
      /\ Len(Append(command_queue[d], c)) = Len(command_queue[d]) + 1
      /\ Len(command_queue[d]) \in Nat
  BY AppendIsSeq, LenProperties DEF ClientTypeOK
<1> QED
  BY <1>1, QueueAssumption DEF ClientTypeOK

LEMMA SendCommandTypeOK ==
    ASSUME WireTypeOK, ClientTypeOK, NEW d \in Device, NEW c, SendCommand(d, c)
    PROVE  WireTypeOK' /\ ClientTypeOK'
<1>1. c \in AviCommand
  BY ScenarioFacts DEF SendCommand
<1>2. /\ command_queue' \in [Device -> Seq(AviCommand)]
      /\ \A e \in Device : Len(command_queue'[e]) <= QueueSize
  BY <1>1, EnqueueType DEF SendCommand
<1>3. calls' \in [Device -> Nat] /\ \A e \in Device : calls'[e] <= scenario.budget[e]
  BY ScenarioFacts DEF SendCommand, ClientTypeOK
<1>4. UNCHANGED wire
  BY DEF SendCommand
<1> QED
  BY <1>2, <1>3, <1>4 DEF SendCommand, ClientTypeOK, WireTypeOK, wire

LEMMA ApplicationCallTypeOK ==
    ASSUME WireTypeOK, ClientTypeOK, NEW d \in Device, ApplicationCall(d)
    PROVE  WireTypeOK' /\ ClientTypeOK'
<1>1. CASE ConnectAgain(d)
  <2>1. [type |-> "Connect"] \in AviCommand
    BY DEF AviCommand
  <2>2. /\ command_queue' \in [Device -> Seq(AviCommand)]
        /\ \A e \in Device : Len(command_queue'[e]) <= QueueSize
    BY <1>1, <2>1, EnqueueType DEF ConnectAgain
  <2> QED
    BY <1>1, <2>2 DEF ConnectAgain, ClientTypeOK, WireTypeOK, wire
<1>2. CASE \E c : SendCommand(d, c)
  BY <1>2, SendCommandTypeOK
<1> QED
  BY <1>1, <1>2 DEF ApplicationCall, Connect, Subscribe, Unsubscribe, Publish, StartStream,
     SendStreamData, CloseStream, ButtonPressed, UpdateSensor

LEMMA DequeueType ==
    ASSUME ClientTypeOK, NEW d \in Device, command_queue[d] # <<>>,
           command_queue' = [command_queue EXCEPT ![d] = Tail(@)]
    PROVE  /\ command_queue' \in [Device -> Seq(AviCommand)]
           /\ \A e \in Device : Len(command_queue'[e]) <= QueueSize
           /\ Head(command_queue[d]) \in AviCommand
<1>1. /\ Tail(command_queue[d]) \in Seq(AviCommand) /\ Head(command_queue[d]) \in AviCommand
      /\ Len(Tail(command_queue[d])) = Len(command_queue[d]) - 1
      /\ Len(command_queue[d]) \in Nat
  BY TailIsSeq, LenProperties DEF ClientTypeOK
<1> QED
  BY <1>1, QueueAssumption DEF ClientTypeOK

LEMMA ClientStepTypeOK ==
    ASSUME WireTypeOK, ClientTypeOK, NEW d \in Device, ClientStep(d)
    PROVE  WireTypeOK' /\ ClientTypeOK'
<1>1. CASE ApplicationCall(d)
  BY <1>1, ApplicationCallTypeOK
<1>2. CASE ProcessCommand(d)
  <2> DEFINE c == Head(command_queue[d])
  <2>1. /\ command_queue' \in [Device -> Seq(AviCommand)]
        /\ \A e \in Device : Len(command_queue'[e]) <= QueueSize
        /\ c \in AviCommand
    BY <1>2, DequeueType DEF ProcessCommand
  <2>2. up' \in [Device -> Seq(UplinkMessage)]
    BY <1>2, <2>1, PacketType, SendUpType DEF ProcessCommand, WireTypeOK
  <2>3. phase' \in [Device -> {"draining", "awaiting", "receiving"}]
    BY <1>2 DEF ProcessCommand, ClientTypeOK
  <2> QED
    BY <1>2, <2>1, <2>2, <2>3 DEF ProcessCommand, ClientTypeOK, WireTypeOK
<1>3. CASE AwaitDatagram(d)
  BY <1>3, ReceiveDownType DEF AwaitDatagram, ClientTypeOK, WireTypeOK
<1>4. CASE AwaitNothing(d)
  BY <1>4 DEF AwaitNothing, ClientTypeOK, WireTypeOK, wire
<1>5. CASE QueueDrained(d)
  BY <1>5 DEF QueueDrained, ClientTypeOK, WireTypeOK, wire
<1>6. CASE PollDatagram(d)
  <2>1. down' \in [Device -> Seq(DownlinkMessage)]
    BY <1>6, ReceiveDownType DEF PollDatagram, WireTypeOK
  <2>2. is_connected' \in [Device -> BOOLEAN]
    BY <1>6 DEF PollDatagram, ClientTypeOK
  <2>3. phase' \in [Device -> {"draining", "awaiting", "receiving"}]
    BY <1>6 DEF PollDatagram, ClientTypeOK
  <2> QED
    BY <1>6, <2>1, <2>2, <2>3 DEF PollDatagram, ClientTypeOK, WireTypeOK
<1>7. CASE PollNothing(d)
  BY <1>7 DEF PollNothing, ClientTypeOK, WireTypeOK, wire
<1>8. CASE RestartDevice(d)
  <2>1. /\ command_queue' \in [Device -> Seq(AviCommand)]
        /\ \A e \in Device : Len(command_queue'[e]) <= QueueSize
    BY <1>8, QueueAssumption, EmptySeq DEF RestartDevice, ClientTypeOK
  <2>2. phase' \in [Device -> {"draining", "awaiting", "receiving"}]
        /\ is_connected' \in [Device -> BOOLEAN]
    BY <1>8 DEF RestartDevice, ClientTypeOK
  <2>3. scenario' = scenario
    BY <1>8 DEF RestartDevice, Fault
  <2> QED
    BY <1>8, <2>1, <2>2, <2>3, FaultType DEF RestartDevice, ClientTypeOK, WireTypeOK
<1> QED
  BY <1>1, <1>2, <1>3, <1>4, <1>5, <1>6, <1>7, <1>8 DEF ClientStep
-----------------------------------------------------------------------------
(* Types: the bridge.                                                      *)

SessionsType == sessions \in [Device -> DeviceSession \cup {NoSession}]

\* What each handler is about, apart from what it changes.
LEMMA FromSessionFacts ==
    ASSUME WireTypeOK, SessionsType, NEW d \in Device, NEW type, FromSession(d, type)
    PROVE  /\ sessions[d] \in DeviceSession
           /\ sessions[d].active_streams \in [LocalId -> Nat]
           /\ sessions[d].subscriptions \subseteq Topic
           /\ up' \in [Device -> Seq(UplinkMessage)]
           /\ Head(up[d]) \in UplinkMessage /\ Head(up[d]).type = type
BY ReceiveUpType DEF FromSession, WireTypeOK, SessionsType, DeviceSession

LEMMA HelloTypeOK ==
    ASSUME WireTypeOK, BridgeTypeOK, NEW d \in Device, Hello(d)
    PROVE  WireTypeOK' /\ BridgeTypeOK'
<1>1. up' \in [Device -> Seq(UplinkMessage)] /\ Head(up[d]).device_id \in Device
  BY ReceiveUpType, UplinkFields DEF Hello, WireTypeOK
<1>2. down' \in [Device -> Seq(DownlinkMessage)]
  <2>1. [type |-> "Welcome"] \in DownlinkMessage
    BY DEF DownlinkMessage
  <2> QED
    BY <2>1, SendDownType DEF Hello, WireTypeOK
<1>3. sessions' \in [Device -> DeviceSession \cup {NoSession}]
  <2>1. [device_id |-> Head(up[d]).device_id, active_streams |-> NoStreams,
         subscriptions |-> {}] \in DeviceSession
    BY <1>1 DEF DeviceSession, NoStreams, NoStream
  <2> QED
    BY <2>1 DEF Hello, BridgeTypeOK
<1> QED
  BY <1>1, <1>2, <1>3 DEF Hello, WireTypeOK, BridgeTypeOK, node, channel

LEMMA UnknownDeviceTypeOK ==
    ASSUME WireTypeOK, BridgeTypeOK, NEW d \in Device, UnknownDevice(d)
    PROVE  WireTypeOK' /\ BridgeTypeOK'
<1>1. Tail(up[d]) \in Seq(UplinkMessage)
  BY TailIsSeq DEF UnknownDevice, WireTypeOK
<1>2. up' \in [Device -> Seq(UplinkMessage)]
  BY <1>1 DEF UnknownDevice, WireTypeOK
<1> QED
  BY <1>2 DEF UnknownDevice, WireTypeOK, BridgeTypeOK, bridge, node, channel

LEMMA HandleSubscribeTypeOK ==
    ASSUME WireTypeOK, BridgeTypeOK, NEW d \in Device, HandleSubscribe(d)
    PROVE  WireTypeOK' /\ BridgeTypeOK' /\ sessions'[d] \in DeviceSession
<1> DEFINE t == Head(up[d]).topic
<1>1. /\ up' \in [Device -> Seq(UplinkMessage)] /\ t \in Topic
      /\ sessions[d] \in DeviceSession /\ sessions[d].subscriptions \subseteq Topic
  BY FromSessionFacts, UplinkFields DEF HandleSubscribe, BridgeTypeOK, SessionsType
<1> HIDE DEF t
<1>2. CASE node_running
  <2>1. [type |-> "SubscribeAck", topic |-> t] \in DownlinkMessage
    BY <1>1 DEF DownlinkMessage
  <2>2. down' \in [Device -> Seq(DownlinkMessage)]
    BY <1>2, <2>1, SendDownType DEF HandleSubscribe, WireTypeOK, t
  <2>3. mesh_topics' \subseteq Topic /\ taken_off' \in [Topic -> Device \cup {NoDevice}]
    BY <1>1, <1>2 DEF HandleSubscribe, BridgeTypeOK, t
  <2>4. [sessions[d] EXCEPT !.subscriptions = @ \cup {t}] \in DeviceSession
    BY <1>1 DEF DeviceSession
  <2>5. sessions' = [sessions EXCEPT ![d] = [sessions[d] EXCEPT !.subscriptions = @ \cup {t}]]
    BY <1>2 DEF HandleSubscribe, BridgeTypeOK, t
  <2>6. sessions' \in [Device -> DeviceSession \cup {NoSession}] /\ sessions'[d] \in DeviceSession
    BY <2>4, <2>5 DEF BridgeTypeOK
  <2> QED
    BY <1>1, <2>2, <2>3, <2>6 DEF HandleSubscribe, WireTypeOK, BridgeTypeOK, channel
<1>3. CASE ~node_running
  BY <1>1, <1>3 DEF HandleSubscribe, WireTypeOK, BridgeTypeOK, channel
<1> QED
  BY <1>2, <1>3

LEMMA HandleUnsubscribeTypeOK ==
    ASSUME WireTypeOK, BridgeTypeOK, NEW d \in Device, HandleUnsubscribe(d)
    PROVE  WireTypeOK' /\ BridgeTypeOK' /\ sessions'[d] \in DeviceSession
<1> DEFINE t == Head(up[d]).topic
<1>1. /\ up' \in [Device -> Seq(UplinkMessage)] /\ t \in Topic
      /\ sessions[d] \in DeviceSession /\ sessions[d].subscriptions \subseteq Topic
  BY FromSessionFacts, UplinkFields DEF HandleUnsubscribe, BridgeTypeOK, SessionsType
<1> HIDE DEF t
<1>2. [type |-> "UnsubscribeAck", topic |-> t] \in DownlinkMessage
  BY <1>1 DEF DownlinkMessage
<1>3. down' \in [Device -> Seq(DownlinkMessage)]
  BY <1>2, SendDownType DEF HandleUnsubscribe, WireTypeOK, t
<1>4. mesh_topics' \subseteq Topic /\ taken_off' \in [Topic -> Device \cup {NoDevice}]
  BY <1>1 DEF HandleUnsubscribe, BridgeTypeOK, t
<1>5. [sessions[d] EXCEPT !.subscriptions = @ \ {t}] \in DeviceSession
  BY <1>1 DEF DeviceSession
<1>6. sessions' = [sessions EXCEPT ![d] = [sessions[d] EXCEPT !.subscriptions = @ \ {t}]]
  BY DEF HandleUnsubscribe, BridgeTypeOK, t
<1>7. sessions' \in [Device -> DeviceSession \cup {NoSession}] /\ sessions'[d] \in DeviceSession
  BY <1>5, <1>6 DEF BridgeTypeOK
<1> QED
  BY <1>1, <1>3, <1>4, <1>7 DEF HandleUnsubscribe, WireTypeOK, BridgeTypeOK, channel

LEMMA ForwardTypeOK ==
    ASSUME WireTypeOK, BridgeTypeOK, NEW d \in Device, NEW p \in Publication, Forward(d, p),
           up' \in [Device -> Seq(UplinkMessage)]
    PROVE  WireTypeOK' /\ BridgeTypeOK'
<1>1. Append(forwarded[d], p) \in Seq(Publication)
  BY AppendIsSeq DEF BridgeTypeOK
<1>2. forwarded' \in [Device -> Seq(Publication)]
  BY <1>1 DEF Forward, BridgeTypeOK
<1> QED
  BY <1>2 DEF Forward, WireTypeOK, BridgeTypeOK, node, channel

LEMMA ForwardingTypeOK ==
    ASSUME WireTypeOK, BridgeTypeOK, NEW d \in Device,
           HandlePublish(d) \/ HandleButtonPress(d) \/ HandleSensorUpdate(d)
    PROVE  WireTypeOK' /\ BridgeTypeOK'
<1>1. up' \in [Device -> Seq(UplinkMessage)] /\ Head(up[d]) \in Publication
  BY FromSessionFacts, UplinkFields
     DEF HandlePublish, HandleButtonPress, HandleSensorUpdate, BridgeTypeOK, SessionsType
<1> QED
  BY <1>1, ForwardTypeOK DEF HandlePublish, HandleButtonPress, HandleSensorUpdate

\* A new stream gets the next id and nothing else changes its place.
LEMMA HandleStreamStartTypeOK ==
    ASSUME WireTypeOK, BridgeTypeOK, NEW d \in Device, HandleStreamStart(d)
    PROVE  WireTypeOK' /\ BridgeTypeOK' /\ sessions'[d] \in DeviceSession
<1> DEFINE m == Head(up[d])
           i == m.local_stream_id
           s == [device |-> d, local_stream_id |-> i, target |-> m.target]
           id == Len(opened) + 1
<1>1. /\ up' \in [Device -> Seq(UplinkMessage)] /\ i \in LocalId
      /\ m.target \in Peer \cup {NoPeer}
      /\ sessions[d] \in DeviceSession /\ sessions[d].active_streams \in [LocalId -> Nat]
  BY FromSessionFacts, UplinkFields DEF HandleStreamStart, BridgeTypeOK, SessionsType
<1> HIDE DEF m, i
<1>2. CASE m.target # NoPeer /\ node_running
  <2>1. s \in MeshStream
    BY <1>1, <1>2 DEF MeshStream
  <2>2. Len(opened) \in Nat /\ DOMAIN opened = 1..Len(opened)
    BY LenProperties DEF BridgeTypeOK
  <2>3. opened' = Append(opened, s) /\ open' = open \cup {id}
    BY <1>2 DEF HandleStreamStart, m, i
  <2>4. opened' \in Seq(MeshStream) /\ DOMAIN opened' = 1..id
    BY <2>1, <2>2, <2>3, AppendIsSeq, LenProperties DEF BridgeTypeOK
  <2>5. open' \subseteq DOMAIN opened'
    BY <2>2, <2>3, <2>4 DEF BridgeTypeOK
  <2>6. [sessions[d].active_streams EXCEPT ![i] = id] \in [LocalId -> Nat]
    BY <1>1, <2>2
  <2>7. [sessions[d] EXCEPT !.active_streams = [@ EXCEPT ![i] = id]] \in DeviceSession
    BY <1>1, <2>6 DEF DeviceSession
  <2>8. sessions' = [sessions EXCEPT ![d] =
                        [sessions[d] EXCEPT !.active_streams = [@ EXCEPT ![i] = id]]]
    BY <1>2 DEF HandleStreamStart, m, i
  <2>9. sessions' \in [Device -> DeviceSession \cup {NoSession}] /\ sessions'[d] \in DeviceSession
    BY <2>7, <2>8 DEF BridgeTypeOK
  <2> QED
    BY <1>1, <2>4, <2>5, <2>9 DEF HandleStreamStart, WireTypeOK, BridgeTypeOK, channel
<1>3. CASE ~(m.target # NoPeer /\ node_running)
  BY <1>1, <1>3 DEF HandleStreamStart, WireTypeOK, BridgeTypeOK, channel, m
<1> QED
  BY <1>2, <1>3

\* The target a message is forwarded to is one the device named: this needs
\* that the ids a session holds are ids of streams.
LEMMA HandleStreamDataTypeOK ==
    ASSUME WireTypeOK, BridgeTypeOK, HeldStreamsAreOwn, NEW d \in Device, HandleStreamData(d)
    PROVE  WireTypeOK' /\ BridgeTypeOK'
<1> DEFINE i == Head(up[d]).local_stream_id
           id == sessions[d].active_streams[i]
           p == [type |-> "StreamData", target |-> opened[id].target]
<1>1. /\ up' \in [Device -> Seq(UplinkMessage)] /\ i \in LocalId
      /\ sessions[d] # NoSession
  BY FromSessionFacts, UplinkFields DEF HandleStreamData, FromSession, BridgeTypeOK, SessionsType
<1> HIDE DEF i
<1>2. CASE id # NoStream
  <2>1. id \in DOMAIN opened
    BY <1>1, <1>2 DEF HeldStreamsAreOwn
  <2>2. opened[id] \in MeshStream
    BY <2>1, ElementOfSeq, LenProperties DEF BridgeTypeOK
  <2>3. p \in Publication
    BY <2>2 DEF Publication, MeshStream
  <2>4. Forward(d, p)
    BY <1>2 DEF HandleStreamData, i
  <2> QED
    BY <1>1, <2>3, <2>4, ForwardTypeOK
<1>3. CASE id = NoStream
  <2>1. UNCHANGED <<down, faults, scenario, bridge>>
    BY <1>3 DEF HandleStreamData, i
  <2> QED
    BY <1>1, <2>1 DEF WireTypeOK, BridgeTypeOK, bridge, node, channel
<1> QED
  BY <1>2, <1>3

LEMMA HandleStreamCloseTypeOK ==
    ASSUME WireTypeOK, BridgeTypeOK, NEW d \in Device, HandleStreamClose(d)
    PROVE  WireTypeOK' /\ BridgeTypeOK' /\ sessions'[d] \in DeviceSession
<1> DEFINE i == Head(up[d]).local_stream_id
<1>1. /\ up' \in [Device -> Seq(UplinkMessage)] /\ i \in LocalId
      /\ sessions[d] \in DeviceSession /\ sessions[d].active_streams \in [LocalId -> Nat]
  BY FromSessionFacts, UplinkFields DEF HandleStreamClose, BridgeTypeOK, SessionsType
<1> HIDE DEF i
<1>2. [sessions[d] EXCEPT !.active_streams = [@ EXCEPT ![i] = NoStream]] \in DeviceSession
  BY <1>1 DEF DeviceSession, NoStream
<1>3. sessions' = [sessions EXCEPT ![d] =
                      [sessions[d] EXCEPT !.active_streams = [@ EXCEPT ![i] = NoStream]]]
  BY DEF HandleStreamClose, i
<1>4. sessions' \in [Device -> DeviceSession \cup {NoSession}] /\ sessions'[d] \in DeviceSession
  BY <1>2, <1>3 DEF BridgeTypeOK
<1>5. open' \subseteq DOMAIN opened
  BY DEF HandleStreamClose, BridgeTypeOK
<1> QED
  BY <1>1, <1>4, <1>5 DEF HandleStreamClose, WireTypeOK, BridgeTypeOK, channel

LEMMA MeshEventArrivesTypeOK ==
    ASSUME WireTypeOK, BridgeTypeOK, NEW e \in MeshEvent, MeshEventArrives(e)
    PROVE  WireTypeOK' /\ BridgeTypeOK'
<1>1. Len(events) \in Nat /\ Len(events) <= EventCap /\ EventCap \in Nat \ {0}
  BY EventCapAssumption, LenProperties DEF BridgeTypeOK
<1>2. events' \in Seq(MeshEvent) /\ Len(events') <= EventCap
  <2>1. CASE Len(events) < EventCap
    BY <1>1, <2>1, AppendIsSeq DEF MeshEventArrives, BridgeTypeOK
  <2>2. CASE ~(Len(events) < EventCap)
    <3>1. events # <<>>
      BY <1>1, <2>2, EmptySeq
    <3>2. Tail(events) \in Seq(MeshEvent) /\ Len(Tail(events)) = Len(events) - 1
      BY <3>1, TailIsSeq DEF BridgeTypeOK
    <3>3. events' = Append(Tail(events), e)
      BY <2>2 DEF MeshEventArrives
    <3> QED
      BY <1>1, <3>2, <3>3, AppendIsSeq
  <2> QED
    BY <2>1, <2>2
<1>3. lagged' \in BOOLEAN
  BY DEF MeshEventArrives, BridgeTypeOK
<1> QED
  BY <1>2, <1>3 DEF MeshEventArrives, WireTypeOK, BridgeTypeOK, wire, node

LEMMA HandleDownlinkEventTypeOK ==
    ASSUME WireTypeOK, BridgeTypeOK, HandleDownlinkEvent
    PROVE  /\ WireTypeOK' /\ BridgeTypeOK'
           /\ \A d \in Device :
                 \/ down'[d] = down[d]
                 \/ /\ sessions[d] # NoSession
                    /\ \E e \in MeshEvent : e.type = "Message" /\ down'[d] = Append(down[d], e)
<1> DEFINE e == Head(events)
<1>1. /\ e \in MeshEvent /\ Tail(events) \in Seq(MeshEvent)
      /\ Len(Tail(events)) = Len(events) - 1 /\ Len(events) \in Nat
  BY TailIsSeq, LenProperties DEF HandleDownlinkEvent, BridgeTypeOK
<1>2. down' = [d \in Device |-> IF d \in Audience(e) THEN Append(down[d], e) ELSE down[d]]
  BY DEF HandleDownlinkEvent
<1> HIDE DEF e
<1>3. ASSUME NEW d \in Device, d \in Audience(e)
      PROVE  /\ e.type = "Message" /\ sessions[d] # NoSession
             /\ down'[d] = Append(down[d], e) /\ down'[d] \in Seq(DownlinkMessage)
  <2>1. e.type = "Message" /\ sessions[d] # NoSession
    BY <1>3 DEF Audience
  <2>2. e \in DownlinkMessage
    BY <1>1, <2>1 DEF MeshEvent, DownlinkMessage
  <2> QED
    BY <1>2, <1>3, <2>1, <2>2, AppendIsSeq DEF WireTypeOK
<1>4. down' \in [Device -> Seq(DownlinkMessage)]
  BY <1>2, <1>3 DEF WireTypeOK
<1>5. WireTypeOK' /\ BridgeTypeOK'
  BY <1>1, <1>4, EventCapAssumption DEF HandleDownlinkEvent, WireTypeOK, BridgeTypeOK, node, e
<1>6. ASSUME NEW d \in Device
      PROVE  \/ down'[d] = down[d]
             \/ /\ sessions[d] # NoSession
                /\ \E x \in MeshEvent : x.type = "Message" /\ down'[d] = Append(down[d], x)
  BY <1>1, <1>2, <1>3
<1> QED
  BY <1>5, <1>6

LEMMA RestartGatewayTypeOK ==
    ASSUME WireTypeOK, BridgeTypeOK, RestartGateway
    PROVE  WireTypeOK' /\ BridgeTypeOK'
<1>1. faults' \in Nat /\ faults' <= scenario'.faults /\ scenario' \in Scenarios
  BY FaultType DEF RestartGateway
<1>2. /\ opened' \in Seq(MeshStream) /\ open' \subseteq DOMAIN opened'
      /\ events' \in Seq(MeshEvent) /\ Len(events') <= EventCap
  BY EmptySeq, EventCapAssumption DEF RestartGateway
<1> QED
  BY <1>1, <1>2 DEF RestartGateway, WireTypeOK, BridgeTypeOK

LEMMA UplinkStepTypeOK ==
    ASSUME WireTypeOK, BridgeTypeOK, HeldStreamsAreOwn, NEW d \in Device, UplinkStep(d)
    PROVE  WireTypeOK' /\ BridgeTypeOK'
BY HelloTypeOK, UnknownDeviceTypeOK, HandleSubscribeTypeOK, HandleUnsubscribeTypeOK,
   ForwardingTypeOK, HandleStreamStartTypeOK, HandleStreamDataTypeOK, HandleStreamCloseTypeOK
   DEF UplinkStep

LEMMA GatewayStepTypeOK ==
    ASSUME WireTypeOK, BridgeTypeOK, HeldStreamsAreOwn, GatewayStep
    PROVE  WireTypeOK' /\ BridgeTypeOK'
<1>1. CASE \E d \in Device : UplinkStep(d)
  BY <1>1, UplinkStepTypeOK
<1>2. CASE \E e \in MeshEvent : MeshEventArrives(e)
  BY <1>2, MeshEventArrivesTypeOK
<1>3. CASE \E id \in open : MeshStreamEnds(id)
  BY <1>3 DEF MeshStreamEnds, WireTypeOK, BridgeTypeOK, wire, channel
<1>4. CASE HandleDownlinkEvent
  BY <1>4, HandleDownlinkEventTypeOK
<1>5. CASE DownlinkEnds
  BY <1>5 DEF DownlinkEnds, WireTypeOK, BridgeTypeOK, wire, node
<1>6. CASE NodeStops
  <2>1. faults' \in Nat /\ faults' <= scenario'.faults /\ scenario' \in Scenarios
    BY <1>6, FaultType DEF NodeStops
  <2> QED
    BY <1>6, <2>1 DEF NodeStops, WireTypeOK, BridgeTypeOK, channel
<1>7. CASE RestartGateway
  BY <1>7, RestartGatewayTypeOK
<1> QED
  BY <1>1, <1>2, <1>3, <1>4, <1>5, <1>6, <1>7 DEF GatewayStep

LEMMA WireFaultTypeOK ==
    ASSUME WireTypeOK, NEW d \in Device, WireFault(d)
    PROVE  WireTypeOK'
<1>1. faults' \in Nat /\ faults' <= scenario'.faults /\ scenario' \in Scenarios
  BY FaultType DEF WireFault
<1>2. CASE \E q \in Disturbed(up[d]) : up' = [up EXCEPT ![d] = q] /\ UNCHANGED down
  BY <1>1, <1>2, DisturbedIsSeq DEF WireTypeOK
<1>3. CASE \E q \in Disturbed(down[d]) : down' = [down EXCEPT ![d] = q] /\ UNCHANGED up
  BY <1>1, <1>3, DisturbedIsSeq DEF WireTypeOK
<1> QED
  BY <1>2, <1>3 DEF WireFault

-----------------------------------------------------------------------------
(* Streams.                                                                *)

\* The streams a session holds stay its own while its table only loses
\* entries and streams are only added.
LEMMA HeldStreamsKept ==
    ASSUME HeldStreamsAreOwn, NEW d \in Device,
           \/ UNCHANGED opened
           \/ \E s : opened \in Seq(MeshStream) /\ s \in MeshStream /\ opened' = Append(opened, s),
           \/ sessions'[d] = NoSession
           \/ /\ sessions[d] # NoSession
              /\ \A i \in LocalId :
                    sessions'[d].active_streams[i] \in {NoStream, sessions[d].active_streams[i]}
           \/ sessions'[d] # NoSession /\ sessions'[d].active_streams = NoStreams,
           NEW i \in LocalId
    PROVE  LET id == sessions'[d].active_streams[i]
           IN  sessions'[d] # NoSession /\ id # NoStream =>
                  /\ id \in DOMAIN opened'
                  /\ opened'[id].device = d /\ opened'[id].local_stream_id = i
<1> DEFINE id == sessions'[d].active_streams[i]
<1>1. SUFFICES ASSUME sessions'[d] # NoSession, id # NoStream
               PROVE  /\ id \in DOMAIN opened'
                      /\ opened'[id].device = d /\ opened'[id].local_stream_id = i
  OBVIOUS
<1>2. sessions[d] # NoSession /\ id = sessions[d].active_streams[i]
  BY <1>1 DEF NoStreams
<1>3. id \in DOMAIN opened /\ opened[id].device = d /\ opened[id].local_stream_id = i
  BY <1>1, <1>2 DEF HeldStreamsAreOwn
<1> HIDE DEF id
<1>4. CASE UNCHANGED opened
  BY <1>3, <1>4
<1>5. CASE \E s : opened \in Seq(MeshStream) /\ s \in MeshStream /\ opened' = Append(opened, s)
  <2>1. PICK s \in MeshStream : opened \in Seq(MeshStream) /\ opened' = Append(opened, s)
    BY <1>5
  <2>2. id \in 1..Len(opened) /\ Len(opened) \in Nat
    BY <1>3, <2>1, LenProperties
  <2>3. opened' \in Seq(MeshStream) /\ Len(opened') = Len(opened) + 1 /\ opened'[id] = opened[id]
    BY <2>1, <2>2, AppendProperties
  <2>4. id \in DOMAIN opened'
    BY <2>2, <2>3, LenProperties
  <2> QED
    BY <1>3, <2>3, <2>4
<1> QED
  BY <1>4, <1>5

LEMMA HandleStreamStartHeld ==
    ASSUME WireTypeOK, BridgeTypeOK, HeldStreamsAreOwn, NEW d \in Device, HandleStreamStart(d)
    PROVE  HeldStreamsAreOwn'
<1> DEFINE m == Head(up[d])
           k == m.local_stream_id
           s == [device |-> d, local_stream_id |-> k, target |-> m.target]
           new == Len(opened) + 1
<1>1. /\ k \in LocalId /\ m.target \in Peer \cup {NoPeer}
      /\ sessions[d] \in DeviceSession /\ sessions[d].active_streams \in [LocalId -> Nat]
      /\ sessions[d] # NoSession
  BY FromSessionFacts, UplinkFields
     DEF HandleStreamStart, FromSession, BridgeTypeOK, SessionsType
<1> HIDE DEF m, k
<1>2. CASE m.target # NoPeer /\ node_running
  <2>1. s \in MeshStream
    BY <1>1, <1>2 DEF MeshStream
  <2>2. opened \in Seq(MeshStream) /\ opened' = Append(opened, s)
    BY <1>2 DEF HandleStreamStart, BridgeTypeOK, m, k
  <2>3. sessions' = [sessions EXCEPT ![d] =
                        [sessions[d] EXCEPT !.active_streams = [@ EXCEPT ![k] = new]]]
    BY <1>2 DEF HandleStreamStart, m, k
  <2>4. /\ \A e \in Device \ {d} : sessions'[e] = sessions[e]
        /\ sessions'[d].active_streams = [sessions[d].active_streams EXCEPT ![k] = new]
        /\ sessions'[d] # NoSession
    <3>1. sessions'[d] = [sessions[d] EXCEPT !.active_streams = [@ EXCEPT ![k] = new]]
      BY <2>3 DEF BridgeTypeOK
    <3>2. [sessions[d].active_streams EXCEPT ![k] = new] \in [LocalId -> Nat]
      BY <1>1, <2>2, LenProperties
    <3>3. sessions'[d] \in DeviceSession
      BY <1>1, <3>1, <3>2 DEF DeviceSession
    <3> QED
      BY <1>1, <2>3, <3>1, <3>3, NoSessionAssumption DEF BridgeTypeOK, DeviceSession
  <2>5. ASSUME NEW e \in Device, NEW i \in LocalId, e # d \/ i # k
        PROVE  LET id == sessions'[e].active_streams[i]
               IN  sessions'[e] # NoSession /\ id # NoStream =>
                      /\ id \in DOMAIN opened'
                      /\ opened'[id].device = e /\ opened'[id].local_stream_id = i
    <3> DEFINE id == sessions'[e].active_streams[i]
    <3>1. SUFFICES ASSUME sessions'[e] # NoSession, id # NoStream
                   PROVE  /\ id \in DOMAIN opened'
                          /\ opened'[id].device = e /\ opened'[id].local_stream_id = i
      OBVIOUS
    <3>2. sessions[e] # NoSession /\ id = sessions[e].active_streams[i]
      BY <1>1, <2>4, <2>5, <3>1
    <3>3. id \in DOMAIN opened /\ opened[id].device = e /\ opened[id].local_stream_id = i
      BY <3>1, <3>2 DEF HeldStreamsAreOwn
    <3> HIDE DEF id
    <3>4. id \in 1..Len(opened) /\ Len(opened) \in Nat
      BY <2>2, <3>3, LenProperties
    <3>5. opened'[id] = opened[id] /\ id \in DOMAIN opened'
      BY <2>1, <2>2, <3>4, AppendProperties, LenProperties
    <3> QED
      BY <3>3, <3>5
  <2>6. LET id == sessions'[d].active_streams[k]
        IN  id \in DOMAIN opened' /\ opened'[id].device = d /\ opened'[id].local_stream_id = k
    <3>1. sessions'[d].active_streams[k] = new
      BY <1>1, <2>4
    <3>2. opened'[new] = s /\ new \in DOMAIN opened'
      BY <2>1, <2>2, AppendProperties, LenProperties
    <3> QED
      BY <3>1, <3>2
  <2> QED
    BY <2>5, <2>6 DEF HeldStreamsAreOwn
<1>3. CASE ~(m.target # NoPeer /\ node_running)
  BY <1>3 DEF HandleStreamStart, HeldStreamsAreOwn, m
<1> QED
  BY <1>2, <1>3

LEMMA UplinkStepHeld ==
    ASSUME WireTypeOK, BridgeTypeOK, HeldStreamsAreOwn, NEW d \in Device, UplinkStep(d)
    PROVE  HeldStreamsAreOwn'
<1>1. CASE HandleStreamStart(d)
  BY <1>1, HandleStreamStartHeld
<1>2. CASE Hello(d)
  <2>1. sessions' = [sessions EXCEPT ![d] =
            [device_id |-> Head(up[d]).device_id, active_streams |-> NoStreams,
             subscriptions |-> {}]]
    BY <1>2 DEF Hello
  <2>2. opened' = opened
    BY <1>2 DEF Hello, node
  <2> QED
    BY <2>1, <2>2 DEF HeldStreamsAreOwn, BridgeTypeOK, NoStreams
<1>3. CASE HandleSubscribe(d) \/ HandleUnsubscribe(d)
  <2>1. opened' = opened
    BY <1>3 DEF HandleSubscribe, HandleUnsubscribe
  <2>2. sessions[d] \in DeviceSession /\ sessions[d] # NoSession
    BY <1>3, FromSessionFacts
       DEF HandleSubscribe, HandleUnsubscribe, FromSession, BridgeTypeOK, SessionsType
  <2>3. \/ sessions' = sessions
        \/ \E set : sessions' = [sessions EXCEPT ![d] =
                                    [sessions[d] EXCEPT !.subscriptions = set]]
    BY <1>3 DEF HandleSubscribe, HandleUnsubscribe
  <2>4. \A e \in Device : sessions'[e] # NoSession =>
           sessions[e] # NoSession /\ sessions'[e].active_streams = sessions[e].active_streams
    BY <2>2, <2>3 DEF BridgeTypeOK, DeviceSession
  <2> QED
    BY <2>1, <2>4 DEF HeldStreamsAreOwn
<1>4. CASE HandleStreamClose(d)
  <2> DEFINE k == Head(up[d]).local_stream_id
  <2>1. opened' = opened
    BY <1>4 DEF HandleStreamClose
  <2>2. sessions[d] \in DeviceSession /\ sessions[d] # NoSession
    BY <1>4, FromSessionFacts DEF HandleStreamClose, FromSession, BridgeTypeOK, SessionsType
  <2>3. sessions' = [sessions EXCEPT ![d] =
                        [sessions[d] EXCEPT !.active_streams = [@ EXCEPT ![k] = NoStream]]]
    BY <1>4 DEF HandleStreamClose
  <2> HIDE DEF k
  <2>4. \A e \in Device, i \in LocalId : sessions'[e] # NoSession =>
           /\ sessions[e] # NoSession
           /\ sessions'[e].active_streams[i] \in {NoStream, sessions[e].active_streams[i]}
    BY <2>2, <2>3 DEF BridgeTypeOK, DeviceSession
  <2> QED
    BY <2>1, <2>4 DEF HeldStreamsAreOwn
<1>5. CASE UNCHANGED <<sessions, opened>>
  BY <1>5 DEF HeldStreamsAreOwn
<1> QED
  BY <1>1, <1>2, <1>3, <1>4, <1>5 DEF UplinkStep, UnknownDevice, HandlePublish,
     HandleButtonPress, HandleSensorUpdate, HandleStreamData, Forward, bridge, node

LEMMA GatewayStepHeld ==
    ASSUME WireTypeOK, BridgeTypeOK, HeldStreamsAreOwn, GatewayStep
    PROVE  HeldStreamsAreOwn'
<1>1. CASE \E d \in Device : UplinkStep(d)
  BY <1>1, UplinkStepHeld
<1>2. CASE RestartGateway
  BY <1>2 DEF RestartGateway, HeldStreamsAreOwn
<1>3. CASE UNCHANGED <<sessions, opened>>
  BY <1>3 DEF HeldStreamsAreOwn
<1> QED
  BY <1>1, <1>2, <1>3 DEF GatewayStep, MeshEventArrives, MeshStreamEnds, HandleDownlinkEvent,
     DownlinkEnds, NodeStops, node

-----------------------------------------------------------------------------
(* Topics.                                                                 *)

LEMMA SubscribeStarved ==
    ASSUME WireTypeOK, BridgeTypeOK, StarvedByOthersOnly, NEW d \in Device,
           HandleSubscribe(d) \/ HandleUnsubscribe(d)
    PROVE  StarvedByOthersOnly'
<1> DEFINE t == Head(up[d]).topic
<1>1. /\ t \in Topic /\ sessions[d] # NoSession /\ sessions[d] \in DeviceSession
      /\ sessions[d].subscriptions \subseteq Topic
  BY FromSessionFacts, UplinkFields
     DEF HandleSubscribe, HandleUnsubscribe, FromSession, BridgeTypeOK, SessionsType
<1> HIDE DEF t
<1> SUFFICES ASSUME NEW e \in Device, sessions'[e] # NoSession,
                    NEW u \in sessions'[e].subscriptions \ mesh_topics'
             PROVE  taken_off'[u] \in Device \ {e}
  BY DEF StarvedByOthersOnly
<1>2. CASE HandleSubscribe(d)
  <2>1. CASE node_running
    <3>1. /\ mesh_topics' = mesh_topics \cup {t} /\ taken_off' = [taken_off EXCEPT ![t] = NoDevice]
          /\ sessions' = [sessions EXCEPT ![d] =
                             [sessions[d] EXCEPT !.subscriptions = @ \cup {t}]]
      BY <1>2, <2>1 DEF HandleSubscribe, t
    <3>2. sessions[e] # NoSession /\ u \in sessions[e].subscriptions \ mesh_topics /\ u # t
      BY <1>1, <3>1 DEF BridgeTypeOK, DeviceSession
    <3> QED
      BY <1>1, <3>1, <3>2 DEF StarvedByOthersOnly, BridgeTypeOK, DeviceSession
  <2>2. CASE ~node_running
    BY <1>2, <2>2 DEF HandleSubscribe, StarvedByOthersOnly
  <2> QED
    BY <2>1, <2>2
<1>3. CASE HandleUnsubscribe(d)
  <2>1. sessions' = [sessions EXCEPT ![d] = [sessions[d] EXCEPT !.subscriptions = @ \ {t}]]
    BY <1>3 DEF HandleUnsubscribe, t
  <2>2. /\ sessions[e] # NoSession /\ u \in sessions[e].subscriptions /\ u \in Topic
        /\ e = d => u # t
    BY <1>1, <2>1 DEF BridgeTypeOK, DeviceSession
  <2>3. CASE node_running
    <3>1. mesh_topics' = mesh_topics \ {t} /\ taken_off' = [taken_off EXCEPT ![t] = d]
      BY <1>3, <2>3 DEF HandleUnsubscribe, t
    <3>2. CASE u = t
      BY <1>1, <2>2, <3>1, <3>2 DEF BridgeTypeOK
    <3>3. CASE u # t
      BY <2>2, <3>1, <3>3 DEF StarvedByOthersOnly
    <3> QED
      BY <3>2, <3>3
  <2>4. CASE ~node_running
    <3>1. mesh_topics' = mesh_topics /\ taken_off' = taken_off
      BY <1>3, <2>4 DEF HandleUnsubscribe
    <3> QED
      BY <2>2, <3>1 DEF StarvedByOthersOnly
  <2> QED
    BY <2>3, <2>4
<1> QED
  BY <1>2, <1>3

LEMMA UplinkStepStarved ==
    ASSUME WireTypeOK, BridgeTypeOK, StarvedByOthersOnly, NEW d \in Device, UplinkStep(d)
    PROVE  StarvedByOthersOnly'
<1>1. CASE HandleSubscribe(d) \/ HandleUnsubscribe(d)
  BY <1>1, SubscribeStarved
<1>2. CASE Hello(d)
  <2>1. sessions' = [sessions EXCEPT ![d] =
            [device_id |-> Head(up[d]).device_id, active_streams |-> NoStreams,
             subscriptions |-> {}]]
    BY <1>2 DEF Hello
  <2>2. UNCHANGED <<mesh_topics, taken_off>>
    BY <1>2 DEF Hello, node
  <2> QED
    BY <2>1, <2>2 DEF StarvedByOthersOnly, BridgeTypeOK
<1>3. CASE HandleStreamStart(d) \/ HandleStreamClose(d)
  <2>1. UNCHANGED <<mesh_topics, taken_off>>
    BY <1>3 DEF HandleStreamStart, HandleStreamClose
  <2>2. sessions[d] \in DeviceSession /\ sessions[d] # NoSession
    BY <1>3, FromSessionFacts
       DEF HandleStreamStart, HandleStreamClose, FromSession, BridgeTypeOK, SessionsType
  <2>3. \/ sessions' = sessions
        \/ \E table : sessions' = [sessions EXCEPT ![d] =
                                    [sessions[d] EXCEPT !.active_streams = table]]
    BY <1>3 DEF HandleStreamStart, HandleStreamClose
  <2>4. \A e \in Device : sessions'[e] # NoSession =>
           sessions[e] # NoSession /\ sessions'[e].subscriptions = sessions[e].subscriptions
    BY <2>2, <2>3 DEF BridgeTypeOK, DeviceSession
  <2> QED
    BY <2>1, <2>4 DEF StarvedByOthersOnly
<1>4. CASE UNCHANGED <<sessions, mesh_topics, taken_off>>
  BY <1>4 DEF StarvedByOthersOnly
<1> QED
  BY <1>1, <1>2, <1>3, <1>4 DEF UplinkStep, UnknownDevice, HandlePublish,
     HandleButtonPress, HandleSensorUpdate, HandleStreamData, Forward, bridge, node

LEMMA GatewayStepStarved ==
    ASSUME WireTypeOK, BridgeTypeOK, StarvedByOthersOnly, GatewayStep
    PROVE  StarvedByOthersOnly'
<1>1. CASE \E d \in Device : UplinkStep(d)
  BY <1>1, UplinkStepStarved
<1>2. CASE RestartGateway
  BY <1>2 DEF RestartGateway, StarvedByOthersOnly
<1>3. CASE UNCHANGED <<sessions, mesh_topics, taken_off>>
  BY <1>3 DEF StarvedByOthersOnly
<1> QED
  BY <1>1, <1>2, <1>3 DEF GatewayStep, MeshEventArrives, MeshStreamEnds, HandleDownlinkEvent,
     DownlinkEnds, NodeStops, node

-----------------------------------------------------------------------------
(* Sessions.  ConnectedMeansSession is about positions in a queue; what a  *)
(* fault keeps of a queue is the set its messages are from.                *)

Quiet == {m \in DownlinkMessage : m.type # "Welcome"}

QuietUntilSession ==
    ~restarted => \A d \in Device :
       sessions[d] = NoSession => ~is_connected[d] /\ down[d] \in Seq(Quiet)

LEMMA QuietMeansUnwelcomed ==
    ASSUME QuietUntilSession
    PROVE  ConnectedMeansSession
<1> SUFFICES ASSUME ~restarted, NEW d \in Device, Welcomed(d), sessions[d] = NoSession
             PROVE  FALSE
  BY DEF ConnectedMeansSession
<1>1. ~is_connected[d] /\ down[d] \in Seq(Quiet)
  BY DEF QuietUntilSession
<1>2. \A i \in DOMAIN down[d] : down[d][i] \in Quiet
  BY <1>1, LenProperties
<1> QED
  BY <1>1, <1>2 DEF Welcomed, Quiet

\* A step that keeps the sessions there are keeps the property, if what it
\* does to a device without one is quiet.
LEMMA QuietKept ==
    ASSUME QuietUntilSession, restarted' = restarted,
           NEW d \in Device,
           \A e \in Device : sessions'[e] = NoSession => sessions[e] = NoSession,
           \A e \in Device \ {d} : is_connected'[e] = is_connected[e] /\ down'[e] = down[e],
           ~restarted /\ sessions'[d] = NoSession /\ ~is_connected[d] /\ down[d] \in Seq(Quiet)
              => ~is_connected'[d] /\ down'[d] \in Seq(Quiet)
    PROVE  QuietUntilSession'
BY DEF QuietUntilSession

LEMMA ClientStepQuiet ==
    ASSUME WireTypeOK, ClientTypeOK, QuietUntilSession, NEW d \in Device, ClientStep(d),
           UNCHANGED bridge
    PROVE  QuietUntilSession'
<1>1. sessions' = sessions /\ restarted' = restarted
  BY DEF bridge
<1>2. CASE UNCHANGED <<down, is_connected>>
  BY <1>1, <1>2 DEF QuietUntilSession
<1>3. CASE AwaitDatagram(d) \/ PollDatagram(d)
  <2>1. down[d] # <<>> /\ down' = [down EXCEPT ![d] = Tail(@)]
    BY <1>3 DEF AwaitDatagram, PollDatagram, ReceiveDown
  <2>2. \/ is_connected' = [is_connected EXCEPT ![d] = (Head(down[d]).type = "Welcome")]
        \/ is_connected' = [is_connected EXCEPT ![d] = @ \/ Head(down[d]).type = "Welcome"]
    BY <1>3 DEF AwaitDatagram, PollDatagram
  <2>3. ASSUME down[d] \in Seq(Quiet), ~is_connected[d]
        PROVE  ~is_connected'[d] /\ down'[d] \in Seq(Quiet)
    <3>1. Tail(down[d]) \in Seq(Quiet) /\ Head(down[d]).type # "Welcome"
      BY <2>1, <2>3, TailIsSeq DEF Quiet
    <3>2. down'[d] = Tail(down[d])
      BY <2>1 DEF WireTypeOK
    <3>3. ~is_connected'[d]
      BY <2>2, <2>3, <3>1 DEF ClientTypeOK
    <3> QED
      BY <3>1, <3>2, <3>3
  <2>4. \A e \in Device \ {d} : is_connected'[e] = is_connected[e] /\ down'[e] = down[e]
    BY <2>1, <2>2 DEF WireTypeOK, ClientTypeOK
  <2> QED
    BY <1>1, <2>3, <2>4, QuietKept
<1>4. CASE UNCHANGED down /\ is_connected' = [is_connected EXCEPT ![d] = FALSE]
  BY <1>1, <1>4 DEF QuietUntilSession, ClientTypeOK
<1> QED
  BY <1>2, <1>3, <1>4 DEF ClientStep, ApplicationCall, Connect, Subscribe, Unsubscribe,
     Publish, StartStream, SendStreamData, CloseStream, ButtonPressed, UpdateSensor,
     SendCommand, ConnectAgain, ProcessCommand, AwaitNothing, QueueDrained, PollNothing,
     RestartDevice, wire

LEMMA UplinkStepQuiet ==
    ASSUME WireTypeOK, BridgeTypeOK, QuietUntilSession, NEW d \in Device, UplinkStep(d),
           UNCHANGED clients
    PROVE  QuietUntilSession'
<1>1. is_connected' = is_connected
  BY DEF clients, client
<1>2. restarted' = restarted
  BY DEF UplinkStep, Hello, UnknownDevice, HandleSubscribe, HandleUnsubscribe, HandlePublish,
     HandleButtonPress, HandleSensorUpdate, HandleStreamStart, HandleStreamData,
     HandleStreamClose, Forward, bridge
<1>3. CASE UNCHANGED <<sessions, down>>
  BY <1>1, <1>2, <1>3 DEF QuietUntilSession
<1>4. CASE Hello(d)
  <2>1. \E s \in DeviceSession : sessions' = [sessions EXCEPT ![d] = s]
    <3>1. Head(up[d]).device_id \in Device
      BY <1>4, ReceiveUpType, UplinkFields DEF Hello, WireTypeOK
    <3>2. [device_id |-> Head(up[d]).device_id, active_streams |-> NoStreams,
           subscriptions |-> {}] \in DeviceSession
      BY <3>1 DEF DeviceSession, NoStreams, NoStream
    <3> QED
      BY <1>4, <3>2 DEF Hello
  <2>2. sessions'[d] # NoSession /\ \A e \in Device \ {d} : sessions'[e] = sessions[e]
    BY <2>1, NoSessionAssumption DEF BridgeTypeOK
  <2>3. \A e \in Device \ {d} : down'[e] = down[e]
    BY <1>4 DEF Hello, SendDown, WireTypeOK
  <2> QED
    BY <1>1, <1>2, <2>2, <2>3 DEF QuietUntilSession
<1>5. CASE \/ HandleSubscribe(d) \/ HandleUnsubscribe(d)
           \/ HandleStreamStart(d) \/ HandleStreamClose(d)
  <2>1. sessions[d] # NoSession
    BY <1>5 DEF HandleSubscribe, HandleUnsubscribe, HandleStreamStart, HandleStreamClose, FromSession
  <2>2. \A e \in Device \ {d} : sessions'[e] = sessions[e] /\ down'[e] = down[e]
    BY <1>5 DEF HandleSubscribe, HandleUnsubscribe, HandleStreamStart, HandleStreamClose,
       SendDown, BridgeTypeOK, WireTypeOK
  <2>3. sessions'[d] # NoSession
    BY <1>5, HandleSubscribeTypeOK, HandleUnsubscribeTypeOK, HandleStreamStartTypeOK,
       HandleStreamCloseTypeOK, NoSessionAssumption
  <2> QED
    BY <1>1, <1>2, <2>2, <2>3 DEF QuietUntilSession
<1> QED
  BY <1>3, <1>4, <1>5 DEF UplinkStep, UnknownDevice, HandlePublish, HandleButtonPress,
     HandleSensorUpdate, HandleStreamData, Forward, bridge

LEMMA GatewayStepQuiet ==
    ASSUME WireTypeOK, BridgeTypeOK, QuietUntilSession, GatewayStep, UNCHANGED clients
    PROVE  QuietUntilSession'
<1>1. is_connected' = is_connected
  BY DEF clients, client
<1>2. CASE \E d \in Device : UplinkStep(d)
  BY <1>2, UplinkStepQuiet
<1>3. CASE RestartGateway
  BY <1>3 DEF RestartGateway, QuietUntilSession
<1>4. CASE HandleDownlinkEvent
  <2>1. UNCHANGED <<sessions, restarted>>
    BY <1>4 DEF HandleDownlinkEvent
  <2>2. \A d \in Device : sessions[d] = NoSession => down'[d] = down[d]
    BY <1>4, HandleDownlinkEventTypeOK
  <2> QED
    BY <1>1, <2>1, <2>2 DEF QuietUntilSession
<1>5. CASE UNCHANGED <<sessions, down, restarted>>
  BY <1>1, <1>5 DEF QuietUntilSession
<1> QED
  BY <1>2, <1>3, <1>4, <1>5 DEF GatewayStep, MeshEventArrives, MeshStreamEnds,
     DownlinkEnds, NodeStops, wire

LEMMA WireFaultQuiet ==
    ASSUME WireTypeOK, QuietUntilSession, NEW d \in Device, WireFault(d)
    PROVE  QuietUntilSession'
<1>1. UNCHANGED <<sessions, restarted, is_connected>>
  BY DEF WireFault, clients, client, bridge
<1>2. CASE UNCHANGED down
  BY <1>1, <1>2 DEF QuietUntilSession
<1>3. CASE \E q \in Disturbed(down[d]) : down' = [down EXCEPT ![d] = q]
  <2>1. PICK q \in Disturbed(down[d]) : down' = [down EXCEPT ![d] = q]
    BY <1>3
  <2>2. down'[d] = q /\ \A e \in Device \ {d} : down'[e] = down[e]
    BY <2>1 DEF WireTypeOK
  <2>3. down[d] \in Seq(Quiet) => q \in Seq(Quiet)
    BY <2>1, DisturbedIsSeq
  <2> QED
    BY <1>1, <2>2, <2>3 DEF QuietUntilSession
<1> QED
  BY <1>2, <1>3 DEF WireFault

-----------------------------------------------------------------------------
(* The invariant, and the theorems.                                        *)

GatewayInvariant ==
    TypeOK /\ HeldStreamsAreOwn /\ StarvedByOthersOnly /\ QuietUntilSession

LEMMA InitInvariant == Init => GatewayInvariant
<1> SUFFICES ASSUME Init PROVE GatewayInvariant
  OBVIOUS
<1>1. WireTypeOK
  <2>1. scenario \in Scenario
    BY ScenarioAssumption DEF Init, WireInit
  <2>2. scenario.faults \in Nat
    BY <2>1 DEF Scenario
  <2> QED
    BY <2>2, EmptySeq DEF Init, WireInit, WireTypeOK
<1>2. ClientTypeOK
  BY <1>1, ScenarioFacts, EmptySeq, QueueAssumption DEF Init, ClientInit, ClientTypeOK
<1>3. BridgeTypeOK
  <2>1. /\ sessions \in [Device -> DeviceSession \cup {NoSession}]
        /\ forwarded \in [Device -> Seq(Publication)]
        /\ taken_off \in [Topic -> Device \cup {NoDevice}]
    BY EmptySeq DEF Init, BridgeInit
  <2>2. /\ mesh_topics \subseteq Topic
        /\ opened \in Seq(MeshStream) /\ open \subseteq DOMAIN opened
        /\ events \in Seq(MeshEvent) /\ Len(events) <= EventCap
    BY EmptySeq, EventCapAssumption DEF Init, BridgeInit
  <2> QED
    BY <2>1, <2>2 DEF Init, BridgeInit, BridgeTypeOK
<1>4. HeldStreamsAreOwn /\ StarvedByOthersOnly
  BY DEF Init, BridgeInit, HeldStreamsAreOwn, StarvedByOthersOnly
<1>5. QuietUntilSession
  BY EmptySeq DEF Init, WireInit, ClientInit, QuietUntilSession
<1> QED
  BY <1>1, <1>2, <1>3, <1>4, <1>5 DEF GatewayInvariant, TypeOK, Init

LEMMA NextInvariant == GatewayInvariant /\ [Next]_vars => GatewayInvariant'
<1> SUFFICES ASSUME GatewayInvariant, [Next]_vars PROVE GatewayInvariant'
  OBVIOUS
<1> USE DEF GatewayInvariant, TypeOK
<1>1. ASSUME NEW d \in Device, DeviceStep(d) PROVE GatewayInvariant'
  <2>1. WireTypeOK' /\ ClientTypeOK'
    BY <1>1, ClientStepTypeOK DEF DeviceStep
  <2>2. careless' \subseteq Device
    BY <1>1 DEF DeviceStep, NoteCareless
  <2>3. QuietUntilSession'
    BY <1>1, ClientStepQuiet DEF DeviceStep
  <2>4. UNCHANGED bridge
    BY <1>1 DEF DeviceStep
  <2>5. BridgeTypeOK'
    BY <2>4 DEF bridge, node, channel, BridgeTypeOK
  <2>6. HeldStreamsAreOwn' /\ StarvedByOthersOnly'
    BY <2>4 DEF bridge, node, HeldStreamsAreOwn, StarvedByOthersOnly
  <2> QED
    BY <2>1, <2>2, <2>3, <2>5, <2>6
<1>2. ASSUME NEW d \in Device, WireFault(d) PROVE GatewayInvariant'
  <2>1. WireTypeOK' /\ QuietUntilSession'
    BY <1>2, WireFaultTypeOK, WireFaultQuiet
  <2>2. UNCHANGED <<clients, bridge, careless>> /\ scenario' = scenario
    BY <1>2 DEF WireFault, Fault
  <2>3. ClientTypeOK' /\ careless' \subseteq Device
    BY <2>2 DEF clients, client, ClientTypeOK
  <2>4. BridgeTypeOK'
    BY <2>2 DEF bridge, node, channel, BridgeTypeOK
  <2>5. HeldStreamsAreOwn' /\ StarvedByOthersOnly'
    BY <2>2 DEF bridge, node, HeldStreamsAreOwn, StarvedByOthersOnly
  <2> QED
    BY <2>1, <2>3, <2>4, <2>5
<1>3. ASSUME GatewayStep, UNCHANGED <<clients, careless>> PROVE GatewayInvariant'
  <2>1. WireTypeOK' /\ BridgeTypeOK'
    BY <1>3, GatewayStepTypeOK
  <2>2. HeldStreamsAreOwn' /\ StarvedByOthersOnly' /\ QuietUntilSession'
    BY <1>3, GatewayStepHeld, GatewayStepStarved, GatewayStepQuiet
  <2>3. scenario' = scenario
    BY <1>3 DEF GatewayStep, UplinkStep, Hello, UnknownDevice, HandleSubscribe,
       HandleUnsubscribe, HandlePublish, HandleButtonPress, HandleSensorUpdate,
       HandleStreamStart, HandleStreamData, HandleStreamClose, Forward, MeshEventArrives,
       MeshStreamEnds, HandleDownlinkEvent, DownlinkEnds, NodeStops, RestartGateway, Fault, wire
  <2>4. ClientTypeOK' /\ careless' \subseteq Device
    BY <1>3, <2>3 DEF clients, client, ClientTypeOK
  <2> QED
    BY <2>1, <2>2, <2>4
<1>4. CASE UNCHANGED vars
  <2>1. WireTypeOK' /\ ClientTypeOK' /\ BridgeTypeOK' /\ careless' \subseteq Device
    BY <1>4 DEF vars, wire, clients, client, bridge, node, channel, WireTypeOK,
       ClientTypeOK, BridgeTypeOK
  <2>2. HeldStreamsAreOwn' /\ StarvedByOthersOnly' /\ QuietUntilSession'
    BY <1>4 DEF vars, wire, clients, client, bridge, node, HeldStreamsAreOwn,
       StarvedByOthersOnly, QuietUntilSession
  <2> QED
    BY <2>1, <2>2
<1> QED
  BY <1>1, <1>2, <1>3, <1>4 DEF Next

LEMMA InvariantHolds == Spec => []GatewayInvariant
BY InitInvariant, NextInvariant, PTL DEF Spec

(* Queues, datagrams, sessions and streams are what the library and the    *)
(* bridge take them for, whatever the wire does; above all, the stream a   *)
(* StreamData is forwarded to exists (bridge.rs).                          *)
THEOREM TypeCorrect == Spec => []TypeOK
<1>1. GatewayInvariant => TypeOK
  BY DEF GatewayInvariant
<1> QED
  BY <1>1, InvariantHolds, PTL

(* A device that believes it is connected has a session with a gateway     *)
(* that has not restarted, whatever is lost, doubled or overtaken (connect *)
(* and poll of the client, Hello of the bridge).                           *)
THEOREM ConnectedHaveSessions == Spec => []ConnectedMeansSession
<1>1. GatewayInvariant => ConnectedMeansSession
  BY QuietMeansUnwelcomed DEF GatewayInvariant
<1> QED
  BY <1>1, InvariantHolds, PTL

(* No stream is in the sessions of two devices, or under two local ids     *)
(* (StreamStart and Hello of the bridge).                                  *)
THEOREM StreamsAreOwn == Spec => []HeldStreamsAreOwn
<1>1. GatewayInvariant => HeldStreamsAreOwn
  BY DEF GatewayInvariant
<1> QED
  BY <1>1, InvariantHolds, PTL

(* A device misses the topic it is subscribed to only by the doing of      *)
(* another device of its gateway (Subscribe and Unsubscribe of the bridge).*)
THEOREM StarvedByOthers == Spec => []StarvedByOthersOnly
<1>1. GatewayInvariant => StarvedByOthersOnly
  BY DEF GatewayInvariant
<1> QED
  BY <1>1, InvariantHolds, PTL
=============================================================================

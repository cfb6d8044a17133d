--------------------------- MODULE RuntimeProofs ---------------------------
(***************************************************************************)
(* Proofs about meshes of runtimes of any size.                            *)
(***************************************************************************)
EXTENDS TLAPS, FiniteSetTheorems, SequenceTheorems, RuntimeProperties, AviContextProofs

-----------------------------------------------------------------------------
(* Typing.                                                                 *)

LEMMA NewContextType ==
    ASSUME NEW n \in Node, NEW now \in Time
    PROVE  NewContext(n, now) \in Context
  BY SkeletonAssumption DEF NewContext, Context, ZeroClock, VectorClock

LEMMA InitTypeOK == Init => TypeOK
  <1> SUFFICES ASSUME Init PROVE TypeOK
    OBVIOUS
  <1>1. NetworkTypeOK
    BY PairAssumption DEF Init, NetworkInit, NetworkTypeOK, Pair
  <1>2. local_context \in [Node -> Context]
    BY NewContextType DEF Init
  <1>3. QED
    BY <1>1, <1>2 DEF Init, TypeOK

(* What the handlers emit.                                                 *)
LEMMA EmitType ==
    ASSUME NEW n \in Node, NEW list \in Seq(Event), Emit(n, list)
    PROVE  events' \in [Node -> Seq(Event)]
  BY DEF Emit

LEMMA SilentType == Silent => events' \in [Node -> Seq(Event)]
  BY DEF Silent

LEMMA EventListType ==
    /\ <<>> \in Seq(Event)
    /\ \A e \in Event : <<e>> \in Seq(Event)
  OBVIOUS

LEMMA BumpType ==
    ASSUME NEW n \in Node, NEW x \in Context
    PROVE  [x EXCEPT !.vector_clock = Increment(@, n)] \in Context
  BY DEF Increment, Context, VectorClock

LEMMA PatchType ==
    ASSUME NEW x \in Context, NEW doc \in Doc, NEW now \in Time
    PROVE  ApplyPatch(x, doc, now) \in Context /\ ReplaceData(x, doc, now) \in Context
  <1>1. DeepMerge(x.data, doc, FALSE) \in Doc
    BY DeepMergeKeys DEF Context
  <1>2. QED
    BY <1>1 DEF ApplyPatch, ReplaceData, Context

LEMMA CommitType ==
    ASSUME TypeOK, NEW n \in Node, NEW x \in Context, NEW keys \in SUBSET Key,
           Commit(n, x, keys)
    PROVE  TypeOK'
  <1> DEFINE next == [x EXCEPT !.vector_clock = Increment(@, n)]
  <1>1. next \in Context
    BY BumpType
  <1>2. /\ local_context' = [local_context EXCEPT ![n] = next]
        /\ Broadcast(n, next)
        /\ written' = written \cup {[by |-> n, seq |-> next.vector_clock[n],
                                     keys |-> keys, data |-> next.data]}
        /\ Silent
        /\ UNCHANGED <<dialing, link, wire, known_topics, outages, connections, streaming>>
    BY DEF Commit
  <1>3. local_context' \in [Node -> Context]
    BY <1>1, <1>2 DEF TypeOK
  <1>4. written' \subseteq Write
    BY <1>1, <1>2 DEF TypeOK, Write, Context, VectorClock
  <1>5. topics' \in [Node -> SUBSET Topic]
    BY <1>2, TopicAssumption DEF Broadcast, TypeOK
  <1>6. gossip' \subseteq GossipCopy
    <2>1. PICK S \in GossipReach(n, ContextTopic, peers[n], Subscribers(ContextTopic)) :
             gossip' = gossip \cup [topic : {ContextTopic}, from : {n}, to : S, context : {next}]
      BY <1>2 DEF Broadcast
    <2>2. S \subseteq Node
      BY DEF GossipReach, Subscribers
    <2>3. [topic : {ContextTopic}, from : {n}, to : S, context : {next}] \subseteq ContextGossip
      BY <1>1, <2>2 DEF ContextGossip
    <2>4. QED
      BY <2>1, <2>3 DEF TypeOK, NetworkTypeOK, GossipCopy
  <1>7. QED
    BY <1>2, <1>3, <1>4, <1>5, <1>6, SilentType
       DEF TypeOK, NetworkTypeOK, connections, streaming

LEMMA SendControlType ==
    ASSUME TypeOK, NEW m \in ControlMessage, SendControl(m)
    PROVE  /\ NetworkTypeOK'
           /\ sent' \subseteq Agreement
           /\ events' \in [Node -> Seq(Event)]
           /\ UNCHANGED <<connections, topics, replica>>
  <1>1. <<m.from, m.to>> \in Pair
    BY DEF ControlMessage, Pair
  <1>2. wire' \subseteq WireMessage /\ dialing' \subseteq Pair
    BY <1>1 DEF SendControl, Send, TypeOK, NetworkTypeOK, WireMessage
  <1>3. QED
    BY <1>2, SilentType DEF SendControl, TypeOK, NetworkTypeOK

LEMMA StreamUpdateType ==
    ASSUME TypeOK, NEW n \in Node, NEW i \in StreamId, NEW entry \in StreamState \cup {NoStream},
           streams' = [streams EXCEPT ![n][i] = entry]
    PROVE  streams' \in [Node -> [StreamId -> StreamState \cup {NoStream}]]
  BY DEF TypeOK

LEMMA StreamCommandType ==
    ASSUME TypeOK, NEW n \in Node, NEW i \in StreamId,
           AcceptStream(n, i) \/ RejectStream(n, i) \/ SendStreamData(n, i) \/ CloseStream(n, i)
    PROVE  TypeOK'
  <1> DEFINE s == streams[n][i]
  <1>1. s \in StreamState /\ s.peer \in Node
    BY DEF AcceptStream, RejectStream, SendStreamData, CloseStream, TypeOK, StreamState
  <1>2. \A type \in ControlType : Control(type, n, s.peer, i) \in ControlMessage
    BY <1>1 DEF Control, ControlMessage
  <1>3. PICK type \in ControlType : SendControl(Control(type, n, s.peer, i))
    BY DEF AcceptStream, RejectStream, SendStreamData, CloseStream, ControlType
  <1>4. /\ NetworkTypeOK' /\ sent' \subseteq Agreement /\ events' \in [Node -> Seq(Event)]
        /\ UNCHANGED <<connections, topics, replica>>
    BY <1>2, <1>3, SendControlType
  <1>5. streams' \in [Node -> [StreamId -> StreamState \cup {NoStream}]]
    <2>1. [s EXCEPT !.status = "Accepted"] \in StreamState
      BY <1>1 DEF StreamState, Status
    <2>2. \/ streams' = [streams EXCEPT ![n][i] = [s EXCEPT !.status = "Accepted"]]
          \/ streams' = [streams EXCEPT ![n][i] = NoStream]
          \/ streams' = streams
      BY DEF AcceptStream, RejectStream, SendStreamData, CloseStream
    <2>3. CASE streams' = [streams EXCEPT ![n][i] = [s EXCEPT !.status = "Accepted"]]
      BY <2>1, <2>3, StreamUpdateType
    <2>4. CASE streams' = [streams EXCEPT ![n][i] = NoStream]
      BY <2>4, StreamUpdateType
    <2>5. CASE streams' = streams
      BY <2>5 DEF TypeOK
    <2>6. QED
      BY <2>2, <2>3, <2>4, <2>5
  <1>6. next_stream_id' = next_stream_id
    BY DEF AcceptStream, RejectStream, SendStreamData, CloseStream
  <1>7. QED
    BY <1>4, <1>5, <1>6 DEF TypeOK, connections, replica

LEMMA RequestStreamType ==
    ASSUME TypeOK, NEW n \in Node, NEW p \in Node, RequestStream(n, p)
    PROVE  TypeOK'
  <1> DEFINE i == next_stream_id[n]
             m == Control("RequestStream", n, p, i)
  <1>1. /\ i \in StreamId
        /\ next_stream_id' = [next_stream_id EXCEPT ![n] = i + 1]
        /\ streams' = [streams EXCEPT ![n][i] =
              [peer |-> p, status |-> "Requested", direction |-> "Outbound"]]
        /\ SendControl(m)
    BY DEF RequestStream
  <1>2. m \in ControlMessage
    BY <1>1 DEF Control, ControlMessage, ControlType
  <1>3. /\ NetworkTypeOK' /\ sent' \subseteq Agreement /\ events' \in [Node -> Seq(Event)]
        /\ UNCHANGED <<connections, topics, replica>>
    BY <1>1, <1>2, SendControlType
  <1>4. [peer |-> p, status |-> "Requested", direction |-> "Outbound"] \in StreamState
    BY DEF StreamState, Status, Direction
  <1>5. streams' \in [Node -> [StreamId -> StreamState \cup {NoStream}]]
    BY <1>1, <1>4 DEF TypeOK
  <1>6. next_stream_id' \in [Node -> Nat]
    BY <1>1 DEF TypeOK
  <1>7. QED
    BY <1>3, <1>5, <1>6 DEF TypeOK, connections, replica

LEMMA TopicCommandType ==
    ASSUME TypeOK, NEW n \in Node, NEW t \in AppTopic,
           Subscribe(n, t) \/ Unsubscribe(n, t) \/ Publish(n, t)
    PROVE  TypeOK'
  <1>1. t \in Topic
    BY AppTopicAssumption
  <1>2. events' \in [Node -> Seq(Event)] /\ UNCHANGED <<connections, streaming, replica>>
    BY SilentType DEF Subscribe, Unsubscribe, Publish
  <1>3. CASE Subscribe(n, t) \/ Unsubscribe(n, t)
    <2>1. topics' \in [Node -> SUBSET Topic]
      <3>1. topics \in [Node -> SUBSET Topic]
        BY DEF TypeOK
      <3>2. CASE Subscribe(n, t)
        BY <1>1, <3>1, <3>2 DEF Subscribe
      <3>3. CASE Unsubscribe(n, t)
        BY <3>1, <3>3 DEF Unsubscribe
      <3>4. QED
        BY <1>3, <3>2, <3>3
    <2>2. NetworkTypeOK'
      BY <1>3 DEF Subscribe, Unsubscribe, TypeOK, NetworkTypeOK, network
    <2>3. QED
      BY <1>2, <2>1, <2>2 DEF TypeOK, connections, streaming, replica
  <1>4. CASE Publish(n, t)
    <2>1. PICK S \in GossipReach(n, t, peers[n], Subscribers(t)) :
             gossip' = gossip \cup [topic : {t}, from : {n}, to : S]
      BY <1>4 DEF Publish
    <2>2. S \subseteq Node
      BY DEF GossipReach, Subscribers
    <2>3. [topic : {t}, from : {n}, to : S] \subseteq AppGossip
      BY <1>1, <1>4, <2>2 DEF AppGossip, Publish
    <2>4. gossip' \subseteq GossipCopy
      BY <2>1, <2>3 DEF TypeOK, NetworkTypeOK, GossipCopy
    <2>5. UNCHANGED <<dialing, link, wire, known_topics, outages, topics>>
      BY <1>4 DEF Publish
    <2>6. QED
      BY <1>2, <2>4, <2>5 DEF TypeOK, NetworkTypeOK, connections, streaming, replica
  <1>5. QED
    BY <1>3, <1>4

LEMMA UserCommandType ==
    ASSUME TypeOK, NEW n \in Node, UserCommand(n)
    PROVE  TypeOK'
  <1>1. ASSUME NEW patch \in Patch, NEW now \in Time, UpdateSelfContext(n, patch, now)
        PROVE  TypeOK'
    <2>1. ApplyPatch(local_context[n], patch, now) \in Context
      BY PatchType, DocAssumption DEF TypeOK
    <2>2. KeysOf(patch) \in SUBSET Key
      BY DEF KeysOf
    <2>3. QED
      BY <1>1, <2>1, <2>2, CommitType DEF UpdateSelfContext
  <1>2. ASSUME NEW doc \in Replacement, NEW now \in Time, ReplaceSelfContext(n, doc, now)
        PROVE  TypeOK'
    <2>1. ReplaceData(local_context[n], doc, now) \in Context
      BY PatchType, DocAssumption DEF TypeOK
    <2>2. KeysOf(doc) \in SUBSET Key
      BY DEF KeysOf
    <2>3. QED
      BY <1>2, <2>1, <2>2, CommitType DEF ReplaceSelfContext
  <1>3. QED
    BY <1>1, <1>2, TopicCommandType, RequestStreamType, StreamCommandType DEF UserCommand

LEMMA HeartbeatType ==
    ASSUME TypeOK, NEW n \in Node, Heartbeat(n)
    PROVE  TypeOK'
  <1>1. dialing' \subseteq Pair
    BY DEF Heartbeat, TypeOK, NetworkTypeOK, Pair
  <1>2. QED
    BY <1>1, SilentType
       DEF Heartbeat, TypeOK, NetworkTypeOK, connections, streaming, replica

LEMMA EmitPeerDiscoveredType ==
    ASSUME TypeOK, NEW n \in Node, NEW p \in Node, EmitPeerDiscovered(n, p)
    PROVE  /\ discovered_peers' \in [Node -> SUBSET Node]
           /\ events' \in [Node -> Seq(Event)]
  <1>1. [type |-> "PeerDiscovered", peer |-> p] \in Event
    BY DEF Event, PeerEvent
  <1>2. events' \in [Node -> Seq(Event)]
    BY <1>1, EventListType, EmitType DEF EmitPeerDiscovered
  <1>3. QED
    BY <1>2 DEF EmitPeerDiscovered, TypeOK

LEMMA DiscoveryType ==
    ASSUME TypeOK, NEW n \in Node, NEW p \in Node, NEW a \in Addr \cup {NoAddr},
           MdnsDiscovered(n, p, a) \/ IdentifyReceived(n, p, a)
    PROVE  TypeOK'
  <1>1. /\ EmitPeerDiscovered(n, p)
        /\ \/ known_peers' = [known_peers EXCEPT ![n][p] = a]
           \/ known_peers' = [known_peers EXCEPT ![n][p] = IF a = NoAddr THEN @ ELSE a]
    BY DEF MdnsDiscovered, IdentifyReceived
  <1>2. /\ discovered_peers' \in [Node -> SUBSET Node]
        /\ events' \in [Node -> Seq(Event)]
    BY <1>1, EmitPeerDiscoveredType
  <1>3. known_peers' \in [Node -> [Node -> Addr \cup {NoAddr}]]
    <2>1. known_peers[n][p] \in Addr \cup {NoAddr}
      BY DEF TypeOK
    <2>2. CASE known_peers' = [known_peers EXCEPT ![n][p] = a]
      BY <2>2 DEF TypeOK
    <2>3. CASE known_peers' = [known_peers EXCEPT ![n][p] = IF a = NoAddr THEN @ ELSE a]
      <3>1. PICK x \in Addr \cup {NoAddr} : known_peers' = [known_peers EXCEPT ![n][p] = x]
        BY <2>1, <2>3
      <3>2. QED
        BY <3>1 DEF TypeOK
    <2>4. QED
      BY <1>1, <2>2, <2>3
  <1>4. /\ dialing' \subseteq Pair
        /\ wire' \subseteq WireMessage
        /\ synced_peers' \in [Node -> SUBSET Node]
    <2>1. CASE MdnsDiscovered(n, p, a)
      BY <2>1 DEF MdnsDiscovered, TypeOK, NetworkTypeOK, Pair
    <2>2. CASE IdentifyReceived(n, p, a)
      <3> DEFINE m == [type |-> "SyncContext", from |-> n, to |-> p, context |-> local_context[n]]
      <3>1. m \in WireMessage
        BY DEF WireMessage, SyncMessage, TypeOK
      <3>2. \/ UNCHANGED <<synced_peers, wire, dialing>>
            \/ /\ synced_peers' = [synced_peers EXCEPT ![n] = @ \cup {p}]
               /\ Send(m, peers[n], Reachable(n))
        BY <2>2 DEF IdentifyReceived
      <3>3. <<m.from, m.to>> \in Pair
        BY DEF Pair
      <3>4. Send(m, peers[n], Reachable(n)) => wire' \subseteq WireMessage /\ dialing' \subseteq Pair
        BY <3>1, <3>3 DEF Send, TypeOK, NetworkTypeOK
      <3>5. CASE UNCHANGED <<synced_peers, wire, dialing>>
        BY <3>5 DEF TypeOK, NetworkTypeOK
      <3>6. CASE /\ synced_peers' = [synced_peers EXCEPT ![n] = @ \cup {p}]
                 /\ Send(m, peers[n], Reachable(n))
        BY <3>4, <3>6 DEF TypeOK
      <3>7. QED
        BY <3>2, <3>5, <3>6
    <2>3. QED
      BY <2>1, <2>2
  <1>5. UNCHANGED <<link, gossip, known_topics, outages, peers, topics, streaming, replica>>
    BY DEF MdnsDiscovered, IdentifyReceived
  <1>6. QED
    BY <1>2, <1>3, <1>4, <1>5 DEF TypeOK, NetworkTypeOK, streaming, replica

LEMMA ConnectionEstablishedType ==
    ASSUME TypeOK, NEW n \in Node, NEW p \in Node, ConnectionEstablished(n, p)
    PROVE  TypeOK'
  <1>1. [type |-> "PeerConnected", peer |-> p] \in Event
    BY DEF Event, PeerEvent
  <1>2. events' \in [Node -> Seq(Event)]
    BY <1>1, EventListType, EmitType DEF ConnectionEstablished
  <1>3. QED
    BY <1>2, TopicAssumption
       DEF ConnectionEstablished, TypeOK, NetworkTypeOK, network, streaming, replica

LEMMA ConnectionClosedType ==
    ASSUME TypeOK, NEW n \in Node, NEW p \in Node, ConnectionClosed(n, p)
    PROVE  TypeOK'
  <1> DEFINE gone == {i \in StreamId : streams[n][i] # NoStream /\ streams[n][i].peer = p}
  <1>1. PICK order \in SetToSeqs(gone) :
          Emit(n, [k \in DOMAIN order |-> StreamEventOf("StreamClosed", p, order[k])]
                  \o <<[type |-> "PeerDisconnected", peer |-> p]>>)
    BY DEF ConnectionClosed
  <1>2. IsFiniteSet(gone)
    BY StreamIdAssumption, FS_Subset
  <1>3. Cardinality(gone) \in Nat /\ order \in [1..Cardinality(gone) -> gone]
    BY <1>2, FS_CardinalityType DEF SetToSeqs
  <1>4. \A i \in StreamId : StreamEventOf("StreamClosed", p, i) \in Event
    BY DEF StreamEventOf, Event, StreamEvent
  <1> DEFINE closed == [k \in 1..Cardinality(gone) |-> StreamEventOf("StreamClosed", p, order[k])]
  <1>5. closed \in Seq(Event)
    <2>1. \A k \in 1..Cardinality(gone) : StreamEventOf("StreamClosed", p, order[k]) \in Event
      BY <1>3, <1>4
    <2>2. closed \in [1..Cardinality(gone) -> Event]
      BY <2>1
    <2>3. QED
      BY <1>3, <2>2, SeqDef
  <1>6. <<[type |-> "PeerDisconnected", peer |-> p]>> \in Seq(Event)
    BY EventListType DEF Event, PeerEvent
  <1>7. closed \o <<[type |-> "PeerDisconnected", peer |-> p]>> \in Seq(Event)
    BY <1>5, <1>6, ConcatProperties
  <1>8. Emit(n, closed \o <<[type |-> "PeerDisconnected", peer |-> p]>>)
    BY <1>1, <1>3
  <1>9. events' \in [Node -> Seq(Event)]
    BY <1>7, <1>8, EmitType
  <1>10. streams' \in [Node -> [StreamId -> StreamState \cup {NoStream}]]
    BY DEF ConnectionClosed, TypeOK
  <1>11. /\ known_topics' \in [Node -> [Node -> SUBSET Topic]]
         /\ peers' \in [Node -> SUBSET Node]
         /\ discovered_peers' \in [Node -> SUBSET Node]
         /\ synced_peers' \in [Node -> SUBSET Node]
    BY DEF ConnectionClosed, TypeOK, NetworkTypeOK
  <1>12. QED
    BY <1>9, <1>10, <1>11 DEF ConnectionClosed, TypeOK, NetworkTypeOK, replica

LEMMA MergeIntoType ==
    ASSUME TypeOK, NEW n \in Node, NEW x \in Context, MergeInto(n, x)
    PROVE  /\ local_context' \in [Node -> Context]
           /\ events' \in [Node -> Seq(Event)]
           /\ written' = written
  <1>1. Merge(local_context[n], x) \in Context
    BY MergeType DEF TypeOK
  <1>2. [type |-> "ContextUpdated", peer |-> x.device_id,
         data |-> Merge(local_context[n], x).data] \in Event
    BY <1>1 DEF Event, ContextEvent, Context
  <1>3. events' \in [Node -> Seq(Event)]
    BY <1>2, EventListType, EmitType DEF MergeInto
  <1>4. QED
    BY <1>1, <1>3 DEF MergeInto, TypeOK

LEMMA GossipCopyType ==
    ASSUME TypeOK, NEW g \in gossip
    PROVE  /\ g.to \in Node /\ g.from \in Node /\ g.topic \in Topic
           /\ g.topic = ContextTopic => g.context \in Context
  <1>1. g \in ContextGossip \/ g \in AppGossip
    BY DEF TypeOK, NetworkTypeOK, GossipCopy
  <1>2. QED
    BY <1>1, TopicAssumption DEF ContextGossip, AppGossip

LEMMA WireMessageType ==
    ASSUME TypeOK, NEW m \in wire
    PROVE  /\ m.from \in Node /\ m.to \in Node
           /\ m.type = "SyncContext" => m.context \in Context
           /\ m.type \in ControlType => m.stream_id \in StreamId
  <1>1. m \in ControlMessage \/ m \in SyncMessage
    BY DEF TypeOK, NetworkTypeOK, WireMessage
  <1>2. QED
    BY <1>1 DEF ControlMessage, SyncMessage, ControlType

LEMMA GossipMessageType ==
    ASSUME TypeOK, NEW g \in gossip, NEW source \in Node,
           ContextGossipMessage(g, source) \/ AppGossipMessage(g, source)
    PROVE  TypeOK'
  <1>1. Arrives(g, source)
    BY DEF ContextGossipMessage, AppGossipMessage
  <1>2. NetworkTypeOK'
    BY <1>1 DEF Arrives, TypeOK, NetworkTypeOK
  <1>3. CASE ContextGossipMessage(g, source)
    <2>1. g.to \in Node /\ g.context \in Context /\ MergeInto(g.to, g.context)
      BY <1>3, GossipCopyType DEF ContextGossipMessage
    <2>2. QED
      BY <1>1, <1>2, <2>1, MergeIntoType DEF Arrives, TypeOK, connections, streaming
  <1>4. CASE AppGossipMessage(g, source)
    <2>1. g.to \in Node /\ g.topic \in Topic
      BY GossipCopyType
    <2>2. [type |-> "Message", peer |-> source, topic |-> g.topic] \in Event
      BY <2>1 DEF Event, MessageEvent
    <2>3. events' \in [Node -> Seq(Event)]
      BY <1>4, <2>1, <2>2, EventListType, EmitType DEF AppGossipMessage
    <2>4. QED
      BY <1>1, <1>2, <1>4, <2>3
         DEF Arrives, AppGossipMessage, TypeOK, connections, streaming, replica
  <1>5. QED
    BY <1>3, <1>4

LEMMA StreamEventType ==
    ASSUME NEW type \in {"StreamRequested", "StreamAccepted", "StreamRejected",
                         "StreamData", "StreamClosed"},
           NEW p \in Node, NEW i \in StreamId
    PROVE  <<StreamEventOf(type, p, i)>> \in Seq(Event)
  <1>1. StreamEventOf(type, p, i) \in Event
    BY DEF StreamEventOf, Event, StreamEvent
  <1>2. QED
    BY <1>1, EventListType

LEMMA HandleControlType ==
    ASSUME TypeOK, NEW m \in wire,
           \/ HandleRequestStream(m) \/ HandleAcceptStream(m) \/ HandleRejectStream(m)
           \/ HandleStreamData(m) \/ HandleCloseStream(m)
    PROVE  TypeOK'
  <1> DEFINE Streams == [Node -> [StreamId -> StreamState \cup {NoStream}]]
             s == streams[m.to][m.stream_id]
  <1>1. PICK type \in ControlType : Receive(type, m)
    BY DEF HandleRequestStream, HandleAcceptStream, HandleRejectStream, HandleStreamData,
           HandleCloseStream, ControlType
  <1>2. m.from \in Node /\ m.to \in Node /\ m.stream_id \in StreamId
    BY <1>1, WireMessageType DEF Receive
  <1>3. NetworkTypeOK'
    BY <1>1 DEF Receive, TypeOK, NetworkTypeOK
  <1>4. UNCHANGED replica
    BY DEF HandleRequestStream, HandleAcceptStream, HandleRejectStream, HandleStreamData,
           HandleCloseStream
  <1>6. [peer |-> m.from, status |-> "Requested", direction |-> "Inbound"] \in StreamState
    BY <1>2 DEF StreamState, Status, Direction
  <1>7. HasStream(m) => [s EXCEPT !.status = "Active"] \in StreamState
    <2>1. s \in StreamState \cup {NoStream}
      BY <1>2 DEF TypeOK
    <2>2. QED
      BY <2>1 DEF HasStream, StreamState, Status
  <1>8. \/ streams' = [streams EXCEPT ![m.to][m.stream_id] =
                [peer |-> m.from, status |-> "Requested", direction |-> "Inbound"]]
        \/ HasStream(m) /\ streams' = [streams EXCEPT ![m.to][m.stream_id] =
                [s EXCEPT !.status = "Active"]]
        \/ streams' = [streams EXCEPT ![m.to][m.stream_id] = NoStream]
        \/ streams' = streams
    BY DEF HandleRequestStream, HandleAcceptStream, HandleRejectStream, HandleStreamData,
           HandleCloseStream
  <1>9. streams' \in Streams
    <2>1. CASE streams' = [streams EXCEPT ![m.to][m.stream_id] =
                [peer |-> m.from, status |-> "Requested", direction |-> "Inbound"]]
      BY <1>2, <1>6, <2>1, StreamUpdateType
    <2>2. CASE HasStream(m) /\ streams' = [streams EXCEPT ![m.to][m.stream_id] =
                [s EXCEPT !.status = "Active"]]
      BY <1>2, <1>7, <2>2, StreamUpdateType
    <2>3. CASE streams' = [streams EXCEPT ![m.to][m.stream_id] = NoStream]
      BY <1>2, <2>3, StreamUpdateType
    <2>4. CASE streams' = streams
      BY <2>4 DEF TypeOK
    <2>5. QED
      BY <1>8, <2>1, <2>2, <2>3, <2>4
  <1>10. events' \in [Node -> Seq(Event)]
    <2>1. \A kind \in {"StreamAccepted", "StreamRejected", "StreamData"} :
              Report(kind, m) => events' \in [Node -> Seq(Event)]
      BY <1>2, StreamEventType, EventListType, EmitType DEF Report
    <2>2. \A kind \in {"StreamRequested", "StreamClosed"} :
              Emit(m.to, <<StreamEventOf(kind, m.from, m.stream_id)>>)
                => events' \in [Node -> Seq(Event)]
      BY <1>2, StreamEventType, EmitType
    <2>3. QED
      BY <2>1, <2>2 DEF HandleRequestStream, HandleAcceptStream, HandleRejectStream,
                        HandleStreamData, HandleCloseStream
  <1>11. QED
    BY <1>1, <1>3, <1>4, <1>9, <1>10 DEF Receive, TypeOK, connections, replica

LEMMA IncomingType ==
    ASSUME TypeOK, Incoming
    PROVE  TypeOK'
  <1>1. ASSUME NEW m \in wire, HandleSyncContext(m)
        PROVE  TypeOK'
    <2>1. Receive("SyncContext", m) /\ MergeInto(m.to, m.context) /\ UNCHANGED streams
      BY <1>1 DEF HandleSyncContext
    <2>2. m.to \in Node /\ m.context \in Context
      BY <2>1, WireMessageType DEF Receive
    <2>3. NetworkTypeOK'
      BY <2>1 DEF Receive, TypeOK, NetworkTypeOK
    <2>4. QED
      BY <2>1, <2>2, <2>3, MergeIntoType DEF Receive, TypeOK, connections
  <1>2. QED
    BY <1>1, GossipMessageType, HandleControlType DEF Incoming

LEMMA EnvironmentType ==
    ASSUME TypeOK, Environment
    PROVE  TypeOK'
  <1>1. Outside
    BY DEF Environment
  <1>2. NetworkTypeOK'
    <2>1. ASSUME NEW n \in Node, NEW p \in Node,
                 LinkUp(n, p) \/ LinkDown(n, p) \/ DialFailed(n, p)
          PROVE  NetworkTypeOK'
      <3>1. CASE LinkUp(n, p)
        BY <3>1 DEF LinkUp, TypeOK, NetworkTypeOK
      <3>2. CASE LinkDown(n, p)
        BY <3>2 DEF LinkDown, TypeOK, NetworkTypeOK
      <3>3. CASE DialFailed(n, p)
        BY <3>3 DEF DialFailed, TypeOK, NetworkTypeOK
      <3>4. QED
        BY <2>1, <3>1, <3>2, <3>3
    <2>2. ASSUME NEW n \in Node, NEW p \in Node, SubscriptionLearned(n, p)
          PROVE  NetworkTypeOK'
      BY <2>2 DEF SubscriptionLearned, TypeOK, NetworkTypeOK
    <2>3. ASSUME NEW m \in wire, SendFailed(m)
          PROVE  NetworkTypeOK'
      BY <2>3 DEF SendFailed, TypeOK, NetworkTypeOK
    <2>4. QED
      BY <2>1, <2>2, <2>3 DEF Environment
  <1>3. QED
    BY <1>1, <1>2, SilentType DEF Outside, TypeOK, connections, streaming, replica

LEMMA StutterType ==
    ASSUME TypeOK, UNCHANGED vars
    PROVE  TypeOK'
  BY DEF TypeOK, NetworkTypeOK, vars, network, connections, streaming, replica

(* The runtimes' state is always well formed: whatever order commands,     *)
(* connections, messages and failures come in.                             *)
THEOREM TypeCorrect == Spec => []TypeOK
  <1>1. TypeOK /\ [Next]_vars => TypeOK'
    BY UserCommandType, HeartbeatType, DiscoveryType, ConnectionEstablishedType,
       ConnectionClosedType, IncomingType, EnvironmentType, StutterType DEF Next, SwarmEvent
  <1>2. QED
    BY <1>1, InitTypeOK, PTL DEF Spec

-----------------------------------------------------------------------------
(* The contexts there are, and how a step changes them.  Every step does   *)
(* one of three things: it leaves the replicas alone and adds no context   *)
(* that was not there; it commits a change of one node's application; or   *)
(* it merges a context that was there into one replica.                    *)

NoContextStep == Contexts' \subseteq Contexts /\ UNCHANGED <<local_context, written>>

(* No application replaces its document by one that lacks a key.           *)
WholeReplacements == \A doc \in Replacement : KeysOf(doc) = Key

ChangeStep(n, x, keys) ==
    LET next == [x EXCEPT !.vector_clock = Increment(@, n)]
    IN  /\ n \in Writer
        /\ x.vector_clock = local_context[n].vector_clock
        /\ Replacement = {} => KeysOf(x.data) = KeysOf(local_context[n].data) \cup keys
        /\ WholeReplacements => KeysOf(local_context[n].data) \subseteq KeysOf(x.data)
        /\ Contexts' \subseteq Contexts \cup {next}
        /\ local_context' = [local_context EXCEPT ![n] = next]
        /\ written' = written \cup {[by |-> n, seq |-> next.vector_clock[n],
                                     keys |-> keys, data |-> next.data]}

MergeStep(n, x) ==
    /\ Contexts' \subseteq Contexts \cup {Merge(local_context[n], x)}
    /\ local_context' = [local_context EXCEPT ![n] = Merge(@, x)]
    /\ written' = written

ContextStep ==
    \/ NoContextStep
    \/ \E n \in Node, x \in Context, keys \in SUBSET Key : ChangeStep(n, x, keys)
    \/ \E n \in Node : \E x \in Contexts : MergeStep(n, x)

LEMMA ContextsType == TypeOK => Contexts \subseteq Context
  BY GossipCopyType, WireMessageType DEF Contexts, TypeOK

LEMMA ContextsMembers ==
    /\ \A n \in Node : local_context[n] \in Contexts
    /\ \A m \in wire : m.type = "SyncContext" => m.context \in Contexts
    /\ \A g \in gossip : g.topic = ContextTopic => g.context \in Contexts
  BY DEF Contexts

(* The contexts after a step that adds at most x.                          *)
LEMMA ContextsGrowBy ==
    ASSUME NEW x,
           \A n \in Node : local_context'[n] \in Contexts \cup {x},
           \A m \in wire' : m.type = "SyncContext" => m.context \in Contexts \cup {x},
           \A g \in gossip' : g.topic = ContextTopic => g.context \in Contexts \cup {x}
    PROVE  Contexts' \subseteq Contexts \cup {x}
  BY DEF Contexts

LEMMA ContextsShrink ==
    ASSUME local_context' = local_context,
           \A m \in wire' : m.type = "SyncContext" => m.context \in Contexts,
           \A g \in gossip' : g.topic = ContextTopic => g.context \in Contexts
    PROVE  Contexts' \subseteq Contexts
  BY DEF Contexts

LEMMA CommitIsChange ==
    ASSUME TypeOK, NEW n \in Node, NEW x \in Context, NEW keys \in SUBSET Key,
           Commit(n, x, keys), x.vector_clock = local_context[n].vector_clock,
           Replacement = {} => KeysOf(x.data) = KeysOf(local_context[n].data) \cup keys,
           WholeReplacements => KeysOf(local_context[n].data) \subseteq KeysOf(x.data)
    PROVE  ChangeStep(n, x, keys)
  <1> DEFINE next == [x EXCEPT !.vector_clock = Increment(@, n)]
  <1>1. /\ n \in Writer
        /\ local_context' = [local_context EXCEPT ![n] = next]
        /\ Broadcast(n, next)
        /\ written' = written \cup {[by |-> n, seq |-> next.vector_clock[n],
                                     keys |-> keys, data |-> next.data]}
        /\ wire' = wire
    BY DEF Commit
  <1>2. \A g \in gossip' : g \in gossip \/ g.context = next
    BY <1>1 DEF Broadcast
  <1>3. \A k \in Node : local_context'[k] \in Contexts \cup {next}
    BY <1>1, ContextsMembers DEF TypeOK
  <1>4. \A m \in wire' : m.type = "SyncContext" => m.context \in Contexts \cup {next}
    BY <1>1, ContextsMembers
  <1>5. \A g \in gossip' : g.topic = ContextTopic => g.context \in Contexts \cup {next}
    BY <1>2, ContextsMembers
  <1>6. Contexts' \subseteq Contexts \cup {next}
    BY <1>3, <1>4, <1>5, ContextsGrowBy
  <1>7. QED
    BY <1>1, <1>6 DEF ChangeStep

LEMMA MergeIntoIsMerge ==
    ASSUME TypeOK, NEW n \in Node, NEW x \in Contexts, MergeInto(n, x),
           wire' \subseteq wire, gossip' \subseteq gossip
    PROVE  MergeStep(n, x)
  <1> DEFINE merged == Merge(local_context[n], x)
  <1>1. local_context' = [local_context EXCEPT ![n] = merged] /\ written' = written
    BY DEF MergeInto
  <1>2. \A k \in Node : local_context'[k] \in Contexts \cup {merged}
    BY <1>1, ContextsMembers DEF TypeOK
  <1>3. Contexts' \subseteq Contexts \cup {merged}
    BY <1>2, ContextsMembers, ContextsGrowBy
  <1>4. QED
    BY <1>1, <1>3 DEF MergeStep

LEMMA QuietStep ==
    ASSUME wire' \subseteq wire \cup {m \in WireMessage : m.type # "SyncContext"},
           gossip' \subseteq gossip \cup {g \in GossipCopy : g.topic # ContextTopic},
           UNCHANGED replica
    PROVE  NoContextStep
  <1>1. /\ \A m \in wire' : m.type = "SyncContext" => m.context \in Contexts
        /\ \A g \in gossip' : g.topic = ContextTopic => g.context \in Contexts
    BY ContextsMembers
  <1>2. QED
    BY <1>1, ContextsShrink DEF NoContextStep, replica

LEMMA UserCommandIsContextStep ==
    ASSUME TypeOK, NEW n \in Node, UserCommand(n)
    PROVE  ContextStep
  <1>1. ASSUME NEW patch \in Patch, NEW now \in Time, UpdateSelfContext(n, patch, now)
        PROVE  ContextStep
    <2> DEFINE x == ApplyPatch(local_context[n], patch, now)
    <2>1. local_context[n] \in Context /\ patch \in Doc
      BY DocAssumption DEF TypeOK
    <2>2. x \in Context
      BY <2>1, PatchType
    <2>3. x.vector_clock = local_context[n].vector_clock
      BY <2>1 DEF ApplyPatch, Context
    <2>4. KeysOf(x.data) = KeysOf(local_context[n].data) \cup KeysOf(patch)
      <3>1. x.data = DeepMerge(local_context[n].data, patch, FALSE)
        BY <2>1 DEF ApplyPatch, Context
      <3>2. local_context[n].data \in Doc
        BY <2>1 DEF Context
      <3>3. QED
        BY <2>1, <3>1, <3>2, DeepMergeKeys
    <2>5. KeysOf(patch) \in SUBSET Key
      BY DEF KeysOf
    <2>6. ChangeStep(n, x, KeysOf(patch))
      BY <1>1, <2>2, <2>3, <2>4, <2>5, CommitIsChange DEF UpdateSelfContext
    <2>7. QED
      BY <2>2, <2>5, <2>6 DEF ContextStep
  <1>2. ASSUME NEW doc \in Replacement, NEW now \in Time, ReplaceSelfContext(n, doc, now)
        PROVE  ContextStep
    <2> DEFINE x == ReplaceData(local_context[n], doc, now)
    <2>1. x \in Context
      BY PatchType, DocAssumption DEF TypeOK
    <2>2. x.vector_clock = local_context[n].vector_clock
      BY DEF ReplaceData, TypeOK, Context
    <2>3. KeysOf(doc) \in SUBSET Key
      BY DEF KeysOf
    <2>4. WholeReplacements => KeysOf(local_context[n].data) \subseteq KeysOf(x.data)
      <3>1. x.data = doc /\ KeysOf(local_context[n].data) \subseteq Key
        BY DEF ReplaceData, TypeOK, Context, KeysOf
      <3>2. QED
        BY <3>1 DEF WholeReplacements
    <2>5. ChangeStep(n, x, KeysOf(doc))
      BY <1>2, <2>1, <2>2, <2>3, <2>4, CommitIsChange DEF ReplaceSelfContext
    <2>6. QED
      BY <2>1, <2>3, <2>5 DEF ContextStep
  <1>3. ASSUME NEW t \in AppTopic, Subscribe(n, t) \/ Unsubscribe(n, t) \/ Publish(n, t)
        PROVE  NoContextStep
    <2>1. TypeOK'
      BY <1>3, TopicCommandType
    <2>2. wire' = wire /\ UNCHANGED replica
      BY <1>3 DEF Subscribe, Unsubscribe, Publish, network
    <2>3. \A g \in gossip' : g \in gossip \/ g.topic # ContextTopic
      BY <1>3 DEF Subscribe, Unsubscribe, Publish, network
    <2>4. QED
      BY <2>1, <2>2, <2>3, QuietStep DEF TypeOK, NetworkTypeOK
  <1>4. ASSUME NEW m \in ControlMessage, SendControl(m)
        PROVE  NoContextStep
    <2>1. wire' \subseteq wire \cup {m} /\ gossip' = gossip /\ UNCHANGED replica
      BY <1>4 DEF SendControl, Send
    <2>2. m \in WireMessage /\ m.type # "SyncContext"
      BY DEF WireMessage, ControlMessage, ControlType
    <2>3. QED
      BY <2>1, <2>2, QuietStep
  <1>5. ASSUME NEW p \in Node, RequestStream(n, p)
        PROVE  NoContextStep
    <2>1. Control("RequestStream", n, p, next_stream_id[n]) \in ControlMessage
      BY <1>5 DEF RequestStream, Control, ControlMessage, ControlType
    <2>2. QED
      BY <1>4, <1>5, <2>1 DEF RequestStream
  <1>6. ASSUME NEW i \in StreamId,
               AcceptStream(n, i) \/ RejectStream(n, i) \/ SendStreamData(n, i) \/ CloseStream(n, i)
        PROVE  NoContextStep
    <2>1. streams[n][i].peer \in Node
      BY <1>6 DEF AcceptStream, RejectStream, SendStreamData, CloseStream, TypeOK, StreamState
    <2>2. \A type \in ControlType : Control(type, n, streams[n][i].peer, i) \in ControlMessage
      BY <2>1 DEF Control, ControlMessage
    <2>3. QED
      BY <1>4, <1>6, <2>2
         DEF AcceptStream, RejectStream, SendStreamData, CloseStream, ControlType
  <1>7. QED
    BY <1>1, <1>2, <1>3, <1>5, <1>6 DEF UserCommand, ContextStep

LEMMA IdentifyIsContextStep ==
    ASSUME TypeOK, NEW n \in Node, NEW p \in Node, NEW a \in Addr \cup {NoAddr}, IdentifyReceived(n, p, a)
    PROVE  NoContextStep
  <1>1. gossip' = gossip /\ UNCHANGED replica
    BY DEF IdentifyReceived
  <1>2. \A m \in wire' : m \in wire \/ m.context = local_context[n]
    BY DEF IdentifyReceived, Send
  <1>3. /\ \A m \in wire' : m.type = "SyncContext" => m.context \in Contexts
        /\ \A g \in gossip' : g.topic = ContextTopic => g.context \in Contexts
    BY <1>1, <1>2, ContextsMembers
  <1>4. QED
    BY <1>1, <1>3, ContextsShrink DEF NoContextStep, replica

LEMMA IncomingIsContextStep ==
    ASSUME TypeOK, Incoming
    PROVE  ContextStep
  <1>1. ASSUME NEW g \in gossip, NEW source \in Node, ContextGossipMessage(g, source)
        PROVE  ContextStep
    <2>1. g.to \in Node /\ g.context \in Contexts
      BY <1>1, GossipCopyType, ContextsMembers DEF ContextGossipMessage
    <2>2. MergeInto(g.to, g.context) /\ wire' \subseteq wire /\ gossip' \subseteq gossip
      BY <1>1 DEF ContextGossipMessage, Arrives
    <2>3. QED
      BY <2>1, <2>2, MergeIntoIsMerge DEF ContextStep
  <1>2. ASSUME NEW m \in wire, HandleSyncContext(m)
        PROVE  ContextStep
    <2>1. m.to \in Node /\ m.context \in Contexts
      BY <1>2, WireMessageType, ContextsMembers DEF HandleSyncContext, Receive
    <2>2. MergeInto(m.to, m.context) /\ wire' \subseteq wire /\ gossip' \subseteq gossip
      BY <1>2 DEF HandleSyncContext, Receive
    <2>3. QED
      BY <2>1, <2>2, MergeIntoIsMerge DEF ContextStep
  <1>3. ASSUME NEW g \in gossip, NEW source \in Node, AppGossipMessage(g, source)
        PROVE  NoContextStep
    BY <1>3, QuietStep DEF AppGossipMessage, Arrives
  <1>4. ASSUME NEW m \in wire,
               \/ HandleRequestStream(m) \/ HandleAcceptStream(m) \/ HandleRejectStream(m)
               \/ HandleStreamData(m) \/ HandleCloseStream(m)
        PROVE  NoContextStep
    <2>1. wire' \subseteq wire /\ gossip' = gossip /\ UNCHANGED replica
      BY <1>4 DEF HandleRequestStream, HandleAcceptStream, HandleRejectStream,
                  HandleStreamData, HandleCloseStream, Receive
    <2>2. QED
      BY <2>1, QuietStep
  <1>5. QED
    BY <1>1, <1>2, <1>3, <1>4 DEF Incoming, ContextStep

LEMMA EnvironmentIsContextStep ==
    ASSUME Environment
    PROVE  NoContextStep
  <1>1. UNCHANGED replica
    BY DEF Environment, Outside
  <1>2. wire' \subseteq wire /\ gossip' \subseteq gossip
    <2>1. ASSUME NEW n \in Node, NEW p \in Node,
                 \/ LinkUp(n, p) \/ LinkDown(n, p) \/ DialFailed(n, p)
                 \/ SubscriptionLearned(n, p)
          PROVE  wire' \subseteq wire /\ gossip' \subseteq gossip
      BY <2>1 DEF LinkUp, LinkDown, DialFailed, SubscriptionLearned
    <2>2. ASSUME NEW m \in wire, SendFailed(m)
          PROVE  wire' \subseteq wire /\ gossip' \subseteq gossip
      BY <2>2 DEF SendFailed
    <2>3. QED
      BY <2>1, <2>2 DEF Environment
  <1>3. QED
    BY <1>1, <1>2, QuietStep

LEMMA NextIsContextStep == TypeOK /\ [Next]_vars => ContextStep
  <1> SUFFICES ASSUME TypeOK, [Next]_vars PROVE ContextStep
    OBVIOUS
  <1>1. ASSUME NEW n \in Node, Heartbeat(n)
        PROVE  NoContextStep
    BY <1>1, QuietStep DEF Heartbeat
  <1>2. ASSUME NEW n \in Node, SwarmEvent(n)
        PROVE  NoContextStep
    <2>1. ASSUME NEW p \in Node, ConnectionEstablished(n, p) \/ ConnectionClosed(n, p)
          PROVE  NoContextStep
      BY <2>1, QuietStep DEF ConnectionEstablished, ConnectionClosed, network
    <2>2. ASSUME NEW p \in Node, NEW a \in Addr, MdnsDiscovered(n, p, a)
          PROVE  NoContextStep
      BY <2>2, QuietStep DEF MdnsDiscovered
    <2>3. QED
      BY <1>2, <2>1, <2>2, IdentifyIsContextStep DEF SwarmEvent
  <1>3. ASSUME UNCHANGED vars
        PROVE  NoContextStep
    BY <1>3, QuietStep DEF vars, network
  <1>4. ASSUME NEW n \in Node, UserCommand(n) \/ Heartbeat(n) \/ SwarmEvent(n)
        PROVE  ContextStep
    <2>1. NoContextStep \/ UserCommand(n)
      BY <1>1, <1>2, <1>4
    <2>2. QED
      BY <2>1, UserCommandIsContextStep DEF ContextStep
  <1>5. CASE Environment
    BY <1>5, EnvironmentIsContextStep DEF ContextStep
  <1>6. CASE UNCHANGED vars
    BY <1>3, <1>6 DEF ContextStep
  <1>7. QED
    BY <1>4, <1>5, <1>6, IncomingIsContextStep DEF Next

-----------------------------------------------------------------------------
(* Clocks.                                                                 *)

LEMMA JoinBounds ==
    ASSUME NEW v \in VectorClock, NEW w \in VectorClock, NEW m \in Node
    PROVE  LET j == MergeClocks(v, w)[m]
           IN  j \in Nat /\ v[m] <= j /\ w[m] <= j /\ (j = v[m] \/ j = w[m])
  <1>1. v[m] \in Nat /\ w[m] \in Nat
    BY DEF VectorClock
  <1>2. QED
    BY <1>1 DEF MergeClocks

(* A replica's clock after a step, component by component.                 *)
LEMMA ClockStep ==
    ASSUME TypeOK, [Next]_vars, NEW n \in Node, NEW m \in Node
    PROVE  /\ local_context[n].vector_clock[m] \in Nat
           /\ local_context'[n].vector_clock[m] \in Nat
           /\ local_context[n].vector_clock[m] <= local_context'[n].vector_clock[m]
  <1>1. local_context[n] \in Context /\ local_context[n].vector_clock \in VectorClock
    BY DEF TypeOK, Context
  <1>2. local_context[n].vector_clock[m] \in Nat
    BY <1>1 DEF VectorClock
  <1>3. CASE NoContextStep
    BY <1>2, <1>3 DEF NoContextStep
  <1>4. ASSUME NEW k \in Node, NEW x \in Context, NEW keys \in SUBSET Key, ChangeStep(k, x, keys)
        PROVE  /\ local_context'[n].vector_clock[m] \in Nat
               /\ local_context[n].vector_clock[m] <= local_context'[n].vector_clock[m]
    <2>1. CASE n = k
      <3>1. local_context'[n].vector_clock = Increment(local_context[n].vector_clock, n)
        BY <1>4, <2>1 DEF ChangeStep, TypeOK, Context
      <3>2. QED
        BY <1>1, <1>2, <3>1 DEF Increment, VectorClock
    <2>2. CASE n # k
      BY <1>2, <1>4, <2>2 DEF ChangeStep, TypeOK
    <2>3. QED
      BY <2>1, <2>2
  <1>5. ASSUME NEW k \in Node, NEW x \in Contexts, MergeStep(k, x)
        PROVE  /\ local_context'[n].vector_clock[m] \in Nat
               /\ local_context[n].vector_clock[m] <= local_context'[n].vector_clock[m]
    <2>1. CASE n = k
      <3>1. x \in Context /\ x.vector_clock \in VectorClock
        BY ContextsType DEF Context
      <3>2. local_context'[n].vector_clock = MergeClocks(local_context[n].vector_clock, x.vector_clock)
        BY <1>1, <1>5, <2>1, <3>1, MergeJoinsClocks DEF MergeStep, TypeOK
      <3>3. QED
        BY <1>1, <3>1, <3>2, JoinBounds
    <2>2. CASE n # k
      BY <1>2, <1>5, <2>2 DEF MergeStep, TypeOK
    <2>3. QED
      BY <2>1, <2>2
  <1>6. QED
    BY <1>2, <1>3, <1>4, <1>5, NextIsContextStep DEF ContextStep

(* No handler ever takes back a component of a replica's clock.            *)
THEOREM ClocksNeverDecrease == Spec => ClockMonotone
  <1>1. TypeOK /\ [Next]_vars =>
          [\A n, m \in Node :
             local_context'[n].vector_clock[m] >= local_context[n].vector_clock[m]]_vars
    <2>1. SUFFICES ASSUME TypeOK, [Next]_vars, NEW n \in Node, NEW m \in Node
                   PROVE  local_context'[n].vector_clock[m] >= local_context[n].vector_clock[m]
      OBVIOUS
    <2>2. QED
      BY <2>1, ClockStep
  <1>2. QED
    BY <1>1, TypeCorrect, PTL DEF Spec, ClockMonotone

LEMMA ClockBoundedStep == TypeOK /\ ClockBounded /\ [Next]_vars => ClockBounded'
  <1> SUFFICES ASSUME TypeOK, ClockBounded, [Next]_vars,
                      NEW x \in Contexts', NEW m \in Node
               PROVE  x.vector_clock[m] <= local_context'[m].vector_clock[m]
    BY DEF ClockBounded
  <1>1. \A y \in Contexts : /\ y \in Context /\ y.vector_clock \in VectorClock
                            /\ y.vector_clock[m] \in Nat
                            /\ y.vector_clock[m] <= local_context[m].vector_clock[m]
    BY ContextsType DEF ClockBounded, Context, VectorClock
  <1>2. \A y \in Contexts : y.vector_clock[m] <= local_context'[m].vector_clock[m]
    BY <1>1, ClockStep
  <1>3. CASE NoContextStep
    BY <1>2, <1>3 DEF NoContextStep
  <1>4. ASSUME NEW k \in Node, NEW y \in Context, NEW keys \in SUBSET Key, ChangeStep(k, y, keys)
        PROVE  x.vector_clock[m] <= local_context'[m].vector_clock[m]
    <2> DEFINE next == [y EXCEPT !.vector_clock = Increment(@, k)]
    <2>1. x \in Contexts \/ x = next
      BY <1>4 DEF ChangeStep
    <2>2. local_context[k] \in Contexts /\ local_context' = [local_context EXCEPT ![k] = next]
      BY <1>4, ContextsMembers DEF ChangeStep
    <2>3. CASE x = next /\ m = k
      BY <2>2, <2>3, ClockStep DEF TypeOK
    <2>4. CASE x = next /\ m # k
      <3>1. x.vector_clock[m] = local_context[k].vector_clock[m]
        BY <1>1, <1>4, <2>2, <2>4 DEF ChangeStep, Increment, Context, VectorClock
      <3>2. QED
        BY <1>2, <2>2, <3>1
    <2>5. QED
      BY <1>2, <2>1, <2>3, <2>4
  <1>5. ASSUME NEW k \in Node, NEW y \in Contexts, MergeStep(k, y)
        PROVE  x.vector_clock[m] <= local_context'[m].vector_clock[m]
    <2>1. x \in Contexts \/ x = Merge(local_context[k], y)
      BY <1>5 DEF MergeStep
    <2>2. local_context[k] \in Contexts
      BY ContextsMembers
    <2>3. CASE x = Merge(local_context[k], y)
      <3>1. x.vector_clock = MergeClocks(local_context[k].vector_clock, y.vector_clock)
        BY <1>1, <2>2, <2>3, MergeJoinsClocks
      <3>2. \/ x.vector_clock[m] = local_context[k].vector_clock[m]
            \/ x.vector_clock[m] = y.vector_clock[m]
        BY <1>1, <2>2, <3>1, JoinBounds
      <3>3. QED
        BY <1>2, <2>2, <3>2
    <2>4. QED
      BY <1>2, <2>1, <2>3
  <1>6. QED
    BY <1>3, <1>4, <1>5, NextIsContextStep DEF ContextStep

LEMMA InitContexts == Init => \A x \in Contexts : x.vector_clock = ZeroClock /\ x.data = Skeleton
  BY DEF Init, NetworkInit, Contexts, NewContext

(* No context, at rest or in flight, claims an update that its node did    *)
(* not make.                                                               *)
THEOREM ClocksAreBounded == Spec => []ClockBounded
  <1>1. Init => ClockBounded
    BY InitContexts, ContextsMembers DEF ClockBounded, ZeroClock
  <1>2. QED
    BY <1>1, ClockBoundedStep, TypeCorrect, PTL DEF Spec

-----------------------------------------------------------------------------
(* Keys.  The invariant needs, besides ClockBounded, that a change is      *)
(* never in the history before its node's clock counts it: then the change *)
(* a commit adds is covered by no clock but the committing node's own.     *)

WrittenIsCounted == \A w \in written : w.seq <= local_context[w.by].vector_clock[w.by]

KeysInv == TypeOK /\ ClockBounded /\ WrittenIsCounted /\ KeysFollowClock

LEMMA WrittenIsCountedStep ==
    TypeOK /\ WrittenIsCounted /\ [Next]_vars => WrittenIsCounted'
  <1> SUFFICES ASSUME TypeOK, WrittenIsCounted, [Next]_vars, NEW w \in written'
               PROVE  w.seq <= local_context'[w.by].vector_clock[w.by]
    BY DEF WrittenIsCounted
  <1>1. CASE w \in written
    <2>1. w.by \in Node /\ w.seq \in Nat
      BY <1>1 DEF TypeOK, Write
    <2>2. w.seq <= local_context[w.by].vector_clock[w.by]
      BY <1>1 DEF WrittenIsCounted
    <2>3. QED
      BY <2>1, <2>2, ClockStep
  <1>2. CASE w \notin written
    <2>1. PICK k \in Node, y \in Context, keys \in SUBSET Key : ChangeStep(k, y, keys)
      BY <1>2, NextIsContextStep DEF ContextStep, NoContextStep, MergeStep
    <2>2. w.by = k /\ w.seq = local_context'[k].vector_clock[k]
      BY <1>2, <2>1 DEF ChangeStep, TypeOK
    <2>3. QED
      BY <2>1, <2>2, ClockStep
  <1>3. QED
    BY <1>1, <1>2

(* A clock that is the join of two covers what either of them covers.      *)
LEMMA CoveredJoin ==
    ASSUME TypeOK, NEW v \in VectorClock, NEW w \in VectorClock
    PROVE  Covered(MergeClocks(v, w)) = Covered(v) \cup Covered(w)
  <1>1. \A c \in written : c.seq <= MergeClocks(v, w)[c.by] <=> c.seq <= v[c.by] \/ c.seq <= w[c.by]
    <2>1. SUFFICES ASSUME NEW c \in written
                   PROVE  c.seq <= MergeClocks(v, w)[c.by] <=> c.seq <= v[c.by] \/ c.seq <= w[c.by]
      OBVIOUS
    <2>2. c.by \in Node /\ c.seq \in Nat
      BY DEF TypeOK, Write
    <2>3. v[c.by] \in Nat /\ w[c.by] \in Nat
      BY <2>2 DEF VectorClock
    <2>4. QED
      BY <2>2, <2>3 DEF MergeClocks
  <1>2. QED
    BY <1>1 DEF Covered

(* What a merge leaves in the receiver is what its clock covers, if that   *)
(* was so of both contexts.                                                *)
LEMMA MergeKeepsKeys ==
    ASSUME TypeOK, NEW x \in Context, NEW y \in Context,
           KeysOf(x.data) = Covered(x.vector_clock),
           KeysOf(y.data) = Covered(y.vector_clock)
    PROVE  KeysOf(Merge(x, y).data) = Covered(Merge(x, y).vector_clock)
  <1> DEFINE v == x.vector_clock
             w == y.vector_clock
  <1>1. v \in VectorClock /\ w \in VectorClock
    BY DEF Context
  <1>2. Covered(Merge(x, y).vector_clock) = Covered(v) \cup Covered(w)
    BY <1>1, CoveredJoin, MergeJoinsClocks
  <1>3. (\A m \in Node : v[m] <= w[m]) => Covered(v) \subseteq Covered(w)
    <2>1. SUFFICES ASSUME \A m \in Node : v[m] <= w[m], NEW c \in written, c.seq <= v[c.by]
                   PROVE  c.seq <= w[c.by]
      BY DEF Covered
    <2>2. c.by \in Node /\ c.seq \in Nat
      BY DEF TypeOK, Write
    <2>3. v[c.by] \in Nat /\ w[c.by] \in Nat /\ v[c.by] <= w[c.by]
      BY <1>1, <2>1, <2>2 DEF VectorClock
    <2>4. QED
      BY <2>1, <2>2, <2>3
  <1>4. CASE PartialCmp(v, w) = "Less"
    <2>1. KeysOf(Merge(x, y).data) = Covered(w)
      BY <1>4, MergeKeys
    <2>2. Covered(v) \subseteq Covered(w)
      BY <1>1, <1>3, <1>4, PartialCmpMeaning
    <2>3. QED
      BY <1>2, <2>1, <2>2
  <1>5. CASE PartialCmp(v, w) = "Equal"
    <2>1. KeysOf(Merge(x, y).data) = Covered(v)
      BY <1>5, MergeKeys
    <2>2. v = w
      BY <1>1, <1>5, PartialCmpMeaning
    <2>3. QED
      BY <1>2, <2>1, <2>2
  <1>6. CASE PartialCmp(v, w) \in {"Greater", "Concurrent"}
    <2>1. KeysOf(Merge(x, y).data) = Covered(v) \cup Covered(w)
      BY <1>6, MergeKeys
    <2>2. QED
      BY <1>2, <2>1
  <1>7. QED
    BY <1>1, <1>4, <1>5, <1>6, PartialCmpMeaning

(* The keys of a set of changes with one more in it.                       *)
LEMMA UnionOfOneMore ==
    ASSUME NEW S, NEW one
    PROVE  UNION {w.keys : w \in S \cup {one}} = (UNION {w.keys : w \in S}) \cup one.keys
  <1>1. UNION {w.keys : w \in S \cup {one}} \subseteq (UNION {w.keys : w \in S}) \cup one.keys
    BY Zenon
  <1>2. (UNION {w.keys : w \in S}) \cup one.keys \subseteq UNION {w.keys : w \in S \cup {one}}
    BY Zenon
  <1>3. QED
    BY <1>1, <1>2

(* What a clock covers grows by the keys of the change, for the node that  *)
(* makes it, and not at all for any clock from before.                     *)
LEMMA ChangeCovers ==
    ASSUME KeysInv, NEW k \in Node, NEW y \in Context, NEW keys \in SUBSET Key,
           ChangeStep(k, y, keys)
    PROVE  /\ \A c \in Contexts : Covered(c.vector_clock)' = Covered(c.vector_clock)
           /\ \A up : up = Increment(y.vector_clock, k)
                      => Covered(up)' = Covered(y.vector_clock) \cup keys
  <1> DEFINE own == local_context[k].vector_clock
             new == [by |-> k, seq |-> own[k] + 1, keys |-> keys, data |-> y.data]
  <1>1. own \in VectorClock /\ own[k] \in Nat /\ y.vector_clock = own
    BY DEF KeysInv, TypeOK, Context, VectorClock, ChangeStep
  <1>2. written' = written \cup {new}
    BY <1>1 DEF ChangeStep, Increment, Context, VectorClock
  <1>3. \A w \in written : w.by \in Node /\ w.seq \in Nat /\ w.keys \in SUBSET Key
    BY DEF KeysInv, TypeOK, Write
  <1>4. ASSUME NEW c \in Contexts
        PROVE  Covered(c.vector_clock)' = Covered(c.vector_clock)
    <2>1. c.vector_clock[k] \in Nat /\ c.vector_clock[k] <= own[k]
      BY ContextsType DEF KeysInv, ClockBounded, Context, VectorClock
    <2>2. ~(new.seq <= c.vector_clock[new.by])
      BY <1>1, <2>1
    <2>3. c.vector_clock = c.vector_clock
      OBVIOUS
    <2>4. UNION {w.keys : w \in {z \in written' : z.seq <= c.vector_clock[z.by]}}
            = UNION {w.keys : w \in {z \in written : z.seq <= c.vector_clock[z.by]}}
      BY <1>2, <2>2
    <2>5. QED
      BY <2>4 DEF Covered
  <1>5. ASSUME NEW up, up = Increment(y.vector_clock, k)
        PROVE  Covered(up)' = Covered(y.vector_clock) \cup keys
    <2>1. up[k] = own[k] + 1 /\ \A m \in Node : m # k => up[m] = own[m]
      BY <1>1, <1>5 DEF Increment, VectorClock
    <2>2. ASSUME NEW w \in written
          PROVE  w.seq <= up[w.by] <=> w.seq <= y.vector_clock[w.by]
      <3>1. CASE w.by = k
        <4>1. w.seq <= own[k]
          BY <3>1 DEF KeysInv, WrittenIsCounted
        <4>2. QED
          BY <1>1, <1>3, <2>1, <3>1, <4>1
      <3>2. CASE w.by # k
        BY <1>1, <1>3, <2>1, <3>2
      <3>3. QED
        BY <3>1, <3>2
    <2>3. new.seq <= up[new.by] /\ new.keys = keys
      BY <1>1, <2>1
    <2>4. {z \in written' : z.seq <= up[z.by]}
            = {z \in written : z.seq <= y.vector_clock[z.by]} \cup {new}
      BY <1>2, <2>2, <2>3
    <2>5. UNION {w.keys : w \in {z \in written : z.seq <= y.vector_clock[z.by]} \cup {new}}
            = (UNION {w.keys : w \in {z \in written : z.seq <= y.vector_clock[z.by]}}) \cup keys
      BY <2>3, UnionOfOneMore
    <2>6. UNION {w.keys : w \in {z \in written' : z.seq <= up[z.by]}}
            = (UNION {w.keys : w \in {z \in written : z.seq <= y.vector_clock[z.by]}}) \cup keys
      BY <2>4, <2>5
    <2>7. QED
      BY <2>6 DEF Covered
  <1>6. QED
    BY <1>4, <1>5

LEMMA KeysFollowClockStep ==
    ASSUME Replacement = {}, KeysInv, [Next]_vars
    PROVE  KeysFollowClock'
  <1> SUFFICES ASSUME NEW x \in Contexts'
               PROVE  KeysOf(x.data) = Covered(x.vector_clock)'
    BY DEF KeysFollowClock, KeysOf
  <1>1. \A c \in Contexts : c \in Context /\ KeysOf(c.data) = Covered(c.vector_clock)
    BY ContextsType DEF KeysInv, KeysFollowClock
  <1>2. written' = written => \A vc : Covered(vc)' = Covered(vc)
    BY DEF Covered
  <1>3. CASE NoContextStep
    BY <1>1, <1>2, <1>3 DEF NoContextStep, Covered
  <1>4. ASSUME NEW k \in Node, NEW y \in Context, NEW keys \in SUBSET Key, ChangeStep(k, y, keys)
        PROVE  KeysOf(x.data) = Covered(x.vector_clock)'
    <2> DEFINE next == [y EXCEPT !.vector_clock = Increment(@, k)]
    <2>1. CASE x \in Contexts
      BY <1>1, <1>4, <2>1, ChangeCovers
    <2>2. CASE x = next
      <3>1. x.data = y.data /\ x.vector_clock = Increment(y.vector_clock, k)
        BY <2>2 DEF Context
      <3>2. KeysOf(y.data) = KeysOf(local_context[k].data) \cup keys
        BY <1>4 DEF ChangeStep
      <3>3. KeysOf(local_context[k].data) = Covered(y.vector_clock)
        BY <1>1, <1>4, ContextsMembers DEF ChangeStep
      <3>4. Covered(x.vector_clock)' = Covered(y.vector_clock) \cup keys
        BY <1>4, <3>1, ChangeCovers
      <3>5. QED
        BY <3>1, <3>2, <3>3, <3>4
    <2>3. QED
      BY <1>4, <2>1, <2>2 DEF ChangeStep
  <1>5. ASSUME NEW k \in Node, NEW y \in Contexts, MergeStep(k, y)
        PROVE  KeysOf(x.data) = Covered(x.vector_clock)'
    <2>1. x \in Contexts \/ x = Merge(local_context[k], y)
      BY <1>5 DEF MergeStep
    <2>2. KeysOf(Merge(local_context[k], y).data) = Covered(Merge(local_context[k], y).vector_clock)
      BY <1>1, ContextsMembers, MergeKeepsKeys DEF KeysInv
    <2>3. KeysOf(x.data) = Covered(x.vector_clock)
      BY <1>1, <2>1, <2>2
    <2>4. QED
      BY <1>5, <2>3 DEF MergeStep, Covered
  <1>6. QED
    BY <1>3, <1>4, <1>5, NextIsContextStep DEF ContextStep, KeysInv

(* While documents are only patched, every context holds exactly the keys  *)
(* of the changes its clock covers: no update is lost by any chain of      *)
(* merges, and replicas with equal clocks have equal key sets.             *)
THEOREM KeysFollowTheClock ==
    ASSUME Replacement = {}
    PROVE  Spec => []KeysFollowClock
  <1>1. Init => KeysInv
    <2>1. ASSUME Init PROVE ClockBounded /\ WrittenIsCounted /\ KeysFollowClock
      <3>1. written = {}
        BY <2>1 DEF Init
      <3>2. \A x \in Contexts : KeysOf(x.data) = Covered(x.vector_clock)
        <4>1. \A vc : UNION {w.keys : w \in {x \in written : x.seq <= vc[x.by]}} = {}
          BY <3>1
        <4> QED
          BY <2>1, <4>1, InitContexts DEF Covered
      <3>3. ClockBounded
        BY <2>1, InitContexts, ContextsMembers DEF ClockBounded, ZeroClock
      <3>4. QED
        BY <3>1, <3>2, <3>3 DEF WrittenIsCounted, KeysFollowClock
    <2>2. QED
      BY <2>1, InitTypeOK DEF KeysInv
  <1>2. KeysInv /\ [Next]_vars => KeysFollowClock'
    BY KeysFollowClockStep
  <1>3. KeysInv /\ [Next]_vars => WrittenIsCounted' /\ ClockBounded'
    BY WrittenIsCountedStep, ClockBoundedStep DEF KeysInv
  <1>4. TypeOK /\ TypeOK' /\ KeysInv /\ [Next]_vars => KeysInv'
    BY <1>2, <1>3 DEF KeysInv
  <1>5. KeysInv => KeysFollowClock
    BY DEF KeysInv
  <1>6. QED
    BY <1>1, <1>4, <1>5, TypeCorrect, PTL DEF Spec
=============================================================================

------------------------------ MODULE Runtime ------------------------------
(***************************************************************************)
(* The Runtime actors of a mesh of nodes (src/p2p/src/runtime.rs).  Each   *)
(* node runs one actor: its select loop takes a heartbeat tick, a command  *)
(* of the node's handle or a swarm event, and runs the handler to its end  *)
(* before it takes the next.  One action is one such handler, whole.       *)
(*                                                                         *)
(* Every field of struct Runtime is a function of the node.  events[n] is  *)
(* what the last step of the mesh sent to n's event channel, in order: the *)
(* output of the actor, to be appended to a queue by whoever composes it.  *)
(* written and sent are history: no action reads them.                     *)
(***************************************************************************)
EXTENDS Network, Sequences, SequencesExt

CONSTANTS
    NoStream,      \* "no entry under this stream id"
    Addr,          \* listen addresses a peer may report
    Routable,      \* those of them that can be dialled
    NoAddr,        \* "no address known"
    Mdns,          \* pairs <<n, p>>: n hears p's multicast announcements
    Bootstrap,     \* pairs <<n, p>>: n is configured to dial p at start
    AppTopic,      \* topics the applications subscribe to and publish on
    Initiator,     \* nodes whose application requests streams
    Writer,        \* nodes whose application changes its context
    Patch,         \* documents the applications patch in
    Replacement,   \* documents the applications replace theirs with
    MaxUpdates,    \* bound: context changes per writer
    MaxInFlight    \* bound: no stream command while this many messages are out

ASSUME AddrAssumption == Routable \subseteq Addr /\ NoAddr \notin Addr
ASSUME PairAssumption == Mdns \subseteq Pair /\ Bootstrap \subseteq Pair
ASSUME AppTopicAssumption == AppTopic \subseteq Topic
ASSUME UserAssumption == Initiator \subseteq Node /\ Writer \subseteq Node
ASSUME DocAssumption == Patch \subseteq Doc /\ Replacement \subseteq Doc
ASSUME BoundAssumption == MaxUpdates \in Nat /\ MaxInFlight \in Nat

Status == {"Requested", "Accepted", "Active"}
Direction == {"Inbound", "Outbound"}
StreamState == [peer : Node, status : Status, direction : Direction]

ASSUME NoStreamAssumption == NoStream \notin StreamState

(* enum AviEvent, without Started and without what no handler tells apart. *)
PeerEvent == [type : {"PeerDiscovered", "PeerConnected", "PeerDisconnected"}, peer : Node]
StreamEvent ==
    [type : {"StreamRequested", "StreamAccepted", "StreamRejected", "StreamData", "StreamClosed"},
     peer : Node, stream_id : StreamId]
ContextEvent == [type : {"ContextUpdated"}, peer : Node, data : Doc]
MessageEvent == [type : {"Message"}, peer : Node, topic : Topic]
Event == PeerEvent \cup StreamEvent \cup ContextEvent \cup MessageEvent

VARIABLES
    peers,             \* the peers n is connected to, as n knows
    discovered_peers,  \* the peers n has announced as discovered
    synced_peers,      \* the peers n has sent its context to on this connection
    known_peers,       \* the address n will dial for each peer
    topics,            \* the topics n is subscribed to
    streams,           \* n's streams, by stream id
    next_stream_id,    \* NEXT_STREAM_ID of n's process
    local_context,     \* n's context
    events,            \* what the last step sent to each event channel
    written,           \* history: every context change that was ever made
    sent               \* history: every stream request and acceptance ever sent

connections == <<peers, discovered_peers, synced_peers, known_peers>>
streaming == <<streams, next_stream_id, sent>>
replica == <<local_context, written>>
vars == <<network, connections, topics, streaming, replica, events>>

Agreement == {m \in ControlMessage : m.type \in {"RequestStream", "AcceptStream"}}
Write == [by : Node, seq : Nat, keys : SUBSET Key, data : Doc]

TypeOK ==
    /\ NetworkTypeOK
    /\ peers \in [Node -> SUBSET Node]
    /\ discovered_peers \in [Node -> SUBSET Node]
    /\ synced_peers \in [Node -> SUBSET Node]
    /\ known_peers \in [Node -> [Node -> Addr \cup {NoAddr}]]
    /\ topics \in [Node -> SUBSET Topic]
    /\ streams \in [Node -> [StreamId -> StreamState \cup {NoStream}]]
    /\ next_stream_id \in [Node -> Nat]
    /\ local_context \in [Node -> Context]
    /\ events \in [Node -> Seq(Event)]
    /\ written \subseteq Write
    /\ sent \subseteq Agreement

Init ==
    /\ NetworkInit(Bootstrap)
    /\ peers = [n \in Node |-> {}]
    /\ discovered_peers = [n \in Node |-> {}]
    /\ synced_peers = [n \in Node |-> {}]
    /\ known_peers = [n \in Node |-> [p \in Node |-> NoAddr]]
    /\ topics = [n \in Node |-> {}]
    /\ streams = [n \in Node |-> [i \in StreamId |-> NoStream]]
    /\ next_stream_id = [n \in Node |-> 1]
    /\ \E now \in [Node -> Time] : local_context = [n \in Node |-> NewContext(n, now[n])]
    /\ events = [n \in Node |-> <<>>]
    /\ written = {}
    /\ sent = {}

Emit(n, list) == events' = [m \in Node |-> IF m = n THEN list ELSE <<>>]
Silent == events' = [m \in Node |-> <<>>]

-----------------------------------------------------------------------------
(* Commands: topics.                                                       *)

Subscribe(n, t) ==
    /\ t \in AppTopic
    /\ topics' = [topics EXCEPT ![n] = @ \cup {t}]
    /\ Silent
    /\ UNCHANGED <<network, connections, streaming, replica>>

Unsubscribe(n, t) ==
    /\ t \in AppTopic
    /\ topics' = [topics EXCEPT ![n] = @ \ {t}]
    /\ Silent
    /\ UNCHANGED <<network, connections, streaming, replica>>

Subscribers(t) == {p \in Node : t \in topics[p]}

Publish(n, t) ==
    /\ t \in AppTopic \ {ContextTopic}
    /\ \E S \in GossipReach(n, t, peers[n], Subscribers(t)) :
          gossip' = gossip \cup [topic : {t}, from : {n}, to : S]
    /\ Silent
    /\ UNCHANGED <<dialing, link, wire, known_topics, outages,
                   connections, topics, streaming, replica>>

-----------------------------------------------------------------------------
(* Commands: streams.                                                      *)

Reachable(n) == {p \in Node : known_peers[n][p] # NoAddr}

Control(type, n, p, i) == [type |-> type, from |-> n, to |-> p, stream_id |-> i]

SendControl(m) ==
    /\ Cardinality(wire) < MaxInFlight
    /\ Send(m, peers[m.from], Reachable(m.from))
    /\ sent' = sent \cup ({m} \cap Agreement)
    /\ Silent
    /\ UNCHANGED <<link, gossip, known_topics, outages, connections, topics, replica>>

RequestStream(n, p) ==
    /\ n \in Initiator /\ p # n
    /\ LET i == next_stream_id[n]
       IN  /\ i \in StreamId
           /\ next_stream_id' = [next_stream_id EXCEPT ![n] = i + 1]
           /\ streams' = [streams EXCEPT ![n][i] =
                 [peer |-> p, status |-> "Requested", direction |-> "Outbound"]]
           /\ SendControl(Control("RequestStream", n, p, i))

(* Mutant: the acceptance goes to whichever peer is connected.             *)
AcceptStreamToAnyone(n, i) ==
    /\ streams[n][i] # NoStream
    /\ streams' = [streams EXCEPT ![n][i].status = "Accepted"]
    /\ \E p \in peers[n] : SendControl(Control("AcceptStream", n, p, i))
    /\ UNCHANGED next_stream_id

AcceptStream(n, i) ==
    /\ streams[n][i] # NoStream
    /\ streams' = [streams EXCEPT ![n][i].status = "Accepted"]
    /\ SendControl(Control("AcceptStream", n, streams[n][i].peer, i))
    /\ UNCHANGED next_stream_id

RejectStream(n, i) ==
    /\ streams[n][i] # NoStream
    /\ streams' = [streams EXCEPT ![n][i] = NoStream]
    /\ SendControl(Control("RejectStream", n, streams[n][i].peer, i))
    /\ UNCHANGED next_stream_id

SendStreamData(n, i) ==
    /\ streams[n][i] # NoStream
    /\ SendControl(Control("StreamData", n, streams[n][i].peer, i))
    /\ UNCHANGED <<streams, next_stream_id>>

(* Mutant: a closed stream stays in the table.                             *)
CloseStreamKept(n, i) ==
    /\ streams[n][i] # NoStream
    /\ streams' = [streams EXCEPT ![n][i].status = "Closed"]
    /\ SendControl(Control("CloseStream", n, streams[n][i].peer, i))
    /\ UNCHANGED next_stream_id

CloseStream(n, i) ==
    /\ streams[n][i] # NoStream
    /\ streams' = [streams EXCEPT ![n][i] = NoStream]
    /\ SendControl(Control("CloseStream", n, streams[n][i].peer, i))
    /\ UNCHANGED next_stream_id

-----------------------------------------------------------------------------
(* Commands: the context.  The broadcast is best effort: with no known     *)
(* subscriber, or when gossipsub refuses the publication, the change stays *)
(* local.  Whoever asked is told of the refusal; nothing is taken back.    *)

Broadcast(n, c) ==
    /\ topics' = [topics EXCEPT ![n] = @ \cup {ContextTopic}]
    /\ \E S \in GossipReach(n, ContextTopic, peers[n], Subscribers(ContextTopic)) :
          gossip' = gossip \cup [topic : {ContextTopic}, from : {n}, to : S, context : {c}]

Commit(n, c, keys) ==
    /\ n \in Writer
    /\ local_context[n].vector_clock[n] < MaxUpdates
    /\ LET next == [c EXCEPT !.vector_clock = Increment(@, n)]
       IN  /\ local_context' = [local_context EXCEPT ![n] = next]
           /\ Broadcast(n, next)
           /\ written' = written \cup {[by |-> n, seq |-> next.vector_clock[n],
                                      keys |-> keys, data |-> next.data]}
    /\ Silent
    /\ UNCHANGED <<dialing, link, wire, known_topics, outages, connections, streaming>>

UpdateSelfContext(n, patch, now) ==
    Commit(n, ApplyPatch(local_context[n], patch, now), KeysOf(patch))

ReplaceSelfContext(n, doc, now) ==
    Commit(n, ReplaceData(local_context[n], doc, now), KeysOf(doc))

(* GetPeerContext: what it answers; it changes nothing.                    *)
GetPeerContext(n, p) == local_context[n].data

-----------------------------------------------------------------------------
(* Swarm events: discovery and connections.                                *)

(* Mutant: only peers still counted as discovered are dialled again.       *)
HeartbeatOfDiscovered(n) ==
    /\ dialing' = dialing \cup
          {<<n, p>> : p \in {q \in discovered_peers[n] \ peers[n] :
                                known_peers[n][q] \in Routable}}
    /\ Silent
    /\ UNCHANGED <<link, wire, gossip, known_topics, outages,
                   connections, topics, streaming, replica>>

Heartbeat(n) ==
    /\ dialing' = dialing \cup
          {<<n, p>> : p \in {q \in Node \ peers[n] : known_peers[n][q] \in Routable}}
    /\ Silent
    /\ UNCHANGED <<link, wire, gossip, known_topics, outages,
                   connections, topics, streaming, replica>>

EmitPeerDiscovered(n, p) ==
    /\ discovered_peers' = [discovered_peers EXCEPT ![n] = @ \cup {p}]
    /\ Emit(n, IF p \in discovered_peers[n] THEN <<>>
               ELSE <<[type |-> "PeerDiscovered", peer |-> p]>>)

(* One entry of the list: the handler takes the entries one by one, and    *)
(* nothing of n runs between them.                                         *)
MdnsDiscovered(n, p, a) ==
    /\ <<n, p>> \in Mdns
    /\ known_peers' = [known_peers EXCEPT ![n][p] = a]
    /\ dialing' = IF p \notin peers[n] /\ a \in Routable
                  THEN dialing \cup {<<n, p>>} ELSE dialing
    /\ EmitPeerDiscovered(n, p)
    /\ UNCHANGED <<link, wire, gossip, known_topics, outages, peers, synced_peers,
                   topics, streaming, replica>>

(* Identify, on a new connection and again while it lasts.  The last       *)
(* address of the peer's list, in whatever order it comes, is the one that *)
(* stays; NoAddr stands for an empty list, which leaves the old one.       *)
(* Every node here supports /avi/stream/1.0.0.                             *)
IdentifyReceived(n, p, a) ==
    /\ p \in peers[n] /\ Linked(n, p)
    /\ EmitPeerDiscovered(n, p)
    /\ known_peers' = [known_peers EXCEPT ![n][p] = IF a = NoAddr THEN @ ELSE a]
    /\ IF p \in synced_peers[n] THEN UNCHANGED <<synced_peers, wire, dialing>>
       ELSE /\ synced_peers' = [synced_peers EXCEPT ![n] = @ \cup {p}]
            /\ Send([type |-> "SyncContext", from |-> n, to |-> p,
                     context |-> local_context[n]], peers[n], Reachable(n))
    /\ UNCHANGED <<link, gossip, known_topics, outages, peers, topics, streaming, replica>>

ConnectionEstablished(n, p) ==
    /\ Linked(n, p) /\ p \notin peers[n] /\ p # n
    /\ peers' = [peers EXCEPT ![n] = @ \cup {p}]
    /\ topics' = [topics EXCEPT ![n] = @ \cup {ContextTopic}]
    /\ Emit(n, <<[type |-> "PeerConnected", peer |-> p]>>)
    /\ UNCHANGED <<network, discovered_peers, synced_peers, known_peers, streaming, replica>>

StreamEventOf(type, p, i) == [type |-> type, peer |-> p, stream_id |-> i]

(* Mutant: a peer that is gone still counts as synced.                     *)
ConnectionClosedStillSynced(n, p) ==
    /\ ~Linked(n, p) /\ p \in peers[n]
    /\ peers' = [peers EXCEPT ![n] = @ \ {p}]
    /\ discovered_peers' = [discovered_peers EXCEPT ![n] = @ \ {p}]
    /\ known_topics' = [known_topics EXCEPT ![n][p] = {}]
    /\ Emit(n, <<[type |-> "PeerDisconnected", peer |-> p]>>)
    /\ UNCHANGED <<dialing, link, wire, gossip, outages, synced_peers, known_peers,
                   topics, streaming, replica>>

(* The streams of the peer go in the order of a HashMap: any order.        *)
ConnectionClosed(n, p) ==
    /\ ~Linked(n, p) /\ p \in peers[n]
    /\ peers' = [peers EXCEPT ![n] = @ \ {p}]
    /\ discovered_peers' = [discovered_peers EXCEPT ![n] = @ \ {p}]
    /\ synced_peers' = [synced_peers EXCEPT ![n] = @ \ {p}]
    /\ known_topics' = [known_topics EXCEPT ![n][p] = {}]
    /\ LET gone == {i \in StreamId : streams[n][i] # NoStream /\ streams[n][i].peer = p}
       IN  /\ streams' = [streams EXCEPT ![n] =
                 [i \in StreamId |-> IF i \in gone THEN NoStream ELSE @[i]]]
           /\ \E order \in SetToSeqs(gone) :
                 Emit(n, [k \in DOMAIN order |-> StreamEventOf("StreamClosed", p, order[k])]
                         \o <<[type |-> "PeerDisconnected", peer |-> p]>>)
    /\ UNCHANGED <<dialing, link, wire, gossip, outages, known_peers, topics,
                   next_stream_id, sent, replica>>

-----------------------------------------------------------------------------
(* Swarm events: gossip and contexts.                                      *)

MergeInto(n, c) ==
    /\ local_context' = [local_context EXCEPT ![n] = Merge(@, c)]
    /\ Emit(n, IF MergeReturns(local_context[n], c)
               THEN <<[type |-> "ContextUpdated", peer |-> c.device_id,
                       data |-> Merge(local_context[n], c).data]>>
               ELSE <<>>)
    /\ UNCHANGED written

(* A copy comes over a connection to some peer, its author or a forwarder, *)
(* and only for a topic the node is subscribed to.                         *)
Arrives(g, source) ==
    /\ g \in gossip
    /\ g.topic \in topics[g.to]
    /\ source \in peers[g.to] /\ Linked(g.to, source)
    /\ gossip' = gossip \ {g}
    /\ UNCHANGED <<dialing, link, wire, known_topics, outages, connections, topics, streaming>>

ContextGossipMessage(g, source) ==
    /\ Arrives(g, source)
    /\ g.topic = ContextTopic
    /\ MergeInto(g.to, g.context)

AppGossipMessage(g, source) ==
    /\ Arrives(g, source)
    /\ g.topic # ContextTopic
    /\ Emit(g.to, <<[type |-> "Message", peer |-> source, topic |-> g.topic]>>)
    /\ UNCHANGED replica

-----------------------------------------------------------------------------
(* Swarm events: request-response messages (handle_stream_message).        *)

Receive(type, m) ==
    /\ m \in wire /\ m.type = type
    /\ Linked(m.from, m.to) /\ m.from \in peers[m.to]
    /\ wire' = wire \ {m}
    /\ UNCHANGED <<dialing, link, gossip, known_topics, outages, connections, topics,
                   next_stream_id, sent>>

HandleSyncContext(m) ==
    /\ Receive("SyncContext", m)
    /\ MergeInto(m.to, m.context)
    /\ UNCHANGED streams

(* Mutant: the receiver takes itself for the requester.                    *)
HandleRequestStreamAsOutbound(m) ==
    /\ Receive("RequestStream", m)
    /\ streams' = [streams EXCEPT ![m.to][m.stream_id] =
          [peer |-> m.from, status |-> "Requested", direction |-> "Outbound"]]
    /\ Emit(m.to, <<StreamEventOf("StreamRequested", m.from, m.stream_id)>>)
    /\ UNCHANGED replica

HandleRequestStream(m) ==
    /\ Receive("RequestStream", m)
    /\ streams' = [streams EXCEPT ![m.to][m.stream_id] =
          [peer |-> m.from, status |-> "Requested", direction |-> "Inbound"]]
    /\ Emit(m.to, <<StreamEventOf("StreamRequested", m.from, m.stream_id)>>)
    /\ UNCHANGED replica

HasStream(m) == streams[m.to][m.stream_id] # NoStream

(* What the three handlers that look the stream up have in common: an      *)
(* unknown id is ignored; a known one is reported under the sender's name. *)
Report(type, m) ==
    Emit(m.to, IF HasStream(m) THEN <<StreamEventOf(type, m.from, m.stream_id)>> ELSE <<>>)

(* Mutant: an acceptance of an unknown stream makes an entry.              *)
HandleAcceptStreamInserting(m) ==
    /\ Receive("AcceptStream", m)
    /\ streams' = [streams EXCEPT ![m.to][m.stream_id] =
          [peer |-> m.from, status |-> "Active", direction |-> "Outbound"]]
    /\ Report("StreamAccepted", m)
    /\ UNCHANGED replica

HandleAcceptStream(m) ==
    /\ Receive("AcceptStream", m)
    /\ streams' = IF HasStream(m)
                  THEN [streams EXCEPT ![m.to][m.stream_id].status = "Active"] ELSE streams
    /\ Report("StreamAccepted", m)
    /\ UNCHANGED replica

HandleRejectStream(m) ==
    /\ Receive("RejectStream", m)
    /\ streams' = [streams EXCEPT ![m.to][m.stream_id] = NoStream]
    /\ Report("StreamRejected", m)
    /\ UNCHANGED replica

(* Mutant: data on a stream counts as its acceptance.                      *)
HandleStreamDataActivating(m) ==
    /\ Receive("StreamData", m)
    /\ streams' = IF HasStream(m)
                  THEN [streams EXCEPT ![m.to][m.stream_id].status = "Active"] ELSE streams
    /\ Report("StreamData", m)
    /\ UNCHANGED replica

HandleStreamData(m) ==
    /\ Receive("StreamData", m)
    /\ Report("StreamData", m)
    /\ UNCHANGED <<streams, replica>>

HandleCloseStream(m) ==
    /\ Receive("CloseStream", m)
    /\ streams' = [streams EXCEPT ![m.to][m.stream_id] = NoStream]
    /\ Emit(m.to, <<StreamEventOf("StreamClosed", m.from, m.stream_id)>>)
    /\ UNCHANGED replica

-----------------------------------------------------------------------------
(* The network between the runtimes.                                       *)

Outside == Silent /\ UNCHANGED <<connections, topics, streaming, replica>>

(* The two ends tell each other their subscriptions once both have the     *)
(* connection.                                                             *)
SubscriptionLearned(n, p) ==
    /\ Linked(n, p) /\ p \in peers[n] /\ n \in peers[p]
    /\ known_topics' = [known_topics EXCEPT ![n][p] = topics[p]]
    /\ UNCHANGED <<dialing, link, wire, gossip, outages>>

-----------------------------------------------------------------------------
UserCommand(n) ==
    \/ \E t \in AppTopic : Subscribe(n, t) \/ Unsubscribe(n, t) \/ Publish(n, t)
    \/ \E p \in Node : RequestStream(n, p)
    \/ \E i \in StreamId : \/ AcceptStream(n, i) \/ RejectStream(n, i)
                           \/ SendStreamData(n, i) \/ CloseStream(n, i)
    \/ \E patch \in Patch, now \in Time : UpdateSelfContext(n, patch, now)
    \/ \E doc \in Replacement, now \in Time : ReplaceSelfContext(n, doc, now)

SwarmEvent(n) ==
    \/ \E p \in Node : ConnectionEstablished(n, p) \/ ConnectionClosed(n, p)
    \/ \E p \in Node, a \in Addr : MdnsDiscovered(n, p, a)
    \/ \E p \in Node, a \in Addr \cup {NoAddr} : IdentifyReceived(n, p, a)

Incoming ==
    \/ \E g \in gossip, source \in Node :
          ContextGossipMessage(g, source) \/ AppGossipMessage(g, source)
    \/ \E m \in wire :
          \/ HandleSyncContext(m) \/ HandleRequestStream(m) \/ HandleAcceptStream(m)
          \/ HandleRejectStream(m) \/ HandleStreamData(m) \/ HandleCloseStream(m)

Environment ==
    /\ Outside
    /\ \/ \E n, p \in Node : \/ LinkUp(n, p) \/ LinkDown(n, p) \/ DialFailed(n, p)
                             \/ SubscriptionLearned(n, p)
       \/ \E m \in wire : SendFailed(m)

Next ==
    \/ \E n \in Node : UserCommand(n) \/ Heartbeat(n) \/ SwarmEvent(n)
    \/ Incoming
    \/ Environment

Spec == Init /\ [][Next]_vars
=============================================================================

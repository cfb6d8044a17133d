------------------------------ MODULE Network ------------------------------
(***************************************************************************)
(* What the runtimes see of libp2p, which is not part of the repository:   *)
(* connections that are dialled, come up and go down, request-response     *)
(* messages that are lost or overtake one another, and gossipsub, which    *)
(* knows of a peer's subscriptions only after it has been told.            *)
(*                                                                         *)
(* Only what src/p2p/src/runtime.rs and behaviour.rs rely on is kept.  All *)
(* connections between two nodes are one link: the runtime reacts to the   *)
(* first one that opens and to the last one that closes.                   *)
(***************************************************************************)
EXTENDS Naturals, FiniteSets, AviContext

CONSTANTS
    Topic,         \* gossipsub topics
    ContextTopic,  \* "avi-context-updates"
    StreamId,      \* the values generate_stream_id can return, 1..n
    MayRefuse,     \* whether gossipsub may refuse what it has a receiver for
    MaxOutages     \* how many links may fail and dials be refused

ASSUME TopicAssumption == ContextTopic \in Topic
ASSUME StreamIdAssumption == StreamId \subseteq Nat \ {0} /\ IsFiniteSet(StreamId)
ASSUME OutagesAssumption == MaxOutages \in Nat
ASSUME RefusalAssumption == MayRefuse \in BOOLEAN

VARIABLES
    dialing,       \* pairs <<n, p>>: n has a dial to p under way
    link,          \* sets {n, p}: the two have a working connection
    wire,          \* request-response messages on their way
    gossip,        \* copies of gossipsub messages on their way, one per receiver
    known_topics,  \* known_topics[n][p]: what n's gossipsub believes p subscribes to
    outages        \* links failed and dials refused so far

network == <<dialing, link, wire, gossip, known_topics, outages>>

(* enum StreamMessage of src/p2p/src/protocols/stream.rs with its sender   *)
(* and receiver; reasons and payloads are left out.                        *)
ControlType == {"RequestStream", "AcceptStream", "RejectStream", "StreamData", "CloseStream"}
ControlMessage == [type : ControlType, from : Node, to : Node, stream_id : StreamId]
SyncMessage == [type : {"SyncContext"}, from : Node, to : Node, context : Context]
WireMessage == ControlMessage \cup SyncMessage

ContextGossip == [topic : {ContextTopic}, from : Node, to : Node, context : Context]
AppGossip == [topic : Topic \ {ContextTopic}, from : Node, to : Node]
GossipCopy == ContextGossip \cup AppGossip

Pair == Node \X Node
Linked(n, p) == {n, p} \in link

NetworkTypeOK ==
    /\ dialing \subseteq Pair
    /\ link \subseteq SUBSET Node
    /\ wire \subseteq WireMessage
    /\ gossip \subseteq GossipCopy
    /\ known_topics \in [Node -> [Node -> SUBSET Topic]]
    /\ outages \in Nat

-----------------------------------------------------------------------------
(* What a handler asks of the network.  `conn' is the set of peers the     *)
(* sender's swarm holds a connection to.                                   *)

(* request_response::send_request: a request to a connected peer goes out  *)
(* at once, and is lost if the connection is dead without the sender       *)
(* knowing; for any other peer it waits for the dial it provokes, if an    *)
(* address of the peer is known.                                           *)
Send(m, conn, known) ==
    /\ wire' = IF m.to \in conn /\ ~Linked(m.from, m.to) THEN wire ELSE wire \cup {m}
    /\ dialing' = IF m.to \in known \ conn
                  THEN dialing \cup {<<m.from, m.to>>} ELSE dialing

(* gossipsub::publish: who will get a copy.  With no peer known to         *)
(* subscribe the publication fails (InsufficientPeers), and it may fail    *)
(* for other reasons (full queues, a message too large); otherwise it      *)
(* reaches the known subscribers over working links, and may be forwarded  *)
(* to any other node that is subscribed.                                   *)
GossipReach(n, topic, conn, subscribers) ==
    LET direct  == {p \in conn : topic \in known_topics[n][p]}
        refused == IF direct = {} \/ MayRefuse THEN {{}} ELSE {}
        reached == {S \in SUBSET (subscribers \ {n}) :
                       {p \in direct \cap subscribers : Linked(n, p)} \subseteq S}
    IN  refused \cup (IF direct = {} THEN {} ELSE reached)

-----------------------------------------------------------------------------
(* What the network does on its own.                                       *)

NetworkInit(bootstrap) ==
    /\ dialing = bootstrap
    /\ link = {}
    /\ wire = {}
    /\ gossip = {}
    /\ known_topics = [n \in Node |-> [p \in Node |-> {}]]
    /\ outages = 0

LinkUp(n, p) ==
    /\ <<n, p>> \in dialing
    /\ dialing' = dialing \ {<<n, p>>}
    /\ link' = link \cup {{n, p}}
    /\ UNCHANGED <<wire, gossip, known_topics, outages>>

(* A dial is refused, and what waited for it is dropped (OutboundFailure,  *)
(* an event the runtime ignores).                                          *)
DialFailed(n, p) ==
    /\ outages < MaxOutages
    /\ <<n, p>> \in dialing
    /\ dialing' = dialing \ {<<n, p>>}
    /\ wire' = IF Linked(n, p) THEN wire ELSE {m \in wire : ~(m.from = n /\ m.to = p)}
    /\ outages' = outages + 1
    /\ UNCHANGED <<link, gossip, known_topics>>

(* A request whose target nobody is dialling.                              *)
SendFailed(m) ==
    /\ m \in wire /\ ~Linked(m.from, m.to) /\ <<m.from, m.to>> \notin dialing
    /\ wire' = wire \ {m}
    /\ UNCHANGED <<dialing, link, gossip, known_topics, outages>>

(* A link fails with everything on it; gossip for its two ends may still   *)
(* reach them by another way.                                              *)
LinkDown(n, p) ==
    /\ outages < MaxOutages
    /\ Linked(n, p)
    /\ link' = link \ {{n, p}}
    /\ wire' = {m \in wire : {m.from, m.to} # {n, p}}
    /\ \E lost \in SUBSET {g \in gossip : g.to \in {n, p}} : gossip' = gossip \ lost
    /\ outages' = outages + 1
    /\ UNCHANGED <<dialing, known_topics>>
=============================================================================

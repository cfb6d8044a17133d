-------------------------- MODULE RuntimeProperties --------------------------
(***************************************************************************)
(* What the mesh of runtimes must guarantee.                               *)
(***************************************************************************)
EXTENDS Runtime

(* Every copy of a context there is: replicas, unanswered SyncContext      *)
(* requests, gossip on its way.                                            *)
Contexts ==
    {local_context[n] : n \in Node}
      \cup {m.context : m \in {x \in wire : x.type = "SyncContext"}}
      \cup {g.context : g \in {x \in gossip : x.topic = ContextTopic}}

-----------------------------------------------------------------------------
(* The replicated context.                                                 *)

(* Nobody's clock is ahead of the node that makes the updates it counts:   *)
(* a snapshot in flight, or a merge of two of them, never claims an update *)
(* that did not happen (VectorClock::merge, increment).                    *)
ClockBounded ==
    \A c \in Contexts, m \in Node :
        c.vector_clock[m] <= local_context[m].vector_clock[m]

(* What a clock says was seen: the keys of all changes it covers, and of   *)
(* the document every context starts with.                                 *)
Covered(vc) ==
    KeysOf(Skeleton) \cup UNION {w.keys : w \in {x \in written : x.seq <= vc[x.by]}}

(* A context holds exactly the keys of the changes its clock covers.  So a *)
(* node that claims to have seen a patch has its keys, by whichever chain  *)
(* of merges it came, no key appears from nowhere, and replicas with equal *)
(* clocks have equal key sets.  Holds while nobody replaces a document     *)
(* (deep_merge never drops a key, and each branch of merge joins clocks    *)
(* exactly when it joins keys).                                            *)
KeysFollowClock == \A c \in Contexts : KeysOf(c.data) = Covered(c.vector_clock)

(* A node's own updates and what it has merged are never taken back: no    *)
(* handler lets a component of a replica's clock decrease, a reconnect and *)
(* a late SyncContext included.                                            *)
ClockMonotone ==
    [][\A n, m \in Node : local_context'[n].vector_clock[m] >= local_context[n].vector_clock[m]]_vars

(* When a merge changes what a node shows, its application is told, with   *)
(* the document that is now in force: merge returns true in every branch   *)
(* that touches the data.                                                  *)
NoSilentChange ==
    [][\A n \in Node :
          (local_context'[n].data # local_context[n].data
             /\ local_context'[n].vector_clock[n] = local_context[n].vector_clock[n])
          => \E k \in DOMAIN events'[n] :
                /\ events'[n][k].type = "ContextUpdated"
                /\ events'[n][k].data = local_context'[n].data]_vars

(* A context is marked as sent only to a peer that is connected, so that   *)
(* the next connection sends it again (synced_peers is cleared when the    *)
(* last connection closes).                                                *)
SyncedOnlyWhileConnected == \A n \in Node : synced_peers[n] \subseteq peers[n]

(* README.md:17 promises "eventual consistency": two replicas whose clocks *)
(* agree that they have seen the same updates show the same document.      *)
EqualClocksAgree ==
    \A n, p \in Node :
        local_context[n].vector_clock = local_context[p].vector_clock
          => local_context[n].data = local_context[p].data

(* src/p2p/src/protocols/context.rs:124 "Other is strictly newer, we should fully replace our    *)
(* data to allow for deletions to propagate": with one writer, a replica   *)
(* whose clock covers a change shows nothing that change deleted.          *)
DeletionsPropagate ==
    \A n \in Node, w \in written :
        Writer = {w.by} /\ local_context[n].vector_clock[w.by] = w.seq
          => KeysOf(local_context[n].data) \subseteq KeysOf(w.data)

(* With one writer who drops no key, the replicas implement a versioned    *)
(* document: each shows exactly the writer's document as of the last       *)
(* change its clock covers, late and relayed copies notwithstanding.       *)
Owner == CHOOSE w \in Writer : TRUE

Versions == INSTANCE VersionedDocument WITH
    Replica <- Node, Document <- Doc, Blank <- Skeleton,
    history <- [k \in 1..local_context[Owner].vector_clock[Owner] |->
                  (CHOOSE w \in written : w.by = Owner /\ w.seq = k).data],
    version <- [n \in Node |-> local_context[n].vector_clock[Owner]],
    view <- [n \in Node |-> local_context[n].data]

OneWriterIsVersioned == Versions!Spec

-----------------------------------------------------------------------------
(* Streams.                                                                *)

(* An entry of the stream table stands for a request that was really made: *)
(* by this node to the peer if outbound, by the peer to this node if       *)
(* inbound, under that id.                                                 *)
EntriesHaveRequests ==
    \A n \in Node, i \in StreamId :
        LET s == streams[n][i]
        IN  s # NoStream =>
              /\ s.direction = "Outbound" => Control("RequestStream", n, s.peer, i) \in sent
              /\ s.direction = "Inbound" => Control("RequestStream", s.peer, n, i) \in sent

(* Ids count from 1 in every process (stream.rs:9), so an id may name      *)
(* several streams at one node: one it requested, and one for each peer    *)
(* that requested one of it.  The code keeps one entry for all of them     *)
(* (StreamKeepsItsPeer is what that breaks).  The next three properties    *)
(* say that the damage stays there: at a node where the id names one       *)
(* stream only, nothing that happens to that id elsewhere is felt.         *)
RequestsNaming(n, i) ==
    {r \in sent : r.type = "RequestStream" /\ r.stream_id = i /\ n \in {r.from, r.to}}

NamesOneStream(n, i) == \A r, s \in RequestsNaming(n, i) : r = s

(* An outbound stream is active only if its peer accepted it.              *)
ActiveMeansAccepted ==
    \A n \in Node, i \in StreamId :
        LET s == streams[n][i]
        IN  (/\ s # NoStream /\ s.status = "Active" /\ s.direction = "Outbound"
             /\ NamesOneStream(n, i))
              => Control("AcceptStream", s.peer, n, i) \in sent

(* What is reported of a known stream comes from the peer of that stream:  *)
(* not from one whose own stream has the same id, though their entries at  *)
(* the common peer may have replaced each other.                           *)
ReportsComeFromThePeer ==
    [][\A n \in Node : \A k \in DOMAIN events'[n] :
          LET e == events'[n][k]
          IN  (/\ e.type \in {"StreamAccepted", "StreamRejected", "StreamData"}
               /\ NamesOneStream(n, e.stream_id))
                => streams[n][e.stream_id].peer = e.peer]_vars

(* While a stream is in the table its peer does not change: README.md:150  *)
(* "Request a stream to a specific peer", :154 "Send data through the      *)
(* stream", and what is sent goes to the peer of the entry.                *)
StreamKeepsItsPeer ==
    [][\A n \in Node, i \in StreamId :
          streams[n][i] # NoStream /\ streams'[n][i] # NoStream
            => streams'[n][i].peer = streams[n][i].peer]_vars

(* What a node requested and is rid of never comes back under its id,      *)
(* however late an answer or a close arrives, unless somebody else opens a *)
(* stream to it under that id.                                             *)
NoRevival ==
    [][\A n \in Initiator, i \in StreamId :
          i < next_stream_id[n] /\ streams[n][i] = NoStream /\ NamesOneStream(n, i)
            => streams'[n][i] = NoStream]_vars

-----------------------------------------------------------------------------
(* Liveness.  The select loop of every node goes on: the heartbeat ticks,  *)
(* dials to routable addresses succeed, swarm events are taken, identify   *)
(* runs on every connection and request-response delivers over a link that *)
(* stays up.                                                               *)

Fairness ==
    /\ \A n \in Node : WF_vars(Heartbeat(n))
    /\ \A n, p \in Node :
          /\ WF_vars(Outside /\ LinkUp(n, p))
          /\ WF_vars(Outside /\ SubscriptionLearned(n, p))
          /\ WF_vars(ConnectionEstablished(n, p))
          /\ WF_vars(ConnectionClosed(n, p))
          /\ WF_vars(\E a \in Addr \cup {NoAddr} : IdentifyReceived(n, p, a))
          /\ WF_vars(\E m \in wire : m.from = n /\ m.to = p /\ HandleSyncContext(m))
          /\ WF_vars(\E g \in gossip : g.to = p /\ ContextGossipMessage(g, n))

FairSpec == Spec /\ Fairness

(* p2p/README.md:187: the heartbeat "automatically attempts to reconnect   *)
(* to known peers if the connection drops".                                *)
KnownPeersReconnect ==
    \A n, p \in Node :
        (known_peers[n][p] # NoAddr)
          ~> (Linked(n, p) /\ p \in peers[n] /\ n \in peers[p])

(* n holds a connection that no longer works and has not noticed.          *)
HalfOpen(n, p) == p \in peers[n] /\ ~Linked(n, p)

(* What a node changed while it was away from a peer reaches that peer     *)
(* after they meet again, by the SyncContext it sends on identify: unless  *)
(* the connection fails again before that.                                 *)
OfflineUpdatesPropagate ==
    \A n, p \in Node : \A k \in 1..MaxUpdates :
        (/\ p \notin peers[n] /\ known_peers[n][p] # NoAddr
         /\ local_context[n].vector_clock[n] = k)
          ~> (local_context[p].vector_clock[n] >= k \/ HalfOpen(n, p))

(* src/p2p/README.md:64: update the dictionary "on one device, and it     *)
(* propagates to all other devices".  What a node changed is seen by every *)
(* other, in the end.                                                     *)
UpdatesPropagate ==
    \A n, p \in Node : \A k \in 1..MaxUpdates :
        (local_context[n].vector_clock[n] = k)
          ~> (local_context[p].vector_clock[n] >= k)
=============================================================================

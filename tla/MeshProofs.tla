----------------------------- MODULE MeshProofs -----------------------------
(***************************************************************************)
(* Proofs about connections and streams in meshes of any size.             *)
(***************************************************************************)
EXTENDS TLAPS, RuntimeProofs

-----------------------------------------------------------------------------
(* Connections.  Few actions touch the sets a connection is kept in.       *)

LEMMA SyncedStep ==
    ASSUME TypeOK, SyncedOnlyWhileConnected, [Next]_vars
    PROVE  SyncedOnlyWhileConnected'
  <1> SUFFICES ASSUME NEW q \in Node PROVE synced_peers'[q] \subseteq peers'[q]
    BY DEF SyncedOnlyWhileConnected
  <1>1. synced_peers[q] \subseteq peers[q]
    BY DEF SyncedOnlyWhileConnected
  <1>2. ASSUME NEW n \in Node, UserCommand(n)
        PROVE  UNCHANGED connections
    BY <1>2 DEF UserCommand, Subscribe, Unsubscribe, Publish, RequestStream, AcceptStream,
                RejectStream, SendStreamData, CloseStream, SendControl, UpdateSelfContext,
                ReplaceSelfContext, Commit
  <1>3. ASSUME NEW n \in Node, NEW p \in Node, ConnectionEstablished(n, p)
        PROVE  synced_peers'[q] \subseteq peers'[q]
    BY <1>1, <1>3 DEF ConnectionEstablished, TypeOK
  <1>4. ASSUME NEW n \in Node, NEW p \in Node, ConnectionClosed(n, p)
        PROVE  synced_peers'[q] \subseteq peers'[q]
    BY <1>1, <1>4 DEF ConnectionClosed, TypeOK
  <1>5. ASSUME NEW n \in Node, NEW p \in Node, NEW a \in Addr, MdnsDiscovered(n, p, a)
        PROVE  UNCHANGED <<peers, synced_peers>>
    BY <1>5 DEF MdnsDiscovered
  <1>6. ASSUME NEW n \in Node, NEW p \in Node, NEW a \in Addr \cup {NoAddr}, IdentifyReceived(n, p, a)
        PROVE  synced_peers'[q] \subseteq peers'[q]
    <2>1. peers' = peers /\ p \in peers[n]
      BY <1>6 DEF IdentifyReceived
    <2>2. synced_peers' = synced_peers \/ synced_peers' = [synced_peers EXCEPT ![n] = @ \cup {p}]
      BY <1>6 DEF IdentifyReceived
    <2>3. synced_peers'[q] = synced_peers[q] \/ (q = n /\ synced_peers'[q] = synced_peers[q] \cup {p})
      BY <2>2 DEF TypeOK
    <2>4. QED
      BY <1>1, <2>1, <2>3
  <1>7. ASSUME Incoming
        PROVE  UNCHANGED connections
    BY <1>7 DEF Incoming, ContextGossipMessage, AppGossipMessage, Arrives, HandleSyncContext,
                HandleRequestStream, HandleAcceptStream, HandleRejectStream, HandleStreamData,
                HandleCloseStream, Receive
  <1>8. ASSUME NEW n \in Node, Heartbeat(n)
        PROVE  UNCHANGED connections
    BY <1>8 DEF Heartbeat
  <1>9. ASSUME Environment \/ UNCHANGED vars
        PROVE  UNCHANGED connections
    BY <1>9 DEF Environment, Outside, vars
  <1>10. UNCHANGED <<peers, synced_peers>> => synced_peers'[q] \subseteq peers'[q]
    BY <1>1
  <1>11. ASSUME NEW n \in Node, SwarmEvent(n)
         PROVE  synced_peers'[q] \subseteq peers'[q]
    BY <1>3, <1>4, <1>5, <1>6, <1>10, <1>11 DEF SwarmEvent
  <1>12. QED
    BY <1>2, <1>7, <1>8, <1>9, <1>10, <1>11 DEF Next, connections

(* No node takes a peer it is not connected to for one it has sent its     *)
(* context to, so the next connection does send it.                        *)
THEOREM SyncedAreConnected == Spec => []SyncedOnlyWhileConnected
  <1>1. Init => SyncedOnlyWhileConnected
    BY DEF Init, SyncedOnlyWhileConnected
  <1>2. QED
    BY <1>1, SyncedStep, TypeCorrect, PTL DEF Spec

-----------------------------------------------------------------------------
(* Streams.  What the requests that were made are like, and what they have *)
(* to do with the messages under way and with the entries of the tables.   *)

Requested(n, p, i) == Control("RequestStream", n, p, i) \in sent

RequestsAreNumbered ==
    \A n, p \in Node, i \in StreamId :
        Requested(n, p, i) => n \in Initiator /\ p # n /\ i < next_stream_id[n]

IdsWereUsed ==
    \A n \in Node, i \in StreamId :
        i < next_stream_id[n] => \E p \in Node : Requested(n, p, i)

MessagesHaveRequests ==
    \A m \in wire :
        m.type \in ControlType =>
            /\ Requested(m.from, m.to, m.stream_id) \/ Requested(m.to, m.from, m.stream_id)
            /\ m.type \in {"RequestStream", "AcceptStream"} => m \in sent

StreamInvariant ==
    TypeOK /\ RequestsAreNumbered /\ IdsWereUsed /\ MessagesHaveRequests /\ EntriesHaveRequests

(* What a step does to streams: it forgets some; it requests one; it       *)
(* answers or uses one; it takes in a request or an acceptance.            *)
Quiet(m) == m \in wire \/ m.type = "SyncContext"

ForgetStep ==
    /\ \A q \in Node, j \in StreamId :
          streams'[q][j] = streams[q][j] \/ streams'[q][j] = NoStream
    /\ \A m \in wire' : Quiet(m)
    /\ UNCHANGED <<next_stream_id, sent>>

RequestStep(n, p) ==
    LET i == next_stream_id[n]
    IN  /\ n \in Initiator /\ p # n /\ i \in StreamId
        /\ next_stream_id' = [next_stream_id EXCEPT ![n] = i + 1]
        /\ streams' = [streams EXCEPT ![n][i] =
              [peer |-> p, status |-> "Requested", direction |-> "Outbound"]]
        /\ \A m \in wire' : m \in wire \/ m = Control("RequestStream", n, p, i)
        /\ sent' = sent \cup {Control("RequestStream", n, p, i)}

UseStep(n, i, type) ==
    LET s == streams[n][i]
        m == Control(type, n, s.peer, i)
    IN  /\ s # NoStream /\ type # "RequestStream"
        /\ \A q \in Node, j \in StreamId :
              \/ streams'[q][j] = streams[q][j] \/ streams'[q][j] = NoStream
              \/ q = n /\ j = i /\ streams'[q][j] = [s EXCEPT !.status = "Accepted"]
        /\ \A x \in wire' : x \in wire \/ x = m
        /\ sent' = sent \cup ({m} \cap Agreement)
        /\ UNCHANGED next_stream_id

RequestArrives(m) ==
    /\ m.type = "RequestStream"
    /\ streams' = [streams EXCEPT ![m.to][m.stream_id] =
          [peer |-> m.from, status |-> "Requested", direction |-> "Inbound"]]
    /\ wire' \subseteq wire
    /\ UNCHANGED <<next_stream_id, sent>>

AcceptArrives(m) ==
    /\ m.type = "AcceptStream" /\ HasStream(m)
    /\ streams' = [streams EXCEPT ![m.to][m.stream_id].status = "Active"]
    /\ wire' \subseteq wire
    /\ UNCHANGED <<next_stream_id, sent>>

StreamStep ==
    \/ ForgetStep
    \/ \E n, p \in Node : RequestStep(n, p)
    \/ \E n \in Node, i \in StreamId, type \in ControlType : UseStep(n, i, type)
    \/ \E m \in wire : RequestArrives(m) \/ AcceptArrives(m)

LEMMA UntouchedStreams ==
    ASSUME UNCHANGED streaming, \A m \in wire' : Quiet(m)
    PROVE  ForgetStep
  BY DEF streaming, ForgetStep

SetEntry(n, i, entry) == streams' = [streams EXCEPT ![n][i] = entry]

LEMMA EntryUpdate ==
    ASSUME TypeOK, NEW n \in Node, NEW i \in StreamId, NEW entry, SetEntry(n, i, entry)
    PROVE  \A q \in Node, j \in StreamId :
              streams'[q][j] = IF q = n /\ j = i THEN entry ELSE streams[q][j]
  <1>1. streams[n] \in [StreamId -> StreamState \cup {NoStream}]
    BY DEF TypeOK
  <1>2. streams'[n] = [streams[n] EXCEPT ![i] = entry]
    BY DEF TypeOK, SetEntry
  <1>3. \A q \in Node : q # n => streams'[q] = streams[q]
    BY DEF TypeOK, SetEntry
  <1>4. QED
    BY <1>1, <1>2, <1>3

LEMMA UserCommandIsStreamStep ==
    ASSUME TypeOK, NEW n \in Node, UserCommand(n)
    PROVE  StreamStep
  <1>1. ASSUME NEW p \in Node, RequestStream(n, p)
        PROVE  RequestStep(n, p)
    <2> DEFINE m == Control("RequestStream", n, p, next_stream_id[n])
    <2>1. m \in Agreement
      BY <1>1 DEF RequestStream, Control, Agreement, ControlMessage, ControlType
    <2>2. SendControl(m)
      BY <1>1 DEF RequestStream
    <2>3. sent' = sent \cup {m} /\ \A x \in wire' : x \in wire \/ x = m
      BY <2>1, <2>2 DEF SendControl, Send
    <2>4. QED
      BY <1>1, <2>3 DEF RequestStream, RequestStep
  <1>2. ASSUME NEW i \in StreamId,
               AcceptStream(n, i) \/ RejectStream(n, i) \/ SendStreamData(n, i) \/ CloseStream(n, i)
        PROVE  \E type \in ControlType : UseStep(n, i, type)
    <2> DEFINE s == streams[n][i]
    <2>1. PICK type \in ControlType \ {"RequestStream"} : SendControl(Control(type, n, s.peer, i))
      BY <1>2 DEF AcceptStream, RejectStream, SendStreamData, CloseStream, ControlType
    <2>2. s # NoStream /\ UNCHANGED next_stream_id
      BY <1>2 DEF AcceptStream, RejectStream, SendStreamData, CloseStream
    <2>3. /\ sent' = sent \cup ({Control(type, n, s.peer, i)} \cap Agreement)
          /\ \A x \in wire' : x \in wire \/ x = Control(type, n, s.peer, i)
      BY <2>1 DEF SendControl, Send
    <2>4. \/ streams' = [streams EXCEPT ![n][i] = [s EXCEPT !.status = "Accepted"]]
          \/ streams' = [streams EXCEPT ![n][i] = NoStream]
          \/ streams' = streams
      BY <1>2 DEF AcceptStream, RejectStream, SendStreamData, CloseStream
    <2>5. \A q \in Node, j \in StreamId :
              \/ streams'[q][j] = streams[q][j] \/ streams'[q][j] = NoStream
              \/ q = n /\ j = i /\ streams'[q][j] = [s EXCEPT !.status = "Accepted"]
      BY <2>4, EntryUpdate DEF SetEntry
    <2>6. QED
      BY <2>2, <2>3, <2>5 DEF UseStep
  <1>3. ASSUME \/ \E t \in AppTopic : Subscribe(n, t) \/ Unsubscribe(n, t) \/ Publish(n, t)
               \/ \E patch \in Patch, now \in Time : UpdateSelfContext(n, patch, now)
               \/ \E doc \in Replacement, now \in Time : ReplaceSelfContext(n, doc, now)
        PROVE  ForgetStep
    <2>1. UNCHANGED streaming /\ wire' = wire
      BY <1>3 DEF Subscribe, Unsubscribe, Publish, UpdateSelfContext, ReplaceSelfContext,
                  Commit, network
    <2>2. QED
      BY <2>1, UntouchedStreams DEF Quiet
  <1>4. QED
    BY <1>1, <1>2, <1>3 DEF UserCommand, StreamStep

LEMMA SwarmEventIsStreamStep ==
    ASSUME TypeOK, NEW n \in Node, SwarmEvent(n)
    PROVE  ForgetStep
  <1>1. ASSUME NEW p \in Node, ConnectionEstablished(n, p)
        PROVE  ForgetStep
    BY <1>1, UntouchedStreams DEF ConnectionEstablished, network, Quiet
  <1>2. ASSUME NEW p \in Node, ConnectionClosed(n, p)
        PROVE  ForgetStep
    <2>1. wire' = wire /\ UNCHANGED <<next_stream_id, sent>>
      BY <1>2 DEF ConnectionClosed
    <2>2. \A q \in Node, j \in StreamId :
              streams'[q][j] = streams[q][j] \/ streams'[q][j] = NoStream
      BY <1>2 DEF ConnectionClosed, TypeOK
    <2>3. QED
      BY <2>1, <2>2 DEF ForgetStep, Quiet
  <1>3. ASSUME NEW p \in Node, NEW a \in Addr, MdnsDiscovered(n, p, a)
        PROVE  ForgetStep
    BY <1>3, UntouchedStreams DEF MdnsDiscovered, Quiet
  <1>4. ASSUME NEW p \in Node, NEW a \in Addr \cup {NoAddr}, IdentifyReceived(n, p, a)
        PROVE  ForgetStep
    BY <1>4, UntouchedStreams DEF IdentifyReceived, Send, Quiet
  <1>5. QED
    BY <1>1, <1>2, <1>3, <1>4 DEF SwarmEvent

LEMMA IncomingIsStreamStep ==
    ASSUME TypeOK, Incoming
    PROVE  StreamStep
  <1>1. ASSUME NEW g \in gossip, NEW source \in Node,
               ContextGossipMessage(g, source) \/ AppGossipMessage(g, source)
        PROVE  ForgetStep
    BY <1>1, UntouchedStreams DEF ContextGossipMessage, AppGossipMessage, Arrives, Quiet
  <1>2. ASSUME NEW m \in wire, NEW type, Receive(type, m)
        PROVE  wire' \subseteq wire /\ UNCHANGED <<next_stream_id, sent>>
    BY <1>2 DEF Receive
  <1>3. ASSUME NEW m \in wire, HandleRequestStream(m)
        PROVE  RequestArrives(m)
    BY <1>2, <1>3 DEF HandleRequestStream, RequestArrives, Receive
  <1>4. ASSUME NEW m \in wire, HandleAcceptStream(m), HasStream(m)
        PROVE  AcceptArrives(m)
    BY <1>2, <1>4 DEF HandleAcceptStream, AcceptArrives, Receive
  <1>5. ASSUME NEW m \in wire,
               \/ HandleSyncContext(m) \/ HandleStreamData(m)
               \/ HandleAcceptStream(m) /\ ~HasStream(m)
               \/ HandleRejectStream(m) \/ HandleCloseStream(m)
        PROVE  ForgetStep
    <2>1. wire' \subseteq wire /\ UNCHANGED <<next_stream_id, sent>>
      BY <1>2, <1>5 DEF HandleSyncContext, HandleStreamData, HandleAcceptStream,
                        HandleRejectStream, HandleCloseStream
    <2>2. CASE HandleRejectStream(m) \/ HandleCloseStream(m)
      <3>1. streams' = [streams EXCEPT ![m.to][m.stream_id] = NoStream]
        BY <2>2 DEF HandleRejectStream, HandleCloseStream
      <3>2. m.to \in Node /\ m.stream_id \in StreamId
        BY <2>2, WireMessageType DEF HandleRejectStream, HandleCloseStream, Receive, ControlType
      <3>3. QED
        BY <2>1, <3>1, <3>2, EntryUpdate DEF SetEntry, ForgetStep, Quiet
    <2>3. CASE ~(HandleRejectStream(m) \/ HandleCloseStream(m))
      <3>1. streams' = streams
        BY <1>5, <2>3 DEF HandleSyncContext, HandleStreamData, HandleAcceptStream
      <3>2. QED
        BY <2>1, <3>1 DEF ForgetStep, Quiet
    <2>4. QED
      BY <2>2, <2>3
  <1>6. QED
    BY <1>1, <1>3, <1>4, <1>5 DEF Incoming, StreamStep

LEMMA NextIsStreamStep == TypeOK /\ [Next]_vars => StreamStep
  <1> SUFFICES ASSUME TypeOK, [Next]_vars PROVE StreamStep
    OBVIOUS
  <1>1. ASSUME NEW n \in Node, Heartbeat(n)
        PROVE  ForgetStep
    BY <1>1, UntouchedStreams DEF Heartbeat, Quiet
  <1>2. ASSUME Environment
        PROVE  ForgetStep
    <2>1. wire' \subseteq wire
      BY <1>2, EnvironmentIsContextStep
         DEF Environment, LinkUp, LinkDown, DialFailed, SubscriptionLearned, SendFailed
    <2>2. UNCHANGED streaming
      BY <1>2 DEF Environment, Outside
    <2>3. QED
      BY <2>1, <2>2, UntouchedStreams DEF Quiet
  <1>3. ASSUME UNCHANGED vars
        PROVE  ForgetStep
    BY <1>3, UntouchedStreams DEF vars, network, Quiet
  <1>4. QED
    BY <1>1, <1>2, <1>3, UserCommandIsStreamStep, SwarmEventIsStreamStep, IncomingIsStreamStep
       DEF Next, StreamStep
-----------------------------------------------------------------------------
(* The invariant of streams, step by step.                                 *)

LEMMA ControlFields ==
    ASSUME NEW type, NEW n, NEW p, NEW i
    PROVE  /\ Control(type, n, p, i).type = type /\ Control(type, n, p, i).from = n
           /\ Control(type, n, p, i).to = p /\ Control(type, n, p, i).stream_id = i
  BY DEF Control

LEMMA ForgetStepKeeps ==
    ASSUME StreamInvariant, TypeOK', ForgetStep
    PROVE  StreamInvariant'
  <1>1. sent' = sent /\ next_stream_id' = next_stream_id
    BY DEF ForgetStep
  <1>2. RequestsAreNumbered' /\ IdsWereUsed'
    BY <1>1 DEF StreamInvariant, RequestsAreNumbered, IdsWereUsed, Requested
  <1>3. MessagesHaveRequests'
    BY <1>1 DEF ForgetStep, Quiet, StreamInvariant, MessagesHaveRequests, Requested, ControlType
  <1>4. EntriesHaveRequests'
    BY <1>1 DEF ForgetStep, StreamInvariant, EntriesHaveRequests
  <1>5. QED
    BY <1>2, <1>3, <1>4 DEF StreamInvariant

LEMMA RequestStepKeeps ==
    ASSUME StreamInvariant, TypeOK', NEW n \in Node, NEW p \in Node, RequestStep(n, p)
    PROVE  StreamInvariant'
  <1> DEFINE i == next_stream_id[n]
             r == Control("RequestStream", n, p, i)
             entry == [peer |-> p, status |-> "Requested", direction |-> "Outbound"]
  <1>1. /\ n \in Initiator /\ p # n /\ i \in StreamId
        /\ next_stream_id' = [next_stream_id EXCEPT ![n] = i + 1]
        /\ streams' = [streams EXCEPT ![n][i] = entry]
        /\ \A m \in wire' : m \in wire \/ m = r
        /\ sent' = sent \cup {r}
    BY DEF RequestStep
  <1>2. \A q, s \in Node, j \in StreamId :
            Requested(q, s, j)' <=> Requested(q, s, j) \/ (q = n /\ s = p /\ j = i)
    <2>1. \A q, s \in Node, j \in StreamId :
              Control("RequestStream", q, s, j) = r <=> q = n /\ s = p /\ j = i
      BY DEF Control
    <2>2. QED
      BY <1>1, <2>1 DEF Requested
  <1>3. \A q \in Node : next_stream_id[q] \in Nat
    BY DEF StreamInvariant, TypeOK
  <1>4. \A q \in Node : next_stream_id'[q] = IF q = n THEN i + 1 ELSE next_stream_id[q]
    BY <1>1 DEF StreamInvariant, TypeOK
  <1>5. StreamId \subseteq Nat
    BY StreamIdAssumption
  <1>6. RequestsAreNumbered'
    <2>1. ASSUME NEW q \in Node, NEW s \in Node, NEW j \in StreamId, Requested(q, s, j)'
          PROVE  q \in Initiator /\ s # q /\ j < next_stream_id'[q]
      <3>1. CASE Requested(q, s, j)
        BY <1>3, <1>4, <1>5, <3>1 DEF StreamInvariant, RequestsAreNumbered
      <3>2. CASE q = n /\ s = p /\ j = i
        BY <1>1, <1>3, <1>4, <3>2
      <3>3. QED
        BY <1>2, <2>1, <3>1, <3>2
    <2>2. QED
      BY <2>1 DEF RequestsAreNumbered
  <1>7. IdsWereUsed'
    <2>1. ASSUME NEW q \in Node, NEW j \in StreamId, j < next_stream_id'[q]
          PROVE  \E t \in Node : Requested(q, t, j)'
      <3>1. CASE j < next_stream_id[q]
        BY <1>2, <3>1 DEF StreamInvariant, IdsWereUsed
      <3>2. CASE ~(j < next_stream_id[q])
        <4>1. q = n /\ j = i
          BY <1>3, <1>4, <1>5, <2>1, <3>2
        <4>2. QED
          BY <1>2, <4>1
      <3>3. QED
        BY <3>1, <3>2
    <2>2. QED
      BY <2>1 DEF IdsWereUsed
  <1>8. MessagesHaveRequests'
    <2>1. ASSUME NEW m \in wire', m.type \in ControlType
          PROVE  /\ Requested(m.from, m.to, m.stream_id)' \/ Requested(m.to, m.from, m.stream_id)'
                 /\ m.type \in {"RequestStream", "AcceptStream"} => m \in sent'
      <3>1. CASE m \in wire
        BY <1>1, <2>1, <3>1 DEF StreamInvariant, MessagesHaveRequests, Requested
      <3>2. CASE m = r
        BY <1>1, <3>2, ControlFields DEF Requested
      <3>3. QED
        BY <1>1, <3>1, <3>2
    <2>2. QED
      BY <2>1 DEF MessagesHaveRequests
  <1>9. EntriesHaveRequests'
    <2>1. \A q \in Node, j \in StreamId :
              streams'[q][j] = IF q = n /\ j = i THEN entry ELSE streams[q][j]
      <3>1. TypeOK /\ SetEntry(n, i, entry)
        BY <1>1 DEF StreamInvariant, SetEntry
      <3> HIDE DEF entry, i
      <3>2. QED
        BY <1>1, <3>1, EntryUpdate
    <2>2. ASSUME NEW q \in Node, NEW j \in StreamId, streams'[q][j] # NoStream
          PROVE  /\ streams'[q][j].direction = "Outbound"
                      => Control("RequestStream", q, streams'[q][j].peer, j) \in sent'
                 /\ streams'[q][j].direction = "Inbound"
                      => Control("RequestStream", streams'[q][j].peer, q, j) \in sent'
      <3>1. CASE q = n /\ j = i
        <4>1. streams'[q][j] = entry
          BY <2>1, <3>1
        <4>2. QED
          BY <1>1, <3>1, <4>1
      <3>2. CASE ~(q = n /\ j = i)
        <4>1. streams'[q][j] = streams[q][j]
          BY <2>1, <3>2
        <4>2. QED
          BY <1>1, <2>2, <4>1 DEF StreamInvariant, EntriesHaveRequests
      <3>3. QED
        BY <3>1, <3>2
    <2>3. QED
      BY <2>2 DEF EntriesHaveRequests
  <1>10. QED
    BY <1>6, <1>7, <1>8, <1>9 DEF StreamInvariant

LEMMA UseStepKeeps ==
    ASSUME StreamInvariant, TypeOK', NEW n \in Node, NEW i \in StreamId,
           NEW type \in ControlType, UseStep(n, i, type)
    PROVE  StreamInvariant'
  <1> DEFINE s == streams[n][i]
             m == Control(type, n, s.peer, i)
  <1>1. /\ s # NoStream /\ type # "RequestStream"
        /\ \A q \in Node, j \in StreamId :
              \/ streams'[q][j] = streams[q][j] \/ streams'[q][j] = NoStream
              \/ q = n /\ j = i /\ streams'[q][j] = [s EXCEPT !.status = "Accepted"]
        /\ \A x \in wire' : x \in wire \/ x = m
        /\ sent' = sent \cup ({m} \cap Agreement)
        /\ UNCHANGED next_stream_id
    BY DEF UseStep
  <1>2. s \in StreamState /\ s.peer \in Node
    BY <1>1 DEF StreamInvariant, TypeOK, StreamState
  <1>3. \A q, p \in Node, j \in StreamId : Requested(q, p, j)' <=> Requested(q, p, j)
    <2>1. \A q, p \in Node, j \in StreamId : Control("RequestStream", q, p, j) # m
      BY <1>1, ControlFields
    <2>2. QED
      BY <1>1, <2>1 DEF Requested
  <1>4. RequestsAreNumbered' /\ IdsWereUsed'
    BY <1>1, <1>3 DEF StreamInvariant, RequestsAreNumbered, IdsWereUsed
  <1> PICK peer \in Node : peer = s.peer
    BY <1>2
  <1>5. Requested(n, peer, i) \/ Requested(peer, n, i)
    BY <1>1, <1>2 DEF StreamInvariant, EntriesHaveRequests, StreamState, Direction, Requested
  <1>6. MessagesHaveRequests'
    <2>1. ASSUME NEW x \in wire', x.type \in ControlType
          PROVE  /\ Requested(x.from, x.to, x.stream_id)' \/ Requested(x.to, x.from, x.stream_id)'
                 /\ x.type \in {"RequestStream", "AcceptStream"} => x \in sent'
      <3>1. CASE x \in wire
        BY <1>1, <2>1, <3>1 DEF StreamInvariant, MessagesHaveRequests, Requested
      <3>2. CASE x = m
        <4>1. Requested(n, peer, i)' \/ Requested(peer, n, i)'
          BY <1>3, <1>5
        <4>2. m \in ControlMessage
          BY <1>2 DEF Control, ControlMessage
        <4>3. x.type \in {"RequestStream", "AcceptStream"} => x \in Agreement
          BY <3>2, <4>2 DEF Agreement
        <4>4. x.from = n /\ x.to = peer /\ x.stream_id = i
          BY <3>2, ControlFields
        <4>5. Requested(x.from, x.to, x.stream_id)' \/ Requested(x.to, x.from, x.stream_id)'
          BY <4>1, <4>4
        <4>6. QED
          BY <1>1, <3>2, <4>3, <4>5
      <3>3. QED
        BY <1>1, <3>1, <3>2
    <2>2. QED
      BY <2>1 DEF MessagesHaveRequests
  <1>7. EntriesHaveRequests'
    <2>1. [s EXCEPT !.status = "Accepted"].peer = s.peer
      /\ [s EXCEPT !.status = "Accepted"].direction = s.direction
      BY <1>2 DEF StreamState
    <2>2. ASSUME NEW q \in Node, NEW j \in StreamId, streams'[q][j] # NoStream
          PROVE  /\ streams'[q][j].peer = streams[q][j].peer
                 /\ streams'[q][j].direction = streams[q][j].direction
                 /\ streams[q][j] # NoStream
      BY <1>1, <2>1, <2>2
    <2>3. sent \subseteq sent'
      BY <1>1
    <2>4. QED
      BY <2>2, <2>3 DEF StreamInvariant, EntriesHaveRequests
  <1>8. QED
    BY <1>4, <1>6, <1>7 DEF StreamInvariant

LEMMA ArrivalKeeps ==
    ASSUME StreamInvariant, TypeOK', NEW m \in wire, RequestArrives(m) \/ AcceptArrives(m)
    PROVE  StreamInvariant'
  <1>1. wire' \subseteq wire /\ UNCHANGED <<next_stream_id, sent>>
    BY DEF RequestArrives, AcceptArrives
  <1>2. RequestsAreNumbered' /\ IdsWereUsed' /\ MessagesHaveRequests'
    BY <1>1 DEF StreamInvariant, RequestsAreNumbered, IdsWereUsed, MessagesHaveRequests,
                Requested
  <1>3. m.to \in Node /\ m.from \in Node /\ m.stream_id \in StreamId /\ m.type \in ControlType
    BY WireMessageType DEF StreamInvariant, RequestArrives, AcceptArrives, ControlType
  <1>4. CASE RequestArrives(m)
    <2> DEFINE entry == [peer |-> m.from, status |-> "Requested", direction |-> "Inbound"]
    <2>1. \A q \in Node, j \in StreamId :
              streams'[q][j] = IF q = m.to /\ j = m.stream_id THEN entry ELSE streams[q][j]
      <3>1. TypeOK /\ SetEntry(m.to, m.stream_id, entry)
        BY <1>4 DEF RequestArrives, StreamInvariant, SetEntry
      <3> HIDE DEF entry
      <3>2. QED
        BY <1>3, <3>1, EntryUpdate
    <2>2. m \in sent /\ m.type = "RequestStream"
      BY <1>3, <1>4 DEF RequestArrives, StreamInvariant, MessagesHaveRequests
    <2>3. Control("RequestStream", m.from, m.to, m.stream_id) = m
      <3>1. m \in ControlMessage
        BY <2>2 DEF StreamInvariant, TypeOK, Agreement
      <3>2. QED
        BY <2>2, <3>1 DEF ControlMessage, Control
    <2>4. ASSUME NEW q \in Node, NEW j \in StreamId, streams'[q][j] # NoStream
          PROVE  /\ streams'[q][j].direction = "Outbound"
                      => Control("RequestStream", q, streams'[q][j].peer, j) \in sent
                 /\ streams'[q][j].direction = "Inbound"
                      => Control("RequestStream", streams'[q][j].peer, q, j) \in sent
      <3>1. CASE q = m.to /\ j = m.stream_id
        <4>1. streams'[q][j] = entry
          BY <2>1, <3>1
        <4>2. QED
          BY <2>2, <2>3, <3>1, <4>1
      <3>2. CASE ~(q = m.to /\ j = m.stream_id)
        <4>1. streams'[q][j] = streams[q][j]
          BY <2>1, <3>2
        <4>2. QED
          BY <2>4, <4>1 DEF StreamInvariant, EntriesHaveRequests
      <3>3. QED
        BY <3>1, <3>2
    <2>5. EntriesHaveRequests'
      BY <1>1, <2>4 DEF EntriesHaveRequests
    <2>6. QED
      BY <1>2, <2>5 DEF StreamInvariant
  <1>5. CASE AcceptArrives(m)
    <2> DEFINE s == streams[m.to][m.stream_id]
    <2>1. s \in StreamState
      BY <1>3, <1>5 DEF AcceptArrives, HasStream, StreamInvariant, TypeOK
    <2>2. \A q \in Node, j \in StreamId :
              streams'[q][j] = IF q = m.to /\ j = m.stream_id
                               THEN [s EXCEPT !.status = "Active"] ELSE streams[q][j]
      <3> DEFINE entry == [s EXCEPT !.status = "Active"]
      <3>1. TypeOK /\ SetEntry(m.to, m.stream_id, entry)
        BY <1>5 DEF AcceptArrives, StreamInvariant, SetEntry
      <3>2. \A q \in Node, j \in StreamId :
                streams'[q][j] = IF q = m.to /\ j = m.stream_id THEN entry ELSE streams[q][j]
        <4> HIDE DEF entry
        <4>1. QED
          BY <1>3, <3>1, EntryUpdate
      <3>3. QED
        BY <3>2
    <2>3. [s EXCEPT !.status = "Active"].peer = s.peer
      /\ [s EXCEPT !.status = "Active"].direction = s.direction /\ s # NoStream
      BY <1>5, <2>1 DEF StreamState, AcceptArrives, HasStream
    <2>4. \A q \in Node, j \in StreamId :
              streams'[q][j] # NoStream =>
                  /\ streams'[q][j].peer = streams[q][j].peer
                  /\ streams'[q][j].direction = streams[q][j].direction
                  /\ streams[q][j] # NoStream
      BY <2>2, <2>3
    <2>5. EntriesHaveRequests'
      BY <1>1, <2>4 DEF StreamInvariant, EntriesHaveRequests
    <2>6. QED
      BY <1>2, <2>5 DEF StreamInvariant
  <1>6. QED
    BY <1>4, <1>5

LEMMA StreamInvariantStep == StreamInvariant /\ TypeOK' /\ [Next]_vars => StreamInvariant'
  BY NextIsStreamStep, ForgetStepKeeps, RequestStepKeeps, UseStepKeeps, ArrivalKeeps
     DEF StreamStep, StreamInvariant

LEMMA StreamInvariantHolds == Spec => []StreamInvariant
  <1>1. Init => StreamInvariant
    <2>1. ASSUME Init
          PROVE  /\ RequestsAreNumbered /\ IdsWereUsed /\ MessagesHaveRequests
                 /\ EntriesHaveRequests
      BY <2>1, StreamIdAssumption
         DEF Init, NetworkInit, RequestsAreNumbered, IdsWereUsed, MessagesHaveRequests,
             EntriesHaveRequests, Requested
    <2>2. QED
      BY <2>1, InitTypeOK DEF StreamInvariant
  <1>2. QED
    BY <1>1, StreamInvariantStep, TypeCorrect, PTL DEF Spec

(* Every entry of every stream table stands for a request that was made,   *)
(* in the direction the entry says, however many nodes request streams and *)
(* whatever is lost or overtaken.                                          *)
THEOREM EntriesWereRequested == Spec => []EntriesHaveRequests
  <1>1. StreamInvariant => EntriesHaveRequests
    BY DEF StreamInvariant
  <1>2. QED
    BY <1>1, StreamInvariantHolds, PTL
-----------------------------------------------------------------------------
(* Nodes where an id names one stream.  Elsewhere nothing of what follows  *)
(* is true: an id that names two there has one entry for both.             *)

LEMMA OneRequest ==
    ASSUME StreamInvariant, NEW n \in Node, NEW i \in StreamId, NamesOneStream(n, i),
           NEW p \in Node, Requested(n, p, i) \/ Requested(p, n, i),
           NEW q \in Node, Requested(n, q, i) \/ Requested(q, n, i)
    PROVE  p = q /\ ~(Requested(n, p, i) /\ Requested(q, n, i))
  <1> DEFINE r(x, y) == Control("RequestStream", x, y, i)
  <1>1. \A x, y \in Node : Requested(x, y, i) /\ n \in {x, y} => r(x, y) \in RequestsNaming(n, i)
    BY ControlFields DEF Requested, RequestsNaming
  <1>2. \A x, y \in Node : Requested(x, y, i) => x # y
    BY DEF StreamInvariant, RequestsAreNumbered
  <1>3. \A x, y, z, w \in Node :
            r(x, y) \in RequestsNaming(n, i) /\ r(z, w) \in RequestsNaming(n, i)
              => x = z /\ y = w
    BY ControlFields DEF NamesOneStream
  <1> HIDE DEF r
  <1>4. \A x, y, z, w \in Node :
            Requested(x, y, i) /\ n \in {x, y} /\ Requested(z, w, i) /\ n \in {z, w}
              => x = z /\ y = w
    BY <1>1, <1>3
  <1>5. QED
    BY <1>2, <1>4

(* Whatever arrives under the id of a known stream comes from its peer.    *)
LEMMA TheOtherEnd ==
    ASSUME StreamInvariant, NEW m \in wire, m.type \in ControlType, HasStream(m),
           NamesOneStream(m.to, m.stream_id)
    PROVE  streams[m.to][m.stream_id].peer = m.from
  <1> DEFINE n == m.to
             i == m.stream_id
             s == streams[n][i]
  <1>1. m.from \in Node /\ n \in Node /\ i \in StreamId
    BY WireMessageType DEF StreamInvariant
  <1>2. s \in StreamState
    BY <1>1 DEF StreamInvariant, TypeOK, HasStream
  <1>3. s.peer \in Node /\ (Requested(n, s.peer, i) \/ Requested(s.peer, n, i))
    BY <1>1, <1>2 DEF StreamInvariant, EntriesHaveRequests, StreamState, Direction, Requested,
                      HasStream
  <1>4. Requested(n, m.from, i) \/ Requested(m.from, n, i)
    BY DEF StreamInvariant, MessagesHaveRequests
  <1>5. QED
    BY <1>1, <1>3, <1>4, OneRequest

(* Nobody requests a stream of a node under an id that node has used.      *)
LEMMA RequestsGoOut ==
    ASSUME StreamInvariant, NEW m \in wire, m.type = "RequestStream",
           NamesOneStream(m.to, m.stream_id)
    PROVE  ~(m.stream_id < next_stream_id[m.to])
  <1> SUFFICES ASSUME m.stream_id < next_stream_id[m.to] PROVE FALSE
    OBVIOUS
  <1>1. m \in sent /\ m \in ControlMessage
    BY DEF StreamInvariant, TypeOK, Agreement, MessagesHaveRequests, ControlType
  <1>2. m = Control("RequestStream", m.from, m.to, m.stream_id)
    BY <1>1 DEF Control, ControlMessage
  <1>3. m.from \in Node /\ m.to \in Node /\ m.stream_id \in StreamId
    BY <1>1 DEF ControlMessage
  <1>4. Requested(m.from, m.to, m.stream_id)
    BY <1>1, <1>2 DEF Requested
  <1>5. PICK p \in Node : Requested(m.to, p, m.stream_id)
    BY <1>3 DEF StreamInvariant, IdsWereUsed
  <1>6. p = m.from
    BY <1>3, <1>4, <1>5, OneRequest
  <1>7. QED
    BY <1>3, <1>4, <1>5, <1>6, OneRequest

LEMMA RequestEntry ==
    ASSUME TypeOK, NEW n \in Node, NEW p \in Node, RequestStep(n, p)
    PROVE  \A q \in Node, j \in StreamId :
              streams'[q][j] = IF q = n /\ j = next_stream_id[n]
                               THEN [peer |-> p, status |-> "Requested", direction |-> "Outbound"]
                               ELSE streams[q][j]
  <1> DEFINE entry == [peer |-> p, status |-> "Requested", direction |-> "Outbound"]
             i == next_stream_id[n]
  <1>1. i \in StreamId /\ SetEntry(n, i, entry)
    BY DEF RequestStep, SetEntry
  <1>2. \A q \in Node, j \in StreamId :
            streams'[q][j] = IF q = n /\ j = i THEN entry ELSE streams[q][j]
    <2> HIDE DEF entry, i
    <2>1. QED
      BY <1>1, EntryUpdate
  <1>3. QED
    BY <1>2

LEMMA ArrivalEntry ==
    ASSUME TypeOK, NEW m \in wire
    PROVE  /\ RequestArrives(m) =>
                \A q \in Node, j \in StreamId :
                    streams'[q][j] =
                        IF q = m.to /\ j = m.stream_id
                        THEN [peer |-> m.from, status |-> "Requested", direction |-> "Inbound"]
                        ELSE streams[q][j]
           /\ AcceptArrives(m) =>
                \A q \in Node, j \in StreamId :
                    streams'[q][j] =
                        IF q = m.to /\ j = m.stream_id
                        THEN [streams[q][j] EXCEPT !.status = "Active"]
                        ELSE streams[q][j]
  <1>1. RequestArrives(m) \/ AcceptArrives(m) => m.to \in Node /\ m.stream_id \in StreamId
    BY WireMessageType DEF RequestArrives, AcceptArrives, ControlType
  <1>2. ASSUME NEW entry, SetEntry(m.to, m.stream_id, entry), m.to \in Node, m.stream_id \in StreamId
        PROVE  \A q \in Node, j \in StreamId :
                  streams'[q][j] = IF q = m.to /\ j = m.stream_id THEN entry ELSE streams[q][j]
    BY <1>2, EntryUpdate
  <1>3. ASSUME RequestArrives(m)
        PROVE  \A q \in Node, j \in StreamId :
                    streams'[q][j] =
                        IF q = m.to /\ j = m.stream_id
                        THEN [peer |-> m.from, status |-> "Requested", direction |-> "Inbound"]
                        ELSE streams[q][j]
    <2> DEFINE entry == [peer |-> m.from, status |-> "Requested", direction |-> "Inbound"]
    <2>1. SetEntry(m.to, m.stream_id, entry)
      BY <1>3 DEF RequestArrives, SetEntry
    <2> HIDE DEF entry
    <2>2. \A q \in Node, j \in StreamId :
              streams'[q][j] = IF q = m.to /\ j = m.stream_id THEN entry ELSE streams[q][j]
      BY <1>1, <1>2, <1>3, <2>1
    <2>3. QED
      BY <2>2 DEF entry
  <1>4. ASSUME AcceptArrives(m)
        PROVE  \A q \in Node, j \in StreamId :
                    streams'[q][j] =
                        IF q = m.to /\ j = m.stream_id
                        THEN [streams[q][j] EXCEPT !.status = "Active"]
                        ELSE streams[q][j]
    <2> DEFINE entry == [streams[m.to][m.stream_id] EXCEPT !.status = "Active"]
    <2>1. SetEntry(m.to, m.stream_id, entry)
      BY <1>4 DEF AcceptArrives, SetEntry
    <2> HIDE DEF entry
    <2>2. \A q \in Node, j \in StreamId :
              streams'[q][j] = IF q = m.to /\ j = m.stream_id THEN entry ELSE streams[q][j]
      BY <1>1, <1>2, <1>4, <2>1
    <2>3. QED
      BY <2>2 DEF entry
  <1>5. QED
    BY <1>3, <1>4

LEMMA StatusUpdate ==
    ASSUME TypeOK, NEW n \in Node, NEW i \in StreamId, streams[n][i] # NoStream
    PROVE  \A status \in Status :
              LET s == [streams[n][i] EXCEPT !.status = status]
              IN  /\ s.peer = streams[n][i].peer /\ s.direction = streams[n][i].direction
                  /\ s.status = status /\ s # NoStream
  <1>1. streams[n][i] \in StreamState
    BY DEF TypeOK
  <1>2. \A status \in Status : [streams[n][i] EXCEPT !.status = status] \in StreamState
    BY <1>1 DEF StreamState
  <1>3. QED
    BY <1>1, <1>2, NoStreamAssumption DEF StreamState

LEMMA ActiveStep ==
    ASSUME StreamInvariant, ActiveMeansAccepted, [Next]_vars
    PROVE  ActiveMeansAccepted'
  <1>1. SUFFICES ASSUME NEW q \in Node, NEW j \in StreamId, streams'[q][j] # NoStream,
                        streams'[q][j].status = "Active", streams'[q][j].direction = "Outbound",
                        NamesOneStream(q, j)'
                 PROVE  Control("AcceptStream", streams'[q][j].peer, q, j) \in sent'
    BY DEF ActiveMeansAccepted
  <1> DEFINE s == streams[q][j]
  <1>2. TypeOK
    BY DEF StreamInvariant
  <1>3. sent \subseteq sent' => NamesOneStream(q, j)
    BY <1>1 DEF NamesOneStream, RequestsNaming
  <1>4. streams'[q][j] = s /\ sent \subseteq sent'
          => Control("AcceptStream", streams'[q][j].peer, q, j) \in sent'
    BY <1>1, <1>3 DEF ActiveMeansAccepted
  <1>5. CASE ForgetStep
    BY <1>1, <1>4, <1>5 DEF ForgetStep
  <1>6. ASSUME NEW n \in Node, NEW p \in Node, RequestStep(n, p)
        PROVE  streams'[q][j] = s /\ sent \subseteq sent'
    <2>1. sent \subseteq sent'
      BY <1>6 DEF RequestStep
    <2>2. streams'[q][j] = IF q = n /\ j = next_stream_id[n]
                           THEN [peer |-> p, status |-> "Requested", direction |-> "Outbound"]
                           ELSE s
      BY <1>2, <1>6, RequestEntry
    <2>3. QED
      BY <1>1, <2>1, <2>2
  <1>7. ASSUME NEW n \in Node, NEW i \in StreamId, NEW type \in ControlType, UseStep(n, i, type)
        PROVE  streams'[q][j] = s /\ sent \subseteq sent'
    <2>1. /\ sent \subseteq sent'
          /\ \/ streams'[q][j] = s
             \/ s # NoStream /\ streams'[q][j] = [s EXCEPT !.status = "Accepted"]
      BY <1>1, <1>7 DEF UseStep
    <2>2. s # NoStream => [s EXCEPT !.status = "Accepted"].status = "Accepted"
      BY <1>2, StatusUpdate DEF Status
    <2>3. QED
      BY <1>1, <2>1, <2>2
  <1>8. ASSUME NEW m \in wire, RequestArrives(m)
        PROVE  streams'[q][j] = s /\ sent \subseteq sent'
    BY <1>1, <1>2, <1>8, ArrivalEntry DEF RequestArrives
  <1>9. ASSUME NEW m \in wire, AcceptArrives(m)
        PROVE  Control("AcceptStream", streams'[q][j].peer, q, j) \in sent'
    <2>1. HasStream(m) /\ m.type = "AcceptStream" /\ sent' = sent
      BY <1>9 DEF AcceptArrives
    <2>2. CASE q = m.to /\ j = m.stream_id
      <3>1. streams'[q][j] = [s EXCEPT !.status = "Active"] /\ s # NoStream
        BY <1>2, <1>9, <2>1, <2>2, ArrivalEntry DEF HasStream
      <3>2. streams'[q][j].peer = s.peer
        BY <1>2, <3>1, StatusUpdate DEF Status
      <3>3. s.peer = m.from
        BY <1>3, <2>1, <2>2, TheOtherEnd DEF ControlType
      <3>4. m \in sent /\ m \in ControlMessage
        BY <2>1 DEF StreamInvariant, MessagesHaveRequests, TypeOK, Agreement, ControlType
      <3>5. m = Control("AcceptStream", m.from, q, j)
        BY <2>1, <2>2, <3>4 DEF Control, ControlMessage
      <3>6. QED
        BY <2>1, <3>2, <3>3, <3>4, <3>5
    <2>3. CASE ~(q = m.to /\ j = m.stream_id)
      BY <1>2, <1>4, <1>9, <2>1, <2>3, ArrivalEntry
    <2>4. QED
      BY <2>2, <2>3
  <1>10. QED
    BY <1>2, <1>4, <1>5, <1>6, <1>7, <1>8, <1>9, NextIsStreamStep DEF StreamStep

(* Where its id names one stream at a node, an outbound stream is active   *)
(* only if the peer it was requested of accepted it, however many nodes    *)
(* request streams: no lost, late or foreign message makes one active.     *)
THEOREM ActiveWereAccepted == Spec => []ActiveMeansAccepted
  <1>1. Init => ActiveMeansAccepted
    BY DEF Init, ActiveMeansAccepted
  <1>2. StreamInvariant /\ ActiveMeansAccepted /\ [Next]_vars => ActiveMeansAccepted'
    BY ActiveStep
  <1>3. QED
    BY <1>1, <1>2, StreamInvariantHolds, PTL DEF Spec

LEMMA RevivalStep ==
    ASSUME StreamInvariant, [Next]_vars, NEW n \in Initiator, NEW i \in StreamId,
           i < next_stream_id[n], streams[n][i] = NoStream, NamesOneStream(n, i)
    PROVE  streams'[n][i] = NoStream
  <1>1. n \in Node /\ next_stream_id[n] \in Nat /\ i \in Nat /\ TypeOK
    BY UserAssumption, StreamIdAssumption DEF StreamInvariant, TypeOK
  <1>2. CASE ForgetStep
    BY <1>1, <1>2 DEF ForgetStep
  <1>3. ASSUME NEW q \in Node, NEW p \in Node, RequestStep(q, p)
        PROVE  streams'[n][i] = NoStream
    <2>1. streams'[n][i] = IF n = q /\ i = next_stream_id[q]
                           THEN [peer |-> p, status |-> "Requested", direction |-> "Outbound"]
                           ELSE streams[n][i]
      BY <1>1, <1>3, RequestEntry
    <2>2. QED
      BY <1>1, <2>1
  <1>4. ASSUME NEW q \in Node, NEW j \in StreamId, NEW type \in ControlType, UseStep(q, j, type)
        PROVE  streams'[n][i] = NoStream
    BY <1>1, <1>4 DEF UseStep
  <1>5. ASSUME NEW m \in wire, RequestArrives(m)
        PROVE  streams'[n][i] = NoStream
    <2>1. m.type = "RequestStream"
      BY <1>5 DEF RequestArrives
    <2>2. ~(m.to = n /\ m.stream_id = i)
      BY <2>1, RequestsGoOut
    <2>3. streams'[n][i] =
              IF n = m.to /\ i = m.stream_id
              THEN [peer |-> m.from, status |-> "Requested", direction |-> "Inbound"]
              ELSE streams[n][i]
      BY <1>1, <1>5, ArrivalEntry
    <2>4. QED
      BY <2>2, <2>3
  <1>6. ASSUME NEW m \in wire, AcceptArrives(m)
        PROVE  streams'[n][i] = NoStream
    <2>1. ~(n = m.to /\ i = m.stream_id)
      BY <1>6 DEF AcceptArrives, HasStream
    <2>2. \A q \in Node, j \in StreamId :
              streams'[q][j] = IF q = m.to /\ j = m.stream_id
                               THEN [streams[q][j] EXCEPT !.status = "Active"] ELSE streams[q][j]
      BY <1>1, <1>6, ArrivalEntry
    <2>3. QED
      BY <1>1, <2>1, <2>2
  <1>7. QED
    BY <1>1, <1>2, <1>3, <1>4, <1>5, <1>6, NextIsStreamStep DEF StreamStep

(* What a node requested and is rid of stays gone, however many nodes      *)
(* request streams: no answer or close that arrives late brings the id     *)
(* back; only another node's request under the same id can.                *)
THEOREM NothingRevives == Spec => NoRevival
  <1>1. StreamInvariant /\ [Next]_vars =>
            \A n \in Initiator, i \in StreamId :
                i < next_stream_id[n] /\ streams[n][i] = NoStream /\ NamesOneStream(n, i)
                  => streams'[n][i] = NoStream
    BY RevivalStep
  <1>2. QED
    BY <1>1, StreamInvariantHolds, PTL DEF Spec, NoRevival

-----------------------------------------------------------------------------
(* Reports.  Only the handlers of an acceptance, a rejection and data      *)
(* report on a known stream, and they report the message they handle.      *)

ReportType == {"StreamAccepted", "StreamRejected", "StreamData"}

NoReport == \A n \in Node : \A k \in DOMAIN events'[n] : events'[n][k].type \notin ReportType

LEMMA SilentIsNoReport == Silent => NoReport
  BY DEF Silent, NoReport

LEMMA EmitOfOthers ==
    ASSUME NEW n \in Node, NEW list, Emit(n, list),
           \A k \in DOMAIN list : list[k].type \notin ReportType
    PROVE  NoReport
  BY DEF Emit, NoReport

LEMMA OneEvent ==
    ASSUME NEW e, e.type \notin ReportType
    PROVE  \A k \in DOMAIN <<e>> : <<e>>[k].type \notin ReportType
  OBVIOUS

LEMMA CloseReports ==
    ASSUME NEW n \in Node, NEW p \in Node, ConnectionClosed(n, p)
    PROVE  NoReport
  <1> DEFINE gone == {i \in StreamId : streams[n][i] # NoStream /\ streams[n][i].peer = p}
             last == [type |-> "PeerDisconnected", peer |-> p]
  <1>1. PICK order \in SetToSeqs(gone) :
          Emit(n, [k \in DOMAIN order |-> StreamEventOf("StreamClosed", p, order[k])] \o <<last>>)
    BY DEF ConnectionClosed
  <1>2. IsFiniteSet(gone)
    BY StreamIdAssumption, FS_Subset
  <1>3. Cardinality(gone) \in Nat /\ order \in [1..Cardinality(gone) -> gone]
    BY <1>2, FS_CardinalityType DEF SetToSeqs
  <1> DEFINE Other == [type : {"StreamClosed"}, peer : {p}, stream_id : StreamId]
                        \cup {last}
             closed == [k \in 1..Cardinality(gone) |-> StreamEventOf("StreamClosed", p, order[k])]
  <1>4. \A e \in Other : e.type \notin ReportType
    BY DEF ReportType
  <1>5. closed \in Seq(Other)
    <2>1. \A k \in 1..Cardinality(gone) : StreamEventOf("StreamClosed", p, order[k]) \in Other
      BY <1>3 DEF StreamEventOf
    <2>2. closed \in [1..Cardinality(gone) -> Other]
      BY <2>1
    <2>3. QED
      BY <1>3, <2>2, SeqDef
  <1>6. closed \o <<last>> \in Seq(Other)
    BY <1>5, ConcatProperties
  <1>7. Emit(n, closed \o <<last>>)
    BY <1>1, <1>3
  <1>8. \A k \in DOMAIN (closed \o <<last>>) : (closed \o <<last>>)[k] \in Other
    <2> HIDE DEF closed, Other
    <2>1. QED
      BY <1>6
  <1>9. QED
    BY <1>4, <1>7, <1>8, EmitOfOthers

LEMMA UserCommandIsNoReport ==
    ASSUME NEW n \in Node, UserCommand(n)
    PROVE  NoReport
  <1>1. Silent
    BY DEF UserCommand, Subscribe, Unsubscribe, Publish, RequestStream, AcceptStream,
           RejectStream, SendStreamData, CloseStream, SendControl, UpdateSelfContext,
           ReplaceSelfContext, Commit
  <1>2. QED
    BY <1>1, SilentIsNoReport

LEMMA NothingEmitted == \A k \in DOMAIN <<>> : <<>>[k].type \notin ReportType
  OBVIOUS

LEMMA SwarmEventIsNoReport ==
    ASSUME NEW n \in Node, SwarmEvent(n)
    PROVE  NoReport
  <1>1. ASSUME NEW p \in Node, EmitPeerDiscovered(n, p)
        PROVE  NoReport
    <2> DEFINE e == [type |-> "PeerDiscovered", peer |-> p]
    <2>1. e.type \notin ReportType
      BY DEF ReportType
    <2>2. Emit(n, <<>>) \/ Emit(n, <<e>>)
      BY <1>1 DEF EmitPeerDiscovered
    <2> HIDE DEF e
    <2>3. QED
      BY <2>1, <2>2, OneEvent, NothingEmitted, EmitOfOthers
  <1>2. ASSUME NEW p \in Node, ConnectionEstablished(n, p)
        PROVE  NoReport
    <2> DEFINE e == [type |-> "PeerConnected", peer |-> p]
    <2>1. e.type \notin ReportType /\ Emit(n, <<e>>)
      BY <1>2 DEF ReportType, ConnectionEstablished
    <2> HIDE DEF e
    <2>2. QED
      BY <2>1, OneEvent, EmitOfOthers
  <1>3. QED
    BY <1>1, <1>2, CloseReports DEF SwarmEvent, MdnsDiscovered, IdentifyReceived

(* What a handler of the wire or of gossip reports.                        *)
ReportOf(m) ==
    /\ HasStream(m) /\ m.type \in ControlType
    /\ \A n \in Node : \A k \in DOMAIN events'[n] :
          /\ n = m.to
          /\ events'[n][k].peer = m.from /\ events'[n][k].stream_id = m.stream_id

LEMMA ReportIsReportOf ==
    ASSUME NEW m \in wire, m.to \in Node, m.type \in ControlType, NEW type, Report(type, m)
    PROVE  NoReport \/ ReportOf(m)
  <1>1. CASE HasStream(m)
    <2> DEFINE e == StreamEventOf(type, m.from, m.stream_id)
    <2>1. events' = [n \in Node |-> IF n = m.to THEN <<e>> ELSE <<>>]
      BY <1>1 DEF Report, Emit
    <2>2. e.peer = m.from /\ e.stream_id = m.stream_id
      BY DEF StreamEventOf
    <2> HIDE DEF e
    <2>3. \A n \in Node : \A k \in DOMAIN events'[n] : n = m.to /\ events'[n][k] = e
      BY <2>1
    <2>4. QED
      BY <1>1, <2>2, <2>3 DEF ReportOf
  <1>2. CASE ~HasStream(m)
    BY <1>2, NothingEmitted, EmitOfOthers DEF Report
  <1>3. QED
    BY <1>1, <1>2

LEMMA IncomingReports ==
    ASSUME TypeOK, Incoming
    PROVE  NoReport \/ \E m \in wire : ReportOf(m)
  <1>1. ASSUME NEW n \in Node, NEW c, MergeInto(n, c)
        PROVE  NoReport
    <2> DEFINE e == [type |-> "ContextUpdated", peer |-> c.device_id,
                     data |-> Merge(local_context[n], c).data]
    <2>1. e.type \notin ReportType
      BY DEF ReportType
    <2>2. Emit(n, <<>>) \/ Emit(n, <<e>>)
      BY <1>1 DEF MergeInto
    <2> HIDE DEF e
    <2>3. QED
      BY <2>1, <2>2, OneEvent, NothingEmitted, EmitOfOthers
  <1>2. ASSUME NEW g \in gossip, NEW source \in Node,
               ContextGossipMessage(g, source) \/ AppGossipMessage(g, source)
        PROVE  NoReport
    <2>1. g.to \in Node
      BY GossipCopyType
    <2>2. CASE ContextGossipMessage(g, source)
      BY <1>1, <2>1, <2>2 DEF ContextGossipMessage
    <2>3. CASE AppGossipMessage(g, source)
      <3> DEFINE e == [type |-> "Message", peer |-> source, topic |-> g.topic]
      <3>1. e.type \notin ReportType /\ Emit(g.to, <<e>>)
        BY <2>3 DEF ReportType, AppGossipMessage
      <3> HIDE DEF e
      <3>2. QED
        BY <2>1, <3>1, OneEvent, EmitOfOthers
    <2>4. QED
      BY <1>2, <2>2, <2>3
  <1>3. ASSUME NEW m \in wire, HandleSyncContext(m)
        PROVE  NoReport
    BY <1>1, <1>3, WireMessageType DEF HandleSyncContext
  <1>4. ASSUME NEW m \in wire, HandleRequestStream(m) \/ HandleCloseStream(m)
        PROVE  NoReport
    <2>1. PICK type \in {"StreamRequested", "StreamClosed"} :
             Emit(m.to, <<StreamEventOf(type, m.from, m.stream_id)>>)
      BY <1>4 DEF HandleRequestStream, HandleCloseStream
    <2> DEFINE e == StreamEventOf(type, m.from, m.stream_id)
    <2>2. e.type \notin ReportType /\ Emit(m.to, <<e>>)
      BY <2>1 DEF StreamEventOf, ReportType
    <2> HIDE DEF e
    <2>3. QED
      BY <2>2, WireMessageType, OneEvent, EmitOfOthers
  <1>5. ASSUME NEW m \in wire,
               HandleAcceptStream(m) \/ HandleRejectStream(m) \/ HandleStreamData(m)
        PROVE  NoReport \/ ReportOf(m)
    <2>1. m.type \in ControlType /\ \E type \in ReportType : Report(type, m)
      BY <1>5 DEF HandleAcceptStream, HandleRejectStream, HandleStreamData, Receive, ControlType,
                  ReportType
    <2>2. QED
      BY <2>1, WireMessageType, ReportIsReportOf
  <1>6. QED
    BY <1>2, <1>3, <1>4, <1>5 DEF Incoming

LEMMA ReportStep ==
    ASSUME StreamInvariant, Next,
           NEW n \in Node, NEW k \in DOMAIN events'[n], events'[n][k].type \in ReportType,
           NamesOneStream(n, events'[n][k].stream_id)
    PROVE  streams[n][events'[n][k].stream_id].peer = events'[n][k].peer
  <1>1. ~NoReport
    BY DEF NoReport
  <1>2. ASSUME Environment \/ \E q \in Node : Heartbeat(q)
        PROVE  NoReport
    BY <1>2, SilentIsNoReport DEF Environment, Outside, Heartbeat
  <1>3. PICK m \in wire : ReportOf(m)
    BY <1>1, <1>2, UserCommandIsNoReport, SwarmEventIsNoReport, IncomingReports
       DEF Next, StreamInvariant
  <1>4. m.to = n /\ m.stream_id = events'[n][k].stream_id
    BY <1>3 DEF ReportOf
  <1>5. streams[m.to][m.stream_id].peer = m.from
    BY <1>3, <1>4, TheOtherEnd DEF ReportOf
  <1>6. QED
    BY <1>3, <1>5 DEF ReportOf

(* Where its id names one stream at a node, what the application there is  *)
(* told of it was sent by the peer of that stream, whoever else requests   *)
(* streams and whatever their ids do to one another elsewhere.             *)
THEOREM ReportsAreThePeers == Spec => ReportsComeFromThePeer
  <1> DEFINE Good ==
        \A n \in Node : \A k \in DOMAIN events'[n] :
          LET e == events'[n][k]
          IN  (/\ e.type \in {"StreamAccepted", "StreamRejected", "StreamData"}
               /\ NamesOneStream(n, e.stream_id))
                => streams[n][e.stream_id].peer = e.peer
  <1>1. StreamInvariant /\ [Next]_vars => [Good]_vars
    BY ReportStep DEF ReportType
  <1>2. QED
    BY <1>1, StreamInvariantHolds, PTL DEF Spec, ReportsComeFromThePeer
=============================================================================

---------------------------- MODULE NodePipeline ----------------------------
(***************************************************************************)
(* The channels of one node (src/p2p/src/node.rs): callers put commands    *)
(* into a bounded queue and await an answer each; the runtime task takes a *)
(* command or a swarm event, never while an event of its last handler is   *)
(* still unsent; a forwarder task moves events on to the user's queue.     *)
(*                                                                         *)
(* The runtime is reduced to its stream table and to what it answers and   *)
(* emits (module Runtime has the rest), for one remote peer, whose         *)
(* messages come in any order.  Both sides count their ids from 1, so an   *)
(* id may name a stream of each: the table has one entry for the two.      *)
(***************************************************************************)
EXTENDS Naturals, Sequences, FiniteSets, SequencesExt

CONSTANTS
    Inbound,      \* ids under which the peer may request streams
    Outbound,     \* ids this node may give out; some may be in both
    Task,         \* who calls the handle
    Nothing,      \* no event, no stream
    CommandCap, EventCap, UserCap,   \* capacities of the three channels, 100 each
    MaxPending,   \* bound: events emitted and not yet handled
    MaxSessions,  \* bound: connections made
    MaxHeard      \* bound: messages the peer gets through

ASSUME IdAssumption == Nothing \notin Inbound \cup Outbound
ASSUME CapAssumption == {CommandCap, EventCap, UserCap} \subseteq Nat \ {0}
ASSUME PendingAssumption == MaxPending \in Nat /\ {MaxSessions, MaxHeard} \subseteq Nat

StreamId == Inbound \cup Outbound

VARIABLES
    running,        \* the runtime task lives
    connected,      \* the runtime has a connection to the peer
    sessions,       \* connections made so far
    table,          \* ids of the runtime's streams
    requested,      \* outbound ids that were given out
    heard,          \* messages of the peer that arrived
    outbox,         \* events the current handler of the runtime has yet to send
    command_queue, answer,
    event_queue, forwarding, user_queue,
    handling        \* the event the user's loop has taken

runtime == <<running, connected, sessions, table, requested, heard>>
calls == <<command_queue, answer>>
queues == <<outbox, event_queue, forwarding, user_queue>>
pipeline == <<runtime, calls, queues, handling>>

StreamMessage == {"RequestStream", "AcceptStream", "RejectStream", "StreamData", "CloseStream"}
Event ==
    [type : {"PeerConnected", "PeerDisconnected"}, stream_id : {Nothing}]
      \cup [type : {"StreamRequested"}, stream_id : Inbound]
      \cup [type : {"StreamAccepted", "StreamRejected", "StreamData", "StreamClosed"},
            stream_id : StreamId]

ASSUME EventAssumption == Nothing \notin Event

Command ==
    [type : {"RequestStream", "GetPeerContext", "UpdateSelfContext"}, by : Task,
     stream_id : {Nothing}]
      \cup [type : {"AcceptStream", "RejectStream", "SendStreamData", "CloseStream"},
            by : Task, stream_id : StreamId]
Answer == [result : {"None", "Awaited", "Ok", "Err"}, stream_id : StreamId \cup {Nothing}]

EventOf(type, i) == [type |-> type, stream_id |-> i]
Answered(result, i) == [result |-> result, stream_id |-> i]
NoAnswer == Answered("None", Nothing)

PipelineTypeOK ==
    /\ running \in BOOLEAN /\ connected \in BOOLEAN /\ sessions \in 0..MaxSessions
    /\ table \subseteq StreamId /\ requested \subseteq Outbound
    /\ heard \subseteq StreamMessage \X StreamId
    /\ outbox \in Seq(Event)
    /\ command_queue \in Seq(Command) /\ Len(command_queue) <= CommandCap
    /\ answer \in [Task -> Answer]
    /\ event_queue \in Seq(Event) /\ Len(event_queue) <= EventCap
    /\ user_queue \in Seq(Event) /\ Len(user_queue) <= UserCap
    /\ {forwarding, handling} \subseteq Event \cup {Nothing}

PipelineInit ==
    /\ running = TRUE /\ connected = FALSE /\ sessions = 0
    /\ table = {} /\ requested = {} /\ heard = {}
    /\ outbox = <<>> /\ event_queue = <<>> /\ user_queue = <<>>
    /\ command_queue = <<>> /\ answer = [t \in Task |-> NoAnswer]
    /\ forwarding = Nothing /\ handling = Nothing

-----------------------------------------------------------------------------
(* A call through the handle: send the command, await the oneshot.  Once   *)
(* the runtime is gone both fail with ChannelClosed.                       *)

(* Mutant: one more than fits.                                             *)
RoomOffByOne(queue, cap) == Len(queue) <= cap

Room(queue, cap) == Len(queue) < cap

Ask(t, type, i) ==
    /\ answer[t] = NoAnswer
    /\ IF running
       THEN /\ Room(command_queue, CommandCap)
            /\ command_queue' = Append(command_queue, [type |-> type, by |-> t, stream_id |-> i])
            /\ answer' = [answer EXCEPT ![t] = Answered("Awaited", i)]
       ELSE /\ answer' = [answer EXCEPT ![t] = Answered("Err", i)]
            /\ UNCHANGED command_queue
    /\ UNCHANGED <<runtime, queues>>

(* The call returns.                                                       *)
Returns(t) ==
    /\ answer[t].result \in {"Ok", "Err"}
    /\ answer' = [answer EXCEPT ![t] = NoAnswer]
    /\ UNCHANGED <<runtime, command_queue, queues>>

-----------------------------------------------------------------------------
(* The runtime task.                                                       *)

Ready == running /\ outbox = <<>>

TakeCommand ==
    /\ Ready /\ command_queue # <<>>
    /\ command_queue' = Tail(command_queue)
    /\ LET c == Head(command_queue)
           Reply(result, i) == answer' = [answer EXCEPT ![c.by] = Answered(result, i)]
           ReplyFound == Reply(IF c.stream_id \in table THEN "Ok" ELSE "Err", c.stream_id)
       IN  \/ /\ c.type = "RequestStream"    \* of something that is no peer id
              /\ Reply("Err", Nothing)
              /\ UNCHANGED <<requested, table>>
           \/ /\ c.type = "RequestStream"
              /\ \E i \in Outbound \ requested :
                    /\ requested' = requested \cup {i}
                    /\ table' = table \cup {i}
                    /\ Reply("Ok", i)
           \/ /\ c.type \in {"AcceptStream", "SendStreamData"}
              /\ ReplyFound
              /\ UNCHANGED <<requested, table>>
           \/ /\ c.type \in {"RejectStream", "CloseStream"}
              /\ ReplyFound
              /\ table' = table \ {c.stream_id}
              /\ UNCHANGED requested
           \/ /\ c.type \in {"GetPeerContext", "UpdateSelfContext"}
              /\ \/ Reply("Ok", Nothing)
                 \/ c.type = "UpdateSelfContext" /\ Reply("Err", Nothing)
              /\ UNCHANGED <<requested, table>>
    /\ UNCHANGED <<running, connected, sessions, heard, queues, handling>>

Count(event) == IF event = Nothing THEN 0 ELSE 1
Pending == Len(outbox) + Len(event_queue) + Count(forwarding) + Len(user_queue) + Count(handling)

(* A handler that will emit these events, one after the other.             *)
Emits(list) ==
    /\ Ready
    /\ Pending + Len(list) <= MaxPending
    /\ outbox' = list
    /\ UNCHANGED <<running, requested, calls, event_queue, forwarding, user_queue, handling>>

ConnectionEstablished ==
    /\ ~connected /\ sessions < MaxSessions
    /\ connected' = TRUE
    /\ sessions' = sessions + 1
    /\ Emits(<<EventOf("PeerConnected", Nothing)>>)
    /\ UNCHANGED <<table, heard>>

(* Mutant: the streams of a lost connection go without a word.             *)
ConnectionClosedQuietly ==
    /\ connected
    /\ connected' = FALSE
    /\ table' = {}
    /\ Emits(<<EventOf("PeerDisconnected", Nothing)>>)
    /\ UNCHANGED <<sessions, heard>>

ConnectionClosed ==
    /\ connected
    /\ connected' = FALSE
    /\ table' = {}
    /\ \E order \in SetToSeqs(table) :
          Emits([k \in DOMAIN order |-> EventOf("StreamClosed", order[k])]
                \o <<EventOf("PeerDisconnected", Nothing)>>)
    /\ UNCHANGED <<sessions, heard>>

(* Each message of the peer about a stream arrives at most once.           *)
Hear(message, i) ==
    /\ connected
    /\ <<message, i>> \notin heard /\ Cardinality(heard) < MaxHeard
    /\ heard' = heard \cup {<<message, i>>}
    /\ UNCHANGED <<connected, sessions>>

(* An entry of this node under the same id is replaced.                    *)
HearRequest(i) ==
    /\ i \in Inbound
    /\ Hear("RequestStream", i)
    /\ table' = table \cup {i}
    /\ Emits(<<EventOf("StreamRequested", i)>>)

(* An acceptance, a rejection or data, whoever requested the stream:       *)
(* reported only while the id is known.                                    *)
HearAnswer(message, event, i) ==
    /\ Hear(message, i)
    /\ table' = IF message = "RejectStream" THEN table \ {i} ELSE table
    /\ Emits(IF i \in table THEN <<EventOf(event, i)>> ELSE <<>>)

HearClose(i) ==
    /\ Hear("CloseStream", i)
    /\ table' = table \ {i}
    /\ Emits(<<EventOf("StreamClosed", i)>>)

SwarmEvent ==
    \/ ConnectionEstablished \/ ConnectionClosed
    \/ \E i \in Inbound : HearRequest(i)
    \/ \E i \in Inbound \cup requested :
          \/ HearAnswer("AcceptStream", "StreamAccepted", i)
          \/ HearAnswer("RejectStream", "StreamRejected", i)
          \/ HearAnswer("StreamData", "StreamData", i)
          \/ HearClose(i)

SendEvent ==
    /\ running /\ outbox # <<>>
    /\ Room(event_queue, EventCap)
    /\ event_queue' = Append(event_queue, Head(outbox))
    /\ outbox' = Tail(outbox)
    /\ UNCHANGED <<runtime, calls, forwarding, user_queue, handling>>

(* Mutant: the callers of dropped commands are not told.                   *)
ShutdownSilent ==
    /\ running
    /\ running' = FALSE
    /\ outbox' = <<>> /\ table' = {} /\ connected' = FALSE
    /\ command_queue' = <<>>
    /\ UNCHANGED <<sessions, requested, heard, answer, event_queue, forwarding, user_queue,
                   handling>>

(* The runtime task is dropped wherever it waits: what it had yet to send  *)
(* is lost, queued commands are dropped and their callers get an error.    *)
Shutdown ==
    /\ running
    /\ running' = FALSE
    /\ outbox' = <<>> /\ table' = {} /\ connected' = FALSE
    /\ command_queue' = <<>>
    /\ answer' = [t \in Task |-> IF answer[t].result = "Awaited"
                                 THEN Answered("Err", answer[t].stream_id) ELSE answer[t]]
    /\ UNCHANGED <<sessions, requested, heard, event_queue, forwarding, user_queue, handling>>

-----------------------------------------------------------------------------
(* The forwarder task, and the user's end of its queue.                    *)

Forward ==
    /\ forwarding = Nothing /\ event_queue # <<>>
    /\ forwarding' = Head(event_queue)
    /\ event_queue' = Tail(event_queue)
    /\ UNCHANGED <<runtime, calls, outbox, user_queue, handling>>

Deliver ==
    /\ forwarding # Nothing
    /\ Room(user_queue, UserCap)
    /\ user_queue' = Append(user_queue, forwarding)
    /\ forwarding' = Nothing
    /\ UNCHANGED <<runtime, calls, outbox, event_queue, handling>>

Receive ==
    /\ handling = Nothing /\ user_queue # <<>>
    /\ handling' = Head(user_queue)
    /\ user_queue' = Tail(user_queue)
    /\ UNCHANGED <<runtime, calls, outbox, event_queue, forwarding>>

Tasks == TakeCommand \/ SwarmEvent \/ SendEvent \/ Shutdown \/ Forward \/ Deliver
=============================================================================

---------------------------- MODULE DeviceProofs ----------------------------
(***************************************************************************)
(* Proofs about a device above its node: any number of streams, tasks and  *)
(* messages, channels of any capacity, ids that both sides may give out.   *)
(***************************************************************************)
EXTENDS TLAPS, FiniteSetTheorems, SequenceTheorems, StreamDispatcher

(* The events of the node, first to last: in the loop's hands, on their    *)
(* way to it, and not yet sent.                                            *)
One(event) == IF event = Nothing THEN <<>> ELSE <<event>>
Pipe == One(handling) \o (user_queue \o (One(forwarding) \o (event_queue \o outbox)))

Underway(event) == \E k \in DOMAIN Pipe : Pipe[k] = event
Request(i) == EventOf("StreamRequested", i)
Heard(i) == <<"RequestStream", i>> \in heard
EndUnderway(i) ==
    Underway(EventOf("StreamClosed", i)) \/ Underway(EventOf("StreamRejected", i))

(* An id that this node has given out, and the peer has not used so far.   *)
(* An id leaves Theirs when it is given out, and Ours when the peer uses   *)
(* it: it is then Shared, and nothing is known of it any more.             *)
Ours == {i \in requested : ~Heard(i)}

(* Where the loop is fits the event it handles.                            *)
LoopFits ==
    /\ at = "idle" <=> handling = Nothing
    /\ at \in {"accept", "accepting", "refuse", "refusing", "store"}
          => handling.type = "StreamRequested"
    /\ at = "lock"
          => handling.type \in {"StreamAccepted", "StreamRejected", "StreamData", "StreamClosed"}
    /\ at \in {"reply", "replying"}
          => handling.type \in {"StreamRequested", "StreamAccepted", "StreamData"}
    /\ at \in {"read", "reading", "update", "updating", "done"}
          => handling.type \in {"PeerConnected", "PeerDisconnected"}

(* A command in the queue is the one its caller is waiting for.            *)
LoopWaits == at \in {"accepting", "refusing", "replying", "reading", "updating"}

CommandFits(c) ==
    /\ c.by \in {EventLoop, App}
    /\ answer[c.by].result = "Awaited"
    /\ c.by = App => \/ app = "requesting" /\ c.type = "RequestStream"
                     \/ app = "closing" /\ c.type = "CloseStream"
    /\ c.by = EventLoop => LoopWaits /\ c.type # "RequestStream"
    /\ c.type = "RejectStream" => at = "refusing" /\ c.stream_id = Stream
    /\ c.by = EventLoop /\ at = "accepting" => c.type = "AcceptStream" /\ c.stream_id = Stream
    /\ c.type = "CloseStream" => c.stream_id \in closed_here

CommandsFit ==
    \A k \in DOMAIN command_queue :
        /\ CommandFits(command_queue[k])
        /\ \A l \in DOMAIN command_queue :
              command_queue[l].by = command_queue[k].by => l = k

(* Stream i was opened by the application, which has yet to store for it.  *)
Opening(i) ==
    \/ opening = i
    \/ app = "requesting" /\ answer[App] = Answered("Ok", i)

OpeningFits ==
    /\ app = "store" <=> opening # Nothing
    /\ opening \in requested \cup {Nothing}
    /\ app = "requesting" /\ answer[App].result = "Ok" => answer[App].stream_id \in requested

(* The events on their way: a stream is requested once, what the peer says *)
(* of a stream of its own comes after the request.                         *)
Ending == {"rejected", "closed"}
Ended(i) == log[i] # <<>> /\ Last(log[i]) \in Ending
Unended(i) == \A k \in DOMAIN log[i] : log[i][k] \notin Ending
Settled(i) == i \in refused \/ i \in active_handlers \/ Ended(i)

RequestsComeOnce ==
    \A k, l \in DOMAIN Pipe : Pipe[k].type = "StreamRequested" /\ Pipe[l] = Pipe[k] => l = k

RequestsWereHeard == \A i \in StreamId : Underway(Request(i)) => Heard(i)

AnswersFollowRequest ==
    \A k \in DOMAIN Pipe :
        Pipe[k].type \in {"StreamAccepted", "StreamRejected", "StreamData"}
           /\ Pipe[k].stream_id \in Theirs =>
           Settled(Pipe[k].stream_id) \/ \E l \in 1..(k - 1) : Pipe[l] = Request(Pipe[k].stream_id)

PipeFits == RequestsComeOnce /\ RequestsWereHeard /\ AnswersFollowRequest

(* The life of a stream, from its request to its last callback.            *)
Greeted(i) == handling = Request(i) /\ at \in {"reply", "replying", "store"}
Admitted(i) ==
    \/ Greeted(i)
    \/ handling = Request(i) /\ at = "accepting" /\ answer[EventLoop].result = "Ok"

InboundLife(i) ==
    /\ Underway(Request(i)) \/ i \in active_handlers \/ log[i] # <<>> \/ i \in table => Heard(i)
    /\ Underway(Request(i)) /\ ~Greeted(i) => log[i] = <<>> /\ i \notin active_handlers
    /\ i \in active_handlers \/ Greeted(i) => log[i] # <<>>
    /\ log[i] # <<>> => log[i][1] = "accepted"
    /\ running /\ Heard(i) => Underway(Request(i)) \/ Settled(i)

OutboundLife(i) ==
    /\ i \in active_handlers \/ log[i] # <<>> => ~Opening(i)
    /\ Opening(i) \/ i \in active_handlers \/ Ended(i)

LogFits(i) ==
    /\ \A k \in DOMAIN log[i] : log[i][k] \in Ending => k = Len(log[i])
    /\ i \in active_handlers \/ Greeted(i) => Unended(i)

StreamLives ==
    /\ \A i \in Theirs : InboundLife(i)
    /\ \A i \in Ours : OutboundLife(i)
    /\ \A i \in Theirs \cup Ours : LogFits(i)

(* HandlersFollowStreams, from the moment the runtime has accepted.        *)
StreamsFollowed ==
    running => \A i \in Theirs :
        i \in active_handlers \/ Admitted(i) =>
           i \in table \/ i \in closed_here \/ EndUnderway(i)

DeviceInvariant ==
    /\ TypeOK /\ IsFiniteSet(table)
    /\ LoopFits /\ CommandsFit /\ OpeningFits /\ PipeFits /\ StreamLives
    /\ StreamsFollowed

-----------------------------------------------------------------------------
(* Whose stream an id names.                                               *)

LEMMA Classes ==
    ASSUME TypeOK
    PROVE  /\ Theirs \subseteq StreamId /\ Ours \subseteq StreamId /\ Ours \subseteq requested
           /\ \A i \in Theirs : i \notin requested /\ i \notin Ours
           /\ \A i \in Ours : ~Heard(i)
           /\ \A i \in StreamId \ Shared : i \in Theirs \/ i \in Ours
           /\ Theirs \cap Shared = {}
  BY DEF TypeOK, PipelineTypeOK, StreamId, Theirs, Ours, Shared, Heard

LEMMA ClassesKept ==
    ASSUME UNCHANGED <<requested, heard>>
    PROVE  Theirs' = Theirs /\ Ours' = Ours
  BY DEF Theirs, Ours, Heard

-----------------------------------------------------------------------------
(* Sequences.                                                              *)

LEMMA HeadAndTail ==
    ASSUME NEW S, NEW s \in Seq(S), s # <<>>
    PROVE  s = <<Head(s)>> \o Tail(s) /\ Head(s) \in S /\ Tail(s) \in Seq(S)
  OBVIOUS

LEMMA TakeFirst ==
    ASSUME NEW S, NEW s \in Seq(S), NEW t \in Seq(S), s # <<>>
    PROVE  <<Head(s)>> \o (Tail(s) \o t) = s \o t
<1>1. <<Head(s)>> \in Seq(S) /\ Tail(s) \in Seq(S) /\ s = <<Head(s)>> \o Tail(s)
  BY HeadAndTail
<1> QED
  BY <1>1, ConcatAssociative

LEMMA PutLast ==
    ASSUME NEW S, NEW s \in Seq(S), NEW t \in Seq(S), NEW e \in S
    PROVE  Append(s, e) \o t = s \o (<<e>> \o t)
<1>1. <<e>> \in Seq(S) /\ Append(s, e) = s \o <<e>>
  BY AppendIsConcat
<1> QED
  BY <1>1, ConcatAssociative

LEMMA PassOn ==
    ASSUME NEW S, NEW s \in Seq(S), NEW t \in Seq(S), t # <<>>
    PROVE  Append(s, Head(t)) \o Tail(t) = s \o t
<1>1. Head(t) \in S /\ Tail(t) \in Seq(S) /\ t = <<Head(t)>> \o Tail(t)
  BY HeadAndTail
<1> QED
  BY <1>1, PutLast

\* Concatenation under a name of its own, for its laws alone.
Joined(s, t) == s \o t

LEMMA JoinedLaws ==
    ASSUME NEW S
    PROVE  /\ \A s, t \in Seq(S) : Joined(s, t) \in Seq(S)
           /\ \A s, t, u \in Seq(S) : Joined(Joined(s, t), u) = Joined(s, Joined(t, u))
           /\ \A s \in Seq(S) : Joined(s, <<>>) = s
<1>1. ASSUME NEW s \in Seq(S), NEW t \in Seq(S)
      PROVE  Joined(s, t) \in Seq(S) /\ Joined(s, <<>>) = s
  BY DEF Joined
<1>2. ASSUME NEW s \in Seq(S), NEW t \in Seq(S), NEW u \in Seq(S)
      PROVE  Joined(Joined(s, t), u) = Joined(s, Joined(t, u))
  BY DEF Joined
<1> QED
  BY <1>1, <1>2

LEMMA JoinedDeep ==
    ASSUME NEW S, NEW a \in Seq(S), NEW b \in Seq(S), NEW c \in Seq(S), NEW d \in Seq(S),
           NEW e \in Seq(S)
    PROVE  /\ Joined(a, Joined(b, Joined(c, d))) \in Seq(S)
           /\ Joined(a, Joined(b, Joined(c, Joined(d, <<>>))))
                 = Joined(a, Joined(b, Joined(c, d)))
           /\ Joined(a, Joined(b, Joined(c, Joined(d, e))))
                 = Joined(Joined(a, Joined(b, Joined(c, d))), e)
<1>1. Joined(c, d) \in Seq(S)
  BY JoinedLaws
<1>2. Joined(b, Joined(c, d)) \in Seq(S)
  BY <1>1, JoinedLaws
<1>3. Joined(a, Joined(b, Joined(c, d))) \in Seq(S)
  BY <1>2, JoinedLaws
<1>4. Joined(Joined(c, d), e) = Joined(c, Joined(d, e))
  BY JoinedLaws
<1>5. Joined(Joined(b, Joined(c, d)), e) = Joined(b, Joined(Joined(c, d), e))
  BY <1>1, JoinedLaws
<1>6. Joined(Joined(a, Joined(b, Joined(c, d))), e) = Joined(a, Joined(Joined(b, Joined(c, d)), e))
  BY <1>2, JoinedLaws
<1>7. Joined(d, <<>>) = d
  BY JoinedLaws
<1> QED
  BY <1>3, <1>4, <1>5, <1>6, <1>7

-----------------------------------------------------------------------------
(* What steps do to the events on their way.                               *)

LEMMA OneType == \A e \in Event \cup {Nothing} : One(e) \in Seq(Event)
  BY DEF One

LEMMA PipeType ==
    ASSUME PipelineTypeOK
    PROVE  /\ Pipe \in Seq(Event)
           /\ event_queue \o outbox \in Seq(Event)
           /\ One(forwarding) \o (event_queue \o outbox) \in Seq(Event)
           /\ user_queue \o (One(forwarding) \o (event_queue \o outbox)) \in Seq(Event)
<1>1. One(forwarding) \in Seq(Event) /\ One(handling) \in Seq(Event)
  BY OneType DEF PipelineTypeOK
<1>2. event_queue \o outbox \in Seq(Event)
  BY ConcatProperties DEF PipelineTypeOK
<1>3. One(forwarding) \o (event_queue \o outbox) \in Seq(Event)
  BY <1>1, <1>2, ConcatProperties
<1>4. user_queue \o (One(forwarding) \o (event_queue \o outbox)) \in Seq(Event)
  BY <1>3, ConcatProperties DEF PipelineTypeOK
<1> QED
  BY <1>1, <1>2, <1>3, <1>4, ConcatProperties DEF Pipe

LEMMA ReceiveMoves ==
    ASSUME PipelineTypeOK, Receive
    PROVE  Pipe' = Pipe
<1> DEFINE rest == One(forwarding) \o (event_queue \o outbox)
<1>1. rest \in Seq(Event) /\ user_queue \in Seq(Event)
  BY PipeType DEF PipelineTypeOK
<1>2. /\ handling = Nothing /\ user_queue # <<>>
      /\ handling' = Head(user_queue) /\ user_queue' = Tail(user_queue)
      /\ rest' = rest
  BY DEF Receive, queues
<1>3. Head(user_queue) \in Event
  BY <1>1, <1>2, HeadAndTail
<1>4. One(handling) = <<>> /\ One(handling)' = <<Head(user_queue)>>
  BY <1>2, <1>3, EventAssumption DEF One
<1>5. user_queue \o rest \in Seq(Event)
  BY <1>1, ConcatProperties
<1>6. <<Head(user_queue)>> \o (Tail(user_queue) \o rest) = user_queue \o rest
  BY <1>1, <1>2, TakeFirst
<1>7. <<>> \o (user_queue \o rest) = user_queue \o rest
  BY <1>5, ConcatEmptySeq
<1> QED
  BY <1>2, <1>4, <1>6, <1>7 DEF Pipe

LEMMA ForwardMoves ==
    ASSUME PipelineTypeOK, Forward
    PROVE  Pipe' = Pipe
<1>1. event_queue \in Seq(Event) /\ outbox \in Seq(Event)
  BY DEF PipelineTypeOK
<1>2. /\ forwarding = Nothing /\ event_queue # <<>>
      /\ forwarding' = Head(event_queue) /\ event_queue' = Tail(event_queue)
      /\ UNCHANGED <<outbox, user_queue, handling>>
  BY DEF Forward
<1>3. Head(event_queue) \in Event
  BY <1>1, <1>2, HeadAndTail
<1>4. One(forwarding) = <<>> /\ One(forwarding)' = <<Head(event_queue)>>
  BY <1>2, <1>3, EventAssumption DEF One
<1>5. <<Head(event_queue)>> \o (Tail(event_queue) \o outbox) = event_queue \o outbox
  BY <1>1, <1>2, TakeFirst
<1>6. <<>> \o (event_queue \o outbox) = event_queue \o outbox
  BY PipeType, ConcatEmptySeq
<1>7. One(handling)' = One(handling)
  BY <1>2 DEF One
<1> QED
  BY <1>2, <1>4, <1>5, <1>6, <1>7 DEF Pipe

LEMMA DeliverMoves ==
    ASSUME PipelineTypeOK, Deliver
    PROVE  Pipe' = Pipe
<1> DEFINE rest == event_queue \o outbox
<1>1. rest \in Seq(Event) /\ user_queue \in Seq(Event)
  BY PipeType DEF PipelineTypeOK
<1>2. /\ forwarding # Nothing /\ forwarding' = Nothing
      /\ user_queue' = Append(user_queue, forwarding)
      /\ rest' = rest /\ UNCHANGED handling
  BY DEF Deliver
<1>3. forwarding \in Event
  BY <1>2 DEF PipelineTypeOK
<1>4. One(forwarding) = <<forwarding>> /\ One(forwarding)' = <<>>
  BY <1>2 DEF One
<1>5. <<>> \o rest = rest
  BY <1>1, ConcatEmptySeq
<1>6. Append(user_queue, forwarding) \o rest = user_queue \o (<<forwarding>> \o rest)
  BY <1>1, <1>3, PutLast
<1>7. One(handling)' = One(handling)
  BY <1>2 DEF One
<1> QED
  BY <1>2, <1>4, <1>5, <1>6, <1>7 DEF Pipe

LEMMA SendEventMoves ==
    ASSUME PipelineTypeOK, SendEvent
    PROVE  Pipe' = Pipe
<1>1. event_queue \in Seq(Event) /\ outbox \in Seq(Event)
  BY DEF PipelineTypeOK
<1>2. /\ outbox # <<>> /\ outbox' = Tail(outbox)
      /\ event_queue' = Append(event_queue, Head(outbox))
      /\ UNCHANGED <<forwarding, user_queue, handling>>
  BY DEF SendEvent
<1>3. event_queue' \o outbox' = event_queue \o outbox
  BY <1>1, <1>2, PassOn
<1>4. One(handling)' = One(handling) /\ One(forwarding)' = One(forwarding)
  BY <1>2 DEF One
<1> QED
  BY <1>2, <1>3, <1>4 DEF Pipe

LEMMA RestMoves ==
    ASSUME UNCHANGED <<queues, handling>>
    PROVE  Pipe' = Pipe
  BY DEF queues, Pipe, One

\* The loop is done with the first event.
LEMMA EndingDrops ==
    ASSUME PipelineTypeOK, handling # Nothing, handling' = Nothing, UNCHANGED queues
    PROVE  Pipe # <<>> /\ Head(Pipe) = handling /\ Pipe' = Tail(Pipe)
<1> DEFINE rest == user_queue \o (One(forwarding) \o (event_queue \o outbox))
<1>1. rest \in Seq(Event) /\ handling \in Event
  BY PipeType DEF PipelineTypeOK
<1>2. One(handling) = <<handling>> /\ One(handling)' = <<>> /\ rest' = rest
  BY DEF One, queues
<1>3. Pipe = <<handling>> \o rest /\ Pipe' = <<>> \o rest
  BY <1>2 DEF Pipe
<1>4. <<>> \o rest = rest
  BY <1>1, ConcatEmptySeq
<1> HIDE DEF rest
<1>5. /\ <<handling>> \o rest # <<>> /\ Head(<<handling>> \o rest) = handling
      /\ Tail(<<handling>> \o rest) = rest
  BY <1>1
<1> QED
  BY <1>3, <1>4, <1>5

\* The runtime emits events behind all others.
LEMMA EmitsAppends ==
    ASSUME PipelineTypeOK, NEW list \in Seq(Event), Emits(list)
    PROVE  Pipe' = Pipe \o list
<1> DEFINE a == One(handling)
           b == user_queue
           c == One(forwarding)
           d == event_queue
<1>1. a \in Seq(Event) /\ b \in Seq(Event) /\ c \in Seq(Event) /\ d \in Seq(Event)
  BY OneType DEF PipelineTypeOK
<1>2. /\ outbox = <<>> /\ outbox' = list
      /\ a' = a /\ b' = b /\ c' = c /\ d' = d
  BY DEF Emits, Ready, One
<1>3. /\ Pipe = Joined(a, Joined(b, Joined(c, Joined(d, <<>>))))
      /\ Pipe' = Joined(a, Joined(b, Joined(c, Joined(d, list))))
  BY <1>2 DEF Pipe, Joined
<1>4. Pipe' = Joined(Pipe, list)
  <2> HIDE DEF a, b, c, d
  <2> QED
    BY <1>1, <1>3, JoinedDeep
<1> QED
  BY <1>4 DEF Joined

\* What the runtime has not sent is lost with it.
LEMMA ShutdownTruncates ==
    ASSUME PipelineTypeOK, Shutdown
    PROVE  Pipe = Pipe' \o outbox /\ Pipe' \in Seq(Event)
<1> DEFINE a == One(handling)
           b == user_queue
           c == One(forwarding)
           d == event_queue
<1>1. /\ a \in Seq(Event) /\ b \in Seq(Event) /\ c \in Seq(Event) /\ d \in Seq(Event)
      /\ outbox \in Seq(Event)
  BY OneType DEF PipelineTypeOK
<1>2. outbox' = <<>> /\ a' = a /\ b' = b /\ c' = c /\ d' = d
  BY DEF Shutdown, One
<1>3. /\ Pipe = Joined(a, Joined(b, Joined(c, Joined(d, outbox))))
      /\ Pipe' = Joined(a, Joined(b, Joined(c, Joined(d, <<>>))))
  BY <1>2 DEF Pipe, Joined
<1>4. Pipe = Joined(Pipe', outbox) /\ Pipe' \in Seq(Event)
  <2> HIDE DEF a, b, c, d
  <2> QED
    BY <1>1, <1>3, JoinedDeep
<1> QED
  BY <1>4 DEF Joined

-----------------------------------------------------------------------------
(* Typing.                                                                 *)

LEMMA Capacities ==
    /\ CommandCap \in Nat /\ CommandCap > 0 /\ EventCap \in Nat /\ EventCap > 0
    /\ UserCap \in Nat /\ UserCap > 0 /\ MaxPending \in Nat /\ MaxSessions \in Nat
    /\ MaxHeard \in Nat
<1>1. ASSUME NEW n \in Nat \ {0} PROVE n \in Nat /\ n > 0
  OBVIOUS
<1> QED
  BY <1>1, CapAssumption, PendingAssumption

LEMMA InitFits == Init => DeviceInvariant
<1> SUFFICES ASSUME Init PROVE DeviceInvariant
  OBVIOUS
<1>1. Pipe = <<>>
  BY DEF Init, PipelineInit, Pipe, One
<1>2. TypeOK /\ IsFiniteSet(table)
  <2>1. /\ <<>> \in Seq(Event) /\ <<>> \in Seq(Command) /\ <<>> \in Seq(Callback)
        /\ Len(<<>>) = 0 /\ NoAnswer \in Answer
    BY DEF NoAnswer, Answered, Answer
  <2>2. PipelineTypeOK
    <3>1. answer \in [Task -> Answer] /\ sessions \in 0..MaxSessions
      BY <2>1, Capacities DEF Init, PipelineInit
    <3>2. /\ Len(command_queue) <= CommandCap /\ Len(event_queue) <= EventCap
          /\ Len(user_queue) <= UserCap
      BY <2>1, Capacities DEF Init, PipelineInit
    <3> QED
      BY <2>1, <3>1, <3>2 DEF Init, PipelineInit, PipelineTypeOK
  <2> QED
    BY <2>1, <2>2, FS_EmptySet DEF Init, PipelineInit, TypeOK, LoopPoint
<1>3. LoopFits /\ CommandsFit /\ OpeningFits /\ PipeFits
  BY <1>1, TaskAssumption
     DEF Init, PipelineInit, LoopFits, CommandsFit, OpeningFits, NoAnswer, Answered, PipeFits,
         RequestsComeOnce, RequestsWereHeard, AnswersFollowRequest, Underway
<1>4. StreamLives
  <2>1. Theirs \subseteq StreamId /\ Ours = {}
    BY DEF Init, PipelineInit, Theirs, Ours
  <2> QED
    BY <1>1, <2>1
       DEF Init, PipelineInit, StreamLives, InboundLife, LogFits, Unended, Greeted, Underway, Heard
<1>5. StreamsFollowed
  BY EventAssumption
     DEF Init, PipelineInit, StreamsFollowed, Admitted, Greeted
<1> QED
  BY <1>2, <1>3, <1>4, <1>5 DEF DeviceInvariant

LEMMA AskType ==
    ASSUME PipelineTypeOK, NEW t \in Task, NEW type, NEW i \in StreamId \cup {Nothing},
           [type |-> type, by |-> t, stream_id |-> i] \in Command,
           Ask(t, type, i), UNCHANGED handling
    PROVE  PipelineTypeOK'
<1>1. UNCHANGED <<runtime, queues, handling>>
  BY DEF Ask
<1>2. answer' \in [Task -> Answer]
  <2>1. Answered("Awaited", i) \in Answer /\ Answered("Err", i) \in Answer
    BY DEF Answered, Answer
  <2>2. \/ answer' = [answer EXCEPT ![t] = Answered("Awaited", i)]
        \/ answer' = [answer EXCEPT ![t] = Answered("Err", i)]
    BY DEF Ask
  <2> QED
    BY <2>1, <2>2 DEF PipelineTypeOK
<1>3. command_queue' \in Seq(Command) /\ Len(command_queue') <= CommandCap
  <2> DEFINE c == [type |-> type, by |-> t, stream_id |-> i]
  <2> HIDE DEF c
  <2>1. CASE running
    <3>1. c \in Command /\ Len(command_queue) < CommandCap
             /\ command_queue' = Append(command_queue, c)
      BY <2>1 DEF Ask, Room, c
    <3> QED
      BY <3>1, Capacities, AppendProperties DEF PipelineTypeOK
  <2>2. CASE ~running
    BY <2>2 DEF Ask, PipelineTypeOK
  <2> QED
    BY <2>1, <2>2
<1> QED
  BY <1>1, <1>2, <1>3 DEF PipelineTypeOK, runtime, queues

LEMMA ReturnsType ==
    ASSUME PipelineTypeOK, NEW t \in Task, Returns(t), handling' \in {handling, Nothing}
    PROVE  PipelineTypeOK'
<1>1. UNCHANGED <<runtime, command_queue, queues>>
  BY DEF Returns
<1>2. answer' \in [Task -> Answer]
  BY DEF Returns, PipelineTypeOK, Answered, Answer, NoAnswer
<1> QED
  BY <1>1, <1>2 DEF PipelineTypeOK, runtime, queues

LEMMA EndHandlingType ==
    ASSUME PipelineTypeOK, UNCHANGED <<runtime, calls, queues>>, handling' \in {handling, Nothing}
    PROVE  PipelineTypeOK'
  BY DEF PipelineTypeOK, runtime, calls, queues

LEMMA HeadTailType ==
    ASSUME NEW S, NEW s \in Seq(S), s # <<>>
    PROVE  Head(s) \in S /\ Tail(s) \in Seq(S) /\ Len(Tail(s)) = Len(s) - 1 /\ Len(s) \in Nat
  OBVIOUS

LEMMA ReceiveType ==
    ASSUME PipelineTypeOK, Receive
    PROVE  PipelineTypeOK' /\ handling' \in Event
<1>1. /\ Head(user_queue) \in Event /\ Tail(user_queue) \in Seq(Event)
      /\ Len(Tail(user_queue)) <= UserCap
  BY HeadTailType, Capacities DEF Receive, PipelineTypeOK
<1> QED
  BY <1>1 DEF PipelineTypeOK, Receive, runtime, calls

LEMMA QueueStepType ==
    ASSUME PipelineTypeOK, SendEvent \/ Forward \/ Deliver
    PROVE  PipelineTypeOK'
<1>1. CASE SendEvent
  <2>1. Head(outbox) \in Event /\ Tail(outbox) \in Seq(Event)
    BY <1>1, HeadTailType DEF SendEvent, PipelineTypeOK
  <2>2. event_queue' \in Seq(Event) /\ Len(event_queue') <= EventCap
    BY <1>1, <2>1, Capacities DEF SendEvent, PipelineTypeOK, Room
  <2> QED
    BY <1>1, <2>1, <2>2 DEF SendEvent, PipelineTypeOK, runtime, calls
<1>2. CASE Forward
  <2>1. /\ Head(event_queue) \in Event /\ Tail(event_queue) \in Seq(Event)
        /\ Len(Tail(event_queue)) <= EventCap
    BY <1>2, HeadTailType, Capacities DEF Forward, PipelineTypeOK
  <2> QED
    BY <1>2, <2>1 DEF Forward, PipelineTypeOK, runtime, calls
<1>3. CASE Deliver
  <2>1. user_queue' \in Seq(Event) /\ Len(user_queue') <= UserCap
    BY <1>3, Capacities DEF Deliver, PipelineTypeOK, Room
  <2> QED
    BY <1>3, <2>1 DEF Deliver, PipelineTypeOK, runtime, calls
<1> QED
  BY <1>1, <1>2, <1>3

LEMMA TakeCommandType ==
    ASSUME PipelineTypeOK, TakeCommand
    PROVE  PipelineTypeOK'
<1> DEFINE c == Head(command_queue)
<1>1. /\ c \in Command /\ Tail(command_queue) \in Seq(Command)
      /\ Len(Tail(command_queue)) <= CommandCap
  BY HeadTailType, Capacities DEF TakeCommand, PipelineTypeOK
<1>2. c.by \in Task /\ c.stream_id \in StreamId \cup {Nothing}
  BY <1>1 DEF Command
<1>3. \E result \in {"Ok", "Err"}, i \in StreamId \cup {Nothing} :
         answer' = [answer EXCEPT ![c.by] = Answered(result, i)]
  BY <1>2 DEF TakeCommand, StreamId
<1>4. answer' \in [Task -> Answer]
  BY <1>2, <1>3 DEF PipelineTypeOK, Answered, Answer
<1>5. requested' \subseteq Outbound /\ table' \subseteq StreamId
  BY DEF TakeCommand, PipelineTypeOK, StreamId
<1> QED
  BY <1>1, <1>4, <1>5 DEF TakeCommand, PipelineTypeOK, queues

LEMMA ShutdownType ==
    ASSUME PipelineTypeOK, Shutdown
    PROVE  PipelineTypeOK'
<1>1. answer' \in [Task -> Answer]
  BY DEF Shutdown, PipelineTypeOK, Answered, Answer
<1>2. command_queue' \in Seq(Command) /\ Len(command_queue') <= CommandCap
         /\ outbox' \in Seq(Event)
  BY Capacities DEF Shutdown
<1> QED
  BY <1>1, <1>2 DEF Shutdown, PipelineTypeOK

-----------------------------------------------------------------------------
(* Swarm events, by the list of events they emit.                          *)

Lists(list, event) == \E k \in DOMAIN list : list[k] = event

SwarmStep(list) ==
    /\ list \in Seq(Event) /\ Emits(list)
    /\ \A i \in StreamId :
          /\ i \in table \ table' => \/ Lists(list, EventOf("StreamClosed", i))
                                     \/ Lists(list, EventOf("StreamRejected", i))
          /\ Heard(i)' <=> Heard(i) \/ Lists(list, Request(i))
          /\ i \in table' => i \in table \/ Lists(list, Request(i))
    /\ \A k \in DOMAIN list :
          /\ list[k].type = "StreamRequested" => Len(list) = 1 /\ ~Heard(list[k].stream_id)
          /\ list[k].type \in {"StreamAccepted", "StreamRejected", "StreamData"}
               => list[k].stream_id \in table

LEMMA WithLast ==
    ASSUME NEW S, NEW s \in Seq(S), NEW e \in S
    PROVE  /\ s \o <<e>> \in Seq(S) /\ DOMAIN (s \o <<e>>) = 1..(Len(s) + 1)
           /\ \A k \in 1..Len(s) : (s \o <<e>>)[k] = s[k]
           /\ (s \o <<e>>)[Len(s) + 1] = e
<1>1. s \o <<e>> = Append(s, e)
  BY AppendIsConcat
<1>2. Append(s, e) \in Seq(S) /\ Len(Append(s, e)) = Len(s) + 1
  BY AppendProperties
<1>3. DOMAIN Append(s, e) = 1..(Len(s) + 1)
  BY <1>2, LenProperties
<1>4. (\A k \in 1..Len(s) : Append(s, e)[k] = s[k]) /\ Append(s, e)[Len(s) + 1] = e
  BY AppendProperties
<1> QED
  BY <1>1, <1>2, <1>3, <1>4

LEMMA OneEvent ==
    ASSUME NEW e \in Event
    PROVE  <<e>> \in Seq(Event) /\ Len(<<e>>) = 1 /\ DOMAIN <<e>> = {1} /\ <<e>>[1] = e
  OBVIOUS

\* The streams of a lost connection are reported one by one, none left out.
LEMMA AllReported ==
    ASSUME PipelineTypeOK, IsFiniteSet(table), NEW order \in SetToSeqs(table)
    PROVE  LET list == [k \in DOMAIN order |-> EventOf("StreamClosed", order[k])]
                       \o <<EventOf("PeerDisconnected", Nothing)>>
           IN  /\ list \in Seq(Event)
               /\ \A k \in DOMAIN list : list[k].type \in {"StreamClosed", "PeerDisconnected"}
               /\ \A i \in table : Lists(list, EventOf("StreamClosed", i))
<1> DEFINE n == Cardinality(table)
           front == [k \in DOMAIN order |-> EventOf("StreamClosed", order[k])]
           last == <<EventOf("PeerDisconnected", Nothing)>>
<1>1. n \in Nat
  BY FS_CardinalityType
<1>2. order \in [1..n -> table] /\ \A k, l \in 1..n : k # l => order[k] # order[l]
  BY DEF SetToSeqs
<1>3. \A i \in table : \E k \in 1..n : order[k] = i
  <2>1. order \in Injection(1..n, table)
    BY <1>2 DEF Injection, IsInjective
  <2>2. IsFiniteSet(1..n) /\ Cardinality(1..n) = n
    BY <1>1, FS_Interval
  <2>3. order \in Surjection(1..n, table)
    BY <2>1, <2>2, FS_Injection
  <2> QED
    BY <2>3 DEF Surjection
<1>4. front \in Seq(Event) /\ Len(front) = n /\ DOMAIN front = 1..n
  <2>1. DOMAIN front = 1..n
    BY <1>2
  <2>2. \A k \in 1..n : front[k] \in Event
    BY <1>2 DEF EventOf, Event, PipelineTypeOK
  <2> QED
    BY <1>1, <2>1, <2>2
<1>5. EventOf("PeerDisconnected", Nothing) \in Event
  BY DEF EventOf, Event
<1>6. /\ front \o last \in Seq(Event) /\ DOMAIN (front \o last) = 1..(n + 1)
      /\ \A k \in 1..n : (front \o last)[k] = front[k]
      /\ (front \o last)[n + 1] = EventOf("PeerDisconnected", Nothing)
  <2> HIDE DEF front, n
  <2> QED
    BY <1>4, <1>5, WithLast
<1>7. \A k \in 1..n : front[k] = EventOf("StreamClosed", order[k])
  BY <1>2
<1>8. \A k \in 1..(n + 1) : (front \o last)[k].type \in {"StreamClosed", "PeerDisconnected"}
  <2> HIDE DEF front, last, n
  <2> TAKE k \in 1..(n + 1)
  <2>1. CASE k \in 1..n
    <3>1. (front \o last)[k] = EventOf("StreamClosed", order[k])
      BY <1>6, <1>7, <2>1
    <3> QED
      BY <3>1 DEF EventOf
  <2>2. CASE k = n + 1
    <3>1. (front \o last)[k] = EventOf("PeerDisconnected", Nothing)
      BY <1>6, <2>2
    <3> QED
      BY <3>1 DEF EventOf
  <2>3. k \in 1..n \/ k = n + 1
    BY <1>1
  <2> QED
    BY <2>1, <2>2, <2>3
<1>9. ASSUME NEW i \in table
      PROVE  Lists(front \o last, EventOf("StreamClosed", i))
  <2>1. PICK k \in 1..n : order[k] = i
    BY <1>3
  <2>2. k \in 1..(n + 1)
    BY <1>1
  <2> QED
    BY <1>6, <1>7, <2>1, <2>2 DEF Lists
<1> HIDE DEF front, last, n
<1>10. /\ front \o last \in Seq(Event)
       /\ \A k \in DOMAIN (front \o last) :
             (front \o last)[k].type \in {"StreamClosed", "PeerDisconnected"}
       /\ \A i \in table : Lists(front \o last, EventOf("StreamClosed", i))
  BY <1>6, <1>8, <1>9
<1> QED
  BY <1>10 DEF front, last

LEMMA SwarmSteps ==
    ASSUME PipelineTypeOK, IsFiniteSet(table), SwarmEvent
    PROVE  /\ \E list : SwarmStep(list)
           /\ PipelineTypeOK' /\ IsFiniteSet(table')
           /\ UNCHANGED <<running, requested, calls, handling>>
<1> SUFFICES ASSUME TRUE
             PROVE  /\ \E list : SwarmStep(list)
                    /\ connected' \in BOOLEAN /\ sessions' \in 0..MaxSessions
                    /\ table' \subseteq StreamId /\ heard' \subseteq StreamMessage \X StreamId
                    /\ IsFiniteSet(table')
  <2>1. PICK list : SwarmStep(list)
    OBVIOUS
  <2>2. outbox' \in Seq(Event)
    BY <2>1 DEF SwarmStep, Emits
  <2>3. UNCHANGED <<running, requested, calls, event_queue, forwarding, user_queue, handling>>
    BY <2>1 DEF SwarmStep, Emits
  <2> QED
    BY <2>1, <2>2, <2>3 DEF PipelineTypeOK, calls
<1> USE DEF PipelineTypeOK
<1>0. MaxSessions \in Nat /\ Inbound \subseteq StreamId /\ requested \subseteq StreamId
  BY Capacities DEF StreamId
<1>1. CASE ConnectionEstablished
  <2> DEFINE e == EventOf("PeerConnected", Nothing)
  <2>1. e \in Event /\ e.type = "PeerConnected"
    BY DEF EventOf, Event
  <2>2. /\ Emits(<<e>>) /\ table' = table /\ heard' = heard
        /\ connected' = TRUE /\ sessions' = sessions + 1 /\ sessions < MaxSessions
    BY <1>1 DEF ConnectionEstablished
  <2> HIDE DEF e
  <2>3. \A i \in StreamId : e # Request(i)
    BY <2>1 DEF Request, EventOf
  <2>4. SwarmStep(<<e>>)
    BY <2>1, <2>2, <2>3, OneEvent DEF SwarmStep, Lists, Heard
  <2>5. sessions' \in 0..MaxSessions
    BY <2>2, <1>0
  <2> QED
    BY <2>2, <2>4, <2>5
<1>2. CASE ConnectionClosed
  <2>1. PICK order \in SetToSeqs(table) :
            Emits([k \in DOMAIN order |-> EventOf("StreamClosed", order[k])]
                  \o <<EventOf("PeerDisconnected", Nothing)>>)
    BY <1>2 DEF ConnectionClosed
  <2> DEFINE list == [k \in DOMAIN order |-> EventOf("StreamClosed", order[k])]
                     \o <<EventOf("PeerDisconnected", Nothing)>>
  <2>2. /\ list \in Seq(Event)
        /\ \A k \in DOMAIN list : list[k].type \in {"StreamClosed", "PeerDisconnected"}
        /\ \A i \in table : Lists(list, EventOf("StreamClosed", i))
    BY AllReported
  <2>3. Emits(list) /\ connected' = FALSE /\ table' = {} /\ heard' = heard /\ sessions' = sessions
    BY <1>2, <2>1 DEF ConnectionClosed
  <2> HIDE DEF list
  <2>4. \A i \in StreamId : ~Lists(list, Request(i))
    BY <2>2 DEF Lists, Request, EventOf
  <2>5. SwarmStep(list)
    BY <2>2, <2>3, <2>4 DEF SwarmStep, Heard
  <2> QED
    BY <2>3, <2>5, FS_EmptySet
<1>3. CASE \E i \in Inbound : HearRequest(i)
  <2>1. PICK i \in Inbound : HearRequest(i)
    BY <1>3
  <2> DEFINE e == Request(i)
  <2>2. e \in Event /\ e.type = "StreamRequested" /\ e.stream_id = i
    BY DEF Request, EventOf, Event
  <2>3. \A j \in StreamId : e = Request(j) <=> j = i
    BY <2>2 DEF Request, EventOf
  <2>4. /\ Emits(<<e>>) /\ table' = table \cup {i} /\ UNCHANGED <<connected, sessions>>
        /\ <<"RequestStream", i>> \notin heard /\ heard' = heard \cup {<<"RequestStream", i>>}
    BY <2>1 DEF HearRequest, Hear, Request
  <2> HIDE DEF e
  <2>5. \A j \in StreamId : Heard(j)' <=> Heard(j) \/ j = i
    BY <2>4 DEF Heard
  <2>6. \A j \in StreamId : Lists(<<e>>, Request(j)) <=> j = i
    BY <2>2, <2>3, OneEvent DEF Lists
  <2>7. SwarmStep(<<e>>)
    BY <2>2, <2>4, <2>5, <2>6, OneEvent DEF SwarmStep, Heard
  <2>8. IsFiniteSet(table')
    BY <2>4, FS_AddElement
  <2>9. <<"RequestStream", i>> \in StreamMessage \X StreamId
    BY <1>0 DEF StreamMessage
  <2> QED
    BY <1>0, <2>4, <2>7, <2>8, <2>9
<1>4. ASSUME NEW i \in Inbound \cup requested, NEW message \in StreamMessage, NEW event,
             HearAnswer(message, event, i),
             \/ message = "AcceptStream" /\ event = "StreamAccepted"
             \/ message = "RejectStream" /\ event = "StreamRejected"
             \/ message = "StreamData" /\ event = "StreamData"
      PROVE  /\ \E list : SwarmStep(list)
             /\ table' \subseteq StreamId /\ heard' \subseteq StreamMessage \X StreamId
             /\ IsFiniteSet(table') /\ UNCHANGED <<connected, sessions>>
  <2> DEFINE e == EventOf(event, i)
  <2>1. i \in StreamId
    BY <1>0
  <2>2. e \in Event /\ e.type = event /\ e.stream_id = i /\ event # "StreamRequested"
    BY <1>4, <2>1 DEF EventOf, Event
  <2>3. /\ table' \subseteq table /\ (table' = table \/ (event = "StreamRejected" /\ table' = table \ {i}))
        /\ heard' = heard \cup {<<message, i>>} /\ message # "RequestStream"
        /\ UNCHANGED <<connected, sessions>>
    BY <1>4, <2>1 DEF HearAnswer, Hear
  <2>4. \A j \in StreamId : Heard(j)' <=> Heard(j)
    BY <2>3 DEF Heard
  <2>5. \E list : SwarmStep(list)
    <3> HIDE DEF e
    <3>1. CASE i \in table
      <4>1. Emits(<<e>>)
        BY <1>4, <3>1 DEF HearAnswer, e
      <4>2. /\ \A j \in StreamId : ~Lists(<<e>>, Request(j))
            /\ event = "StreamRejected" => Lists(<<e>>, EventOf("StreamRejected", i))
        BY <2>2, OneEvent DEF Lists, Request, EventOf, e
      <4>3. SwarmStep(<<e>>)
        BY <1>0, <2>1, <2>2, <2>3, <2>4, <3>1, <4>1, <4>2, OneEvent DEF SwarmStep
      <4> QED
        BY <4>3
    <3>2. CASE i \notin table
      <4>1. Emits(<<>>) /\ <<>> \in Seq(Event) /\ DOMAIN <<>> = {}
        BY <1>4, <3>2 DEF HearAnswer
      <4>2. SwarmStep(<<>>)
        BY <1>0, <2>3, <2>4, <3>2, <4>1 DEF SwarmStep, Lists
      <4> QED
        BY <4>2
    <3> QED
      BY <3>1, <3>2
  <2>6. IsFiniteSet(table') /\ heard' \subseteq StreamMessage \X StreamId
    BY <2>1, <2>3, FS_Subset
  <2> QED
    BY <2>3, <2>5, <2>6
<1>5. CASE \E i \in Inbound \cup requested : HearClose(i)
  <2>1. PICK i \in Inbound \cup requested : HearClose(i)
    BY <1>5
  <2> DEFINE e == EventOf("StreamClosed", i)
  <2>2. e \in Event /\ e.type = "StreamClosed" /\ i \in StreamId
    BY <1>0 DEF EventOf, Event
  <2>3. /\ Emits(<<e>>) /\ table' = table \ {i} /\ UNCHANGED <<connected, sessions>>
        /\ heard' = heard \cup {<<"CloseStream", i>>}
    BY <2>1 DEF HearClose, Hear
  <2>4. \A j \in StreamId : Heard(j)' <=> Heard(j)
    BY <2>3 DEF Heard
  <2>5. Lists(<<e>>, EventOf("StreamClosed", i))
    BY DEF Lists
  <2> HIDE DEF e
  <2>6. \A j \in StreamId : ~Lists(<<e>>, Request(j))
    BY <2>2, OneEvent DEF Lists, Request, EventOf
  <2>7. SwarmStep(<<e>>)
    BY <2>2, <2>3, <2>4, <2>5, <2>6, OneEvent DEF SwarmStep
  <2>8. IsFiniteSet(table') /\ heard' \subseteq StreamMessage \X StreamId
    BY <2>2, <2>3, FS_Subset DEF StreamMessage
  <2> QED
    BY <2>3, <2>7, <2>8
<1>6. {"AcceptStream", "RejectStream", "StreamData"} \subseteq StreamMessage
  BY DEF StreamMessage
<1> QED
  BY <1>1, <1>2, <1>3, <1>4, <1>5, <1>6 DEF SwarmEvent

-----------------------------------------------------------------------------
(* The loop, the application and their commands.                           *)

LEMMA EventTypes ==
    \A e \in Event :
        /\ \/ e.type \in {"PeerConnected", "PeerDisconnected"}
           \/ /\ e.type \in {"StreamRequested", "StreamAccepted", "StreamRejected", "StreamData",
                             "StreamClosed"}
              /\ e.stream_id \in StreamId
        /\ e.type = "StreamRequested" => e.stream_id \in Inbound /\ e = Request(e.stream_id)
<1> TAKE e \in Event
<1>1. CASE e \in [type : {"StreamRequested"}, stream_id : Inbound]
  <2>1. /\ e.type = "StreamRequested" /\ e.stream_id \in Inbound
        /\ e = [type |-> "StreamRequested", stream_id |-> e.stream_id]
    BY <1>1
  <2> QED
    BY <2>1 DEF StreamId, Request, EventOf
<1>2. CASE e \in [type : {"PeerConnected", "PeerDisconnected"}, stream_id : {Nothing}]
  BY <1>2
<1>3. CASE e \in [type : {"StreamAccepted", "StreamRejected", "StreamData", "StreamClosed"},
                  stream_id : StreamId]
  BY <1>3
<1> QED
  BY <1>1, <1>2, <1>3 DEF Event

\* The stream in the hands of the loop.
LEMMA StreamType ==
    ASSUME TypeOK, LoopFits
    PROVE  /\ at \notin {"idle", "read", "reading", "update", "updating", "done"}
                 => Stream \in StreamId
           /\ at \in {"accept", "accepting", "refuse", "refusing", "store"}
                 => Stream \in Inbound /\ handling = Request(Stream)
           /\ at # "idle" => handling \in Event /\ handling # Nothing
<1>1. at # "idle" => handling \in Event /\ handling # Nothing
  BY DEF TypeOK, PipelineTypeOK, LoopFits
<1>2. at \in LoopPoint
  BY DEF TypeOK
<1> QED
  BY <1>1, <1>2, EventTypes DEF LoopFits, LoopPoint, Stream

LEMMA CallsType ==
    ASSUME TypeOK, NEW i \in StreamId, NEW callback \in Callback, Calls(i, callback)
    PROVE  log' \in [StreamId -> Seq(Callback)]
<1>1. Append(log[i], callback) \in Seq(Callback)
  BY AppendProperties DEF TypeOK
<1> QED
  BY <1>1 DEF Calls, TypeOK

LEMMA CallbackType ==
    handling.type \in {"StreamAccepted", "StreamRejected", "StreamData", "StreamClosed"}
       => CallbackOf(handling) \in Callback
  BY DEF CallbackOf, Callback

LEMMA BeginFits ==
    ASSUME NEW e \in Event, NEW p \in Begin(e)
    PROVE  /\ p \in LoopPoint \ {"idle"}
           /\ \/ /\ p \in {"accept", "refuse"}
                 /\ e.type = "StreamRequested"
              \/ /\ p \in {"read", "done"}
                 /\ e.type \in {"PeerConnected", "PeerDisconnected"}
              \/ /\ p = "lock"
                 /\ e.type \in {"StreamAccepted", "StreamRejected", "StreamData",
                                "StreamClosed"}
<1>1. CASE e.type = "StreamRequested"
  <2>1. Begin(e) = {"accept", "refuse"}
    BY <1>1 DEF Begin
  <2>2. p \in {"accept", "refuse"}
    BY <2>1
  <2> QED
    BY <1>1, <2>2 DEF LoopPoint
<1>2. CASE e.type = "PeerConnected"
  <2>1. Begin(e) = {"read", "done"}
    BY <1>2 DEF Begin
  <2>2. p \in {"read", "done"}
    BY <2>1
  <2> QED
    BY <1>2, <2>2 DEF LoopPoint
<1>3. CASE e.type = "PeerDisconnected"
  <2>1. Begin(e) = {"done"}
    BY <1>3 DEF Begin
  <2>2. p = "done"
    BY <2>1
  <2> QED
    BY <1>3, <2>2 DEF LoopPoint
<1>4. CASE e.type \in {"StreamAccepted", "StreamRejected", "StreamData", "StreamClosed"}
  <2>1. Begin(e) = {"lock"}
    BY <1>4 DEF Begin
  <2> QED
    BY <1>4, <2>1 DEF LoopPoint
<1> QED
  BY <1>1, <1>2, <1>3, <1>4, EventTypes

\* The calls of the loop are well formed.
LEMMA LoopAskFits ==
    ASSUME TypeOK, LoopFits, NEW from, NEW to, NEW type, NEW i \in StreamId \cup {Nothing},
           LoopAsk(from, to, type, i),
           \/ type \in {"AcceptStream", "RejectStream", "SendStreamData", "CloseStream"}
                /\ i \in StreamId
           \/ type \in {"GetPeerContext", "UpdateSelfContext"} /\ i = Nothing
    PROVE  PipelineTypeOK'
<1>1. EventLoop \in Task
  BY TaskAssumption
<1>2. [type |-> type, by |-> EventLoop, stream_id |-> i] \in Command
  BY <1>1 DEF Command
<1>3. Ask(EventLoop, type, i) /\ UNCHANGED handling
  BY DEF LoopAsk
<1> QED
  BY <1>1, <1>2, <1>3, AskType DEF TypeOK

LEMMA LoopType ==
    ASSUME TypeOK, LoopFits, Loop
    PROVE  TypeOK' /\ LoopFits'
<1> USE StreamType
<1>0. {EventLoop, App} \subseteq Task /\ at \in LoopPoint /\ locked \in BOOLEAN
         /\ active_handlers \subseteq StreamId /\ PipelineTypeOK
  BY TaskAssumption DEF TypeOK
<1>1. CASE LoopReceive
  <2>1. Receive /\ at' \in Begin(handling')
           /\ UNCHANGED <<locked, active_handlers, log, refused, ApplicationState>>
    BY <1>1 DEF LoopReceive
  <2>2. PipelineTypeOK' /\ handling' \in Event /\ handling' # Nothing
    BY <1>0, <2>1, ReceiveType, EventAssumption
  <2>3. /\ at' \in LoopPoint \ {"idle"}
        /\ \/ /\ at' \in {"accept", "refuse"}
              /\ handling'.type = "StreamRequested"
           \/ /\ at' \in {"read", "done"}
              /\ handling'.type \in {"PeerConnected", "PeerDisconnected"}
           \/ /\ at' = "lock"
              /\ handling'.type \in {"StreamAccepted", "StreamRejected", "StreamData",
                                     "StreamClosed"}
    BY <2>1, <2>2, BeginFits
  <2>4. TypeOK'
    BY <2>1, <2>2, <2>3 DEF TypeOK, ApplicationState
  <2> QED
    BY <2>2, <2>3, <2>4 DEF LoopFits
<1>2. CASE LoopDisconnected
  <2>1. PipelineTypeOK'
    BY <1>0, <1>2, EndHandlingType DEF LoopDisconnected, EndHandling
  <2> QED
    BY <1>2, <2>1 DEF LoopDisconnected, EndHandling, TypeOK, LoopFits, LoopPoint,
                      ApplicationState
<1>3. CASE LoopAccept
  <2>1. PipelineTypeOK'
    BY <1>3, LoopAskFits DEF LoopAccept, LoopAsk
  <2> QED
    BY <1>3, <2>1 DEF LoopAccept, LoopAsk, TypeOK, LoopFits, LoopPoint, ApplicationState
<1>4. CASE LoopRefuse
  <2>1. PipelineTypeOK'
    BY <1>4, LoopAskFits DEF LoopRefuse, LoopAsk
  <2> QED
    BY <1>4, <2>1 DEF LoopRefuse, LoopAsk, TypeOK, LoopFits, LoopPoint, ApplicationState
<1>5. CASE LoopRead
  <2>1. PipelineTypeOK'
    BY <1>5, LoopAskFits DEF LoopRead, LoopAsk
  <2> QED
    BY <1>5, <2>1 DEF LoopRead, LoopAsk, TypeOK, LoopFits, LoopPoint, ApplicationState
<1>6. CASE LoopUpdate
  <2>1. PipelineTypeOK'
    BY <1>6, LoopAskFits DEF LoopUpdate, LoopAsk
  <2> QED
    BY <1>6, <2>1 DEF LoopUpdate, LoopAsk, TypeOK, LoopFits, LoopPoint, ApplicationState
<1>7. CASE LoopAccepted
  <2>1. PipelineTypeOK'
    BY <1>0, <1>7, ReturnsType DEF LoopAccepted, EndHandling
  <2>2. log' \in [StreamId -> Seq(Callback)]
    <3>1. Stream \in StreamId /\ "accepted" \in Callback
      BY <1>7 DEF LoopAccepted, Callback
    <3>2. Calls(Stream, "accepted") \/ UNCHANGED log
      BY <1>7 DEF LoopAccepted
    <3> QED
      BY <3>1, <3>2, CallsType DEF TypeOK
  <2> QED
    BY <1>7, <2>1, <2>2 DEF LoopAccepted, EndHandling, TypeOK, LoopFits, LoopPoint,
                            ApplicationState
<1>8. CASE LoopRefused
  <2>1. PipelineTypeOK'
    BY <1>0, <1>8, ReturnsType DEF LoopRefused, EndHandling
  <2> QED
    BY <1>8, <2>1 DEF LoopRefused, EndHandling, TypeOK, LoopFits, LoopPoint, ApplicationState
<1>9. CASE LoopStore
  <2>1. PipelineTypeOK'
    BY <1>0, <1>9, EndHandlingType DEF LoopStore, EndHandling
  <2> QED
    BY <1>9, <2>1 DEF LoopStore, EndHandling, TypeOK, LoopFits, LoopPoint, ApplicationState
<1>10. CASE LoopCallsHandler
  <2>1. PipelineTypeOK'
    BY <1>0, <1>10, EndHandlingType DEF LoopCallsHandler, EndHandling
  <2>2. log' \in [StreamId -> Seq(Callback)]
    <3>1. Stream \in StreamId /\ CallbackOf(handling) \in Callback
      BY <1>10, CallbackType DEF LoopCallsHandler
    <3>2. Calls(Stream, CallbackOf(handling)) \/ UNCHANGED log
      BY <1>10 DEF LoopCallsHandler
    <3> QED
      BY <3>1, <3>2, CallsType DEF TypeOK
  <2> QED
    BY <1>10, <2>1, <2>2 DEF LoopCallsHandler, EndHandling, TypeOK, LoopFits, LoopPoint,
                             ApplicationState
<1>11. CASE LoopEndsHandler
  <2>1. PipelineTypeOK'
    BY <1>0, <1>11, EndHandlingType DEF LoopEndsHandler, EndHandling
  <2>2. log' \in [StreamId -> Seq(Callback)]
    <3>1. Stream \in StreamId /\ CallbackOf(handling) \in Callback
      BY <1>11, CallbackType DEF LoopEndsHandler
    <3>2. Calls(Stream, CallbackOf(handling)) \/ UNCHANGED log
      BY <1>11 DEF LoopEndsHandler
    <3> QED
      BY <3>1, <3>2, CallsType DEF TypeOK
  <2> QED
    BY <1>11, <2>1, <2>2 DEF LoopEndsHandler, EndHandling, TypeOK, LoopFits, LoopPoint,
                             ApplicationState
<1>12. CASE LoopReply
  <2>1. PICK type \in {"SendStreamData", "CloseStream"} :
          LoopAsk("reply", "replying", type, Stream)
    BY <1>12 DEF LoopReply
  <2>2. PipelineTypeOK'
    BY <2>1, LoopAskFits DEF LoopAsk
  <2>3. Stream \in StreamId
    BY <2>1 DEF LoopAsk
  <2>4. closed_here' \subseteq StreamId /\ UNCHANGED <<app, opening>>
    BY <1>12, <2>3 DEF LoopReply, TypeOK
  <2> QED
    BY <2>1, <2>2, <2>4 DEF LoopAsk, TypeOK, LoopFits, LoopPoint
<1>13. CASE LoopReplied
  <2>1. PipelineTypeOK'
    BY <1>0, <1>13, ReturnsType DEF LoopReplied, EndHandling
  <2> QED
    BY <1>13, <2>1 DEF LoopReplied, EndHandling, TypeOK, LoopFits, LoopPoint, ApplicationState
<1>14. CASE LoopUpdated
  <2>1. PipelineTypeOK'
    BY <1>0, <1>14, ReturnsType DEF LoopUpdated, EndHandling
  <2> QED
    BY <1>14, <2>1 DEF LoopUpdated, EndHandling, TypeOK, LoopFits, LoopPoint, ApplicationState
<1> QED
  BY <1>1, <1>2, <1>3, <1>4, <1>5, <1>6, <1>7, <1>8, <1>9, <1>10, <1>11, <1>12, <1>13, <1>14
     DEF Loop

LEMMA ApplicationType ==
    ASSUME TypeOK, LoopFits, OpeningFits, Application
    PROVE  TypeOK' /\ LoopFits'
<1>0. {EventLoop, App} \subseteq Task /\ PipelineTypeOK
  BY TaskAssumption DEF TypeOK
<1>1. CASE AppRequest
  <2>1. [type |-> "RequestStream", by |-> App, stream_id |-> Nothing] \in Command
    BY <1>0 DEF Command
  <2>2. PipelineTypeOK'
    BY <1>0, <1>1, <2>1, AskType DEF AppRequest
  <2> QED
    BY <1>1, <2>2 DEF AppRequest, TypeOK, LoopState, LoopFits
<1>2. CASE AppRequested
  <2>1. PipelineTypeOK'
    BY <1>0, <1>2, ReturnsType DEF AppRequested
  <2>2. opening' \in Outbound \cup {Nothing}
    BY <1>2 DEF AppRequested, OpeningFits, TypeOK, PipelineTypeOK
  <2> QED
    BY <1>2, <2>1, <2>2 DEF AppRequested, TypeOK, LoopState, LoopFits
<1>3. CASE AppStore
  <2>1. PipelineTypeOK'
    BY <1>0, <1>3 DEF AppStore, PipelineTypeOK, pipeline, runtime, calls, queues
  <2>2. opening \in Outbound
    BY <1>3 DEF AppStore, OpeningFits, TypeOK
  <2> QED
    BY <1>3, <2>1, <2>2 DEF AppStore, TypeOK, LoopState, LoopFits, StreamId, pipeline
<1>4. CASE AppClosed
  <2>1. PipelineTypeOK'
    BY <1>0, <1>4, ReturnsType DEF AppClosed
  <2> QED
    BY <1>4, <2>1 DEF AppClosed, TypeOK, LoopState, LoopFits
<1>5. ASSUME NEW i \in StreamId, AppClose(i)
      PROVE  TypeOK' /\ LoopFits'
  <2>1. [type |-> "CloseStream", by |-> App, stream_id |-> i] \in Command
    BY <1>0 DEF Command
  <2>2. PipelineTypeOK'
    BY <1>0, <1>5, <2>1, AskType DEF AppClose
  <2> QED
    BY <1>5, <2>2 DEF AppClose, TypeOK, LoopState, LoopFits
<1> QED
  BY <1>1, <1>2, <1>3, <1>4, <1>5 DEF Application

LEMMA TasksType ==
    ASSUME TypeOK, LoopFits, IsFiniteSet(table), Tasks, UNCHANGED device
    PROVE  TypeOK' /\ LoopFits'
<1>1. PipelineTypeOK' /\ UNCHANGED handling
  BY SwarmSteps, TakeCommandType, ShutdownType, QueueStepType
     DEF Tasks, TypeOK, TakeCommand, SendEvent, Shutdown, Forward, Deliver
<1> QED
  BY <1>1 DEF TypeOK, LoopFits, device

-----------------------------------------------------------------------------
(* Commands and their callers.                                             *)

\* A caller that is not waiting has no command in the queue: it is free to move.
LEMMA CommandsKept ==
    ASSUME CommandsFit, command_queue' = command_queue, closed_here \subseteq closed_here',
           \/ ~LoopWaits \/ answer[EventLoop].result # "Awaited"
           \/ UNCHANGED <<at, handling>> /\ answer'[EventLoop] = answer[EventLoop],
           \/ app \notin {"requesting", "closing"} \/ answer[App].result # "Awaited"
           \/ UNCHANGED app /\ answer'[App] = answer[App]
    PROVE  CommandsFit'
<1> SUFFICES ASSUME NEW k \in DOMAIN command_queue
             PROVE  CommandFits(command_queue[k])'
  BY DEF CommandsFit
<1> DEFINE c == command_queue[k]
<1>1. CommandFits(c) /\ c' = c
  BY DEF CommandsFit
<1> HIDE DEF c
<1>2. CASE c.by = EventLoop
  <2>1. UNCHANGED <<at, handling>> /\ answer'[EventLoop] = answer[EventLoop]
    BY <1>1, <1>2 DEF CommandFits
  <2>2. c.by # App
    BY <1>2, TaskAssumption
  <2> QED
    BY <1>1, <1>2, <2>1, <2>2 DEF CommandFits, LoopWaits, Stream, c
<1>3. CASE c.by = App
  <2>1. UNCHANGED app /\ answer'[App] = answer[App]
    BY <1>1, <1>3 DEF CommandFits
  <2>2. c.by # EventLoop /\ c.type \in {"RequestStream", "CloseStream"}
    BY <1>1, <1>3, TaskAssumption DEF CommandFits
  <2> QED
    BY <1>1, <1>3, <2>1, <2>2 DEF CommandFits, c
<1> QED
  BY <1>1, <1>2, <1>3 DEF CommandFits

\* A command that fits joins the others.
LEMMA CommandAsked ==
    ASSUME TypeOK, CommandsFit, NEW t \in {EventLoop, App}, NEW type, NEW i,
           Ask(t, type, i), closed_here \subseteq closed_here',
           t = App \/ UNCHANGED app, t = EventLoop \/ UNCHANGED <<at, handling>>,
           running => CommandFits([type |-> type, by |-> t, stream_id |-> i])'
    PROVE  CommandsFit'
<1> DEFINE c == [type |-> type, by |-> t, stream_id |-> i]
<1>0. t \in Task /\ EventLoop # App /\ {EventLoop, App} \subseteq Task
  BY TaskAssumption
<1>1. /\ answer[t].result # "Awaited"
      /\ \A u \in {EventLoop, App} : u # t => answer'[u] = answer[u]
  BY <1>0 DEF Ask, NoAnswer, Answered, TypeOK, PipelineTypeOK
<1>2. ASSUME NEW k \in DOMAIN command_queue
      PROVE  /\ command_queue[k].by # t
             /\ CommandFits(command_queue[k]) => (CommandFits(command_queue[k]))'
                  \/ command_queue'[k] # command_queue[k]
  <2> DEFINE d == command_queue[k]
  <2>1. CommandFits(d) /\ d.by # t
    BY <1>1 DEF CommandsFit, CommandFits
  <2> SUFFICES ASSUME d' = d PROVE CommandFits(d)'
    BY <2>1
  <2> HIDE DEF d
  <2>2. CASE t = App
    <3>1. d.by = EventLoop /\ UNCHANGED <<at, handling>> /\ answer'[EventLoop] = answer[EventLoop]
      BY <1>0, <1>1, <2>1, <2>2 DEF CommandFits
    <3> QED
      BY <1>0, <2>1, <3>1 DEF CommandFits, LoopWaits, Stream
  <2>3. CASE t = EventLoop
    <3>1. d.by = App /\ UNCHANGED app /\ answer'[App] = answer[App]
      BY <1>0, <1>1, <2>1, <2>3 DEF CommandFits
    <3> QED
      BY <1>0, <2>1, <3>1 DEF CommandFits
  <2> QED
    BY <2>2, <2>3
<1>3. CASE ~running
  <2>1. command_queue' = command_queue
    BY <1>3 DEF Ask
  <2> QED
    BY <1>2, <2>1 DEF CommandsFit
<1>4. CASE running
  <2>1. command_queue' = Append(command_queue, c) /\ CommandFits(c)'
    BY <1>4 DEF Ask
  <2> DEFINE n == Len(command_queue)
  <2>2. /\ n \in Nat /\ DOMAIN command_queue = 1..n /\ DOMAIN command_queue' = 1..(n + 1)
        /\ \A k \in 1..n : command_queue'[k] = command_queue[k]
        /\ command_queue'[n + 1] = c
    BY <2>1 DEF TypeOK, PipelineTypeOK
  <2> HIDE DEF n
  <2>3. c.by = t
    OBVIOUS
  <2> HIDE DEF c
  <2>4. ASSUME NEW k \in 1..(n + 1)
        PROVE  CommandFits(command_queue[k])'
    <3>1. CASE k \in 1..n
      BY <1>2, <2>2, <3>1 DEF CommandsFit
    <3>2. CASE k = n + 1
      BY <2>1, <2>2, <3>2
    <3>3. k \in 1..n \/ k = n + 1
      BY <2>2
    <3> QED
      BY <3>1, <3>2, <3>3
  <2>5. ASSUME NEW k \in 1..(n + 1), NEW l \in 1..(n + 1),
               command_queue'[l].by = command_queue'[k].by
        PROVE  l = k
    <3>1. (k \in 1..n \/ k = n + 1) /\ (l \in 1..n \/ l = n + 1)
      BY <2>2
    <3>2. \A m \in 1..n : command_queue'[m].by # t
      BY <1>2, <2>2
    <3>3. command_queue'[n + 1].by = t
      BY <2>2, <2>3
    <3>4. k \in 1..n /\ l \in 1..n => command_queue[l].by = command_queue[k].by
      BY <2>2, <2>5
    <3> QED
      BY <2>2, <2>5, <3>1, <3>2, <3>3, <3>4 DEF CommandsFit
  <2> QED
    BY <2>2, <2>4, <2>5 DEF CommandsFit
<1> QED
  BY <1>3, <1>4

\* The runtime takes the first command; the others are of other callers.
LEMMA CommandTaken ==
    ASSUME TypeOK, CommandsFit, TakeCommand, UNCHANGED device
    PROVE  CommandsFit'
<1> DEFINE n == Len(command_queue)
           h == Head(command_queue)
<1>1. /\ n \in Nat /\ DOMAIN command_queue = 1..n /\ n > 0 /\ h = command_queue[1]
      /\ DOMAIN command_queue' = 1..(n - 1)
      /\ \A k \in 1..(n - 1) : command_queue'[k] = command_queue[k + 1]
  BY DEF TakeCommand, TypeOK, PipelineTypeOK
<1>2. h.by \in Task /\ \E a : answer' = [answer EXCEPT ![h.by] = a]
  <2>1. h \in Command
    BY HeadTailType DEF TakeCommand, TypeOK, PipelineTypeOK
  <2> QED
    BY <2>1 DEF TakeCommand, Command
<1> HIDE DEF n, h
<1>3. ASSUME NEW k \in 1..(n - 1)
      PROVE  CommandFits(command_queue[k])'
  <2> DEFINE d == command_queue[k + 1]
  <2>1. k + 1 \in 1..n /\ 1 \in 1..n /\ k + 1 # 1
    BY <1>1
  <2>2. CommandFits(d) /\ d.by # h.by
    BY <1>1, <2>1 DEF CommandsFit
  <2>3. command_queue'[k] = d
    BY <1>1
  <2> HIDE DEF d
  <2>4. d.by \in Task /\ answer'[d.by] = answer[d.by]
    BY <1>2, <2>2, TaskAssumption DEF TypeOK, PipelineTypeOK, CommandFits
  <2>5. UNCHANGED <<at, handling, app, closed_here>>
    BY DEF TakeCommand, device
  <2> QED
    BY <2>2, <2>3, <2>4, <2>5 DEF CommandFits, LoopWaits, Stream
<1>4. ASSUME NEW k \in 1..(n - 1), NEW l \in 1..(n - 1),
             command_queue'[l].by = command_queue'[k].by
      PROVE  l = k
  <2>1. k + 1 \in 1..n /\ l + 1 \in 1..n
    BY <1>1
  <2>2. command_queue[l + 1].by = command_queue[k + 1].by
    BY <1>1, <1>4
  <2>3. l + 1 = k + 1
    BY <1>1, <2>1, <2>2 DEF CommandsFit
  <2> QED
    BY <2>3
<1> QED
  BY <1>1, <1>3, <1>4 DEF CommandsFit

\* What no step of the loop touches.
LEMMA LoopFrame ==
    ASSUME TypeOK, Loop
    PROVE  /\ UNCHANGED <<runtime, app, opening>> /\ answer'[App] = answer[App]
           /\ closed_here \subseteq closed_here'
<1>1. ASSUME Returns(EventLoop) PROVE UNCHANGED runtime /\ answer'[App] = answer[App]
  BY <1>1, TaskAssumption DEF Returns, TypeOK, PipelineTypeOK
<1>2. ASSUME NEW type, NEW i, Ask(EventLoop, type, i)
      PROVE  UNCHANGED runtime /\ answer'[App] = answer[App]
  BY <1>2, TaskAssumption DEF Ask, TypeOK, PipelineTypeOK
<1>3. CASE LoopReceive
  BY <1>3 DEF LoopReceive, Receive, calls, ApplicationState
<1>4. CASE LoopDisconnected \/ LoopStore \/ LoopCallsHandler \/ LoopEndsHandler
  BY <1>4 DEF LoopDisconnected, LoopStore, LoopCallsHandler, LoopEndsHandler, calls,
              ApplicationState
<1>5. CASE LoopAccept \/ LoopRefuse \/ LoopRead \/ LoopUpdate
  BY <1>2, <1>5 DEF LoopAccept, LoopRefuse, LoopRead, LoopUpdate, LoopAsk, ApplicationState
<1>6. CASE LoopReply
  BY <1>2, <1>6 DEF LoopReply, LoopAsk
<1>7. CASE LoopAccepted \/ LoopRefused \/ LoopReplied \/ LoopUpdated
  BY <1>1, <1>7 DEF LoopAccepted, LoopRefused, LoopReplied, LoopUpdated, ApplicationState
<1> QED
  BY <1>3, <1>4, <1>5, <1>6, <1>7 DEF Loop

LEMMA LoopCommandAsked ==
    ASSUME TypeOK, CommandsFit, NEW from, NEW to, NEW type, NEW i, LoopAsk(from, to, type, i),
           closed_here \subseteq closed_here', UNCHANGED app,
           to \in {"accepting", "refusing", "replying", "reading", "updating"},
           type # "RequestStream",
           type = "RejectStream" => to = "refusing" /\ i = Stream,
           to = "accepting" => type = "AcceptStream" /\ i = Stream,
           type = "CloseStream" => i \in closed_here'
    PROVE  CommandsFit'
<1> DEFINE c == [type |-> type, by |-> EventLoop, stream_id |-> i]
<1>1. c.type = type /\ c.by = EventLoop /\ c.stream_id = i
  OBVIOUS
<1> HIDE DEF c
<1>2. /\ Ask(EventLoop, type, i) /\ at' = to /\ handling' = handling
  BY DEF LoopAsk
<1>3. running => answer'[EventLoop].result = "Awaited"
  BY <1>2, TaskAssumption DEF Ask, TypeOK, PipelineTypeOK, Answered
<1>4. running => CommandFits(c)'
  BY <1>1, <1>2, <1>3, TaskAssumption DEF CommandFits, LoopWaits, Stream, c
<1> QED
  BY <1>2, <1>4, CommandAsked DEF c

LEMMA LoopCommands ==
    ASSUME TypeOK, LoopFits, CommandsFit, OpeningFits, Loop
    PROVE  CommandsFit' /\ OpeningFits'
<1>0. /\ UNCHANGED <<app, opening>> /\ answer'[App] = answer[App]
      /\ closed_here \subseteq closed_here' /\ UNCHANGED runtime
  BY LoopFrame
<1>1. OpeningFits'
  BY <1>0 DEF OpeningFits, runtime
<1>2. CASE LoopReceive
  <2>1. command_queue' = command_queue /\ ~LoopWaits
    BY <1>2 DEF LoopReceive, Receive, calls, LoopFits, LoopWaits
  <2> QED
    BY <1>0, <1>1, <2>1, CommandsKept
<1>3. CASE LoopDisconnected \/ LoopStore \/ LoopCallsHandler \/ LoopEndsHandler
  <2>1. command_queue' = command_queue /\ ~LoopWaits
    BY <1>3 DEF LoopDisconnected, LoopStore, LoopCallsHandler, LoopEndsHandler, calls, LoopWaits
  <2> QED
    BY <1>0, <1>1, <2>1, CommandsKept
<1>4. CASE LoopAccept \/ LoopRefuse \/ LoopRead \/ LoopUpdate
  <2>1. CASE LoopAccept
    BY <1>0, <1>1, <2>1, LoopCommandAsked DEF LoopAccept
  <2>2. CASE LoopRefuse
    BY <1>0, <1>1, <2>2, LoopCommandAsked DEF LoopRefuse
  <2>3. CASE LoopRead
    BY <1>0, <1>1, <2>3, LoopCommandAsked DEF LoopRead
  <2>4. CASE LoopUpdate
    BY <1>0, <1>1, <2>4, LoopCommandAsked DEF LoopUpdate
  <2> QED
    BY <1>1, <1>4, <2>1, <2>2, <2>3, <2>4
<1>5. CASE LoopReply
  <2>1. PICK type \in {"SendStreamData", "CloseStream"} :
          /\ LoopAsk("reply", "replying", type, Stream)
          /\ type = "CloseStream" => Stream \in closed_here'
    BY <1>5 DEF LoopReply
  <2> QED
    BY <1>0, <1>1, <2>1, LoopCommandAsked
<1>6. CASE LoopAccepted \/ LoopRefused \/ LoopReplied \/ LoopUpdated
  <2>1. Returns(EventLoop)
    BY <1>6 DEF LoopAccepted, LoopRefused, LoopReplied, LoopUpdated
  <2>2. command_queue' = command_queue /\ answer[EventLoop].result # "Awaited"
    BY <2>1 DEF Returns
  <2> QED
    BY <1>0, <1>1, <2>2, CommandsKept
<1> QED
  BY <1>1, <1>2, <1>3, <1>4, <1>5, <1>6 DEF Loop

\* What no step of the application touches.
LEMMA ApplicationFrame ==
    ASSUME TypeOK, Application
    PROVE  /\ UNCHANGED <<runtime, queues, handling, LoopState>>
           /\ answer'[EventLoop] = answer[EventLoop]
           /\ closed_here \subseteq closed_here'
<1>1. ASSUME Returns(App) PROVE UNCHANGED <<runtime, queues>> /\ answer'[EventLoop] = answer[EventLoop]
  BY <1>1, TaskAssumption DEF Returns, TypeOK, PipelineTypeOK
<1>2. ASSUME NEW type, NEW i, Ask(App, type, i)
      PROVE  UNCHANGED <<runtime, queues>> /\ answer'[EventLoop] = answer[EventLoop]
  BY <1>2, TaskAssumption DEF Ask, TypeOK, PipelineTypeOK
<1>3. CASE AppRequest
  BY <1>2, <1>3 DEF AppRequest
<1>4. CASE AppRequested \/ AppClosed
  BY <1>1, <1>4 DEF AppRequested, AppClosed
<1>5. CASE AppStore
  BY <1>5 DEF AppStore, pipeline, calls
<1>6. ASSUME NEW i \in StreamId, AppClose(i)
      PROVE  /\ UNCHANGED <<runtime, queues, handling, LoopState>>
             /\ answer'[EventLoop] = answer[EventLoop]
             /\ closed_here \subseteq closed_here'
  BY <1>2, <1>6 DEF AppClose
<1> QED
  BY <1>3, <1>4, <1>5, <1>6 DEF Application

LEMMA ApplicationCommands ==
    ASSUME TypeOK, LoopFits, CommandsFit, OpeningFits, Application
    PROVE  CommandsFit' /\ OpeningFits'
<1>0. /\ UNCHANGED <<handling, at>> /\ answer'[EventLoop] = answer[EventLoop]
      /\ closed_here \subseteq closed_here' /\ EventLoop # App /\ App \in Task
      /\ requested' = requested
  BY ApplicationFrame, TaskAssumption DEF LoopState, runtime
<1>1. CASE AppRequest
  <2> DEFINE c == [type |-> "RequestStream", by |-> App, stream_id |-> Nothing]
  <2>1. c.type = "RequestStream" /\ c.by = App
    OBVIOUS
  <2>2. /\ Ask(App, "RequestStream", Nothing) /\ app = "idle" /\ app' = "requesting"
        /\ opening' = opening
    BY <1>1 DEF AppRequest
  <2>3. /\ running => answer'[App].result = "Awaited"
        /\ answer'[App].result # "Ok"
    BY <1>0, <2>2 DEF Ask, TypeOK, PipelineTypeOK, Answered
  <2> HIDE DEF c
  <2>4. running => CommandFits(c)'
    BY <1>0, <2>1, <2>2, <2>3 DEF CommandFits
  <2>5. CommandsFit'
    BY <1>0, <2>2, <2>4, CommandAsked DEF c
  <2> QED
    BY <1>0, <2>2, <2>3, <2>5 DEF OpeningFits
<1>2. CASE AppRequested
  <2>1. Returns(App) /\ command_queue' = command_queue /\ answer[App].result # "Awaited"
    BY <1>2 DEF AppRequested, Returns
  <2>2. CommandsFit'
    BY <1>0, <2>1, CommandsKept
  <2>3. answer[App].result = "Ok" => answer[App].stream_id # Nothing
    BY <1>2, IdAssumption DEF AppRequested, OpeningFits, TypeOK, PipelineTypeOK
  <2> QED
    BY <1>0, <1>2, <2>2, <2>3 DEF AppRequested, OpeningFits
<1>3. CASE AppStore
  <2>1. command_queue' = command_queue /\ app \notin {"requesting", "closing"}
    BY <1>3 DEF AppStore, pipeline, calls
  <2>2. CommandsFit'
    BY <1>0, <2>1, CommandsKept
  <2> QED
    BY <1>0, <1>3, <2>2 DEF AppStore, OpeningFits
<1>4. CASE AppClosed
  <2>1. Returns(App) /\ command_queue' = command_queue /\ answer[App].result # "Awaited"
    BY <1>4 DEF AppClosed, Returns
  <2>2. CommandsFit'
    BY <1>0, <2>1, CommandsKept
  <2> QED
    BY <1>0, <1>4, <2>2 DEF AppClosed, OpeningFits
<1>5. ASSUME NEW i \in StreamId, AppClose(i)
      PROVE  CommandsFit' /\ OpeningFits'
  <2> DEFINE c == [type |-> "CloseStream", by |-> App, stream_id |-> i]
  <2>1. c.type = "CloseStream" /\ c.by = App /\ c.stream_id = i
    OBVIOUS
  <2>2. /\ Ask(App, "CloseStream", i) /\ app = "idle" /\ app' = "closing"
        /\ opening' = opening /\ i \in closed_here'
    BY <1>5 DEF AppClose
  <2>3. running => answer'[App].result = "Awaited"
    BY <1>0, <2>2 DEF Ask, TypeOK, PipelineTypeOK, Answered
  <2> HIDE DEF c
  <2>4. running => CommandFits(c)'
    BY <1>0, <2>1, <2>2, <2>3 DEF CommandFits
  <2>5. CommandsFit'
    BY <1>0, <2>2, <2>4, CommandAsked DEF c
  <2> QED
    BY <1>0, <2>2, <2>5 DEF OpeningFits
<1> QED
  BY <1>1, <1>2, <1>3, <1>4, <1>5 DEF Application

LEMMA TasksCommands ==
    ASSUME TypeOK, IsFiniteSet(table), CommandsFit, OpeningFits, Tasks, UNCHANGED device
    PROVE  CommandsFit' /\ OpeningFits'
<1>0. App \in Task
  BY TaskAssumption
<1>1. CASE TakeCommand
  <2> DEFINE c == Head(command_queue)
  <2>1. /\ c \in Command /\ CommandFits(c)
    BY <1>1, HeadTailType DEF TakeCommand, TypeOK, PipelineTypeOK, CommandsFit
  <2>4. requested \subseteq requested'
    BY <1>1 DEF TakeCommand
  <2>2. CASE app = "requesting" /\ c.by = App
    <3>1. c.type = "RequestStream"
      BY <2>1, <2>2 DEF CommandFits
    <3>2. \/ answer' = [answer EXCEPT ![App] = Answered("Err", Nothing)]
          \/ \E i \in requested' : answer' = [answer EXCEPT ![App] = Answered("Ok", i)]
      BY <1>1, <2>2, <3>1 DEF TakeCommand
    <3>3. answer'[App].result = "Ok" => answer'[App].stream_id \in requested'
      BY <1>0, <3>2 DEF Answered, TypeOK, PipelineTypeOK
    <3> QED
      BY <1>1, <2>4, <3>3, CommandTaken DEF OpeningFits, device
  <2>3. CASE app # "requesting"
    BY <1>1, <2>3, <2>4, CommandTaken DEF OpeningFits, device
  <2>5. CASE c.by # App
    <3>1. c.by \in Task /\ \E a : answer' = [answer EXCEPT ![c.by] = a]
      BY <1>1, <2>1 DEF TakeCommand, Command
    <3>2. answer'[App] = answer[App]
      BY <1>0, <2>5, <3>1 DEF TypeOK, PipelineTypeOK
    <3> QED
      BY <1>1, <2>4, <3>2, CommandTaken DEF OpeningFits, device
  <2> QED
    BY <2>2, <2>3, <2>5
<1>2. CASE Shutdown
  <2>1. command_queue' = <<>> /\ UNCHANGED <<app, opening, requested>>
    BY <1>2 DEF Shutdown, device
  <2>2. answer'[App].result = "Ok" => answer'[App] = answer[App]
    BY <1>0, <1>2 DEF Shutdown, Answered, TypeOK, PipelineTypeOK
  <2> QED
    BY <2>1, <2>2 DEF CommandsFit, OpeningFits
<1>3. CASE SwarmEvent \/ SendEvent \/ Forward \/ Deliver
  <2>1. UNCHANGED <<calls, handling, requested>>
    BY <1>3, SwarmSteps DEF SendEvent, Forward, Deliver, TypeOK, runtime
  <2> QED
    BY <2>1, CommandsKept DEF OpeningFits, calls, device
<1> QED
  BY <1>1, <1>2, <1>3 DEF Tasks

-----------------------------------------------------------------------------
(* The events on their way stay in order.                                  *)

SettledKept == \A i \in Theirs : Settled(i) => Settled(i)'

LEMMA PipeIndices ==
    ASSUME PipelineTypeOK
    PROVE  /\ Len(Pipe) \in Nat /\ DOMAIN Pipe = 1..Len(Pipe)
           /\ \A k \in 1..Len(Pipe) : Pipe[k] \in Event
<1>1. Pipe \in Seq(Event)
  BY PipeType
<1> QED
  BY <1>1, LenProperties, ElementOfSeq

LEMMA SameFits ==
    ASSUME PipeFits, Pipe' = Pipe, SettledKept, requested \subseteq requested', heard' = heard
    PROVE  PipeFits'
<1>1. RequestsComeOnce'
  BY DEF PipeFits, RequestsComeOnce
<1>2. RequestsWereHeard'
  BY DEF PipeFits, RequestsWereHeard, Underway, Request, EventOf, Heard
<1>3. AnswersFollowRequest'
  BY DEF PipeFits, AnswersFollowRequest, SettledKept, Request, EventOf, Theirs
<1> QED
  BY <1>1, <1>2, <1>3 DEF PipeFits

\* The first event is handled to its end.
Drops == Pipe # <<>> /\ Head(Pipe) = handling /\ Pipe' = Tail(Pipe)

LEMMA DropIndices ==
    ASSUME PipelineTypeOK, Drops
    PROVE  /\ Len(Pipe) \in Nat /\ Len(Pipe) > 0 /\ DOMAIN Pipe = 1..Len(Pipe)
           /\ DOMAIN Pipe' = 1..(Len(Pipe) - 1)
           /\ \A k \in 1..(Len(Pipe) - 1) : Pipe'[k] = Pipe[k + 1]
           /\ Pipe[1] = handling
<1> DEFINE q == Pipe
<1>1. q \in Seq(Event) /\ q # <<>>
  BY PipeType DEF Drops
<1>2. /\ Len(q) \in Nat /\ Len(q) > 0 /\ DOMAIN q = 1..Len(q)
      /\ DOMAIN Tail(q) = 1..(Len(q) - 1)
      /\ \A k \in 1..(Len(q) - 1) : Tail(q)[k] = q[k + 1]
      /\ Head(q) = q[1]
  <2> HIDE DEF q
  <2> QED
    BY <1>1
<1> QED
  BY <1>2 DEF Drops

LEMMA DropFits ==
    ASSUME PipelineTypeOK, PipeFits, Drops, SettledKept, UNCHANGED <<requested, heard>>,
           \A i \in Theirs : handling = Request(i) => Settled(i)'
    PROVE  PipeFits'
<1> DEFINE n == Len(Pipe)
<1>1. /\ n \in Nat /\ n > 0 /\ DOMAIN Pipe = 1..n /\ DOMAIN Pipe' = 1..(n - 1)
      /\ \A k \in 1..(n - 1) : Pipe'[k] = Pipe[k + 1]
      /\ Pipe[1] = handling
  BY DropIndices
<1> HIDE DEF n
<1>2. \A k \in 1..(n - 1) : k + 1 \in 1..n
  BY <1>1
<1>3. RequestsComeOnce'
  <2> SUFFICES ASSUME NEW k \in 1..(n - 1), NEW l \in 1..(n - 1),
                      Pipe'[k].type = "StreamRequested", Pipe'[l] = Pipe'[k]
               PROVE  l = k
    BY <1>1 DEF RequestsComeOnce
  <2>1. l + 1 = k + 1
    BY <1>1, <1>2 DEF PipeFits, RequestsComeOnce
  <2> QED
    BY <2>1
<1>4. RequestsWereHeard'
  <2> SUFFICES ASSUME NEW i \in StreamId, NEW k \in 1..(n - 1), Pipe'[k] = Request(i)
               PROVE  Heard(i)
    BY <1>1 DEF RequestsWereHeard, Underway, Heard, Request, EventOf
  <2> QED
    BY <1>1, <1>2 DEF PipeFits, RequestsWereHeard, Underway
<1>5. AnswersFollowRequest'
  <2> SUFFICES ASSUME NEW k \in 1..(n - 1),
                      Pipe'[k].type \in {"StreamAccepted", "StreamRejected", "StreamData"},
                      Pipe'[k].stream_id \in Theirs, ~(Settled(Pipe[k].stream_id))'
               PROVE  \E l \in 1..(k - 1) : Pipe'[l] = Request(Pipe'[k].stream_id)
    BY <1>1, ClassesKept DEF AnswersFollowRequest, Request, EventOf
  <2>0. PICK i \in Theirs : i = Pipe'[k].stream_id
    OBVIOUS
  <2>1. /\ Pipe'[k].stream_id = i /\ Pipe[k + 1].stream_id = i
        /\ Pipe[k + 1].type \in {"StreamAccepted", "StreamRejected", "StreamData"}
    BY <1>1, <2>0
  <2>2. ~Settled(i)' /\ ~Settled(i)
    BY <2>1 DEF SettledKept, Settled, Ended
  <2>3. k + 1 \in 1..n /\ (k + 1) - 1 = k /\ k \in Nat
    BY <1>1
  <2>4. PICK l \in 1..k : Pipe[l] = Request(i)
    BY <1>1, <2>1, <2>2, <2>3 DEF PipeFits, AnswersFollowRequest
  <2>5. l # 1
    <3> SUFFICES ASSUME l = 1 PROVE FALSE
      OBVIOUS
    <3>1. handling = Request(i)
      BY <1>1, <2>4
    <3>2. Settled(i)'
      BY <3>1
    <3> QED
      BY <2>2, <3>2
  <2>6. l - 1 \in 1..(k - 1) /\ l - 1 \in 1..(n - 1) /\ (l - 1) + 1 = l
    BY <1>1, <2>3, <2>5
  <2>7. Pipe'[l - 1] = Request(i)
    BY <1>1, <2>4, <2>6
  <2> QED
    BY <2>1, <2>6, <2>7
<1> QED
  BY <1>3, <1>4, <1>5 DEF PipeFits

\* What was not sent when the runtime stopped will never come.
LEMMA CutFits ==
    ASSUME PipelineTypeOK, PipeFits, Shutdown, SettledKept
    PROVE  /\ PipeFits'
           /\ \A e : Underway(e)' => Underway(e)
<1> DEFINE q == Pipe
           r == Pipe'
<1>1. q = r \o outbox /\ r \in Seq(Event) /\ outbox \in Seq(Event)
  BY ShutdownTruncates DEF PipelineTypeOK
<1>2. /\ Len(r) \in Nat /\ Len(q) \in Nat /\ Len(r) <= Len(q)
      /\ DOMAIN r = 1..Len(r) /\ DOMAIN q = 1..Len(q)
      /\ \A k \in 1..Len(r) : r[k] = q[k]
  <2> HIDE DEF q, r
  <2> QED
    BY <1>1
<1>3. /\ \A k \in DOMAIN Pipe' : k \in DOMAIN Pipe /\ Pipe'[k] = Pipe[k]
      /\ \A k \in DOMAIN Pipe' : k \in Nat /\ \A l \in 1..(k - 1) : l \in DOMAIN Pipe'
  BY <1>2
<1>4. UNCHANGED <<requested, heard>>
  BY DEF Shutdown
<1>5. RequestsComeOnce'
  BY <1>3 DEF PipeFits, RequestsComeOnce
<1>6. RequestsWereHeard'
  BY <1>3, <1>4 DEF PipeFits, RequestsWereHeard, Underway, Heard, Request, EventOf
<1>7. AnswersFollowRequest'
  <2> SUFFICES ASSUME NEW k \in DOMAIN Pipe',
                      Pipe'[k].type \in {"StreamAccepted", "StreamRejected", "StreamData"},
                      Pipe'[k].stream_id \in Theirs, ~(Settled(Pipe[k].stream_id))'
               PROVE  \E l \in 1..(k - 1) : Pipe'[l] = Request(Pipe'[k].stream_id)
    BY <1>4, ClassesKept DEF AnswersFollowRequest, Request, EventOf
  <2>1. Pipe'[k] = Pipe[k] /\ k \in DOMAIN Pipe
    BY <1>3
  <2>2. ~Settled(Pipe[k].stream_id)
    BY <2>1 DEF SettledKept, Settled, Ended
  <2>3. PICK l \in 1..(k - 1) : Pipe[l] = Request(Pipe[k].stream_id)
    BY <2>1, <2>2 DEF PipeFits, AnswersFollowRequest
  <2> QED
    BY <1>3, <2>1, <2>3
<1> QED
  BY <1>3, <1>5, <1>6, <1>7 DEF PipeFits, Underway

LEMMA GrowIndices ==
    ASSUME NEW S, NEW q \in Seq(S), NEW list \in Seq(S)
    PROVE  /\ Len(q) \in Nat /\ Len(list) \in Nat
           /\ DOMAIN q = 1..Len(q) /\ DOMAIN list = 1..Len(list)
           /\ DOMAIN (q \o list) = 1..(Len(q) + Len(list))
           /\ \A k \in 1..Len(q) : (q \o list)[k] = q[k]
           /\ \A k \in 1..Len(list) : (q \o list)[Len(q) + k] = list[k]
<1>1. /\ q \o list \in Seq(S) /\ Len(q \o list) = Len(q) + Len(list)
      /\ \A k \in 1..(Len(q) + Len(list)) :
            (q \o list)[k] = IF k <= Len(q) THEN q[k] ELSE list[k - Len(q)]
  BY ConcatProperties
<1>2. DOMAIN (q \o list) = 1..(Len(q) + Len(list))
  BY <1>1, LenProperties
<1>3. Len(q) \in Nat /\ Len(list) \in Nat /\ DOMAIN q = 1..Len(q) /\ DOMAIN list = 1..Len(list)
  BY LenProperties
<1>4. ASSUME NEW k \in 1..Len(q) PROVE (q \o list)[k] = q[k]
  BY <1>1, <1>3
<1>5. ASSUME NEW k \in 1..Len(list) PROVE (q \o list)[Len(q) + k] = list[k]
  <2>1. /\ Len(q) + k \in 1..(Len(q) + Len(list)) /\ ~(Len(q) + k <= Len(q))
        /\ (Len(q) + k) - Len(q) = k
    BY <1>3
  <2> QED
    BY <1>1, <2>1
<1> QED
  BY <1>2, <1>3, <1>4, <1>5

\* What a swarm event puts behind the others.
LEMMA SwarmIndices ==
    ASSUME PipelineTypeOK, NEW list, SwarmStep(list)
    PROVE  LET n == Len(Pipe)
               m == Len(list)
           IN  /\ n \in Nat /\ m \in Nat
               /\ DOMAIN Pipe = 1..n /\ DOMAIN list = 1..m /\ DOMAIN Pipe' = 1..(n + m)
               /\ \A k \in 1..n : Pipe'[k] = Pipe[k]
               /\ \A k \in 1..m : Pipe'[n + k] = list[k]
               /\ \A k \in 1..(n + m) : k \in 1..n \/ (k - n \in 1..m /\ n + (k - n) = k)
<1> DEFINE q == Pipe
<1>1. Pipe' = q \o list /\ q \in Seq(Event) /\ list \in Seq(Event)
  BY EmitsAppends, PipeType DEF SwarmStep
<1> HIDE DEF q
<1>2. /\ Len(q) \in Nat /\ Len(list) \in Nat
      /\ DOMAIN q = 1..Len(q) /\ DOMAIN list = 1..Len(list)
      /\ DOMAIN Pipe' = 1..(Len(q) + Len(list))
      /\ \A k \in 1..Len(q) : Pipe'[k] = q[k]
      /\ \A k \in 1..Len(list) : Pipe'[Len(q) + k] = list[k]
  BY <1>1, GrowIndices
<1>3. \A k \in 1..(Len(q) + Len(list)) :
         k \in 1..Len(q) \/ (k - Len(q) \in 1..Len(list) /\ Len(q) + (k - Len(q)) = k)
  BY <1>2
<1> QED
  BY <1>2, <1>3 DEF q

LEMMA UnderwayGrown ==
    ASSUME PipelineTypeOK, NEW list, SwarmStep(list), NEW e
    PROVE  Underway(e)' <=> Underway(e) \/ Lists(list, e)
<1> DEFINE n == Len(Pipe)
           m == Len(list)
<1>1. /\ n \in Nat /\ m \in Nat
      /\ DOMAIN Pipe = 1..n /\ DOMAIN list = 1..m /\ DOMAIN Pipe' = 1..(n + m)
      /\ \A k \in 1..n : Pipe'[k] = Pipe[k]
      /\ \A k \in 1..m : Pipe'[n + k] = list[k]
      /\ \A k \in 1..(n + m) : k \in 1..n \/ (k - n \in 1..m /\ n + (k - n) = k)
  BY SwarmIndices
<1> HIDE DEF n, m
<1>2. (\A k \in 1..n : k \in 1..(n + m)) /\ \A k \in 1..m : n + k \in 1..(n + m)
  BY <1>1
<1>3. ASSUME NEW k \in 1..(n + m), Pipe'[k] = e
      PROVE  Underway(e) \/ Lists(list, e)
  BY <1>1, <1>3 DEF Underway, Lists
<1>4. ASSUME Underway(e) PROVE \E k \in 1..(n + m) : Pipe'[k] = e
  BY <1>1, <1>2, <1>4 DEF Underway
<1>5. ASSUME Lists(list, e) PROVE \E k \in 1..(n + m) : Pipe'[k] = e
  BY <1>1, <1>2, <1>5 DEF Lists
<1> QED
  BY <1>1, <1>3, <1>4, <1>5 DEF Underway

LEMMA UnderwayDropped ==
    ASSUME PipelineTypeOK, Drops
    PROVE  /\ \A e : Underway(e)' => Underway(e)
           /\ \A e : Underway(e) /\ e # handling => Underway(e)'
           /\ RequestsComeOnce =>
                 \A i : handling = Request(i) => ~Underway(Request(i))'
<1> DEFINE n == Len(Pipe)
<1>1. /\ n \in Nat /\ n > 0 /\ DOMAIN Pipe = 1..n /\ DOMAIN Pipe' = 1..(n - 1)
      /\ \A k \in 1..(n - 1) : Pipe'[k] = Pipe[k + 1]
      /\ Pipe[1] = handling
  BY DropIndices
<1> HIDE DEF n
<1>2. /\ \A k \in 1..(n - 1) : k + 1 \in 1..n /\ k + 1 # 1
      /\ \A k \in 1..n : k = 1 \/ (k - 1 \in 1..(n - 1) /\ (k - 1) + 1 = k)
      /\ 1 \in 1..n
  BY <1>1
<1>3. ASSUME NEW e, Underway(e)' PROVE Underway(e)
  BY <1>1, <1>2, <1>3 DEF Underway
<1>4. ASSUME NEW e, Underway(e), e # handling PROVE Underway(e)'
  <2>1. PICK k \in 1..n : Pipe[k] = e
    BY <1>1, <1>4 DEF Underway
  <2>2. k - 1 \in 1..(n - 1) /\ Pipe'[k - 1] = e
    BY <1>1, <1>2, <1>4, <2>1
  <2> QED
    BY <1>1, <2>2 DEF Underway
<1>5. ASSUME RequestsComeOnce, NEW i, handling = Request(i), Underway(Request(i))'
      PROVE  FALSE
  <2>1. PICK k \in 1..(n - 1) : Pipe'[k] = Request(i)
    BY <1>1, <1>5 DEF Underway, Request, EventOf
  <2>2. k + 1 \in 1..n /\ k + 1 # 1 /\ Pipe[k + 1] = Pipe[1] /\ 1 \in 1..n
    BY <1>1, <1>2, <1>5, <2>1
  <2>3. Pipe[1].type = "StreamRequested"
    BY <1>1, <1>5 DEF Request, EventOf
  <2> QED
    BY <1>1, <1>5, <2>2, <2>3 DEF RequestsComeOnce
<1> QED
  BY <1>3, <1>4, <1>5

LEMMA GrowFits ==
    ASSUME TypeOK, PipeFits, StreamLives, NEW list, SwarmStep(list), SettledKept,
           requested' = requested
    PROVE  PipeFits'
<1> DEFINE n == Len(Pipe)
           m == Len(list)
<1>0. PipelineTypeOK /\ running
  BY DEF TypeOK, SwarmStep, Emits, Ready
<1>1. /\ n \in Nat /\ m \in Nat
      /\ DOMAIN Pipe = 1..n /\ DOMAIN list = 1..m /\ DOMAIN Pipe' = 1..(n + m)
      /\ \A k \in 1..n : Pipe'[k] = Pipe[k]
      /\ \A k \in 1..m : Pipe'[n + k] = list[k]
      /\ \A k \in 1..(n + m) : k \in 1..n \/ (k - n \in 1..m /\ n + (k - n) = k)
  BY <1>0, SwarmIndices
<1>2. /\ \A k \in 1..m : list[k] \in Event
      /\ \A k \in 1..m :
          /\ list[k].type = "StreamRequested" => m = 1 /\ ~Heard(list[k].stream_id)
          /\ list[k].type \in {"StreamAccepted", "StreamRejected", "StreamData"}
               => list[k].stream_id \in table
  BY <1>1, ElementOfSeq DEF SwarmStep
<1> HIDE DEF n, m
\* A new request is of a stream that was not heard of.
<1>3. ASSUME NEW k \in 1..m, list[k].type = "StreamRequested", NEW l \in 1..n
      PROVE  Pipe[l] # list[k]
  <2>1. PICK i \in StreamId : list[k] = Request(i) /\ list[k].stream_id = i
    BY <1>2, <1>3, EventTypes DEF StreamId
  <2>2. ~Heard(i)
    BY <1>2, <1>3, <2>1
  <2>3. ~Underway(Request(i))
    BY <2>2 DEF PipeFits, RequestsWereHeard
  <2> QED
    BY <1>1, <2>1, <2>3 DEF Underway
<1>4. RequestsComeOnce'
  <2> SUFFICES ASSUME NEW k \in 1..(n + m), NEW l \in 1..(n + m),
                      Pipe'[k].type = "StreamRequested", Pipe'[l] = Pipe'[k]
               PROVE  l = k
    BY <1>1 DEF RequestsComeOnce
  <2>1. CASE k \in 1..n /\ l \in 1..n
    BY <1>1, <2>1 DEF PipeFits, RequestsComeOnce
  <2>2. CASE k \in 1..n /\ l - n \in 1..m /\ n + (l - n) = l
    <3>1. list[l - n] = Pipe[k] /\ list[l - n].type = "StreamRequested"
      BY <1>1, <2>2
    <3> QED
      BY <1>3, <2>2, <3>1
  <2>3. CASE l \in 1..n /\ k - n \in 1..m /\ n + (k - n) = k
    <3>1. list[k - n] = Pipe[l] /\ list[k - n].type = "StreamRequested"
      BY <1>1, <2>3
    <3> QED
      BY <1>3, <2>3, <3>1
  <2>4. CASE k - n \in 1..m /\ n + (k - n) = k /\ l - n \in 1..m /\ n + (l - n) = l
    <3>1. list[k - n].type = "StreamRequested"
      BY <1>1, <2>4
    <3>2. m = 1
      BY <1>2, <2>4, <3>1
    <3> QED
      BY <1>1, <2>4, <3>2
  <2> QED
    BY <1>1, <2>1, <2>2, <2>3, <2>4
<1>5. RequestsWereHeard'
  <2> SUFFICES ASSUME NEW i \in StreamId, Underway(Request(i))' PROVE Heard(i)'
    BY DEF RequestsWereHeard
  <2>1. PICK e : e = Request(i)
    OBVIOUS
  <2>2. Underway(e) \/ Lists(list, e)
    BY <1>0, <2>1, UnderwayGrown DEF Request, EventOf
  <2>3. Heard(i)' <=> Heard(i) \/ Lists(list, Request(i))
    BY DEF SwarmStep
  <2> QED
    BY <2>1, <2>2, <2>3 DEF PipeFits, RequestsWereHeard
<1>7. Theirs' = Theirs /\ Theirs \subseteq StreamId
  BY Classes DEF Theirs
<1>6. AnswersFollowRequest'
  <2> SUFFICES ASSUME NEW k \in 1..(n + m),
                      Pipe'[k].type \in {"StreamAccepted", "StreamRejected", "StreamData"},
                      NEW i \in Theirs, Pipe'[k].stream_id = i, ~Settled(i)'
               PROVE  \E l \in 1..(k - 1) : Pipe'[l] = Request(i)
    BY <1>1, <1>7 DEF AnswersFollowRequest, Request, EventOf, Settled, Ended
  <2>0. ~Settled(i)
    BY DEF SettledKept
  <2>1. CASE k \in 1..n
    <3>1. PICK l \in 1..(k - 1) : Pipe[l] = Request(i)
      BY <1>1, <2>0, <2>1 DEF PipeFits, AnswersFollowRequest
    <3>2. l \in 1..n
      BY <1>1, <2>1
    <3> QED
      BY <1>1, <3>1, <3>2
  <2>2. CASE k - n \in 1..m /\ n + (k - n) = k
    <3>1. Pipe'[k] = list[k - n]
      BY <1>1, <2>2
    <3>2. i \in table
      BY <1>2, <2>2, <3>1
    <3>3. Underway(Request(i))
      BY <1>0, <2>0, <3>2 DEF StreamLives, InboundLife
    <3>4. PICK l \in 1..n : Pipe[l] = Request(i)
      BY <1>1, <3>3 DEF Underway
    <3>5. l \in 1..(k - 1)
      BY <1>1, <2>2
    <3> QED
      BY <1>1, <3>4, <3>5
  <2> QED
    BY <1>1, <2>1, <2>2
<1> QED
  BY <1>4, <1>5, <1>6 DEF PipeFits

-----------------------------------------------------------------------------
(* The lives of streams, in the steps of the loop.                         *)

LEMMA RequestFacts ==
    /\ \A i : Request(i).type = "StreamRequested" /\ Request(i).stream_id = i
    /\ \A i \in Inbound : Request(i) \in Event /\ Request(i) # Nothing
    /\ \A i, type : EventOf(type, i).type = type /\ EventOf(type, i).stream_id = i
<1>1. /\ \A i : Request(i).type = "StreamRequested" /\ Request(i).stream_id = i
      /\ \A i, type : EventOf(type, i).type = type /\ EventOf(type, i).stream_id = i
  BY DEF Request, EventOf
<1>2. \A i \in Inbound : Request(i) \in Event
  BY DEF Request, EventOf, Event
<1> QED
  BY <1>1, <1>2, EventAssumption

\* A callback is written behind the others.
LEMMA CallsLog ==
    ASSUME TypeOK, NEW i \in StreamId, NEW callback \in Callback, Calls(i, callback)
    PROVE  /\ \A j \in StreamId : j # i => log'[j] = log[j]
           /\ log'[i] # <<>> /\ Last(log'[i]) = callback
           /\ log'[i][1] = IF log[i] = <<>> THEN callback ELSE log[i][1]
           /\ Unended(i) /\ callback \notin Ending => Unended(i)'
           /\ Unended(i) => \A k \in DOMAIN log'[i] : log'[i][k] \in Ending => k = Len(log'[i])
<1> DEFINE s == log[i]
           n == Len(log[i])
<1>1. log[i] \in Seq(Callback) /\ log' = [log EXCEPT ![i] = Append(s, callback)]
  BY DEF TypeOK, Calls
<1>2. log'[i] = Append(s, callback) /\ \A j \in StreamId : j # i => log'[j] = log[j]
  BY <1>1 DEF TypeOK
<1>3. /\ n \in Nat /\ DOMAIN s = 1..n /\ (s = <<>> <=> n = 0)
      /\ DOMAIN Append(s, callback) = 1..(n + 1) /\ Len(Append(s, callback)) = n + 1
      /\ \A k \in 1..n : Append(s, callback)[k] = s[k]
      /\ Append(s, callback)[n + 1] = callback /\ Append(s, callback) # <<>>
  BY <1>1
<1> HIDE DEF n, s
<1>4. \A k \in 1..(n + 1) : k \in 1..n \/ k = n + 1
  BY <1>3
<1>5. Last(log'[i]) = callback /\ log'[i] # <<>>
  BY <1>2, <1>3 DEF Last
<1>6. log'[i][1] = IF s = <<>> THEN callback ELSE s[1]
  <2>1. CASE n = 0
    BY <1>2, <1>3, <2>1
  <2>2. CASE n # 0
    <3>1. 1 \in 1..n
      BY <1>3, <2>2
    <3> QED
      BY <1>2, <1>3, <2>2, <3>1
  <2> QED
    BY <2>1, <2>2
<1>7. ASSUME Unended(i), NEW k \in 1..(n + 1), log'[i][k] \in Ending
      PROVE  k = n + 1
  BY <1>2, <1>3, <1>4, <1>7 DEF Unended, s
<1>8. DOMAIN log'[i] = 1..(n + 1) /\ Len(log'[i]) = n + 1
  BY <1>2, <1>3
<1>9. ASSUME Unended(i), callback \notin Ending
      PROVE  Unended(i)'
  BY <1>2, <1>3, <1>7, <1>8, <1>9 DEF Unended
<1> QED
  BY <1>2, <1>5, <1>6, <1>7, <1>8, <1>9 DEF s

\* A step of the loop that does not touch the handlers, nor what is told to them.
LoopQuiet ==
    /\ UNCHANGED <<log, active_handlers, refused>>
    /\ \A i \in StreamId : (Greeted(i)' <=> Greeted(i)) /\ (Admitted(i)' => Admitted(i))
    /\ \/ Pipe' = Pipe
       \/ /\ Drops /\ handling.type # "StreamRequested"
          /\ handling.type \in {"StreamClosed", "StreamRejected"} => Stream \notin active_handlers

LEMMA LoopKeepsOpening ==
    ASSUME TypeOK, Loop
    PROVE  \A i : Opening(i)' <=> Opening(i)
  BY LoopFrame DEF Opening

LEMMA LoopQuietKeeps ==
    ASSUME DeviceInvariant, Loop, LoopQuiet
    PROVE  PipeFits' /\ StreamLives' /\ StreamsFollowed'
<1>0. TypeOK /\ PipelineTypeOK /\ PipeFits /\ StreamLives /\ StreamsFollowed /\ RequestsComeOnce
  BY DEF DeviceInvariant, TypeOK, PipeFits
<1>1. /\ UNCHANGED <<running, table, requested, heard>> /\ closed_here \subseteq closed_here'
      /\ \A i : Opening(i)' <=> Opening(i)
      /\ Theirs' = Theirs /\ Ours' = Ours
      /\ Theirs \subseteq StreamId /\ Ours \subseteq StreamId
  BY <1>0, LoopFrame, LoopKeepsOpening, Classes, ClassesKept DEF runtime
<1>2. SettledKept
  BY DEF LoopQuiet, SettledKept, Settled, Ended
<1>3. PipeFits'
  <2>1. CASE Pipe' = Pipe
    BY <1>0, <1>1, <1>2, <2>1, SameFits
  <2>2. CASE Drops /\ handling.type # "StreamRequested"
    BY <1>0, <1>1, <1>2, <2>2, DropFits, RequestFacts
  <2> QED
    BY <2>1, <2>2 DEF LoopQuiet
<1>4. \A i : Underway(Request(i))' <=> Underway(Request(i))
  <2>1. CASE Pipe' = Pipe
    BY <2>1 DEF Underway, Request, EventOf
  <2>2. CASE Drops /\ handling.type # "StreamRequested"
    <3> TAKE i
    <3>1. PICK e : e = Request(i)
      OBVIOUS
    <3>2. Underway(e)' <=> Underway(e)
      BY <1>0, <2>2, <3>1, UnderwayDropped, RequestFacts
    <3> QED
      BY <3>1, <3>2 DEF Request, EventOf
  <2> QED
    BY <2>1, <2>2 DEF LoopQuiet
<1>5. \A i \in Theirs : i \in active_handlers \/ Admitted(i) => (EndUnderway(i) => EndUnderway(i)')
  <2>1. CASE Pipe' = Pipe
    BY <2>1 DEF EndUnderway, Underway, EventOf
  <2>2. CASE /\ Drops /\ handling.type # "StreamRequested"
             /\ handling.type \in {"StreamClosed", "StreamRejected"} => Stream \notin active_handlers
    <3> SUFFICES ASSUME NEW i \in Theirs, i \in active_handlers \/ Admitted(i),
                        NEW type \in {"StreamClosed", "StreamRejected"}, Underway(EventOf(type, i))
                 PROVE  Underway(EventOf(type, i))'
      BY DEF EndUnderway
    <3>1. PICK e : e = EventOf(type, i)
      OBVIOUS
    <3>2. i \in active_handlers
      BY <2>2, RequestFacts DEF Admitted, Greeted
    <3>3. e # handling
      BY <2>2, <3>1, <3>2, RequestFacts DEF Stream
    <3>4. Underway(e)'
      BY <1>0, <2>2, <3>1, <3>3, UnderwayDropped
    <3> QED
      BY <3>1, <3>4 DEF EventOf
  <2> QED
    BY <2>1, <2>2 DEF LoopQuiet
<1>6. ASSUME NEW i \in Theirs PROVE InboundLife(i)'
  <2>1. /\ log'[i] = log[i] /\ active_handlers' = active_handlers /\ refused' = refused
        /\ Greeted(i)' <=> Greeted(i)
        /\ Heard(i)' <=> Heard(i)
    BY <1>1 DEF LoopQuiet, Heard
  <2>2. InboundLife(i)
    BY <1>0 DEF StreamLives
  <2> QED
    BY <1>1, <1>4, <2>1, <2>2 DEF InboundLife, Settled, Ended
<1>7. ASSUME NEW i \in Ours PROVE OutboundLife(i)'
  BY <1>0, <1>1 DEF LoopQuiet, StreamLives, OutboundLife, Ended
<1>8. ASSUME NEW i \in Theirs \cup Ours PROVE LogFits(i)'
  BY <1>0, <1>1 DEF LoopQuiet, StreamLives, LogFits, Unended
<1>9. StreamLives'
  BY <1>1, <1>6, <1>7, <1>8 DEF StreamLives
<1>10. StreamsFollowed'
  BY <1>0, <1>1, <1>5 DEF LoopQuiet, StreamsFollowed
<1> QED
  BY <1>3, <1>9, <1>10

LEMMA LoopDrops ==
    ASSUME TypeOK, LoopFits, at # "idle", EndHandling, UNCHANGED queues
    PROVE  Drops /\ \A i : ~Greeted(i)' /\ ~Admitted(i)'
<1>1. PipelineTypeOK /\ handling # Nothing /\ handling' = Nothing /\ at' = "idle"
  BY DEF TypeOK, LoopFits, EndHandling
<1> QED
  BY <1>1, EndingDrops DEF Drops, Greeted, Admitted

LEMMA LoopQuietSteps ==
    ASSUME DeviceInvariant,
           \/ LoopReceive \/ LoopDisconnected \/ LoopAccept \/ LoopRefuse \/ LoopRead
           \/ LoopUpdate \/ LoopReply \/ LoopReplied \/ LoopUpdated
           \/ (LoopCallsHandler \/ LoopEndsHandler) /\ Stream \notin active_handlers
    PROVE  LoopQuiet
<1>0. TypeOK /\ PipelineTypeOK /\ LoopFits
  BY DEF DeviceInvariant, TypeOK
<1>1. ASSUME at \notin {"accepting", "reply", "replying", "store"}
      PROVE  \A i : ~Greeted(i) /\ ~Admitted(i)
  BY <1>1 DEF Greeted, Admitted
<1>2. ASSUME at' \notin {"accepting", "reply", "replying", "store"}
      PROVE  \A i : ~Greeted(i)' /\ ~Admitted(i)'
  BY <1>2 DEF Greeted, Admitted
<1>3. CASE LoopReceive
  <2>1. Receive /\ at = "idle" /\ at' \in Begin(handling') /\ UNCHANGED <<log, active_handlers, refused>>
    BY <1>0, <1>3 DEF LoopReceive, Receive, LoopFits
  <2>2. at' \notin {"accepting", "reply", "replying", "store"}
    BY <1>0, <2>1, ReceiveType, BeginFits
  <2>3. Pipe' = Pipe
    BY <1>0, <2>1, ReceiveMoves
  <2> QED
    BY <1>1, <1>2, <2>1, <2>2, <2>3 DEF LoopQuiet
<1>4. CASE LoopDisconnected
  <2>1. /\ at = "done" /\ EndHandling /\ UNCHANGED queues
        /\ UNCHANGED <<log, active_handlers, refused>>
    BY <1>4 DEF LoopDisconnected
  <2>2. handling.type \notin {"StreamRequested", "StreamClosed", "StreamRejected"}
    BY <1>0, <2>1 DEF LoopFits
  <2> QED
    BY <1>0, <1>1, <2>1, <2>2, LoopDrops DEF LoopQuiet
<1>5. CASE LoopAccept
  <2>1. /\ at = "accept" /\ at' = "accepting" /\ Ask(EventLoop, "AcceptStream", Stream)
        /\ UNCHANGED <<handling, log, active_handlers, refused>>
    BY <1>5 DEF LoopAccept, LoopAsk
  <2>2. Pipe' = Pipe
    BY <2>1, RestMoves DEF Ask
  <2>3. answer'[EventLoop].result # "Ok"
    BY <1>0, <2>1, TaskAssumption DEF Ask, Answered, PipelineTypeOK
  <2>4. \A i : ~Greeted(i)' /\ ~Admitted(i)'
    BY <2>1, <2>3 DEF Greeted, Admitted
  <2> QED
    BY <1>1, <2>1, <2>2, <2>4 DEF LoopQuiet
<1>6. CASE LoopRefuse \/ LoopRead \/ LoopUpdate
  <2>1. /\ at \in {"refuse", "read", "update"} /\ at' \in {"refusing", "reading", "updating"}
        /\ UNCHANGED <<queues, handling, log, active_handlers, refused>>
    BY <1>6 DEF LoopRefuse, LoopRead, LoopUpdate, LoopAsk, Ask
  <2>2. Pipe' = Pipe
    BY <2>1, RestMoves
  <2> QED
    BY <1>1, <1>2, <2>1, <2>2 DEF LoopQuiet
<1>7. CASE LoopReply
  <2>1. /\ at = "reply" /\ at' = "replying"
        /\ UNCHANGED <<queues, handling, log, active_handlers, refused>>
    BY <1>7 DEF LoopReply, LoopAsk, Ask
  <2>2. Pipe' = Pipe
    BY <2>1, RestMoves
  <2>3. \A i \in StreamId : (Greeted(i)' <=> Greeted(i)) /\ (Admitted(i)' => Admitted(i))
    BY <2>1 DEF Greeted, Admitted, Request, EventOf
  <2> QED
    BY <2>1, <2>2, <2>3 DEF LoopQuiet
<1>8. CASE LoopReplied
  <2>1. /\ at = "replying" /\ UNCHANGED <<queues, log, active_handlers, refused>>
    BY <1>8 DEF LoopReplied, Returns
  <2>2. CASE handling.type = "StreamRequested"
    <3>1. at' = "store" /\ handling' = handling
      BY <1>8, <2>2 DEF LoopReplied
    <3>2. Pipe' = Pipe
      BY <2>1, <3>1, RestMoves
    <3>3. \A i \in StreamId : (Greeted(i)' <=> Greeted(i)) /\ (Admitted(i)' => Admitted(i))
      BY <2>1, <3>1 DEF Greeted, Admitted, Request, EventOf
    <3> QED
      BY <2>1, <3>2, <3>3 DEF LoopQuiet
  <2>3. CASE handling.type # "StreamRequested"
    <3>1. EndHandling /\ handling.type \in {"StreamAccepted", "StreamData"}
      BY <1>0, <1>8, <2>3 DEF LoopReplied, LoopFits
    <3>2. \A i : ~Greeted(i) /\ ~Admitted(i)
      BY <2>3, RequestFacts DEF Greeted, Admitted
    <3> QED
      BY <1>0, <2>1, <3>1, <3>2, LoopDrops DEF LoopQuiet
  <2> QED
    BY <2>2, <2>3
<1>9. CASE LoopUpdated
  <2>1. /\ at \in {"reading", "updating"} /\ UNCHANGED <<queues, log, active_handlers, refused>>
        /\ handling.type \notin {"StreamRequested", "StreamClosed", "StreamRejected"}
    BY <1>0, <1>9 DEF LoopUpdated, Returns, LoopFits
  <2>2. CASE at' = "update" /\ handling' = handling
    <3>1. Pipe' = Pipe
      BY <2>1, <2>2, RestMoves
    <3> QED
      BY <1>1, <1>2, <2>1, <2>2, <3>1 DEF LoopQuiet
  <2>3. CASE EndHandling
    BY <1>0, <1>1, <2>1, <2>3, LoopDrops DEF LoopQuiet
  <2> QED
    BY <1>9, <2>2, <2>3 DEF LoopUpdated
<1>10. CASE (LoopCallsHandler \/ LoopEndsHandler) /\ Stream \notin active_handlers
  <2>1. /\ at = "lock" /\ EndHandling /\ UNCHANGED <<queues, log, refused>>
        /\ active_handlers' = active_handlers
    BY <1>10 DEF LoopCallsHandler, LoopEndsHandler
  <2>2. handling.type # "StreamRequested"
    BY <1>0, <2>1 DEF LoopFits
  <2> QED
    BY <1>0, <1>1, <1>10, <2>1, <2>2, LoopDrops DEF LoopQuiet
<1> QED
  BY <1>3, <1>4, <1>5, <1>6, <1>7, <1>8, <1>9, <1>10

\* A step of the loop that touches stream i, and nothing else.
LoopTouches(i) ==
    /\ \A j \in StreamId \ {i} :
          /\ log'[j] = log[j]
          /\ j \in active_handlers' <=> j \in active_handlers
          /\ j \in refused' <=> j \in refused
          /\ Greeted(j)' <=> Greeted(j)
          /\ Admitted(j)' => Admitted(j)
    /\ Pipe' = Pipe \/ (Drops /\ Stream = i)

Follows(i) ==
    running /\ (i \in active_handlers \/ Admitted(i)) =>
       i \in table \/ i \in closed_here \/ EndUnderway(i)

LEMMA LoopTouchesKeeps ==
    ASSUME DeviceInvariant, Loop, NEW i \in StreamId, LoopTouches(i),
           i \in Theirs =>
              /\ Settled(i) => Settled(i)'
              /\ Drops /\ handling.type = "StreamRequested" => Settled(i)'
              /\ InboundLife(i)' /\ Follows(i)',
           i \in Ours => OutboundLife(i)',
           i \in Theirs \cup Ours => LogFits(i)'
    PROVE  PipeFits' /\ StreamLives' /\ StreamsFollowed'
<1>0. TypeOK /\ PipelineTypeOK /\ PipeFits /\ StreamLives /\ StreamsFollowed
  BY DEF DeviceInvariant, TypeOK
<1>1. /\ UNCHANGED <<running, table, requested, heard>> /\ closed_here \subseteq closed_here'
      /\ \A j : Opening(j)' <=> Opening(j)
      /\ Theirs' = Theirs /\ Ours' = Ours
      /\ Theirs \subseteq StreamId /\ Ours \subseteq StreamId
  BY <1>0, LoopFrame, LoopKeepsOpening, Classes, ClassesKept DEF runtime
<1>2. SettledKept
  BY <1>1 DEF LoopTouches, SettledKept, Settled, Ended
<1>3. PipeFits'
  <2>1. CASE Pipe' = Pipe
    BY <1>0, <1>1, <1>2, <2>1, SameFits
  <2>2. CASE Drops /\ Stream = i
    <3>1. \A j \in Theirs : handling = Request(j) => Settled(j)'
      BY <2>2, RequestFacts DEF Stream
    <3> QED
      BY <1>0, <1>1, <1>2, <2>2, <3>1, DropFits
  <2> QED
    BY <2>1, <2>2 DEF LoopTouches
<1>4. ASSUME NEW e, e.stream_id # i
      PROVE  Underway(e)' <=> Underway(e)
  <2>1. CASE Pipe' = Pipe
    BY <2>1 DEF Underway
  <2>2. CASE Drops /\ Stream = i
    BY <1>0, <1>4, <2>2, UnderwayDropped DEF Stream
  <2> QED
    BY <2>1, <2>2 DEF LoopTouches
<1>5. ASSUME NEW j \in Theirs, j # i
      PROVE  /\ Underway(Request(j))' <=> Underway(Request(j))
             /\ EndUnderway(j)' <=> EndUnderway(j)
  <2>1. PICK e, f, g : /\ e = Request(j) /\ f = EventOf("StreamClosed", j)
                       /\ g = EventOf("StreamRejected", j)
    OBVIOUS
  <2>2. e.stream_id # i /\ f.stream_id # i /\ g.stream_id # i
    BY <1>5, <2>1, RequestFacts
  <2>3. /\ Underway(e)' <=> Underway(e)
        /\ Underway(f)' <=> Underway(f)
        /\ Underway(g)' <=> Underway(g)
    BY <1>4, <2>2
  <2> QED
    BY <2>1, <2>3 DEF EndUnderway, Request, EventOf
<1>6. ASSUME NEW j \in Theirs, j # i PROVE InboundLife(j)' /\ Follows(j)'
  <2>1. /\ log'[j] = log[j]
        /\ j \in active_handlers' <=> j \in active_handlers
        /\ j \in refused' <=> j \in refused
        /\ Greeted(j)' <=> Greeted(j)
        /\ Admitted(j)' => Admitted(j)
    BY <1>1, <1>6 DEF LoopTouches
  <2>2. InboundLife(j) /\ Follows(j)
    BY <1>0 DEF StreamLives, StreamsFollowed, Follows
  <2>3. Heard(j)' <=> Heard(j)
    BY <1>1 DEF Heard
  <2>4. InboundLife(j)'
    BY <1>1, <1>5, <1>6, <2>1, <2>2, <2>3 DEF InboundLife, Settled, Ended
  <2>5. Follows(j)'
    BY <1>1, <1>5, <1>6, <2>1, <2>2 DEF Follows
  <2> QED
    BY <2>4, <2>5
<1>7. ASSUME NEW j \in Ours, j # i PROVE OutboundLife(j)'
  BY <1>0, <1>1, <1>7 DEF LoopTouches, StreamLives, OutboundLife, Ended
<1>8. ASSUME NEW j \in Theirs \cup Ours, j # i PROVE LogFits(j)'
  BY <1>0, <1>1, <1>8 DEF LoopTouches, StreamLives, LogFits, Unended
<1>9. StreamLives'
  BY <1>1, <1>6, <1>7, <1>8 DEF StreamLives
<1>10. StreamsFollowed'
  BY <1>1, <1>6 DEF StreamsFollowed, Follows
<1> QED
  BY <1>3, <1>9, <1>10

LEMMA HandlingUnderway ==
    ASSUME PipelineTypeOK, handling # Nothing
    PROVE  Underway(handling)
<1> DEFINE rest == user_queue \o (One(forwarding) \o (event_queue \o outbox))
<1>1. rest \in Seq(Event) /\ handling \in Event
  BY PipeType DEF PipelineTypeOK
<1>2. Pipe = <<handling>> \o rest
  BY DEF Pipe, One
<1> HIDE DEF rest
<1>3. 1 \in DOMAIN (<<handling>> \o rest) /\ (<<handling>> \o rest)[1] = handling
  BY <1>1
<1> QED
  BY <1>2, <1>3 DEF Underway

\* A stream whose request the loop holds, not answered yet.
LEMMA Awaiting ==
    ASSUME DeviceInvariant, at \in {"accept", "accepting", "refuse", "refusing"}
    PROVE  /\ Stream \in StreamId /\ handling = Request(Stream) /\ Stream \notin Ours
           /\ Stream \in Theirs => /\ Heard(Stream) /\ log[Stream] = <<>>
                                   /\ Stream \notin active_handlers
           /\ \A i : ~Greeted(i)
<1>1. /\ TypeOK /\ PipelineTypeOK /\ LoopFits /\ StreamLives /\ RequestsWereHeard
  BY DEF DeviceInvariant, TypeOK, PipeFits
<1>2. Stream \in StreamId /\ handling = Request(Stream) /\ handling # Nothing
  BY <1>1, StreamType
<1>3. Underway(handling)
  BY <1>1, <1>2, HandlingUnderway
<1>4. \A i : ~Greeted(i)
  BY DEF Greeted
<1>5. PICK i \in StreamId : i = Stream
  BY <1>2
<1>6. Underway(Request(i)) /\ ~Greeted(i) /\ Heard(i)
  BY <1>1, <1>2, <1>3, <1>4, <1>5 DEF RequestsWereHeard
<1>7. i \in Theirs => log[i] = <<>> /\ i \notin active_handlers
  BY <1>1, <1>6 DEF StreamLives, InboundLife
<1> QED
  BY <1>2, <1>4, <1>5, <1>6, <1>7 DEF Ours

LEMMA LoopGreets ==
    ASSUME DeviceInvariant, LoopAccepted, answer[EventLoop].result = "Ok"
    PROVE  PipeFits' /\ StreamLives' /\ StreamsFollowed'
<1>0. /\ TypeOK /\ StreamLives /\ StreamsFollowed /\ Loop
  BY DEF DeviceInvariant, LoopAccepted, Loop
<1>2. /\ Stream \in StreamId /\ handling = Request(Stream) /\ Stream \notin Ours
      /\ Stream \in Theirs => /\ Heard(Stream) /\ log[Stream] = <<>>
                              /\ Stream \notin active_handlers
      /\ \A j : ~Greeted(j)
  BY Awaiting DEF LoopAccepted
<1>1. PICK i \in StreamId : i = Stream
  BY <1>2
<1>3. /\ at = "accepting" /\ at' \in {"reply", "store"} /\ Calls(i, "accepted")
      /\ UNCHANGED <<handling, queues, refused, active_handlers>>
  BY <1>1 DEF LoopAccepted, Returns
<1>4. Pipe' = Pipe
  BY <1>3, RestMoves
<1>5. /\ \A j \in StreamId : j # i => log'[j] = log[j]
      /\ i \in Theirs =>
            /\ log'[i] # <<>> /\ log'[i][1] = "accepted" /\ Unended(i)'
            /\ \A k \in DOMAIN log'[i] : log'[i][k] \in Ending => k = Len(log'[i])
  <2>1. (i \in Theirs => Unended(i)) /\ "accepted" \in Callback \ Ending
    BY <1>1, <1>2 DEF Unended, Callback, Ending
  <2> QED
    BY <1>0, <1>1, <1>2, <1>3, <2>1, CallsLog
<1>6. Greeted(i)' /\ Admitted(i)
  BY <1>1, <1>2, <1>3 DEF Greeted, Admitted, Request, EventOf
<1>7. LoopTouches(i)
  <2>1. \A j : j # i => ~Greeted(j)' /\ ~Admitted(j)'
    BY <1>1, <1>2, <1>3, RequestFacts DEF Greeted, Admitted, Request, EventOf
  <2> QED
    BY <1>2, <1>3, <1>4, <1>5, <2>1 DEF LoopTouches
<1>8. UNCHANGED <<running, table, heard>> /\ closed_here \subseteq closed_here'
  BY <1>0, LoopFrame DEF runtime
<1>17. ~(Drops /\ handling.type = "StreamRequested")
  <2>1. Len(Tail(Pipe)) # Len(Pipe) \/ Pipe = <<>>
    BY <1>0, PipeType, HeadTailType DEF TypeOK
  <2> QED
    BY <1>4, <2>1 DEF Drops
<1>18. i \in Theirs => /\ Settled(i) => Settled(i)'
                       /\ InboundLife(i)' /\ Follows(i)' /\ LogFits(i)'
  <2> SUFFICES ASSUME i \in Theirs
               PROVE  (Settled(i) => Settled(i)') /\ InboundLife(i)' /\ Follows(i)' /\ LogFits(i)'
    OBVIOUS
  <2>1. InboundLife(i) /\ Follows(i)
    BY <1>0 DEF StreamLives, StreamsFollowed, Follows
  <2>2. Underway(Request(i))' <=> Underway(Request(i))
    BY <1>4 DEF Underway, Request, EventOf
  <2>3. EndUnderway(i)' <=> EndUnderway(i)
    BY <1>4 DEF EndUnderway, Underway, EventOf
  <2>4. InboundLife(i)'
    BY <1>1, <1>2, <1>3, <1>5, <1>6, <1>8, <2>1, <2>2 DEF InboundLife, Heard, Settled, Ended
  <2>5. Follows(i)'
    BY <1>6, <1>8, <2>1, <2>3 DEF Follows
  <2>6. LogFits(i)'
    BY <1>5 DEF LogFits
  <2>7. Settled(i) => Settled(i)'
    BY <1>1, <1>2, <1>3 DEF Settled, Ended
  <2> QED
    BY <2>4, <2>5, <2>6, <2>7
<1> QED
  BY <1>0, <1>1, <1>2, <1>7, <1>17, <1>18, LoopTouchesKeeps

LEMMA LoopTurnsAway ==
    ASSUME DeviceInvariant,
           LoopRefused \/ (LoopAccepted /\ answer[EventLoop].result # "Ok")
    PROVE  PipeFits' /\ StreamLives' /\ StreamsFollowed'
<1>0. /\ TypeOK /\ PipelineTypeOK /\ LoopFits /\ StreamLives /\ RequestsComeOnce /\ Loop
  BY DEF DeviceInvariant, LoopRefused, LoopAccepted, Loop, TypeOK, PipeFits
<1>2. /\ Stream \in StreamId /\ handling = Request(Stream) /\ Stream \notin Ours
      /\ Stream \in Theirs => /\ Heard(Stream) /\ log[Stream] = <<>>
                              /\ Stream \notin active_handlers
      /\ \A j : ~Greeted(j)
  BY Awaiting DEF LoopRefused, LoopAccepted
<1>1. PICK i \in StreamId : i = Stream
  BY <1>2
<1>3. /\ at \in {"accepting", "refusing"} /\ EndHandling /\ refused' = refused \cup {i}
      /\ UNCHANGED <<queues, log, active_handlers>>
  BY <1>1 DEF LoopAccepted, LoopRefused, Returns
<1>4. Drops /\ \A j : ~Greeted(j)' /\ ~Admitted(j)'
  BY <1>0, <1>3, LoopDrops
<1>5. LoopTouches(i)
  BY <1>1, <1>2, <1>3, <1>4 DEF LoopTouches
<1>6. UNCHANGED <<running, table, heard>>
  BY <1>0, LoopFrame DEF runtime
<1>7. ~Underway(Request(i))'
  BY <1>0, <1>1, <1>2, <1>4, UnderwayDropped
<1>8. Settled(i)'
  BY <1>3 DEF Settled
<1>9. i \in Theirs => InboundLife(i)' /\ Follows(i)' /\ LogFits(i)'
  <2> SUFFICES ASSUME i \in Theirs PROVE InboundLife(i)' /\ Follows(i)' /\ LogFits(i)'
    OBVIOUS
  <2>1. Heard(i) /\ log'[i] = <<>> /\ i \notin active_handlers'
    BY <1>1, <1>2, <1>3
  <2> QED
    BY <1>4, <1>6, <1>7, <1>8, <2>1 DEF InboundLife, Heard, Follows, LogFits
<1> QED
  BY <1>0, <1>1, <1>2, <1>5, <1>8, <1>9, LoopTouchesKeeps

LEMMA LoopStores ==
    ASSUME DeviceInvariant, LoopStore
    PROVE  PipeFits' /\ StreamLives' /\ StreamsFollowed'
<1>0. /\ TypeOK /\ PipelineTypeOK /\ LoopFits /\ StreamLives /\ StreamsFollowed
      /\ RequestsComeOnce /\ RequestsWereHeard /\ Loop /\ at = "store"
  BY DEF DeviceInvariant, LoopStore, Loop, TypeOK, PipeFits
<1>1. PICK i \in Inbound : i = Stream /\ handling = Request(i)
  BY <1>0, StreamType
<1>12. Underway(Request(i))
  BY <1>0, <1>1, HandlingUnderway, RequestFacts
<1>2. i \in StreamId /\ i \notin Ours
  <2>1. i \in StreamId
    BY DEF StreamId
  <2> QED
    BY <1>0, <1>12, <2>1 DEF RequestsWereHeard, Ours
<1>3. /\ EndHandling /\ active_handlers' = active_handlers \cup {i}
      /\ UNCHANGED <<queues, log, refused>>
  BY <1>1 DEF LoopStore
<1>4. Drops /\ \A j : ~Greeted(j)' /\ ~Admitted(j)'
  BY <1>0, <1>3, LoopDrops
<1>5. Greeted(i) /\ Admitted(i) /\ \A j \in StreamId : j # i => ~Greeted(j) /\ ~Admitted(j)
  BY <1>0, <1>1, RequestFacts DEF Greeted, Admitted
<1>6. LoopTouches(i)
  BY <1>1, <1>3, <1>4, <1>5 DEF LoopTouches
<1>7. UNCHANGED <<running, table, heard, closed_here>>
  BY <1>0 DEF LoopStore, runtime, ApplicationState
<1>8. ~Underway(Request(i))'
  BY <1>0, <1>1, <1>4, UnderwayDropped
<1>9. Settled(i)'
  BY <1>3 DEF Settled
<1>13. i \in Theirs => InboundLife(i)' /\ Follows(i)' /\ LogFits(i)'
  <2> SUFFICES ASSUME i \in Theirs PROVE InboundLife(i)' /\ Follows(i)' /\ LogFits(i)'
    OBVIOUS
  <2>1. InboundLife(i) /\ LogFits(i) /\ Follows(i)
    BY <1>0 DEF StreamLives, StreamsFollowed, Follows
  <2>2. EndUnderway(i) => EndUnderway(i)'
    <3>1. PICK e, f : e = EventOf("StreamClosed", i) /\ f = EventOf("StreamRejected", i)
      OBVIOUS
    <3>2. e # handling /\ f # handling
      BY <1>1, <3>1, RequestFacts
    <3>3. (Underway(e) => Underway(e)') /\ (Underway(f) => Underway(f)')
      BY <1>0, <1>4, <3>2, UnderwayDropped
    <3> QED
      BY <3>1, <3>3 DEF EndUnderway, EventOf
  <2>3. InboundLife(i)'
    BY <1>3, <1>4, <1>5, <1>7, <1>8, <1>9, <1>12, <2>1 DEF InboundLife, Heard
  <2>4. Follows(i)'
    BY <1>5, <1>7, <2>1, <2>2 DEF Follows
  <2>5. LogFits(i)'
    BY <1>3, <1>5, <2>1 DEF LogFits, Unended
  <2> QED
    BY <2>3, <2>4, <2>5
<1> QED
  BY <1>0, <1>2, <1>6, <1>9, <1>13, LoopTouchesKeeps

LEMMA LoopCalls ==
    ASSUME DeviceInvariant, LoopCallsHandler, Stream \in active_handlers
    PROVE  PipeFits' /\ StreamLives' /\ StreamsFollowed'
<1>0. /\ TypeOK /\ PipelineTypeOK /\ LoopFits /\ StreamLives /\ StreamsFollowed /\ Loop
      /\ at = "lock" /\ handling.type \in {"StreamAccepted", "StreamData"}
  BY DEF DeviceInvariant, LoopCallsHandler, Loop, TypeOK
<1>1. PICK i \in StreamId : i = Stream /\ i \in active_handlers
  BY <1>0 DEF TypeOK
<1>2. PICK callback \in Callback \ Ending : Calls(i, callback)
  BY <1>1 DEF LoopCallsHandler, CallbackOf, Callback, Ending
<1>3. /\ EndHandling \/ (at' = "reply" /\ handling' = handling)
      /\ UNCHANGED <<queues, active_handlers, refused>>
  BY <1>1 DEF LoopCallsHandler
<1>4. UNCHANGED <<running, table, heard, requested, opening, app, answer, closed_here>>
  BY DEF LoopCallsHandler, runtime, calls, ApplicationState
<1>5. \A j : ~Greeted(j) /\ ~Admitted(j) /\ ~Greeted(j)' /\ ~Admitted(j)'
  <2>1. \A j : handling # Request(j)
    BY <1>0, RequestFacts
  <2>2. \A j : ~Greeted(j) /\ ~Admitted(j)
    BY <2>1 DEF Greeted, Admitted
  <2>3. CASE EndHandling
    BY <1>0, <1>3, <2>2, <2>3, LoopDrops
  <2>4. CASE at' = "reply" /\ handling' = handling
    BY <2>1, <2>2, <2>4 DEF Greeted, Admitted, Request, EventOf
  <2> QED
    BY <1>3, <2>3, <2>4
<1>6. Pipe' = Pipe \/ Drops
  BY <1>0, <1>3, LoopDrops, RestMoves
<1>7. /\ \A j \in StreamId : j # i => log'[j] = log[j]
      /\ i \in Theirs \cup Ours =>
            /\ log'[i] # <<>> /\ Unended(i)'
            /\ log[i] # <<>> => log'[i][1] = log[i][1]
            /\ \A k \in DOMAIN log'[i] : log'[i][k] \in Ending => k = Len(log'[i])
  <2>1. i \in Theirs \cup Ours => Unended(i)
    BY <1>0, <1>1 DEF StreamLives, LogFits
  <2> QED
    BY <1>0, <1>2, <2>1, CallsLog
<1>8. LoopTouches(i)
  BY <1>1, <1>3, <1>5, <1>6, <1>7 DEF LoopTouches
<1>9. Settled(i)'
  BY <1>1, <1>3 DEF Settled
<1>10. ASSUME NEW e, e.type \in {"StreamRequested", "StreamClosed", "StreamRejected"}
       PROVE  Underway(e)' <=> Underway(e)
  <2>1. e # handling
    BY <1>0, <1>10
  <2>2. CASE Pipe' = Pipe
    BY <2>2 DEF Underway
  <2>3. CASE Drops
    BY <1>0, <2>1, <2>3, UnderwayDropped
  <2> QED
    BY <1>6, <2>2, <2>3
<1>11. /\ Underway(Request(i))' <=> Underway(Request(i))
       /\ EndUnderway(i)' <=> EndUnderway(i)
  <2>1. PICK e, f, g : /\ e = Request(i) /\ f = EventOf("StreamClosed", i)
                       /\ g = EventOf("StreamRejected", i)
    OBVIOUS
  <2>2. /\ Underway(e)' <=> Underway(e)
        /\ Underway(f)' <=> Underway(f)
        /\ Underway(g)' <=> Underway(g)
    BY <1>10, <2>1, RequestFacts
  <2> QED
    BY <2>1, <2>2 DEF EndUnderway, Request, EventOf
<1>12. i \in Theirs => InboundLife(i)' /\ Follows(i)'
  <2> SUFFICES ASSUME i \in Theirs PROVE InboundLife(i)' /\ Follows(i)'
    OBVIOUS
  <2>1. InboundLife(i) /\ Follows(i)
    BY <1>0 DEF StreamLives, StreamsFollowed, Follows
  <2>2. InboundLife(i)'
    BY <1>1, <1>3, <1>4, <1>5, <1>7, <1>9, <1>11, <2>1 DEF InboundLife, Heard
  <2>3. Follows(i)'
    BY <1>1, <1>4, <1>11, <2>1 DEF Follows
  <2> QED
    BY <2>2, <2>3
<1>13. i \in Ours => OutboundLife(i)'
  BY <1>0, <1>1, <1>3, <1>4 DEF StreamLives, OutboundLife, Opening
<1>14. i \in Theirs \cup Ours => LogFits(i)'
  BY <1>7 DEF LogFits
<1> QED
  BY <1>0, <1>8, <1>9, <1>12, <1>13, <1>14, LoopTouchesKeeps

LEMMA LoopEnds ==
    ASSUME DeviceInvariant, LoopEndsHandler, Stream \in active_handlers
    PROVE  PipeFits' /\ StreamLives' /\ StreamsFollowed'
<1>0. /\ TypeOK /\ PipelineTypeOK /\ LoopFits /\ StreamLives /\ StreamsFollowed /\ Loop
      /\ at = "lock" /\ handling.type \in {"StreamRejected", "StreamClosed"}
  BY DEF DeviceInvariant, LoopEndsHandler, Loop, TypeOK
<1>1. PICK i \in StreamId : i = Stream /\ i \in active_handlers
  BY <1>0 DEF TypeOK
<1>2. PICK callback \in Ending : Calls(i, callback) /\ callback \in Callback
  BY <1>0, <1>1 DEF LoopEndsHandler, CallbackOf, Callback, Ending
<1>3. /\ EndHandling /\ active_handlers' = active_handlers \ {i}
      /\ UNCHANGED <<queues, refused>>
  BY <1>1 DEF LoopEndsHandler
<1>4. UNCHANGED <<running, table, heard, requested, opening, app, answer, closed_here>>
  BY DEF LoopEndsHandler, runtime, calls, ApplicationState
<1>5. Drops /\ \A j : ~Greeted(j) /\ ~Admitted(j) /\ ~Greeted(j)' /\ ~Admitted(j)'
  <2>1. \A j : ~Greeted(j) /\ ~Admitted(j)
    BY <1>0 DEF Greeted, Admitted
  <2> QED
    BY <1>0, <1>3, <2>1, LoopDrops
<1>6. /\ \A j \in StreamId : j # i => log'[j] = log[j]
      /\ log'[i] # <<>> /\ Last(log'[i]) = callback
      /\ log[i] # <<>> => log'[i][1] = log[i][1]
      /\ i \in Theirs \cup Ours =>
            \A k \in DOMAIN log'[i] : log'[i][k] \in Ending => k = Len(log'[i])
  <2>1. i \in Theirs \cup Ours => Unended(i)
    BY <1>0, <1>1 DEF StreamLives, LogFits
  <2> QED
    BY <1>0, <1>2, <2>1, CallsLog
<1>7. LoopTouches(i)
  BY <1>1, <1>3, <1>5, <1>6 DEF LoopTouches
<1>8. Ended(i)' /\ Settled(i)'
  BY <1>2, <1>6 DEF Ended, Settled
<1>9. Underway(Request(i))' => Underway(Request(i))
  <2>1. PICK e : e = Request(i)
    OBVIOUS
  <2>2. Underway(e)' => Underway(e)
    BY <1>0, <1>5, UnderwayDropped
  <2> QED
    BY <2>1, <2>2 DEF Request, EventOf
<1>10. i \in Theirs => InboundLife(i)' /\ Follows(i)'
  <2> SUFFICES ASSUME i \in Theirs PROVE InboundLife(i)' /\ Follows(i)'
    OBVIOUS
  <2>1. InboundLife(i)
    BY <1>0 DEF StreamLives
  <2>2. ~Underway(Request(i))
    BY <1>1, <1>5, <2>1 DEF InboundLife
  <2>3. InboundLife(i)'
    BY <1>1, <1>3, <1>4, <1>5, <1>6, <1>8, <1>9, <2>1, <2>2 DEF InboundLife, Heard
  <2>4. Follows(i)'
    BY <1>3, <1>5 DEF Follows
  <2> QED
    BY <2>3, <2>4
<1>11. i \in Ours => OutboundLife(i)'
  BY <1>0, <1>1, <1>3, <1>4, <1>8 DEF StreamLives, OutboundLife, Opening
<1>12. i \in Theirs \cup Ours => LogFits(i)'
  BY <1>3, <1>5, <1>6 DEF LogFits
<1> QED
  BY <1>0, <1>7, <1>8, <1>10, <1>11, <1>12, LoopTouchesKeeps

LEMMA LoopStreams ==
    ASSUME DeviceInvariant, Loop
    PROVE  PipeFits' /\ StreamLives' /\ StreamsFollowed'
<1>1. CASE LoopAccepted
  BY <1>1, LoopGreets, LoopTurnsAway
<1>2. CASE LoopRefused
  BY <1>2, LoopTurnsAway
<1>3. CASE LoopStore
  BY <1>3, LoopStores
<1>4. CASE LoopCallsHandler /\ Stream \in active_handlers
  BY <1>4, LoopCalls
<1>5. CASE LoopEndsHandler /\ Stream \in active_handlers
  BY <1>5, LoopEnds
<1>6. CASE \/ LoopReceive \/ LoopDisconnected \/ LoopAccept \/ LoopRefuse \/ LoopRead
           \/ LoopUpdate \/ LoopReply \/ LoopReplied \/ LoopUpdated
           \/ (LoopCallsHandler \/ LoopEndsHandler) /\ Stream \notin active_handlers
  BY <1>6, LoopQuietSteps, LoopQuietKeeps
<1> QED
  BY <1>1, <1>2, <1>3, <1>4, <1>5, <1>6 DEF Loop

-----------------------------------------------------------------------------
(* The lives of streams, in the steps of the others.                       *)

LEMMA ApplicationOpenings ==
    ASSUME DeviceInvariant, Application, NEW i \in StreamId
    PROVE  /\ i # opening \/ app # "store" => (i \in active_handlers' <=> i \in active_handlers)
           /\ i \in active_handlers => i \in active_handlers'
           /\ \/ Opening(i)' <=> Opening(i)
              \/ opening = i /\ ~Opening(i)' /\ i \in active_handlers' /\ i \in requested
           /\ i \notin requested => (i \in active_handlers' <=> i \in active_handlers)
<1>0. /\ TypeOK /\ OpeningFits /\ App \in Task /\ i # Nothing
      /\ answer \in [Task -> Answer] /\ opening \in requested \cup {Nothing}
  BY TaskAssumption, IdAssumption DEF DeviceInvariant, OpeningFits, TypeOK, PipelineTypeOK, StreamId
<1>1. CASE AppRequest
  <2>1. answer'[App].result # "Ok"
    BY <1>0, <1>1 DEF AppRequest, Ask, Answered
  <2>2. Opening(i)' <=> opening = i
    BY <1>1, <2>1 DEF AppRequest, Opening, Answered
  <2>3. Opening(i) <=> opening = i
    BY <1>1 DEF AppRequest, Opening
  <2> QED
    BY <1>1, <2>2, <2>3 DEF AppRequest
<1>2. CASE AppRequested
  <2>1. opening = Nothing /\ answer[App] \in Answer
    BY <1>0, <1>2 DEF AppRequested, OpeningFits
  <2>2. CASE answer[App].result = "Ok"
    <3>1. Opening(i) <=> answer[App].stream_id = i
      BY <1>0, <1>2, <2>1, <2>2 DEF AppRequested, Opening, Answered, Answer
    <3>2. Opening(i)' <=> answer[App].stream_id = i
      BY <1>2, <2>2 DEF AppRequested, Opening
    <3> QED
      BY <1>2, <3>1, <3>2 DEF AppRequested
  <2>3. CASE answer[App].result # "Ok"
    <3>1. ~Opening(i)
      BY <1>0, <2>1, <2>3 DEF Opening, Answered
    <3>2. ~Opening(i)'
      BY <1>0, <1>2, <2>1, <2>3 DEF AppRequested, Opening
    <3> QED
      BY <1>2, <3>1, <3>2 DEF AppRequested
  <2> QED
    BY <2>2, <2>3
<1>3. CASE AppStore
  <2>1. opening \in requested
    BY <1>0, <1>3 DEF AppStore, OpeningFits
  <2>2. ~Opening(i)' /\ (Opening(i) <=> opening = i)
    BY <1>0, <1>3 DEF AppStore, Opening
  <2> QED
    BY <1>0, <1>3, <2>1, <2>2 DEF AppStore
<1>4. CASE AppClosed
  BY <1>4 DEF AppClosed, Opening
<1>5. CASE \E j \in StreamId : AppClose(j)
  BY <1>5 DEF AppClose, Opening
<1> QED
  BY <1>1, <1>2, <1>3, <1>4, <1>5 DEF Application

LEMMA ApplicationStreams ==
    ASSUME DeviceInvariant, Application
    PROVE  PipeFits' /\ StreamLives' /\ StreamsFollowed'
<1>0. /\ TypeOK /\ PipelineTypeOK /\ PipeFits /\ StreamLives /\ StreamsFollowed
  BY DEF DeviceInvariant, TypeOK
<1>1. /\ UNCHANGED <<running, table, requested, heard, queues, handling, at, log, refused>>
      /\ answer'[EventLoop] = answer[EventLoop] /\ closed_here \subseteq closed_here'
  BY <1>0, ApplicationFrame DEF LoopState, runtime
<1>12. /\ Theirs' = Theirs /\ Ours' = Ours
       /\ Theirs \subseteq StreamId /\ Ours \subseteq StreamId
       /\ \A i \in Theirs : i \notin requested
  BY <1>0, <1>1, Classes, ClassesKept
<1>2. Pipe' = Pipe
  BY <1>1, RestMoves
<1>3. \A i : (Greeted(i)' <=> Greeted(i)) /\ (Admitted(i)' <=> Admitted(i)) /\ (Heard(i)' <=> Heard(i))
  BY <1>1 DEF Greeted, Admitted, Heard, Request, EventOf
<1>4. \A i \in Theirs : i \in active_handlers' <=> i \in active_handlers
  BY <1>12, ApplicationOpenings
<1>5. SettledKept
  BY <1>1, <1>4 DEF SettledKept, Settled, Ended
<1>6. PipeFits'
  BY <1>0, <1>1, <1>2, <1>5, SameFits
<1>7. ASSUME NEW i \in Theirs PROVE InboundLife(i)'
  <2>1. Underway(Request(i))' <=> Underway(Request(i))
    BY <1>2 DEF Underway, Request, EventOf
  <2>2. InboundLife(i)
    BY <1>0 DEF StreamLives
  <2> QED
    BY <1>1, <1>3, <1>4, <2>1, <2>2 DEF InboundLife, Settled, Ended
<1>8. ASSUME NEW i \in Ours PROVE OutboundLife(i)' /\ LogFits(i)'
  <2>1. OutboundLife(i) /\ LogFits(i) /\ i \in StreamId
    BY <1>0, <1>12 DEF StreamLives
  <2>2. CASE opening = i /\ app = "store" /\ ~Opening(i)' /\ i \in active_handlers'
    <3>1. Opening(i) /\ log[i] = <<>>
      BY <2>1, <2>2 DEF Opening, OutboundLife
    <3>2. OutboundLife(i)'
      BY <1>1, <2>1, <2>2, <3>1 DEF OutboundLife
    <3>3. LogFits(i)'
      BY <1>1, <3>1 DEF LogFits, Unended
    <3> QED
      BY <3>2, <3>3
  <2>3. CASE (Opening(i)' <=> Opening(i)) /\ (i \in active_handlers' <=> i \in active_handlers)
    <3>1. OutboundLife(i)'
      BY <1>1, <2>1, <2>3 DEF OutboundLife, Ended
    <3>2. LogFits(i)'
      BY <1>1, <1>3, <2>1, <2>3 DEF LogFits, Unended
    <3> QED
      BY <3>1, <3>2
  <2>4. opening = i => app = "store"
    BY <2>1, IdAssumption DEF DeviceInvariant, OpeningFits, StreamId
  <2>5. opening = i /\ (Opening(i)' <=> Opening(i)) => (i \in active_handlers' <=> i \in active_handlers)
    <3> SUFFICES ASSUME opening = i, Opening(i)' <=> Opening(i)
                 PROVE  i \in active_handlers' <=> i \in active_handlers
      OBVIOUS
    <3>1. Opening(i)' /\ app = "store" /\ i # Nothing
      BY <2>1, <2>4, IdAssumption DEF Opening, StreamId
    <3>2. ~AppStore
      BY <3>1 DEF AppStore, Opening
    <3> QED
      BY <3>1, <3>2 DEF Application, AppRequest, AppRequested, AppClosed, AppClose
  <2> QED
    BY <2>1, <2>2, <2>3, <2>4, <2>5, ApplicationOpenings
<1>9. ASSUME NEW i \in Theirs PROVE LogFits(i)'
  BY <1>0, <1>1, <1>3, <1>4 DEF StreamLives, LogFits, Unended
<1>10. StreamLives'
  BY <1>7, <1>8, <1>9, <1>12 DEF StreamLives
<1>11. StreamsFollowed'
  <2>1. \A i : EndUnderway(i)' <=> EndUnderway(i)
    BY <1>2 DEF EndUnderway, Underway, EventOf
  <2> QED
    BY <1>0, <1>1, <1>3, <1>4, <1>12, <2>1 DEF StreamsFollowed
<1> QED
  BY <1>6, <1>10, <1>11

\* What the tasks below leave as it is.
LEMMA TasksFrame ==
    ASSUME TypeOK, IsFiniteSet(table), Tasks, UNCHANGED device
    PROVE  /\ UNCHANGED <<handling, at, log, active_handlers, refused, opening, app, closed_here>>
           /\ SettledKept
           /\ \A i : Greeted(i)' <=> Greeted(i)
<1>1. UNCHANGED <<handling, at, log, active_handlers, refused, opening, app, closed_here>>
  BY SwarmSteps DEF Tasks, TakeCommand, SendEvent, Shutdown, Forward, Deliver, device, TypeOK
<1> QED
  BY <1>1 DEF SettledKept, Settled, Ended, Greeted, Request, EventOf

LEMMA QueueStreams ==
    ASSUME DeviceInvariant, SendEvent \/ Forward \/ Deliver, UNCHANGED device
    PROVE  PipeFits' /\ StreamLives' /\ StreamsFollowed'
<1>0. /\ TypeOK /\ PipelineTypeOK /\ PipeFits /\ StreamLives /\ StreamsFollowed
      /\ IsFiniteSet(table) /\ Tasks
  BY DEF DeviceInvariant, TypeOK, Tasks
<1>1. /\ UNCHANGED <<running, table, requested, heard, answer>>
      /\ UNCHANGED <<handling, at, log, active_handlers, refused, opening, app, closed_here>>
      /\ SettledKept /\ Pipe' = Pipe
  BY <1>0, TasksFrame, SendEventMoves, ForwardMoves, DeliverMoves
     DEF SendEvent, Forward, Deliver, runtime, calls
<1>2. PipeFits'
  BY <1>0, <1>1, SameFits
<1>9. Theirs' = Theirs /\ Ours' = Ours
  BY <1>1, ClassesKept
<1>3. /\ \A i : Underway(Request(i))' <=> Underway(Request(i))
      /\ \A i : EndUnderway(i)' <=> EndUnderway(i)
  BY <1>1 DEF EndUnderway, Underway, Request, EventOf
<1>4. /\ \A i : Greeted(i)' <=> Greeted(i)
      /\ \A i : Admitted(i)' <=> Admitted(i)
      /\ \A i : Heard(i)' <=> Heard(i)
      /\ \A i : Opening(i)' <=> Opening(i)
  BY <1>1 DEF Greeted, Admitted, Heard, Opening, Request, EventOf
<1>5. \A i \in Theirs : InboundLife(i)'
  BY <1>0, <1>1, <1>3, <1>4 DEF StreamLives, InboundLife, Settled, Ended
<1>6. \A i \in Ours : OutboundLife(i)'
  BY <1>0, <1>1, <1>4 DEF StreamLives, OutboundLife, Ended
<1>7. \A i \in Theirs \cup Ours : LogFits(i)'
  BY <1>0, <1>1, <1>4 DEF StreamLives, LogFits, Unended
<1>8. StreamsFollowed'
  BY <1>0, <1>1, <1>3, <1>4, <1>9 DEF StreamsFollowed
<1> QED
  BY <1>2, <1>5, <1>6, <1>7, <1>8, <1>9 DEF StreamLives

LEMMA SwarmStreams ==
    ASSUME DeviceInvariant, SwarmEvent, UNCHANGED device
    PROVE  PipeFits' /\ StreamLives' /\ StreamsFollowed'
<1>0. /\ TypeOK /\ PipelineTypeOK /\ PipeFits /\ StreamLives /\ StreamsFollowed
      /\ IsFiniteSet(table) /\ Tasks
  BY DEF DeviceInvariant, TypeOK, Tasks
<1>1. PICK list : SwarmStep(list)
  BY <1>0, SwarmSteps
<1>2. /\ running /\ UNCHANGED <<running, requested, answer>>
      /\ UNCHANGED <<handling, at, log, active_handlers, refused, opening, app, closed_here>>
      /\ SettledKept
  BY <1>0, <1>1, SwarmSteps, TasksFrame DEF calls, SwarmStep, Emits, Ready
<1>3. PipeFits'
  BY <1>0, <1>1, <1>2, GrowFits
<1>4. /\ \A i : Greeted(i)' <=> Greeted(i)
      /\ \A i : Admitted(i)' <=> Admitted(i)
      /\ \A i : Opening(i)' <=> Opening(i)
  BY <1>2 DEF Greeted, Admitted, Opening, Request, EventOf
<1>11. Theirs' = Theirs /\ Theirs \subseteq StreamId /\ Ours \subseteq StreamId
  BY <1>0, <1>2, Classes DEF Theirs
<1>5. ASSUME NEW i \in Theirs
      PROVE  /\ Underway(Request(i))' <=> Underway(Request(i)) \/ Lists(list, Request(i))
             /\ EndUnderway(i)' <=> \/ EndUnderway(i)
                                    \/ Lists(list, EventOf("StreamClosed", i))
                                    \/ Lists(list, EventOf("StreamRejected", i))
  <2>1. PICK e, f, g : /\ e = Request(i) /\ f = EventOf("StreamClosed", i)
                       /\ g = EventOf("StreamRejected", i)
    OBVIOUS
  <2>2. /\ Underway(e)' <=> Underway(e) \/ Lists(list, e)
        /\ Underway(f)' <=> Underway(f) \/ Lists(list, f)
        /\ Underway(g)' <=> Underway(g) \/ Lists(list, g)
    BY <1>0, <1>1, UnderwayGrown
  <2> QED
    BY <2>1, <2>2 DEF EndUnderway, Request, EventOf
<1>6. ASSUME NEW i \in StreamId
      PROVE  /\ i \in table \ table' => \/ Lists(list, EventOf("StreamClosed", i))
                                        \/ Lists(list, EventOf("StreamRejected", i))
             /\ Heard(i)' <=> Heard(i) \/ Lists(list, Request(i))
             /\ i \in table' => i \in table \/ Lists(list, Request(i))
             /\ Lists(list, Request(i)) => ~Heard(i)
  <2>1. Lists(list, Request(i)) => ~Heard(i)
    BY <1>1, RequestFacts DEF SwarmStep, Lists
  <2> QED
    BY <1>1, <2>1 DEF SwarmStep
\* An id of this node's may become one of both.
<1>12. Ours' \subseteq Ours
  <2>1. requested \subseteq StreamId /\ requested' = requested
    BY <1>0, <1>2 DEF PipelineTypeOK, StreamId
  <2>2. \A i \in StreamId : Heard(i) => Heard(i)'
    BY <1>6
  <2> QED
    BY <2>1, <2>2 DEF Ours
<1>7. ASSUME NEW i \in Theirs PROVE InboundLife(i)'
  <2>1. InboundLife(i) /\ i \in StreamId
    BY <1>0, <1>11 DEF StreamLives
  <2>2. Settled(i)' <=> Settled(i)
    BY <1>2 DEF Settled, Ended
  <2>3. Greeted(i) => Heard(i)
    <3>1. Greeted(i) => log[i] # <<>>
      BY <2>1 DEF InboundLife
    <3> QED
      BY <2>1, <3>1 DEF InboundLife
  <2> QED
    BY <1>2, <1>4, <1>5, <1>6, <2>1, <2>2, <2>3 DEF InboundLife
<1>8. \A i \in Ours : OutboundLife(i)'
  BY <1>0, <1>2, <1>4 DEF StreamLives, OutboundLife, Ended
<1>9. \A i \in Theirs \cup Ours : LogFits(i)'
  BY <1>0, <1>2, <1>4 DEF StreamLives, LogFits, Unended
<1>10. StreamsFollowed'
  BY <1>0, <1>2, <1>4, <1>5, <1>6, <1>11 DEF StreamsFollowed
<1> QED
  BY <1>3, <1>7, <1>8, <1>9, <1>10, <1>11, <1>12 DEF StreamLives

LEMMA ShutdownStreams ==
    ASSUME DeviceInvariant, Shutdown, UNCHANGED device
    PROVE  PipeFits' /\ StreamLives' /\ StreamsFollowed'
<1>0. /\ TypeOK /\ PipelineTypeOK /\ PipeFits /\ StreamLives
      /\ IsFiniteSet(table) /\ Tasks
  BY DEF DeviceInvariant, TypeOK, Tasks
<1>1. /\ ~running' /\ table' = {} /\ UNCHANGED <<requested, heard>>
      /\ UNCHANGED <<handling, at, log, active_handlers, refused, opening, app, closed_here>>
      /\ SettledKept
  BY <1>0, TasksFrame DEF Shutdown
<1>2. PipeFits' /\ \A e : Underway(e)' => Underway(e)
  BY <1>0, <1>1, CutFits
<1>3. \A i : Underway(Request(i))' => Underway(Request(i))
  <2> TAKE i
  <2>1. PICK e : e = Request(i)
    OBVIOUS
  <2>2. Underway(e)' => Underway(e)
    BY <1>2
  <2> QED
    BY <2>1, <2>2 DEF Request, EventOf
<1>4. \A i : Opening(i)' <=> Opening(i)
  <2>1. \/ answer'[App] = answer[App]
        \/ answer[App].result = "Awaited" /\ answer'[App].result = "Err"
    BY <1>0, TaskAssumption DEF Shutdown, Answered, PipelineTypeOK
  <2> QED
    BY <1>1, <2>1 DEF Opening, Answered
<1>5. \A i : (Greeted(i)' <=> Greeted(i)) /\ (Heard(i)' <=> Heard(i))
  BY <1>1 DEF Greeted, Heard, Request, EventOf
<1>6. \A i \in Theirs : InboundLife(i)'
  BY <1>0, <1>1, <1>3, <1>5 DEF StreamLives, InboundLife
<1>7. \A i \in Ours : OutboundLife(i)'
  BY <1>0, <1>1, <1>4 DEF StreamLives, OutboundLife, Ended
<1>10. Theirs' = Theirs /\ Ours' = Ours
  BY <1>1, ClassesKept
<1>8. \A i \in Theirs \cup Ours : LogFits(i)'
  BY <1>0, <1>1, <1>5 DEF StreamLives, LogFits, Unended
<1>9. StreamsFollowed'
  BY <1>1 DEF StreamsFollowed
<1> QED
  BY <1>2, <1>6, <1>7, <1>8, <1>9, <1>10 DEF StreamLives

LEMMA TakeCommandStreams ==
    ASSUME DeviceInvariant, TakeCommand, UNCHANGED device
    PROVE  PipeFits' /\ StreamLives' /\ StreamsFollowed'
<1> DEFINE c == Head(command_queue)
<1>0. /\ TypeOK /\ PipelineTypeOK /\ PipeFits /\ StreamLives /\ StreamsFollowed /\ OpeningFits
      /\ IsFiniteSet(table) /\ Tasks
      /\ EventLoop # App /\ {EventLoop, App} \subseteq Task
  BY TaskAssumption DEF DeviceInvariant, TypeOK, Tasks
<1>1. /\ UNCHANGED <<running, heard, queues>>
      /\ UNCHANGED <<handling, at, log, active_handlers, refused, opening, app, closed_here>>
      /\ SettledKept
  BY <1>0, TasksFrame DEF TakeCommand
<1>2. c \in Command /\ CommandFits(c)
  BY <1>0, HeadTailType DEF TakeCommand, PipelineTypeOK, CommandsFit, DeviceInvariant
<1>3. PICK a \in [result : {"Ok", "Err"}, stream_id : StreamId \cup {Nothing}] :
         answer' = [answer EXCEPT ![c.by] = a]
  BY <1>2 DEF TakeCommand, Answered, StreamId, Command
<1>4. Pipe' = Pipe
  BY <1>1, RestMoves
<1>5. /\ \A i : Underway(Request(i))' <=> Underway(Request(i))
      /\ \A i : EndUnderway(i)' <=> EndUnderway(i)
  BY <1>4 DEF EndUnderway, Underway, Request, EventOf
<1>6. \A i : (Greeted(i)' <=> Greeted(i)) /\ (Heard(i)' <=> Heard(i))
  BY <1>1 DEF Greeted, Heard, Request, EventOf
<1>7. requested \subseteq requested'
  BY DEF TakeCommand
<1>8. PipeFits'
  BY <1>0, <1>1, <1>4, <1>7, SameFits
<1>17. Theirs' \subseteq Theirs /\ Theirs \subseteq StreamId /\ Ours \subseteq StreamId
  BY <1>0, <1>7, Classes DEF Theirs
\* What happens to the stream table.
<1>9. ASSUME NEW i \in Theirs'
      PROVE  /\ i \in table' => i \in table
             /\ i \in table => \/ i \in table' \/ i \in closed_here
                               \/ at = "refusing" /\ i = Stream
  BY <1>2, <1>9 DEF TakeCommand, CommandFits, Theirs
<1>10. ASSUME NEW i \in Theirs' PROVE InboundLife(i)'
  <2>1. InboundLife(i)
    BY <1>0, <1>10, <1>17 DEF StreamLives
  <2> QED
    BY <1>1, <1>5, <1>6, <1>9, <1>10, <2>1 DEF InboundLife, Settled, Ended
\* A new stream is the one the application waits for.
<1>11. \/ /\ requested' = requested
          /\ \A i \in StreamId : Opening(i)' <=> Opening(i)
       \/ \E n \in Outbound \ requested :
             /\ requested' = requested \cup {n}
             /\ \A i \in StreamId : (Opening(i)' <=> i = n) /\ ~Opening(i)
  <2>1. CASE c.by = App /\ c.type = "RequestStream"
    <3>1. app = "requesting" /\ opening = Nothing /\ answer[App].result = "Awaited"
      BY <1>0, <1>2, <2>1 DEF CommandFits, OpeningFits
    <3>2. \A i \in StreamId : ~Opening(i)
      BY <3>1, IdAssumption DEF Opening, Answered, StreamId
    <3>3. CASE /\ requested' = requested
               /\ answer' = [answer EXCEPT ![App] = Answered("Err", Nothing)]
      <4>1. answer'[App] = Answered("Err", Nothing)
        BY <1>0, <3>3 DEF PipelineTypeOK
      <4>2. \A i \in StreamId : ~Opening(i)'
        BY <1>1, <3>1, <4>1, IdAssumption DEF Opening, Answered, StreamId
      <4> QED
        BY <3>2, <3>3, <4>2
    <3>4. ASSUME NEW n \in Outbound \ requested, requested' = requested \cup {n},
                 answer' = [answer EXCEPT ![App] = Answered("Ok", n)]
          PROVE  \A i \in StreamId : Opening(i)' <=> i = n
      <4>1. answer'[App] = Answered("Ok", n)
        BY <1>0, <3>4 DEF PipelineTypeOK
      <4> QED
        BY <1>1, <3>1, <4>1, IdAssumption DEF Opening, Answered, StreamId
    <3>5. \/ /\ requested' = requested
             /\ answer' = [answer EXCEPT ![App] = Answered("Err", Nothing)]
          \/ \E n \in Outbound \ requested :
                /\ requested' = requested \cup {n}
                /\ answer' = [answer EXCEPT ![App] = Answered("Ok", n)]
      BY <2>1 DEF TakeCommand
    <3> QED
      BY <3>2, <3>3, <3>4, <3>5
  <2>2. CASE c.by = App /\ c.type # "RequestStream"
    <3>1. app # "requesting" /\ requested' = requested
      BY <1>2, <2>2 DEF CommandFits, TakeCommand
    <3> QED
      BY <1>1, <3>1 DEF Opening
  <2>3. CASE c.by # App
    <3>1. requested' = requested
      BY <1>2, <2>3 DEF CommandFits, TakeCommand
    <3>2. answer'[App] = answer[App]
      BY <1>0, <1>3, <2>3 DEF PipelineTypeOK
    <3> QED
      BY <1>1, <3>1, <3>2 DEF Opening
  <2> QED
    BY <2>1, <2>2, <2>3
\* It becomes one of this node's if the peer has not used its id.
<1>12. ASSUME NEW i \in Ours' PROVE OutboundLife(i)' /\ LogFits(i)'
  <2>1. i \in requested' /\ ~Heard(i) /\ i \in StreamId
    <3>1. requested' \subseteq Outbound
      BY <1>0, TakeCommandType DEF PipelineTypeOK
    <3> QED
      BY <1>6, <1>12, <3>1 DEF Ours, StreamId
  <2>2. CASE i \in requested
    <3>1. i \in Ours
      BY <2>1, <2>2 DEF Ours
    <3>2. OutboundLife(i) /\ LogFits(i)
      BY <1>0, <3>1 DEF StreamLives
    <3>3. Opening(i)' <=> Opening(i)
      BY <1>11, <2>1, <2>2
    <3> QED
      BY <1>1, <1>6, <3>2, <3>3 DEF OutboundLife, LogFits, Ended, Unended
  <2>3. CASE i \notin requested
    <3>1. i \in Theirs /\ Opening(i)'
      BY <1>11, <2>1, <2>3 DEF Theirs
    <3>2. InboundLife(i) /\ LogFits(i)
      BY <1>0, <3>1 DEF StreamLives
    <3>3. i \notin active_handlers /\ log[i] = <<>>
      BY <2>1, <3>2 DEF InboundLife
    <3> QED
      BY <1>1, <1>6, <3>1, <3>2, <3>3 DEF OutboundLife, LogFits, Unended
  <2> QED
    BY <2>2, <2>3
<1>13. \A i \in Theirs' : LogFits(i)'
  BY <1>0, <1>1, <1>6, <1>17 DEF StreamLives, LogFits, Unended
\* The stream of the loop is accepted while the runtime knows it.
<1>14. ASSUME NEW i, Admitted(i)', ~Admitted(i)
       PROVE  i \in table'
  <2>1. /\ handling = Request(i) /\ at = "accepting"
        /\ answer'[EventLoop].result = "Ok" /\ answer[EventLoop].result # "Ok"
    BY <1>1, <1>6, <1>14 DEF Admitted, Request, EventOf
  <2>2. c.by = EventLoop
    BY <1>0, <1>3, <2>1 DEF PipelineTypeOK
  <2>3. c.type = "AcceptStream" /\ c.stream_id = i
    BY <1>2, <2>1, <2>2, RequestFacts DEF CommandFits, Stream
  <2>4. table' = table
        /\ answer' = [answer EXCEPT ![EventLoop] = Answered(IF i \in table THEN "Ok" ELSE "Err", i)]
    BY <2>2, <2>3 DEF TakeCommand
  <2>5. answer'[EventLoop].result = IF i \in table THEN "Ok" ELSE "Err"
    BY <1>0, <2>4 DEF PipelineTypeOK, Answered
  <2> QED
    BY <2>1, <2>4, <2>5
<1>15. ASSUME at = "refusing", NEW i \in Theirs, i = Stream
       PROVE  i \notin active_handlers' /\ ~Admitted(i)'
  BY <1>1, <1>15, Awaiting DEF Admitted, Greeted
<1>16. StreamsFollowed'
  BY <1>0, <1>1, <1>5, <1>9, <1>14, <1>15, <1>17 DEF StreamsFollowed
<1> QED
  BY <1>8, <1>10, <1>12, <1>13, <1>16 DEF StreamLives

LEMMA TableFinite ==
    ASSUME DeviceInvariant, [Next]_vars
    PROVE  IsFiniteSet(table')
<1>0. TypeOK /\ PipelineTypeOK /\ IsFiniteSet(table)
  BY DEF DeviceInvariant, TypeOK
<1>1. CASE Loop \/ Application
  BY <1>0, <1>1, LoopFrame, ApplicationFrame DEF runtime
<1>2. CASE SwarmEvent
  BY <1>0, <1>2, SwarmSteps
<1>3. CASE SendEvent \/ Forward \/ Deliver
  BY <1>0, <1>3 DEF SendEvent, Forward, Deliver, runtime
<1>4. CASE Shutdown
  BY <1>4, FS_EmptySet DEF Shutdown
<1>5. CASE TakeCommand
  <2>1. \E i : table' = table \/ table' = table \cup {i} \/ table' = table \ {i}
    BY <1>5 DEF TakeCommand
  <2>2. PICK i : table' = table \/ table' = table \cup {i} \/ table' = table \ {i}
    BY <2>1
  <2>3. IsFiniteSet(table \cup {i})
    BY <1>0, FS_AddElement
  <2>4. IsFiniteSet(table \ {i})
    BY <1>0, FS_Subset
  <2> QED
    BY <1>0, <2>2, <2>3, <2>4
<1>6. CASE UNCHANGED vars
  BY <1>0, <1>6 DEF vars, pipeline, runtime
<1> QED
  BY <1>1, <1>2, <1>3, <1>4, <1>5, <1>6 DEF Next, Tasks

-----------------------------------------------------------------------------
(* The invariant.                                                          *)

LEMMA StutterKeeps ==
    ASSUME DeviceInvariant, UNCHANGED vars
    PROVE  DeviceInvariant'
<1>1. /\ UNCHANGED <<running, connected, sessions, table, requested, heard, command_queue, answer>>
      /\ UNCHANGED <<outbox, event_queue, forwarding, user_queue, handling>>
      /\ UNCHANGED <<at, locked, active_handlers, app, opening, log, refused, closed_here>>
  BY DEF vars, pipeline, device, runtime, calls, queues
<1>2. Pipe' = Pipe
  BY <1>1 DEF Pipe, One
<1>3. TypeOK' /\ IsFiniteSet(table)'
  BY <1>1 DEF DeviceInvariant, TypeOK, PipelineTypeOK
<1>4. LoopFits' /\ CommandsFit' /\ OpeningFits'
  BY <1>1 DEF DeviceInvariant, LoopFits, CommandsFit, CommandFits, LoopWaits, OpeningFits, Stream
<1>5. PipeFits'
  BY <1>1, <1>2 DEF DeviceInvariant, PipeFits, RequestsComeOnce, RequestsWereHeard, Heard, Theirs,
                    AnswersFollowRequest, Settled, Ended, Request, EventOf, Underway
<1>8. Theirs' = Theirs /\ Ours' = Ours
  BY <1>1, ClassesKept
<1>6. StreamLives'
  BY <1>1, <1>2, <1>8 DEF DeviceInvariant, StreamLives, InboundLife, OutboundLife, LogFits, Underway,
                    Settled, Ended, Unended, Opening, Greeted, Heard, Request, EventOf
<1>7. StreamsFollowed'
  BY <1>1, <1>2, <1>8
     DEF DeviceInvariant, StreamsFollowed, Admitted, Greeted, EndUnderway, Underway, Request, EventOf
<1> QED
  BY <1>3, <1>4, <1>5, <1>6, <1>7 DEF DeviceInvariant

LEMMA StepKeeps ==
    ASSUME DeviceInvariant, [Next]_vars
    PROVE  DeviceInvariant'
<1>0. /\ TypeOK /\ IsFiniteSet(table) /\ LoopFits /\ CommandsFit /\ OpeningFits
  BY DEF DeviceInvariant
<1>1. CASE Loop
  <2>1. TypeOK' /\ LoopFits'
    BY <1>0, <1>1, LoopType
  <2>2. CommandsFit' /\ OpeningFits'
    BY <1>0, <1>1, LoopCommands
  <2> QED
    BY <1>1, <2>1, <2>2, LoopStreams, TableFinite DEF DeviceInvariant
<1>2. CASE Application
  <2>1. TypeOK' /\ LoopFits'
    BY <1>0, <1>2, ApplicationType
  <2>2. CommandsFit' /\ OpeningFits'
    BY <1>0, <1>2, ApplicationCommands
  <2> QED
    BY <1>2, <2>1, <2>2, ApplicationStreams, TableFinite DEF DeviceInvariant
<1>3. CASE Tasks /\ UNCHANGED device
  <2>1. TypeOK' /\ LoopFits'
    BY <1>0, <1>3, TasksType
  <2>2. CommandsFit' /\ OpeningFits'
    BY <1>0, <1>3, TasksCommands
  <2>3. PipeFits' /\ StreamLives' /\ StreamsFollowed'
    BY <1>3, TakeCommandStreams, SwarmStreams, QueueStreams, ShutdownStreams DEF Tasks
  <2> QED
    BY <2>1, <2>2, <2>3, TableFinite DEF DeviceInvariant
<1>4. CASE UNCHANGED vars
  BY <1>4, StutterKeeps
<1> QED
  BY <1>1, <1>2, <1>3, <1>4 DEF Next

-----------------------------------------------------------------------------
(* What the invariant says of the properties.                              *)

LEMMA ListsJoined ==
    ASSUME NEW S, NEW s \in Seq(S), NEW t \in Seq(S), NEW e
    PROVE  Lists(s \o t, e) <=> Lists(s, e) \/ Lists(t, e)
<1> DEFINE m == Len(s)
           n == Len(t)
<1>1. /\ m \in Nat /\ n \in Nat /\ DOMAIN s = 1..m /\ DOMAIN t = 1..n
      /\ DOMAIN (s \o t) = 1..(m + n)
      /\ \A k \in 1..m : (s \o t)[k] = s[k]
      /\ \A k \in 1..n : (s \o t)[m + k] = t[k]
  OBVIOUS
<1> HIDE DEF m, n
<1>2. \A k \in 1..(m + n) : k \in 1..m \/ \E l \in 1..n : k = m + l
  <2> TAKE k \in 1..(m + n)
  <2>1. CASE k <= m
    BY <1>1, <2>1
  <2>2. CASE k > m
    <3>1. k - m \in 1..n /\ k = m + (k - m)
      BY <1>1, <2>2
    <3> QED
      BY <3>1
  <2> QED
    BY <1>1, <2>1, <2>2
<1>3. (\A k \in 1..m : k \in 1..(m + n)) /\ \A k \in 1..n : m + k \in 1..(m + n)
  BY <1>1
<1>4. Lists(s \o t, e) => Lists(s, e) \/ Lists(t, e)
  BY <1>1, <1>2 DEF Lists
<1>5. Lists(s, e) => Lists(s \o t, e)
  BY <1>1, <1>3 DEF Lists
<1>6. Lists(t, e) => Lists(s \o t, e)
  BY <1>1, <1>3 DEF Lists
<1> QED
  BY <1>4, <1>5, <1>6

\* An event on its way is in one of the five places.
LEMMA UnderwayPlaces ==
    ASSUME PipelineTypeOK, NEW e, Underway(e)
    PROVE  e \in {handling, forwarding} \/ e \in ToSet(outbox \o event_queue \o user_queue)
<1>1. /\ One(handling) \in Seq(Event) /\ One(forwarding) \in Seq(Event)
      /\ user_queue \in Seq(Event) /\ event_queue \in Seq(Event) /\ outbox \in Seq(Event)
  BY OneType DEF PipelineTypeOK
<1>2. Lists(Pipe, e)
  BY DEF Underway, Lists
<1>3. \/ Lists(One(handling), e) \/ Lists(user_queue, e) \/ Lists(One(forwarding), e)
      \/ Lists(event_queue, e) \/ Lists(outbox, e)
  <2> DEFINE a == One(handling)
             b == user_queue
             c == One(forwarding)
             d == event_queue
             f == outbox
  <2>1. /\ a \in Seq(Event) /\ b \in Seq(Event) /\ c \in Seq(Event) /\ d \in Seq(Event)
        /\ f \in Seq(Event) /\ Lists(Joined(a, Joined(b, Joined(c, Joined(d, f)))), e)
    BY <1>1, <1>2 DEF Pipe, Joined
  <2> HIDE DEF a, b, c, d, f
  <2>2. \A s, t \in Seq(Event) : /\ Joined(s, t) \in Seq(Event)
                                 /\ Lists(Joined(s, t), e) => Lists(s, e) \/ Lists(t, e)
    BY JoinedLaws, ListsJoined DEF Joined
  <2>3. Joined(d, f) \in Seq(Event)
    BY <2>1, <2>2
  <2>4. Joined(c, Joined(d, f)) \in Seq(Event)
    BY <2>1, <2>2, <2>3
  <2>5. Joined(b, Joined(c, Joined(d, f))) \in Seq(Event)
    BY <2>1, <2>2, <2>4
  <2>6. Lists(a, e) \/ Lists(b, e) \/ Lists(c, e) \/ Lists(d, e) \/ Lists(f, e)
    BY <2>1, <2>2, <2>3, <2>4, <2>5
  <2> QED
    BY <2>6 DEF a, b, c, d, f
<1>4. ASSUME NEW f, Lists(One(f), e)
      PROVE  e = f
  BY <1>4 DEF Lists, One
<1>5. outbox \o event_queue \in Seq(Event)
  BY <1>1, ConcatProperties
<1>6. Lists(outbox, e) \/ Lists(event_queue, e) => Lists(outbox \o event_queue, e)
  BY <1>1, ListsJoined
<1>7. Lists(outbox \o event_queue, e) \/ Lists(user_queue, e)
        => Lists((outbox \o event_queue) \o user_queue, e)
  BY <1>1, <1>5, ListsJoined
<1>8. Lists((outbox \o event_queue) \o user_queue, e)
        => e \in ToSet(outbox \o event_queue \o user_queue)
  BY DEF Lists, ToSet
<1> QED
  BY <1>3, <1>4, <1>6, <1>7, <1>8

LEMMA FollowsFrom == DeviceInvariant => HandlersFollowStreams
<1> SUFFICES ASSUME DeviceInvariant, running, NEW i \in active_handlers \cap Theirs
             PROVE  i \in table \/ EndIsComing(i) \/ i \in closed_here
  BY DEF HandlersFollowStreams
<1>1. PipelineTypeOK
  BY DEF DeviceInvariant, TypeOK
<1>2. i \in table \/ i \in closed_here \/ EndUnderway(i)
  BY DEF DeviceInvariant, StreamsFollowed
<1>3. PICK e, f : e = EventOf("StreamClosed", i) /\ f = EventOf("StreamRejected", i)
  OBVIOUS
<1>4. ASSUME NEW d, Underway(d)
      PROVE  d \in {handling, forwarding} \/ d \in ToSet(outbox \o event_queue \o user_queue)
  BY <1>1, <1>4, UnderwayPlaces
<1>5. EndUnderway(i) => EndIsComing(i)
  BY <1>3, <1>4 DEF EndIsComing, EndUnderway
<1> QED
  BY <1>2, <1>5

LEMMA OrderFrom == DeviceInvariant => CallbacksInOrder
<1> SUFFICES ASSUME DeviceInvariant, NEW i \in StreamId \ Shared
             PROVE  /\ \A k \in DOMAIN log[i] : log[i][k] \in {"rejected", "closed"} => k = Len(log[i])
                    /\ i \in Theirs /\ log[i] # <<>> => log[i][1] = "accepted"
  BY DEF CallbacksInOrder
<1>1. LogFits(i) /\ (i \in Theirs => InboundLife(i))
  BY Classes DEF DeviceInvariant, StreamLives
<1> QED
  BY <1>1 DEF LogFits, InboundLife, Ending

LEMMA DropsFrom == DeviceInvariant => DropsAreExplained
<1> SUFFICES ASSUME DeviceInvariant, at = "lock", handling.type # "StreamClosed",
                    Stream \notin active_handlers \cup Shared
             PROVE  \/ Stream \in refused
                    \/ log[Stream] # <<>> /\ Last(log[Stream]) \in {"rejected", "closed"}
                    \/ Stream = opening
                    \/ app = "requesting" /\ answer[App].stream_id = Stream
  BY DEF DropsAreExplained
<1>1. /\ TypeOK /\ PipelineTypeOK /\ LoopFits /\ PipeFits /\ StreamLives
  BY DEF DeviceInvariant, TypeOK
<1>2. /\ handling \in Event /\ handling # Nothing
      /\ handling.type \in {"StreamAccepted", "StreamRejected", "StreamData"}
  BY <1>1, EventAssumption DEF LoopFits, PipelineTypeOK
<1>3. Stream \in StreamId /\ (Stream \in Theirs \/ Stream \in Ours)
  BY <1>1, <1>2, EventTypes, Classes DEF Stream
<1>4. 1 \in DOMAIN Pipe /\ Pipe[1] = handling
  <2> DEFINE rest == user_queue \o (One(forwarding) \o (event_queue \o outbox))
  <2>1. rest \in Seq(Event) /\ Pipe = <<handling>> \o rest
    BY <1>1, <1>2, PipeType DEF Pipe, One
  <2> HIDE DEF rest
  <2>2. 1 \in DOMAIN (<<handling>> \o rest) /\ (<<handling>> \o rest)[1] = handling
    BY <1>2, <2>1
  <2> QED
    BY <2>1, <2>2
<1>5. CASE Stream \in Theirs
  <2>1. \A l : ~(l \in 1..(1 - 1))
    OBVIOUS
  <2>2. Settled(handling.stream_id) \/ \E l \in 1..(1 - 1) : Pipe[l] = Request(handling.stream_id)
    BY <1>1, <1>2, <1>3, <1>4, <1>5 DEF PipeFits, AnswersFollowRequest, Stream
  <2>3. Settled(Stream)
    BY <2>1, <2>2 DEF Stream
  <2> QED
    BY <2>3 DEF Settled, Ended, Ending
<1>6. CASE Stream \in Ours
  <2>1. Opening(Stream) \/ Ended(Stream)
    BY <1>1, <1>6 DEF StreamLives, OutboundLife
  <2> QED
    BY <2>1 DEF Opening, Ended, Ending, Answered
<1> QED
  BY <1>3, <1>5, <1>6

-----------------------------------------------------------------------------
LEMMA InvariantHolds == Spec => []DeviceInvariant
<1>1. DeviceInvariant /\ [Next]_vars => DeviceInvariant'
  BY StepKeeps
<1> QED
  BY InitFits, <1>1, PTL DEF Spec

(* Whatever the interleaving of the loop, the application, the runtime and *)
(* the forwarder: channels keep their capacities, and no task is where the *)
(* event or the answer it has cannot be.                                   *)
THEOREM TypeCorrect == Spec => []TypeOK
<1>1. DeviceInvariant => TypeOK
  BY DEF DeviceInvariant
<1> QED
  BY InvariantHolds, <1>1, PTL

(* For any sets of ids used by the two sides, overlapping or not, and      *)
(* channels of any capacity: an id with a handler that this node has not   *)
(* given out is in the runtime's table, was closed on this side, or its    *)
(* end is on its way to the loop that will remove the handler (dispatcher  *)
(* of src/src/stream.rs).                                                  *)
THEOREM HandlersKeepUp == Spec => []HandlersFollowStreams
  BY InvariantHolds, FollowsFrom, PTL

(* For every id that does not name a stream of each side: no handler is    *)
(* called back after on_closed or on_rejected, and that of a stream of the *)
(* peer's hears on_accepted first.                                         *)
THEOREM CallbacksKeepOrder == Spec => []CallbacksInOrder
  BY InvariantHolds, OrderFrom, PTL

(* An answer or data for an id that does not name a stream of each side is *)
(* dropped without a callback only when that stream was refused, has       *)
(* ended, or is between RequestStream and the insertion of its handler.    *)
THEOREM DropsHaveReasons == Spec => []DropsAreExplained
  BY InvariantHolds, DropsFrom, PTL

-----------------------------------------------------------------------------
(* Who waits for what.                                                     *)

AppWaits == app \in {"requesting", "closing"}

(* A caller that is still waiting has its command in the queue, and the    *)
(* runtime lives; a caller has an answer of some kind while it waits, and  *)
(* none otherwise; the lock is held only from a callback to the answer of  *)
(* its call.                                                               *)
CallsFit ==
    \A t \in {EventLoop, App} : answer[t].result = "Awaited" =>
       running /\ \E k \in DOMAIN command_queue : command_queue[k].by = t
LoopHasAnswer ==
    /\ LoopWaits => answer[EventLoop].result # "None"
    /\ ~LoopWaits => answer[EventLoop] = NoAnswer
AppHasAnswer ==
    /\ AppWaits => answer[App].result # "None"
    /\ ~AppWaits => answer[App] = NoAnswer
LockFits == locked => at \in {"reply", "replying"}

WaitInvariant == CallsFit /\ LoopHasAnswer /\ AppHasAnswer /\ LockFits

LEMMA WaitInit == Init => WaitInvariant
<1> SUFFICES ASSUME Init PROVE WaitInvariant
  OBVIOUS
<1>1. \A t \in {EventLoop, App} : answer[t] = NoAnswer /\ answer[t].result = "None"
  BY TaskAssumption DEF Init, PipelineInit, NoAnswer, Answered
<1>2. CallsFit
  BY <1>1 DEF CallsFit, Init, PipelineInit
<1> QED
  BY <1>1, <1>2 DEF WaitInvariant, LoopHasAnswer, AppHasAnswer, LockFits, LoopWaits, AppWaits,
                    Init

\* A call goes out.
LEMMA AskWaits ==
    ASSUME TypeOK, CallsFit, NEW t \in {EventLoop, App}, NEW type, NEW i, Ask(t, type, i)
    PROVE  CallsFit' /\ answer'[t].result # "None"
<1>0. t \in Task /\ {EventLoop, App} \subseteq Task /\ PipelineTypeOK
  BY TaskAssumption DEF TypeOK
<1>1. UNCHANGED <<running, requested>> /\ \A u \in Task \ {t} : answer'[u] = answer[u]
  BY <1>0 DEF Ask, runtime, PipelineTypeOK
<1>2. CASE ~running
  <2>1. command_queue' = command_queue /\ answer'[t].result = "Err"
    BY <1>0, <1>2 DEF Ask, PipelineTypeOK, Answered
  <2> QED
    BY <1>0, <1>1, <1>2, <2>1 DEF CallsFit
<1>3. CASE running
  <2> DEFINE c == [type |-> type, by |-> t, stream_id |-> i]
             n == Len(command_queue)
  <2>1. command_queue' = Append(command_queue, c) /\ answer'[t].result = "Awaited"
    BY <1>0, <1>3 DEF Ask, PipelineTypeOK, Answered
  <2>2. c.by = t /\ c.type = type
    OBVIOUS
  <2> HIDE DEF c
  <2>3. /\ n \in Nat /\ DOMAIN command_queue = 1..n /\ DOMAIN command_queue' = 1..(n + 1)
        /\ \A k \in 1..n : command_queue'[k] = command_queue[k]
        /\ command_queue'[n + 1] = c
    BY <1>0, <2>1 DEF PipelineTypeOK
  <2> HIDE DEF n
  <2>4. n + 1 \in 1..(n + 1) /\ \A k \in 1..(n + 1) : k \in 1..n \/ k = n + 1
    BY <2>3
  <2>5. \A k \in 1..n : k \in 1..(n + 1)
    BY <2>3
  <2>6. ASSUME NEW u \in {EventLoop, App}, answer'[u].result = "Awaited"
        PROVE  running' /\ \E k \in DOMAIN command_queue' : command_queue'[k].by = u
    <3>1. CASE u = t
      BY <1>1, <1>3, <2>2, <2>3, <2>4, <3>1
    <3>2. CASE u # t
      <4>1. answer[u].result = "Awaited"
        BY <1>0, <1>1, <2>6, <3>2
      <4>2. PICK k \in 1..n : command_queue[k].by = u
        BY <2>3, <4>1 DEF CallsFit
      <4> QED
        BY <1>1, <1>3, <2>3, <2>5, <4>2
    <3> QED
      BY <3>1, <3>2
  <2>7. CallsFit'
    BY <2>6 DEF CallsFit
  <2> QED
    BY <2>1, <2>7
<1> QED
  BY <1>2, <1>3

\* A call returns.
LEMMA ReturnWaits ==
    ASSUME TypeOK, CallsFit, NEW t \in {EventLoop, App}, Returns(t)
    PROVE  CallsFit' /\ answer'[t] = NoAnswer
<1>0. t \in Task /\ {EventLoop, App} \subseteq Task /\ PipelineTypeOK
  BY TaskAssumption DEF TypeOK
<1>1. /\ UNCHANGED <<running, requested, command_queue>>
      /\ answer'[t] = NoAnswer /\ NoAnswer.result = "None"
      /\ \A u \in Task \ {t} : answer'[u] = answer[u]
  BY <1>0 DEF Returns, runtime, PipelineTypeOK, NoAnswer, Answered
<1> QED
  BY <1>0, <1>1 DEF CallsFit

LEMMA SameWaits ==
    ASSUME CallsFit, UNCHANGED <<running, requested, command_queue, answer>>
    PROVE  CallsFit'
  BY DEF CallsFit

LEMMA LoopWaitsKept ==
    ASSUME TypeOK, LoopFits, WaitInvariant, Loop
    PROVE  WaitInvariant'
<1>0. /\ UNCHANGED <<running, requested, app>> /\ answer'[App] = answer[App]
      /\ EventLoop \in {EventLoop, App}
  BY LoopFrame DEF runtime
<1>1. AppHasAnswer'
  BY <1>0 DEF WaitInvariant, AppHasAnswer, AppWaits
<1>2. CASE LoopReceive
  <2>1. UNCHANGED <<command_queue, answer, locked>> /\ at = "idle"
    BY <1>2 DEF LoopReceive, Receive, calls, LoopFits
  <2>2. at' \notin {"accepting", "refusing", "replying", "reading", "updating"}
    <3>1. Receive /\ at' \in Begin(handling')
      BY <1>2 DEF LoopReceive
    <3>2. handling' \in Event
      BY <3>1, ReceiveType DEF TypeOK
    <3> QED
      BY <3>1, <3>2, BeginFits
  <2>3. ~LoopWaits /\ ~LoopWaits' /\ ~locked
    BY <2>1, <2>2 DEF LoopWaits, WaitInvariant, LockFits
  <2> QED
    BY <1>0, <1>1, <2>1, <2>3, SameWaits DEF WaitInvariant, LoopHasAnswer, LockFits
<1>3. CASE LoopDisconnected \/ LoopStore \/ LoopEndsHandler \/ LoopCallsHandler
  <2>1. /\ UNCHANGED <<command_queue, answer>>
        /\ at \in {"done", "store", "lock"} /\ at' \in {"idle", "reply"}
        /\ locked' = locked \/ at' = "reply"
    BY <1>3 DEF LoopDisconnected, LoopStore, LoopEndsHandler, LoopCallsHandler, EndHandling, calls
  <2>2. ~LoopWaits /\ ~LoopWaits' /\ ~locked
    BY <2>1 DEF LoopWaits, WaitInvariant, LockFits
  <2> QED
    BY <1>0, <1>1, <2>1, <2>2, SameWaits DEF WaitInvariant, LoopHasAnswer, LockFits
<1>4. ASSUME NEW from \in {"accept", "refuse", "read", "update", "reply"},
             NEW to \in {"accepting", "refusing", "replying", "reading", "updating"},
             NEW type, type # "RequestStream", NEW i, LoopAsk(from, to, type, i),
             from = "reply" => to = "replying"
      PROVE  WaitInvariant'
  <2>1. /\ Ask(EventLoop, type, i) /\ at = from /\ at' = to /\ locked' = locked
    BY <1>4 DEF LoopAsk
  <2>2. CallsFit' /\ answer'[EventLoop].result # "None"
    BY <1>0, <1>4, <2>1, AskWaits DEF WaitInvariant
  <2>3. LoopHasAnswer' /\ LockFits'
    BY <1>4, <2>1, <2>2 DEF LoopHasAnswer, LoopWaits, LockFits, WaitInvariant
  <2> QED
    BY <1>1, <2>2, <2>3 DEF WaitInvariant
<1>5. CASE LoopAccept \/ LoopRefuse \/ LoopRead \/ LoopUpdate \/ LoopReply
  BY <1>4, <1>5 DEF LoopAccept, LoopRefuse, LoopRead, LoopUpdate, LoopReply
<1>6. CASE LoopAccepted \/ LoopRefused \/ LoopReplied \/ LoopUpdated
  <2>1. /\ Returns(EventLoop)
        /\ at' \in {"reply", "store", "idle", "update"}
        /\ locked' => locked /\ at \notin {"reply", "replying"}
    BY <1>6 DEF LoopAccepted, LoopRefused, LoopReplied, LoopUpdated, EndHandling
  <2>2. CallsFit' /\ answer'[EventLoop] = NoAnswer
    BY <1>0, <2>1, ReturnWaits DEF WaitInvariant
  <2>3. LoopHasAnswer' /\ LockFits'
    BY <2>1, <2>2 DEF LoopHasAnswer, LoopWaits, LockFits, WaitInvariant
  <2> QED
    BY <1>1, <2>2, <2>3 DEF WaitInvariant
<1> QED
  BY <1>2, <1>3, <1>5, <1>6 DEF Loop

LEMMA AppWaitsKept ==
    ASSUME TypeOK, WaitInvariant, Application
    PROVE  WaitInvariant'
<1>0. /\ UNCHANGED <<running, requested, at, locked>> /\ answer'[EventLoop] = answer[EventLoop]
      /\ App \in {EventLoop, App}
  BY ApplicationFrame DEF runtime, LoopState
<1>1. LoopHasAnswer' /\ LockFits'
  BY <1>0 DEF WaitInvariant, LoopHasAnswer, LoopWaits, LockFits
<1>2. CASE AppRequest
  <2>1. CallsFit' /\ answer'[App].result # "None"
    BY <1>0, <1>2, AskWaits DEF AppRequest, WaitInvariant
  <2> QED
    BY <1>1, <1>2, <2>1 DEF AppRequest, WaitInvariant, AppHasAnswer, AppWaits
<1>3. CASE AppRequested \/ AppClosed
  <2>1. Returns(App) /\ app' \in {"idle", "store"}
    BY <1>3 DEF AppRequested, AppClosed
  <2>2. CallsFit' /\ answer'[App] = NoAnswer
    BY <1>0, <2>1, ReturnWaits DEF WaitInvariant
  <2> QED
    BY <1>1, <2>1, <2>2 DEF WaitInvariant, AppHasAnswer, AppWaits
<1>4. CASE AppStore
  <2>1. UNCHANGED <<command_queue, answer>> /\ app = "store" /\ app' = "idle"
    BY <1>4 DEF AppStore, pipeline, calls
  <2> QED
    BY <1>0, <1>1, <2>1, SameWaits DEF WaitInvariant, AppHasAnswer, AppWaits
<1>5. ASSUME NEW i \in StreamId, AppClose(i)
      PROVE  WaitInvariant'
  <2>1. CallsFit' /\ answer'[App].result # "None" /\ app' = "closing"
    BY <1>0, <1>5, AskWaits DEF AppClose, WaitInvariant
  <2> QED
    BY <1>1, <2>1 DEF WaitInvariant, AppHasAnswer, AppWaits
<1> QED
  BY <1>2, <1>3, <1>4, <1>5 DEF Application

\* The runtime answers the first command; the others are of other callers.
LEMMA CommandAnswered ==
    ASSUME TypeOK, CommandsFit, TakeCommand
    PROVE  /\ \E t \in {EventLoop, App} :
                 /\ CommandFits(Head(command_queue)) /\ Head(command_queue).by = t
                 /\ answer'[t].result \in {"Ok", "Err"}
                 /\ \A u \in {EventLoop, App} \ {t} : answer'[u] = answer[u]
           /\ CallsFit => CallsFit'
<1> DEFINE n == Len(command_queue)
           h == Head(command_queue)
<1>0. {EventLoop, App} \subseteq Task /\ PipelineTypeOK /\ command_queue # <<>>
  BY TaskAssumption DEF TypeOK, TakeCommand
<1>1. /\ n \in Nat /\ DOMAIN command_queue = 1..n /\ n > 0 /\ h = command_queue[1]
      /\ DOMAIN command_queue' = 1..(n - 1)
      /\ \A k \in 1..(n - 1) : command_queue'[k] = command_queue[k + 1]
  BY <1>0 DEF TakeCommand, PipelineTypeOK
<1>2. \E r \in {"Ok", "Err"} : \E i : answer' = [answer EXCEPT ![h.by] = Answered(r, i)]
  BY DEF TakeCommand
<1>3. running' = running
  BY DEF TakeCommand
<1> HIDE DEF n, h
<1>4. /\ 1 \in 1..n
      /\ \A k \in 1..(n - 1) : k + 1 \in 1..n /\ k + 1 # 1
      /\ \A k \in 1..n : k = 1 \/ (k - 1 \in 1..(n - 1) /\ (k - 1) + 1 = k)
  BY <1>1
<1>5. CommandFits(h)
  BY <1>1, <1>4 DEF CommandsFit
<1>6. h.by \in {EventLoop, App}
  BY <1>5 DEF CommandFits
<1>7. /\ answer'[h.by].result \in {"Ok", "Err"}
      /\ \A u \in {EventLoop, App} \ {h.by} : answer'[u] = answer[u]
  BY <1>0, <1>2, <1>6 DEF PipelineTypeOK, Answered
<1>8. ASSUME CallsFit, NEW u \in {EventLoop, App}, answer'[u].result = "Awaited"
      PROVE  running' /\ \E k \in DOMAIN command_queue' : command_queue'[k].by = u
  <2>1. u # h.by
    BY <1>7, <1>8
  <2>2. answer[u].result = "Awaited"
    BY <1>7, <1>8, <2>1
  <2>3. PICK k \in 1..n : command_queue[k].by = u
    BY <1>1, <1>8, <2>2 DEF CallsFit
  <2>4. k - 1 \in 1..(n - 1) /\ command_queue'[k - 1] = command_queue[k]
    BY <1>1, <1>4, <2>1, <2>3
  <2> QED
    BY <1>1, <1>3, <1>8, <2>2, <2>3, <2>4 DEF CallsFit
<1>10. CallsFit => CallsFit'
  BY <1>8 DEF CallsFit
<1>11. /\ CommandFits(h) /\ h.by \in {EventLoop, App}
       /\ answer'[h.by].result \in {"Ok", "Err"}
       /\ \A u \in {EventLoop, App} \ {h.by} : answer'[u] = answer[u]
  BY <1>5, <1>6, <1>7
<1> QED
  BY <1>10, <1>11 DEF h

LEMMA TasksWaitsKept ==
    ASSUME TypeOK, IsFiniteSet(table), CommandsFit, WaitInvariant, Tasks, UNCHANGED device
    PROVE  WaitInvariant'
<1>0. UNCHANGED <<at, app, locked>> /\ {EventLoop, App} \subseteq Task /\ EventLoop # App
  BY TaskAssumption DEF device
<1>1. LockFits'
  BY <1>0 DEF WaitInvariant, LockFits
<1>2. CASE TakeCommand
  <2>1. PICK t \in {EventLoop, App} :
          /\ CommandFits(Head(command_queue)) /\ Head(command_queue).by = t
          /\ answer'[t].result \in {"Ok", "Err"}
          /\ \A u \in {EventLoop, App} \ {t} : answer'[u] = answer[u]
    BY <1>2, CommandAnswered
  <2>2. CallsFit'
    BY <1>2, CommandAnswered DEF WaitInvariant
  <2>3. (t = EventLoop => LoopWaits) /\ (t = App => AppWaits)
    BY <2>1 DEF CommandFits, AppWaits
  <2>4. LoopHasAnswer'
    BY <1>0, <2>1, <2>3 DEF WaitInvariant, LoopHasAnswer, LoopWaits
  <2>5. AppHasAnswer'
    BY <1>0, <2>1, <2>3 DEF WaitInvariant, AppHasAnswer, AppWaits
  <2> QED
    BY <1>1, <2>2, <2>4, <2>5 DEF WaitInvariant
<1>3. CASE Shutdown
  <2>1. \A t \in {EventLoop, App} :
          \/ answer[t].result = "Awaited" /\ answer'[t].result = "Err"
          \/ answer[t].result # "Awaited" /\ answer'[t] = answer[t]
    BY <1>0, <1>3 DEF Shutdown, Answered
  <2>2. CallsFit'
    BY <1>3, <2>1 DEF CallsFit, Shutdown
  <2>3. NoAnswer.result # "Awaited"
    BY DEF NoAnswer, Answered
  <2>4. LoopHasAnswer' /\ AppHasAnswer'
    BY <1>0, <2>1, <2>3 DEF WaitInvariant, LoopHasAnswer, AppHasAnswer, LoopWaits, AppWaits
  <2> QED
    BY <1>1, <2>2, <2>4 DEF WaitInvariant
<1>4. CASE SwarmEvent \/ SendEvent \/ Forward \/ Deliver
  <2>1. UNCHANGED <<running, requested, command_queue, answer>>
    BY <1>4, SwarmSteps DEF SendEvent, Forward, Deliver, TypeOK, calls, runtime
  <2> QED
    BY <1>0, <1>1, <2>1, SameWaits
       DEF WaitInvariant, LoopHasAnswer, AppHasAnswer, LoopWaits, AppWaits
<1> QED
  BY <1>2, <1>3, <1>4 DEF Tasks

LEMMA WaitsKept ==
    ASSUME DeviceInvariant, WaitInvariant, [Next]_vars
    PROVE  WaitInvariant'
<1>1. TypeOK /\ LoopFits /\ CommandsFit /\ IsFiniteSet(table)
  BY DEF DeviceInvariant
<1>2. CASE UNCHANGED vars
  BY <1>2, SameWaits
     DEF vars, pipeline, device, runtime, calls, WaitInvariant, LoopHasAnswer, AppHasAnswer,
         LockFits, LoopWaits, AppWaits
<1> QED
  BY <1>1, <1>2, LoopWaitsKept, AppWaitsKept, TasksWaitsKept DEF Next

\* A runtime that cannot take the command it was sent, and a forwarder that
\* cannot move, have the channels filled to the last place.
LEMMA ChannelsFull ==
    ASSUME TypeOK, CallsFit, running, command_queue # <<>>, ~RuntimeGoesOn, ~ForwarderGoesOn
    PROVE  /\ user_queue # <<>>
           /\ EventCap + UserCap + 2 + Count(handling) <= Pending
<1>0. /\ PipelineTypeOK /\ Len(outbox) \in Nat /\ Len(event_queue) \in Nat
      /\ Len(user_queue) \in Nat
  BY DEF TypeOK, PipelineTypeOK
<1>3. outbox # <<>> /\ ~(Len(event_queue) < EventCap)
  BY DEF RuntimeGoesOn, Room
<1>4. event_queue # <<>> /\ Len(event_queue) >= EventCap /\ Len(outbox) >= 1
  BY <1>0, <1>3, Capacities DEF PipelineTypeOK
<1>5. forwarding # Nothing /\ ~(Len(user_queue) < UserCap)
  BY <1>4 DEF ForwarderGoesOn, Room
<1>6. user_queue # <<>> /\ Len(user_queue) >= UserCap
  BY <1>0, <1>5, Capacities DEF PipelineTypeOK
<1>7. Count(forwarding) = 1 /\ Count(handling) \in Nat
  BY <1>5 DEF Count
<1>8. EventCap + UserCap + 2 + Count(handling) <= Pending
  <2> DEFINE h == Count(handling)
             f == Count(forwarding)
  <2>1. h \in Nat /\ f = 1
    BY <1>7
  <2>2. Pending = Len(outbox) + Len(event_queue) + f + Len(user_queue) + h
    BY DEF Pending
  <2> HIDE DEF h, f
  <2>3. EventCap + UserCap + 2 + h <= Pending
    BY <1>0, <1>4, <1>6, <2>1, <2>2, Capacities
  <2> QED
    BY <2>3 DEF h
<1> QED
  BY <1>6, <1>8

LEMMA NobodyFrom == DeviceInvariant /\ WaitInvariant => NobodyWaitsInACircle
<1> SUFFICES ASSUME DeviceInvariant, WaitInvariant, Pending <= EventCap + UserCap + 2,
                    at # "idle" \/ app # "idle",
                    ~RuntimeGoesOn, ~ForwarderGoesOn, ~LoopGoesOn, ~AppGoesOn
             PROVE  FALSE
  BY DEF NobodyWaitsInACircle
<1>0. /\ TypeOK /\ PipelineTypeOK /\ LoopFits
      /\ CallsFit /\ LoopHasAnswer /\ AppHasAnswer /\ LockFits
      /\ at \in LoopPoint /\ app \in {"idle", "requesting", "store", "closing"}
  BY DEF DeviceInvariant, WaitInvariant, TypeOK
\* With a command in the queue the loop could take an event, or one too many is pending.
<1>1. running => command_queue = <<>>
  <2> SUFFICES ASSUME running, command_queue # <<>> PROVE FALSE
    OBVIOUS
  <2>1. user_queue # <<>> /\ EventCap + UserCap + 2 + Count(handling) <= Pending
    BY <1>0, ChannelsFull
  <2>2. handling # Nothing
    BY <2>1 DEF LoopGoesOn
  <2>3. Count(handling) = 1
    BY <2>2 DEF Count
  <2> DEFINE p == Pending
  <2>4. p \in Nat
    <3>1. /\ Len(outbox) \in Nat /\ Len(event_queue) \in Nat /\ Len(user_queue) \in Nat
          /\ Count(forwarding) \in Nat /\ Count(handling) \in Nat
      BY <1>0 DEF Count, PipelineTypeOK
    <3> QED
      BY <3>1 DEF Pending
  <2>5. p <= EventCap + UserCap + 2 /\ EventCap + UserCap + 2 + 1 <= p
    BY <2>1, <2>3
  <2> HIDE DEF p
  <2> QED
    BY <2>4, <2>5, Capacities
\* Without one every call has come back, and the next may go out.
<1>2. \A t \in {EventLoop, App} : answer[t].result # "Awaited"
  BY <1>0, <1>1 DEF CallsFit
<1>3. \A t \in {EventLoop, App} : answer[t].result # "None" => HasReturned(t)
  BY <1>0, <1>2, TaskAssumption DEF HasReturned, PipelineTypeOK, Answer
<1>4. ~LoopWaits
  BY <1>0, <1>3 DEF LoopHasAnswer, LoopWaits, LoopGoesOn
<1>5. MayAsk(EventLoop)
  BY <1>0, <1>1, <1>4, Capacities DEF LoopHasAnswer, MayAsk, Room
<1>6. at = "idle"
  BY <1>0, <1>4, <1>5 DEF LoopGoesOn, LoopWaits, LoopPoint
<1>7. ~locked /\ ~AppWaits
  BY <1>0, <1>3, <1>6 DEF LockFits, AppHasAnswer, AppWaits, AppGoesOn
<1> QED
  BY <1>0, <1>6, <1>7 DEF AppWaits, AppGoesOn

(* For channels of any capacity: as long as no more events are pending     *)
(* than the two event channels, the forwarder and the loop can hold, the   *)
(* loop, the application, the runtime and the forwarder are never all      *)
(* stuck with an event or a call under way.  The loop calls the runtime    *)
(* from inside its handler (src/src/device.rs), and the runtime sends its  *)
(* events into a channel that only the loop empties.                       *)
THEOREM NobodyWaits == Spec => []NobodyWaitsInACircle
<1>1. Init => DeviceInvariant /\ WaitInvariant
  BY InitFits, WaitInit
<1>2. DeviceInvariant /\ WaitInvariant /\ [Next]_vars => (DeviceInvariant /\ WaitInvariant)'
  BY StepKeeps, WaitsKept
<1>3. DeviceInvariant /\ WaitInvariant => NobodyWaitsInACircle
  BY NobodyFrom
<1> QED
  BY <1>1, <1>2, <1>3, PTL DEF Spec
=============================================================================

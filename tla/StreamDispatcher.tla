-------------------------- MODULE StreamDispatcher --------------------------
(***************************************************************************)
(* A device above its node: the event loop of src/src/device.rs, which     *)
(* handles one event to its end before it takes the next, the handlers of  *)
(* streams that src/src/stream.rs keeps, and an application task that      *)
(* opens and closes streams beside it.  The two share active_handlers, and *)
(* they interleave wherever one of them awaits.                            *)
(*                                                                         *)
(* Factories are registered before anything else happens.  log is history. *)
(***************************************************************************)
EXTENDS NodePipeline

CONSTANTS
    EventLoop, App    \* the two tasks

ASSUME TaskAssumption == {EventLoop, App} \subseteq Task /\ EventLoop # App

VARIABLES
    at,               \* where the event loop is in handling its event
    locked,           \* it holds active_handlers for writing
    active_handlers,  \* ids that have a handler
    app,              \* where the application task is
    opening,          \* the id it has opened and not stored a handler for
    log,              \* history: callbacks made for each stream
    refused,          \* history: inbound streams that were not given a handler
    closed_here       \* history: streams closed by a call on this device

device == <<at, locked, active_handlers, app, opening, log, refused, closed_here>>
vars == <<pipeline, device>>

LoopPoint == {"idle", "accept", "accepting", "refuse", "refusing", "lock", "reply",
              "replying", "store", "read", "reading", "update", "updating", "done"}
Callback == {"accepted", "rejected", "data", "closed"}

TypeOK ==
    /\ PipelineTypeOK
    /\ at \in LoopPoint /\ locked \in BOOLEAN
    /\ active_handlers \subseteq StreamId
    /\ app \in {"idle", "requesting", "store", "closing"}
    /\ opening \in Outbound \cup {Nothing}
    /\ log \in [StreamId -> Seq(Callback)]
    /\ refused \subseteq Inbound /\ closed_here \subseteq StreamId

Init ==
    /\ PipelineInit
    /\ at = "idle" /\ locked = FALSE /\ active_handlers = {}
    /\ app = "idle" /\ opening = Nothing
    /\ log = [i \in StreamId |-> <<>>] /\ refused = {} /\ closed_here = {}

Stream == handling.stream_id
ApplicationState == <<app, opening, closed_here>>
Calls(i, callback) == log' = [log EXCEPT ![i] = Append(@, callback)]

-----------------------------------------------------------------------------
(* The event loop (handle_event).                                          *)

(* Where the handling of an event begins: at its first await.  A stream is *)
(* requested for a reason that has a factory, or for one that has not; a   *)
(* peer may be there before Started has told the device its own id.        *)
Begin(event) ==
    CASE event.type = "StreamRequested" -> {"accept", "refuse"}
      [] event.type = "PeerConnected" -> {"read", "done"}
      [] event.type = "PeerDisconnected" -> {"done"}
      [] OTHER -> {"lock"}

LoopReceive ==
    /\ Receive
    /\ at' \in Begin(handling')
    /\ UNCHANGED <<locked, active_handlers, log, refused, ApplicationState>>

EndHandling == at' = "idle" /\ handling' = Nothing

LoopDisconnected ==
    /\ at = "done"
    /\ EndHandling
    /\ UNCHANGED <<runtime, calls, queues, locked, active_handlers, log, refused,
                   ApplicationState>>

(* A call of the loop: the command goes out, the loop waits.               *)
LoopAsk(from, to, type, i) ==
    /\ at = from
    /\ at' = to
    /\ Ask(EventLoop, type, i)
    /\ UNCHANGED <<handling, locked, active_handlers, log, refused>>

LoopAccept == LoopAsk("accept", "accepting", "AcceptStream", Stream) /\ UNCHANGED ApplicationState
LoopRefuse == LoopAsk("refuse", "refusing", "RejectStream", Stream) /\ UNCHANGED ApplicationState
LoopRead == LoopAsk("read", "reading", "GetPeerContext", Nothing) /\ UNCHANGED ApplicationState
LoopUpdate ==
    LoopAsk("update", "updating", "UpdateSelfContext", Nothing) /\ UNCHANGED ApplicationState

(* handle_stream_requested, once the runtime has answered: the callback,   *)
(* from which the application may call the node or not.                    *)
LoopAccepted ==
    /\ at = "accepting"
    /\ Returns(EventLoop)
    /\ IF answer[EventLoop].result = "Ok"
       THEN /\ at' \in {"reply", "store"}
            /\ Calls(Stream, "accepted")
            /\ UNCHANGED <<handling, refused>>
       ELSE /\ EndHandling
            /\ refused' = refused \cup {Stream}
            /\ UNCHANGED log
    /\ UNCHANGED <<locked, active_handlers, ApplicationState>>

LoopRefused ==
    /\ at = "refusing"
    /\ Returns(EventLoop)
    /\ EndHandling
    /\ refused' = refused \cup {Stream}
    /\ UNCHANGED <<locked, active_handlers, log, ApplicationState>>

LoopStore ==
    /\ at = "store"
    /\ active_handlers' = active_handlers \cup {Stream}
    /\ EndHandling
    /\ UNCHANGED <<runtime, calls, queues, locked, log, refused, ApplicationState>>

(* handle_stream_accepted, handle_stream_data: the callback runs while     *)
(* active_handlers is held, until it returns.                              *)
CallbackOf(event) ==
    CASE event.type = "StreamAccepted" -> "accepted"
      [] event.type = "StreamData" -> "data"
      [] event.type = "StreamRejected" -> "rejected"
      [] event.type = "StreamClosed" -> "closed"

(* Mutant: the handler is taken out for its callback.                      *)
LoopCallsHandlerOnce ==
    /\ at = "lock" /\ handling.type \in {"StreamAccepted", "StreamData"}
    /\ active_handlers' = active_handlers \ {Stream}
    /\ IF Stream \in active_handlers THEN Calls(Stream, CallbackOf(handling)) ELSE UNCHANGED log
    /\ EndHandling
    /\ UNCHANGED <<runtime, calls, queues, locked, refused, ApplicationState>>

LoopCallsHandler ==
    /\ at = "lock" /\ handling.type \in {"StreamAccepted", "StreamData"}
    /\ IF Stream \notin active_handlers
       THEN EndHandling /\ UNCHANGED <<locked, log>>
       ELSE /\ Calls(Stream, CallbackOf(handling))
            /\ \/ EndHandling /\ UNCHANGED locked
               \/ at' = "reply" /\ locked' = TRUE /\ UNCHANGED handling
    /\ UNCHANGED <<runtime, calls, queues, active_handlers, refused, ApplicationState>>

(* Mutant: the handler of an ended stream is only looked up.               *)
LoopEndsHandlerKept ==
    /\ at = "lock" /\ handling.type \in {"StreamRejected", "StreamClosed"}
    /\ IF Stream \in active_handlers THEN Calls(Stream, CallbackOf(handling)) ELSE UNCHANGED log
    /\ EndHandling
    /\ UNCHANGED <<runtime, calls, queues, locked, active_handlers, refused, ApplicationState>>

(* handle_stream_rejected, handle_stream_closed.                           *)
LoopEndsHandler ==
    /\ at = "lock" /\ handling.type \in {"StreamRejected", "StreamClosed"}
    /\ active_handlers' = active_handlers \ {Stream}
    /\ IF Stream \in active_handlers THEN Calls(Stream, CallbackOf(handling)) ELSE UNCHANGED log
    /\ EndHandling
    /\ UNCHANGED <<runtime, calls, queues, locked, refused, ApplicationState>>

(* A callback sends data on its stream, or closes it, and awaits that.     *)
LoopReply ==
    \E type \in {"SendStreamData", "CloseStream"} :
        /\ LoopAsk("reply", "replying", type, Stream)
        /\ closed_here' = IF type = "CloseStream" THEN closed_here \cup {Stream} ELSE closed_here
        /\ UNCHANGED <<app, opening>>

(* Mutant: the lock outlives the callback.                                 *)
LoopRepliedLocked ==
    /\ at = "replying"
    /\ Returns(EventLoop)
    /\ IF handling.type = "StreamRequested" THEN at' = "store" /\ UNCHANGED handling
                                            ELSE EndHandling
    /\ UNCHANGED <<locked, active_handlers, log, refused, ApplicationState>>

LoopReplied ==
    /\ at = "replying"
    /\ Returns(EventLoop)
    /\ IF handling.type = "StreamRequested" THEN at' = "store" /\ UNCHANGED handling
                                            ELSE EndHandling
    /\ locked' = FALSE
    /\ UNCHANGED <<active_handlers, log, refused, ApplicationState>>

(* PeerConnected: update_capabilities reads the context, puts its entry    *)
(* into it, which fails where the document does not allow it, and patches. *)
LoopUpdated ==
    /\ Returns(EventLoop)
    /\ \/ /\ at = "reading" /\ answer[EventLoop].result = "Ok"
          /\ at' = "update" /\ UNCHANGED handling
       \/ /\ at \in {"reading", "updating"}
          /\ EndHandling
    /\ UNCHANGED <<locked, active_handlers, log, refused, ApplicationState>>

Loop ==
    \/ LoopReceive \/ LoopDisconnected \/ LoopAccept \/ LoopAccepted \/ LoopRefuse
    \/ LoopRefused \/ LoopStore \/ LoopCallsHandler \/ LoopEndsHandler \/ LoopReply
    \/ LoopReplied \/ LoopRead \/ LoopUpdate \/ LoopUpdated

-----------------------------------------------------------------------------
(* The application task (request_stream, close_stream).                    *)

LoopState == <<at, locked, log, refused>>

AppRequest ==
    /\ app = "idle" /\ requested # Outbound
    /\ Ask(App, "RequestStream", Nothing)
    /\ app' = "requesting"
    /\ UNCHANGED <<handling, active_handlers, opening, closed_here, LoopState>>

AppRequested ==
    /\ app = "requesting"
    /\ Returns(App)
    /\ IF answer[App].result = "Ok"
       THEN app' = "store" /\ opening' = answer[App].stream_id
       ELSE app' = "idle" /\ UNCHANGED opening
    /\ UNCHANGED <<handling, active_handlers, closed_here, LoopState>>

AppStore ==
    /\ app = "store" /\ ~locked
    /\ active_handlers' = active_handlers \cup {opening}
    /\ app' = "idle" /\ opening' = Nothing
    /\ UNCHANGED <<pipeline, closed_here, LoopState>>

AppClose(i) ==
    /\ app = "idle" /\ i \in (requested \cup active_handlers) \ closed_here
    /\ Ask(App, "CloseStream", i)
    /\ app' = "closing"
    /\ closed_here' = closed_here \cup {i}
    /\ UNCHANGED <<handling, active_handlers, opening, LoopState>>

AppClosed ==
    /\ app = "closing"
    /\ Returns(App)
    /\ app' = "idle"
    /\ UNCHANGED <<handling, active_handlers, opening, closed_here, LoopState>>

Application ==
    \/ AppRequest \/ AppRequested \/ AppStore \/ AppClosed
    \/ \E i \in StreamId : AppClose(i)

-----------------------------------------------------------------------------
(* Everything may stop once the node was shut down and all is handled.     *)
Next == Loop \/ Application \/ (Tasks /\ UNCHANGED device)

(* Each task goes on: tokio runs every task that can run, and the runtime  *)
(* and the loop never give up between two awaits.  Room in a channel goes  *)
(* to whoever waited longest, so that an application whose requests keep   *)
(* failing cannot keep the loop out: the loop's fairness is strong.        *)
Fairness ==
    /\ WF_vars(TakeCommand /\ UNCHANGED device)
    /\ WF_vars(SendEvent /\ UNCHANGED device)
    /\ WF_vars(Forward /\ UNCHANGED device)
    /\ WF_vars(Deliver /\ UNCHANGED device)
    /\ SF_vars(Loop)
    /\ WF_vars(AppRequested \/ AppStore \/ AppClosed)

Spec == Init /\ [][Next]_vars /\ Fairness

-----------------------------------------------------------------------------
(* The runtime's answer to a call never depends on the caller: whatever    *)
(* events are in the way, a call comes back.  Needs that no more events    *)
(* are pending than the channels hold, the forwarder and the loop included. *)
CallsReturn ==
    /\ at # "idle" ~> at = "idle"
    /\ app # "idle" ~> app = "idle"

(* What each task needs to go on, and so when its fair actions are         *)
(* enabled.  The runtime: room for the event it is sending, or else a      *)
(* command.  The forwarder: an event, or room for the one it holds.  The   *)
(* loop and the application: an answer, room for a command, the lock.      *)
RuntimeGoesOn ==
    /\ running
    /\ \/ outbox # <<>> /\ Room(event_queue, EventCap)
       \/ outbox = <<>> /\ command_queue # <<>>
ForwarderGoesOn ==
    \/ forwarding = Nothing /\ event_queue # <<>>
    \/ forwarding # Nothing /\ Room(user_queue, UserCap)
MayAsk(t) == answer[t] = NoAnswer /\ (running => Room(command_queue, CommandCap))
HasReturned(t) == answer[t].result \in {"Ok", "Err"}
LoopGoesOn ==
    \/ handling = Nothing /\ user_queue # <<>>
    \/ at \in {"done", "store", "lock"}
    \/ at \in {"accept", "refuse", "reply", "read", "update"} /\ MayAsk(EventLoop)
    \/ at \in {"accepting", "refusing", "replying", "reading", "updating"}
         /\ HasReturned(EventLoop)
AppGoesOn ==
    \/ app = "store" /\ ~locked
    \/ app \in {"requesting", "closing"} /\ HasReturned(App)

(* The tasks never all wait for one another, with a call or an event under *)
(* way: the loop for the runtime's answer, the runtime for room for an     *)
(* event, the forwarder for the loop.  Needs that no more events are       *)
(* pending than the channels, the forwarder and the loop can hold.         *)
NobodyWaitsInACircle ==
    Pending <= EventCap + UserCap + 2 /\ (at # "idle" \/ app # "idle")
      => RuntimeGoesOn \/ ForwarderGoesOn \/ LoopGoesOn \/ AppGoesOn

(* The end of stream i is on its way to the event loop.                    *)
EndIsComing(i) ==
    LET ends == {EventOf("StreamClosed", i), EventOf("StreamRejected", i)}
    IN  \/ ToSet(outbox \o event_queue \o user_queue) \cap ends # {}
        \/ {forwarding, handling} \cap ends # {}

(* The ids that name a stream of each side.  Of those the code promises    *)
(* nothing: the second entry replaced the first, and so does the handler.  *)
(* An id this node has not given out names a stream of the peer's.         *)
Shared == {i \in requested : <<"RequestStream", i>> \in heard}
Theirs == StreamId \ requested

(* A handler of an inbound stream lives no longer than the stream: if the  *)
(* runtime has dropped the stream, the handler will be told so, unless it  *)
(* was closed from this side.  The runtime and the dispatcher decide this  *)
(* at different times.                                                     *)
HandlersFollowStreams ==
    running => \A i \in active_handlers \cap Theirs :
                  i \in table \/ EndIsComing(i) \/ i \in closed_here

(* Callbacks come in an order a handler can rely on: none after the last,  *)
(* and an inbound stream is accepted first.                                *)
CallbacksInOrder ==
    \A i \in StreamId \ Shared :
        /\ \A k \in DOMAIN log[i] : log[i][k] \in {"rejected", "closed"} => k = Len(log[i])
        /\ i \in Theirs /\ log[i] # <<>> => log[i][1] = "accepted"

(* An answer or data that finds no handler belongs to a stream that was    *)
(* refused, has ended, or is being opened and has no handler yet: the one  *)
(* gap between the runtime's table and active_handlers.                    *)
DropsAreExplained ==
    (/\ at = "lock" /\ handling.type # "StreamClosed"
     /\ Stream \notin active_handlers \cup Shared)
      => \/ Stream \in refused
         \/ log[Stream] # <<>> /\ Last(log[Stream]) \in {"rejected", "closed"}
         \/ Stream = opening
         \/ app = "requesting" /\ answer[App].stream_id = Stream
=============================================================================

------------------------------ MODULE Gateway ------------------------------
(***************************************************************************)
(* Embedded devices and their gateway: the clients, the bridge and the UDP *)
(* between them, with its faults, and the properties of the whole.         *)
(***************************************************************************)
EXTENDS EmbeddedClient, EmbeddedBridge

CONSTANT
    Looping    \* the devices whose application may call connect again and again

VARIABLE
    careless   \* history: the devices that gave up a stream without closing it

vars == <<wire, clients, bridge, careless>>

(* What happens around the devices and the gateway, within its bounds: the *)
(* calls of each application and how many, the applications that call      *)
(* connect again while unconnected, the events of the mesh, and how many   *)
(* faults.                                                                 *)
Scenario ==
    [calls : [Device -> SUBSET AviCommand], budget : [Device -> Nat],
     retrying : SUBSET Looping, events : SUBSET MeshEvent, faults : Nat]

ASSUME LoopingAssumption == Looping \subseteq Device
ASSUME ScenarioAssumption == \A s \in Scenarios : s \in Scenario

TypeOK == WireTypeOK /\ ClientTypeOK /\ BridgeTypeOK /\ careless \subseteq Device

Init == WireInit /\ ClientInit /\ BridgeInit /\ careless = {}

-----------------------------------------------------------------------------
(* The gateway's session for d, as d sees it, now and once all that is     *)
(* under way has been handled.                                             *)

INSTANCE SessionEffect

TargetOf(id) == IF id = NoStream THEN NoPeer ELSE opened[id].target

SessionView(d) ==
    IF sessions[d] = NoSession THEN [Unknown EXCEPT !.forwarded = forwarded[d]]
    ELSE [known |-> TRUE,
          subscriptions |-> sessions[d].subscriptions,
          streams |-> [i \in LocalId |-> TargetOf(sessions[d].active_streams[i])],
          forwarded |-> forwarded[d]]

Outstanding(d) ==
    up[d] \o [i \in DOMAIN command_queue[d] |-> Packet(d, command_queue[d][i])]

View(d) == FoldLeft(Effect, SessionView(d), Outstanding(d))

-----------------------------------------------------------------------------
(* Steps.                                                                  *)

(* An application is careless when it says Hello with streams open, or     *)
(* opens one under an id in use.                                           *)
Careless(d, c) ==
    \/ c.type = "Connect" /\ \E i \in LocalId : View(d).streams[i] # NoPeer
    \/ /\ c.type = "StreamStart"
       /\ View(d).known /\ View(d).streams[c.local_stream_id] # NoPeer

NoteCareless(d) ==
    careless' = careless \cup
       {e \in {d} : /\ Len(command_queue'[e]) > Len(command_queue[e])
                    /\ Careless(e, Last(command_queue'[e]))}

DeviceStep(d) == ClientStep(d) /\ NoteCareless(d) /\ UNCHANGED bridge

WireFault(d) ==
    /\ Fault
    /\ \/ /\ \E q \in Disturbed(up[d]) : up' = [up EXCEPT ![d] = q]
          /\ UNCHANGED down
       \/ /\ \E q \in Disturbed(down[d]) : down' = [down EXCEPT ![d] = q]
          /\ UNCHANGED up
    /\ UNCHANGED <<clients, bridge, careless>>

Next ==
    \/ \E d \in Device : DeviceStep(d) \/ WireFault(d)
    \/ GatewayStep /\ UNCHANGED <<clients, careless>>

Spec == Init /\ [][Next]_vars

(* An application in its loop keeps polling and, unconnected, calls        *)
(* connect every time round, so it is not held up for ever by what is      *)
(* under way; the uplink task runs; receive does not miss a datagram that  *)
(* waits in the socket for ever.                                           *)
LibraryStep(d) ==
    ProcessCommand(d) \/ AwaitNothing(d) \/ QueueDrained(d) \/ PollNothing(d)

InLoop(d, A) == d \in scenario.retrying /\ A

Fairness ==
    \A d \in Looping :
       /\ SF_vars(InLoop(d, ConnectAgain(d) /\ NoteCareless(d) /\ UNCHANGED bridge))
       /\ WF_vars(InLoop(d, LibraryStep(d) /\ UNCHANGED <<bridge, careless>>))
       /\ SF_vars(InLoop(d, (AwaitDatagram(d) \/ PollDatagram(d)) /\ UNCHANGED <<bridge, careless>>))
       /\ WF_vars(InLoop(d, UplinkStep(d) /\ UNCHANGED <<clients, careless>>))

FairSpec == Spec /\ Fairness

-----------------------------------------------------------------------------
(* Properties.                                                             *)

(* A connected device has a session.  A device believes it is connected    *)
(* once a Welcome came in, however late, and from then on sends without an *)
(* answer: the gateway must know it.  Only a restart of the gateway, which *)
(* nobody tells the device of, breaks this.                                *)
Welcomed(d) ==
    is_connected[d] \/ \E i \in DOMAIN down[d] : down[d][i].type = "Welcome"

ConnectedMeansSession ==
    ~restarted => \A d \in Device : Welcomed(d) => sessions[d] # NoSession

(* A session's mesh streams are its own: the ids of two devices, or of one *)
(* device before and after a second Hello, never meet in one stream.       *)
HeldStreamsAreOwn ==
    \A d \in Device, i \in LocalId :
       LET id == sessions[d].active_streams[i]
       IN  sessions[d] # NoSession /\ id # NoStream =>
              /\ id \in DOMAIN opened
              /\ opened[id].device = d /\ opened[id].local_stream_id = i

(* The gateway hears every topic that one of its devices is subscribed to, *)
(* unless another device has left the same topic since.                    *)
StarvedByOthersOnly ==
    \A d \in Device : sessions[d] # NoSession =>
       \A t \in sessions[d].subscriptions \ mesh_topics : taken_off[t] \in Device \ {d}

(* Undisturbed, a mesh stream that is open and in no session belongs to a  *)
(* device that gave it up without closing it.                              *)
Held(id) ==
    LET s == opened[id]
    IN  sessions[s.device] # NoSession /\ sessions[s.device].active_streams[s.local_stream_id] = id

OrphansAreExplained ==
    faults = 0 => \A id \in open : Held(id) \/ opened[id].device \in careless

(* Undisturbed, the library, the wire and the bridge together do what each *)
(* accepted call says, in order and once.                                  *)
Direct == INSTANCE DirectSession
            WITH Message <- UplinkMessage,
                 view <- [d \in Device |-> View(d)],
                 accepted <- [d \in Device |-> Len(command_queue[d])],
                 disturbed <- (faults > 0)

CallsActDirectly == Direct!Spec

(* An unconnected device is connected in the end, whatever Hello or        *)
(* Welcome was lost on the way.                                            *)
EventuallyConnected ==
    \A d \in Looping : d \in scenario.retrying /\ ~is_connected[d] ~> is_connected[d]

(* The documents' subscription flow: a device that has its acknowledgment, *)
(* and asks for nothing else, now receives the topic's messages.           *)
AckedMeansReceiving ==
    faults = 0 =>
       \A d \in Device, t \in Topic :
          /\ Outstanding(d) = <<>>
          /\ down[d] = <<[type |-> "SubscribeAck", topic |-> t]>>
          => /\ sessions[d] # NoSession /\ t \in sessions[d].subscriptions
             /\ t \in mesh_topics
=============================================================================

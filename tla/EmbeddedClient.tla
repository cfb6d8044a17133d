--------------------------- MODULE EmbeddedClient ---------------------------
(***************************************************************************)
(* The client library of the embedded devices: the C API and its command   *)
(* queue (src/embedded/src/c_api.rs) over AviEmbedded (src/embedded/src/   *)
(* lib.rs).  A C function that returns 0 is an action; one that returns -1 *)
(* (a null pointer, a text that does not fit) or -2 (the queue is full)    *)
(* does nothing and is none.                                               *)
(*                                                                         *)
(* avi_embedded_poll drains the queue, a datagram per command, and then    *)
(* receives once; commands of other tasks and interrupts may be queued at  *)
(* any moment of it.  Inside it connect waits for one datagram.            *)
(***************************************************************************)
EXTENDS Datagrams

CONSTANTS
    QueueSize      \* QUEUE_SIZE

SensorCommand ==
    {"SensorTemperature", "SensorHumidity", "SensorBattery", "SensorStatus", "SensorRaw"}

AviCommand ==
    [type : {"Connect", "ButtonPress"} \cup SensorCommand]
    \cup [type : {"Subscribe", "Unsubscribe", "Publish"}, topic : Topic]
    \cup [type : {"StreamStart"}, local_stream_id : LocalId, target : Peer \cup {NoPeer}]
    \cup [type : {"StreamData", "StreamClose"}, local_stream_id : LocalId]

ASSUME QueueAssumption == QueueSize \in Nat \ {0}

VARIABLES
    command_queue,  \* COMMAND_QUEUE of each device
    phase,          \* where poll is: draining the queue is also not polling
    is_connected,   \* AviEmbedded::is_connected
    calls           \* how many calls the application made

client == <<command_queue, phase, is_connected>>
clients == <<client, calls>>

ClientTypeOK ==
    /\ command_queue \in [Device -> Seq(AviCommand)]
    /\ \A d \in Device : Len(command_queue[d]) <= QueueSize
    /\ phase \in [Device -> {"draining", "awaiting", "receiving"}]
    /\ is_connected \in [Device -> BOOLEAN]
    /\ calls \in [Device -> Nat]
    /\ \A d \in Device : calls[d] <= scenario.budget[d]

ClientInit ==
    /\ command_queue = [d \in Device |-> <<>>]
    /\ phase = [d \in Device |-> "draining"]
    /\ is_connected = [d \in Device |-> FALSE]
    /\ calls = [d \in Device |-> 0]

-----------------------------------------------------------------------------
(* The C functions.                                                        *)

(* Mutant: what does not fit replaces what was queued last.                *)
SendCommandOverwriting(d, c) ==
    /\ c \in scenario.calls[d]
    /\ Calm(d)
    /\ calls[d] < scenario.budget[d]
    /\ calls' = [calls EXCEPT ![d] = @ + 1]
    /\ command_queue' = [command_queue EXCEPT ![d] =
          Append(IF Len(@) < QueueSize THEN @ ELSE Front(@), c)]
    /\ UNCHANGED <<wire, phase, is_connected>>

(* Mutant: the queue takes whatever comes.                                 *)
SendCommandUnbounded(d, c) ==
    /\ c \in scenario.calls[d]
    /\ Calm(d)
    /\ calls[d] < scenario.budget[d]
    /\ calls' = [calls EXCEPT ![d] = @ + 1]
    /\ command_queue' = [command_queue EXCEPT ![d] = Append(@, c)]
    /\ UNCHANGED <<wire, phase, is_connected>>

SendCommand(d, c) ==
    /\ c \in scenario.calls[d]
    /\ Calm(d) /\ Len(command_queue[d]) < QueueSize
    /\ calls[d] < scenario.budget[d]
    /\ calls' = [calls EXCEPT ![d] = @ + 1]
    /\ command_queue' = [command_queue EXCEPT ![d] = Append(@, c)]
    /\ UNCHANGED <<wire, phase, is_connected>>

Connect(d) == SendCommand(d, [type |-> "Connect"])

Subscribe(d, t) == SendCommand(d, [type |-> "Subscribe", topic |-> t])

Unsubscribe(d, t) == SendCommand(d, [type |-> "Unsubscribe", topic |-> t])

Publish(d, t) == SendCommand(d, [type |-> "Publish", topic |-> t])

StartStream(d, i, p) ==
    SendCommand(d, [type |-> "StreamStart", local_stream_id |-> i, target |-> p])

SendStreamData(d, i) == SendCommand(d, [type |-> "StreamData", local_stream_id |-> i])

CloseStream(d, i) == SendCommand(d, [type |-> "StreamClose", local_stream_id |-> i])

ButtonPressed(d) == SendCommand(d, [type |-> "ButtonPress"])

UpdateSensor(d, kind) == SendCommand(d, [type |-> kind])

(* The reconnection loop of the documents: an application that finds       *)
(* itself unconnected calls connect, as often as it takes.                 *)
ConnectAgain(d) ==
    /\ d \in scenario.retrying
    /\ ~is_connected[d]
    /\ Calm(d) /\ Len(command_queue[d]) < QueueSize
    /\ command_queue' = [command_queue EXCEPT ![d] = Append(@, [type |-> "Connect"])]
    /\ UNCHANGED <<wire, phase, is_connected, calls>>

-----------------------------------------------------------------------------
(* avi_embedded_poll.                                                      *)

(* The datagram a command is sent as.                                      *)
Packet(d, c) ==
    CASE c.type = "Connect" -> [type |-> "Hello", device_id |-> d]
      [] c.type \in SensorCommand -> [type |-> "SensorUpdate"]
      [] OTHER -> c

ProcessCommand(d) ==
    /\ phase[d] = "draining" /\ command_queue[d] # <<>>
    /\ LET c == Head(command_queue[d])
       IN  /\ SendUp(d, Packet(d, c))
           /\ IF c.type = "Connect" THEN phase' = [phase EXCEPT ![d] = "awaiting"]
              ELSE UNCHANGED phase
    /\ command_queue' = [command_queue EXCEPT ![d] = Tail(@)]
    /\ UNCHANGED <<down, faults, scenario, is_connected, calls>>

(* connect takes whatever comes first; only a Welcome counts.              *)
AwaitDatagram(d) ==
    /\ phase[d] = "awaiting"
    /\ ReceiveDown(d)
    /\ is_connected' = [is_connected EXCEPT ![d] = (Head(down[d]).type = "Welcome")]
    /\ phase' = [phase EXCEPT ![d] = "draining"]
    /\ UNCHANGED <<up, faults, scenario, command_queue, calls>>

AwaitNothing(d) ==
    /\ phase[d] = "awaiting"
    /\ is_connected' = [is_connected EXCEPT ![d] = FALSE]
    /\ phase' = [phase EXCEPT ![d] = "draining"]
    /\ UNCHANGED <<wire, command_queue, calls>>

QueueDrained(d) ==
    /\ phase[d] = "draining" /\ command_queue[d] = <<>>
    /\ phase' = [phase EXCEPT ![d] = "receiving"]
    /\ UNCHANGED <<wire, command_queue, is_connected, calls>>

(* Mutant: only connect looks for a Welcome.                               *)
PollDatagramIgnoringWelcome(d) ==
    /\ phase[d] = "receiving"
    /\ ReceiveDown(d)
    /\ phase' = [phase EXCEPT ![d] = "draining"]
    /\ UNCHANGED <<up, faults, scenario, command_queue, is_connected, calls>>

(* A Message goes to the application's callback and an acknowledgment      *)
(* nowhere.                                                                *)
PollDatagram(d) ==
    /\ phase[d] = "receiving"
    /\ ReceiveDown(d)
    /\ is_connected' = [is_connected EXCEPT ![d] = @ \/ Head(down[d]).type = "Welcome"]
    /\ phase' = [phase EXCEPT ![d] = "draining"]
    /\ UNCHANGED <<up, faults, scenario, command_queue, calls>>

PollNothing(d) ==
    /\ phase[d] = "receiving"
    /\ phase' = [phase EXCEPT ![d] = "draining"]
    /\ UNCHANGED <<wire, command_queue, is_connected, calls>>

-----------------------------------------------------------------------------
(* The device restarts: its memory is gone, its datagrams are not.         *)
RestartDevice(d) ==
    /\ Fault
    /\ command_queue' = [command_queue EXCEPT ![d] = <<>>]
    /\ phase' = [phase EXCEPT ![d] = "draining"]
    /\ is_connected' = [is_connected EXCEPT ![d] = FALSE]
    /\ UNCHANGED <<up, down, calls>>

ApplicationCall(d) ==
    \/ Connect(d)
    \/ \E t \in Topic : Subscribe(d, t) \/ Unsubscribe(d, t) \/ Publish(d, t)
    \/ \E i \in LocalId, p \in Peer \cup {NoPeer} : StartStream(d, i, p)
    \/ \E i \in LocalId : SendStreamData(d, i) \/ CloseStream(d, i)
    \/ ButtonPressed(d)
    \/ \E kind \in SensorCommand : UpdateSensor(d, kind)
    \/ ConnectAgain(d)

ClientStep(d) ==
    \/ ApplicationCall(d)
    \/ ProcessCommand(d)
    \/ AwaitDatagram(d)
    \/ AwaitNothing(d)
    \/ QueueDrained(d)
    \/ PollDatagram(d)
    \/ PollNothing(d)
    \/ RestartDevice(d)
=============================================================================

----------------------------- MODULE Datagrams -----------------------------
(***************************************************************************)
(* The wire between the embedded devices and their gateway: the messages   *)
(* of src/protocol/src/lib.rs, and the UDP that carries them.  Each device *)
(* has one address, which stands for it.  A socket keeps datagrams in the  *)
(* order they came; a fault loses one, doubles one, or lets one overtake   *)
(* another.  Payloads are left out; a message is what the two sides tell   *)
(* apart.                                                                  *)
(***************************************************************************)
EXTENDS Naturals, Sequences, SequencesExt

CONSTANTS
    Device,        \* the devices; a device is its address and its device_id
    Topic,         \* the topics they subscribe to and publish on
    LocalId,       \* the stream ids a device counts with
    Peer,          \* the mesh peers streams are opened to
    NoPeer,        \* a target of a StreamStart that is no peer id
    MaxDatagrams,  \* bound: no call and no event while this many are on their way
    Scenarios      \* what the surroundings may do: see Scenario in Gateway

ASSUME PeerAssumption == NoPeer \notin Peer
ASSUME DatagramBound == MaxDatagrams \in Nat

VARIABLES
    up,      \* the datagrams on their way from each device
    down,    \* the datagrams on their way to each device
    faults,  \* how many faults there were, of the network, restarts and stops
    scenario \* what the surroundings do, chosen at the start

wire == <<up, down, faults, scenario>>

UplinkMessage ==
    [type : {"Hello"}, device_id : Device]
    \cup [type : {"Subscribe", "Unsubscribe", "Publish"}, topic : Topic]
    \cup [type : {"StreamStart"}, local_stream_id : LocalId, target : Peer \cup {NoPeer}]
    \cup [type : {"StreamData", "StreamClose"}, local_stream_id : LocalId]
    \cup [type : {"ButtonPress", "SensorUpdate"}]

(* Error is never sent by the gateway.                                     *)
DownlinkMessage ==
    [type : {"Welcome"}]
    \cup [type : {"Message", "SubscribeAck", "UnsubscribeAck"}, topic : Topic]

WireTypeOK ==
    /\ up \in [Device -> Seq(UplinkMessage)]
    /\ down \in [Device -> Seq(DownlinkMessage)]
    /\ faults \in Nat /\ faults <= scenario.faults
    /\ scenario \in Scenarios

WireInit ==
    /\ up = [d \in Device |-> <<>>]
    /\ down = [d \in Device |-> <<>>]
    /\ faults = 0
    /\ scenario \in Scenarios

SendUp(d, m) == up' = [up EXCEPT ![d] = Append(@, m)]

SendDown(d, m) == down' = [down EXCEPT ![d] = Append(@, m)]

Calm(d) == Len(up[d]) + Len(down[d]) < MaxDatagrams

ReceiveUp(d, type) ==
    /\ up[d] # <<>>
    /\ Head(up[d]).type = type
    /\ up' = [up EXCEPT ![d] = Tail(@)]

ReceiveDown(d) ==
    /\ down[d] # <<>>
    /\ down' = [down EXCEPT ![d] = Tail(@)]

Fault ==
    /\ faults < scenario.faults
    /\ faults' = faults + 1
    /\ UNCHANGED scenario

-----------------------------------------------------------------------------
(* What one fault makes of a queue.                                        *)

Lost(q) == {RemoveAt(q, i) : i \in DOMAIN q}
Doubled(q) ==
    UNION {{InsertAt(q, j, q[i]) : j \in (i + 1)..(Len(q) + 1)} : i \in DOMAIN q}
Overtaken(q) ==
    {[q EXCEPT ![i] = q[i + 1], ![i + 1] = q[i]] : i \in 1..(Len(q) - 1)}

Disturbed(q) == Lost(q) \cup Doubled(q) \cup Overtaken(q)
=============================================================================

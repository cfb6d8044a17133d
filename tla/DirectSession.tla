--------------------------- MODULE DirectSession ---------------------------
(***************************************************************************)
(* What the calls of an embedded device promise when nothing is lost: each *)
(* call the library accepts acts, in the order of the calls and once, on   *)
(* the session the gateway keeps for the device.  Queue, datagrams and     *)
(* uplink task between the two are only a matter of time.                  *)
(*                                                                         *)
(* view[d] is the session as d's calls leave it, accepted[d] the number of *)
(* accepted calls that are still with d.  Once the world has been          *)
(* disturbed nothing is promised.                                          *)
(***************************************************************************)
EXTENDS Naturals, SessionEffect

CONSTANTS Device, Message, QueueSize

VARIABLES view, accepted, disturbed

Init ==
    /\ view = [d \in Device |-> Unknown]
    /\ accepted = [d \in Device |-> 0]
    /\ disturbed = FALSE

Accept(d, m) ==
    /\ accepted[d] < QueueSize
    /\ accepted' = [accepted EXCEPT ![d] = @ + 1]
    /\ view' = [view EXCEPT ![d] = Effect(@, m)]
    /\ UNCHANGED disturbed

Send(d) ==
    /\ accepted[d] > 0
    /\ accepted' = [accepted EXCEPT ![d] = @ - 1]
    /\ UNCHANGED <<view, disturbed>>

Disturb == disturbed'

Next ==
    \/ \E d \in Device, m \in Message : Accept(d, m)
    \/ \E d \in Device : Send(d)
    \/ Disturb

Spec == Init /\ [][Next]_<<view, accepted, disturbed>>
=============================================================================

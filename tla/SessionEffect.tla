--------------------------- MODULE SessionEffect ---------------------------
(***************************************************************************)
(* A device's session seen from the device, and what each message asks of  *)
(* it: the meaning of the calls, apart from where it is carried out.       *)
(***************************************************************************)
EXTENDS Sequences

CONSTANTS LocalId, NoPeer

Unknown ==
    [known |-> FALSE, subscriptions |-> {}, streams |-> [i \in LocalId |-> NoPeer],
     forwarded |-> <<>>]

(* What a message of a device asks of its session.                         *)
Effect(v, m) ==
    IF m.type = "Hello" THEN [Unknown EXCEPT !.known = TRUE, !.forwarded = v.forwarded]
    ELSE IF ~v.known THEN v
    ELSE
    CASE m.type = "Subscribe" -> [v EXCEPT !.subscriptions = @ \cup {m.topic}]
      [] m.type = "Unsubscribe" -> [v EXCEPT !.subscriptions = @ \ {m.topic}]
      [] m.type = "StreamStart" ->
            IF m.target = NoPeer THEN v
            ELSE [v EXCEPT !.streams[m.local_stream_id] = m.target]
      [] m.type = "StreamClose" -> [v EXCEPT !.streams[m.local_stream_id] = NoPeer]
      [] m.type = "StreamData" ->
            LET target == v.streams[m.local_stream_id]
            IN  IF target = NoPeer THEN v
                ELSE [v EXCEPT !.forwarded = Append(@, [type |-> "StreamData", target |-> target])]
      [] OTHER -> [v EXCEPT !.forwarded = Append(@, m)]
=============================================================================

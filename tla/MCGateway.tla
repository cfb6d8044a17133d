----------------------------- MODULE MCGateway -----------------------------
(***************************************************************************)
(* Values for the constants of Gateway.  Each scenario gives the devices   *)
(* the calls that meet in it; one run goes through all of them.            *)
(***************************************************************************)
EXTENDS Gateway

CONSTANTS d1, d2, t1, p1, p2

Of(type) == {c \in AviCommand : c.type = type}
Connecting == Of("Connect")

Both(one, two) == [d \in Device |-> IF d = d1 THEN one ELSE two]

Around(menus, budgets, loops, heard, n) ==
    [calls |-> menus, budget |-> budgets, retrying |-> loops, events |-> heard, faults |-> n]

StreamCalls == Of("StreamStart") \cup Of("StreamData") \cup Of("StreamClose")
Starting == {c \in Of("StreamStart") : c.target = p1}

(* Two devices on one topic; one with its streams; two with streams under  *)
(* one local id; one that reports; one that means to be connected.         *)
Topics == Around(Both(Connecting \cup Of("Subscribe"),
                      Connecting \cup Of("Subscribe") \cup Of("Unsubscribe")),
                 Both(2, 2), {}, {}, 1)
Streams == Around(Both(Connecting \cup StreamCalls, {}), Both(4, 0), {}, {}, 1)
Sharing == Around(Both(Connecting \cup Starting, Connecting \cup Starting), Both(2, 2), {}, {}, 0)
Reports == Around(Both(Connecting \cup Of("Publish") \cup Of("ButtonPress")
                          \cup [type : SensorCommand], {}),
                  Both(2, 0), {}, {}, 1)
Loops == Around(Both(Of("Subscribe"), {}), Both(1, 0), {d1}, MeshEvent, 2)

TopicScenario == {Topics}
AllScenarios == {Topics, Streams, Sharing, Reports, Loops}
=============================================================================

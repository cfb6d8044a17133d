--------------------------- MODULE MCContextCalls ---------------------------
(***************************************************************************)
(* Values for the constants of ContextCalls and ContextLaws.               *)
(***************************************************************************)
EXTENDS ContextLaws

Tree(entries) == entries @@ (<<>> :> Object)
LeafTree(v) == <<>> :> v

MCName == {"device", "caps", "me", "sensors", "s", "type", "rate", "fov",
           "audio", "spatial", "core", "app", "x"}
MCLeaf == {"me", "you", "low", "high", "Microphone", "Camera", "null"}
MCCapsPath == <<"device", "caps">>

\* Of each kind of thing in DeviceCapabilities one: a HashMap, an enum tagged by
\* "type", an optional struct.
Number == {"low", "high"}
Sensor == <<"sensors", "s">>
MCVariants ==
    (<<>> :> {[sensors |-> {Object}]}) @@
    (Sensor :> {[type |-> {"Microphone"}, rate |-> Number],
                [type |-> {"Camera"}, fov |-> Number]}) @@
    (<<"audio">> :> {[spatial |-> Number]})
MCOptional == (Sensor :> {Object}) @@ (<<"audio">> :> {Object, "null"})

MCNewDocument == Tree(<<"device">> :> Object)

Microphone == <<"sensors">> :> Object @@ Sensor :> Object @@
              <<"sensors", "s", "type">> :> "Microphone" @@ <<"sensors", "s", "rate">> :> "high"
Camera == <<"sensors">> :> Object @@ Sensor :> Object @@
          <<"sensors", "s", "type">> :> "Camera" @@ <<"sensors", "s", "fov">> :> "low"
Speaker == <<"audio">> :> Object @@ <<"audio", "spatial">> :> "low"
MyCaps == Tree(Microphone @@ Speaker)

CallOf(type, path, value) == [type |-> type, path |-> path, value |-> value]

Announce == CallOf("Update", Entry("me"), MyCaps)
ClaimCore == CallOf("Claim", <<"core">>, LeafTree("me"))
MCStartUp == <<Announce, ClaimCore>>
MCMenu ==
    ("loop" :> {}) @@
    ("bridge" :> {CallOf("Update", <<"app", "x">>, LeafTree("low"))}) @@
    ("app" :> {CallOf("Replace", <<"app">>, LeafTree("high")),
               CallOf("Delete", Entry("me") \o <<"audio">>, EmptyObject),
               CallOf("Clear", <<>>, EmptyObject)})

\* What was here before: another program announced itself under the same id,
\* with other capabilities.
OldCaps == Tree(Camera @@ <<"audio">> :> "null")
UnderMe(caps) ==
    [q \in {Entry("me") \o p : p \in DOMAIN caps} |-> caps[Rest(Entry("me"), q)]]
FromYou == MCNewDocument @@ MCCapsPath :> Object @@ UnderMe(OldCaps) @@ <<"core">> :> "you"
           @@ <<"app">> :> Object @@ <<"app", "x">> :> "high"
MCRemote == {FromYou}

ASSUME MCWritersKeepCaps == WritersKeepCaps

\* Every path some document may have: with no other in a document, the maps of
\* paths tell any two apart.
MCKeyPath == UNION {DOMAIN r : r \in MCRemote} \cup
             {Entry("me") \o p : p \in DOMAIN MyCaps} \cup {<<"app">>, <<"app", "x">>}
=============================================================================

SPECIFICATION Spec
CONSTANTS
    a = a
    b = b
    c = c
    top = top
    obj = obj
    k1 = k1
    k2 = k2
    v1 = v1
    v2 = v2
    Node = {a, b}
    Key = {top, k1, k2}
    Value = {obj, v1, v2}
    Absent = Absent
    Skeleton <- Fresh
    Time <- SameSecond
    Topic = {ctx}
    ContextTopic = ctx
    StreamId <- OneId
    MayRefuse = TRUE
    MaxOutages = 0
    NoStream = NoStream
    Addr = {good}
    Routable = {good}
    NoAddr = NoAddr
    Mdns <- Nobody
    Bootstrap <- AToB
    AppTopic = {}
    Initiator = {}
    Writer = {a}
    Patch <- OneKeyPatches
    Replacement <- Deleted
    MaxUpdates = 2
    MaxInFlight = 2
INVARIANTS
    DeletionsPropagate

SPECIFICATION Spec
CONSTANTS
    a = a
    b = b
    c = c
    top = top
    obj = obj
    k1 = k1
    k2 = k2
    v1 = v1
    v2 = v2
    Node = {a, b}
    Key = {k1, k2}
    Value = {v1, v2}
    Absent = Absent
    Skeleton <- Fresh
    Time <- SameSecond
    Topic = {ctx, chat}
    ContextTopic = ctx
    StreamId <- OneId
    MayRefuse = TRUE
    MaxOutages = 0
    NoStream = NoStream
    Addr = {good}
    Routable = {good}
    NoAddr = NoAddr
    Mdns <- Nobody
    Bootstrap <- AToB
    AppTopic = {chat}
    Initiator = {}
    Writer = {a}
    Patch <- FirstKey
    Replacement <- Whole
    MaxUpdates = 2
    MaxInFlight = 2
PROPERTIES
    OneWriterIsVersioned

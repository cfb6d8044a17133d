SPECIFICATION SpecAtRest
CONSTANTS
    a = a
    b = b
    c = c
    top = top
    obj = obj
    k1 = k1
    k2 = k2
    v1 = v1
    v2 = v2
    Node = {a, b, c}
    Key = {top, k1, k2}
    Value = {obj, v1, v2}
    Absent = Absent
    Skeleton <- Fresh
    Time <- SameSecond
    Topic = {ctx}
    ContextTopic = ctx
    StreamId <- OneId
    MayRefuse = TRUE
    MaxOutages = 1
    NoStream = NoStream
    Addr = {good}
    Routable = {}
    NoAddr = NoAddr
    Mdns <- Nobody
    Bootstrap <- Chain
    AppTopic = {}
    Initiator = {a, c}
    Writer = {}
    Patch <- NoDocs
    Replacement <- NoDocs
    MaxUpdates = 0
    MaxInFlight = 2
VIEW StreamView
SYMMETRY Ends
INVARIANTS
    TypeOK
    EntriesHaveRequests
    ActiveMeansAccepted
PROPERTIES
    NoRevival
    ReportsComeFromThePeer

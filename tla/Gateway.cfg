SPECIFICATION FairSpec
CONSTANTS
    d1 = d1
    d2 = d2
    t1 = t1
    p1 = p1
    p2 = p2
    Device = {d1, d2}
    Topic = {t1}
    LocalId = {0}
    Peer = {p1, p2}
    NoPeer = NoPeer
    Looping = {d1}
    MaxDatagrams = 2
    QueueSize = 1
    Scenarios <- AllScenarios
    NoSession = NoSession
    NoDevice = NoDevice
    EventCap = 1
INVARIANTS
    TypeOK
    ConnectedMeansSession
    HeldStreamsAreOwn
    StarvedByOthersOnly
    OrphansAreExplained
PROPERTIES
    CallsActDirectly
    EventuallyConnected

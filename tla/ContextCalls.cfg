SPECIFICATION Spec
CONSTANTS
    Name <- MCName
    Leaf <- MCLeaf
    Object = Object
    CapsPath <- MCCapsPath
    Variants <- MCVariants
    Optional <- MCOptional
    Task = {"loop", "bridge", "app"}
    EventLoop = "loop"
    StartUp <- MCStartUp
    Menu <- MCMenu
    Idle = Idle
    NewDocument <- MCNewDocument
    Remote <- MCRemote
    MaxArrivals = 1
    KeyPath <- MCKeyPath
    Nothing = Nothing
INVARIANTS
    TypeOK
    CapsStayDecodable
    MergeIsRecursive
    PathMapsAgree
PROPERTIES
    ChangesElsewhereWereStale
    UncontendedCallsAreExact

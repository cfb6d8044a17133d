SPECIFICATION Spec
CONSTANTS
    Inbound = {i, o}
    Outbound = {o}
    Task = {loop, app_task}
    EventLoop = loop
    App = app_task
    Nothing = Nothing
    CommandCap = 1
    EventCap = 1
    UserCap = 1
    MaxPending <- WhatChannelsHold
    MaxSessions = 1
    MaxHeard = 2
INVARIANTS
    TypeOK
    HandlersFollowStreams
    CallbacksInOrder
    DropsAreExplained
    NobodyWaitsInACircle
PROPERTIES
    CallsReturn
CHECK_DEADLOCK FALSE

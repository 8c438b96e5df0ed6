\* Safety with two door edges, two requests and two connections that end.
SPECIFICATION Spec
CONSTANTS
    c1 = c1
    c2 = c2
    c3 = c3
    server = server
    none = none
    Server = server
    None = none
    Connections <- ThreeConnections
    MaxDoorEdges = 2
    MaxRequests = 2
    MaxDepartures = 2
SYMMETRY Symmetry
INVARIANTS
    TypeOK
    NoDanglingRemoteControl
    AttachedWhileConnected
    LastStatusIsCurrent
    DoorFollowsGpio
PROPERTIES
    FeedsTheStatus
CHECK_DEADLOCK FALSE

\* Progress unless the worker locks itself.
SPECIFICATION Spec
CONSTANTS
    c1 = c1
    c2 = c2
    c3 = c3
    server = server
    none = none
    Server = server
    None = none
    Connections <- TwoConnections
    MaxDoorEdges = 2
    MaxRequests = 2
    MaxDepartures = 1
PROPERTIES
    EverythingIsRun
    OpeningIsLit
    GetStatusIsAnswered
CHECK_DEADLOCK FALSE

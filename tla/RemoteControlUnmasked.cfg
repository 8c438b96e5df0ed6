\* A client that sends an unmasked frame while a status is being sent to it.
SPECIFICATION Spec
CONSTANTS
    c1 = c1
    c2 = c2
    c3 = c3
    server = server
    none = none
    Server = server
    None = none
    Connections <- TwoConnections
    MaxDoorEdges = 1
    MaxRequests = 1
    MaxDepartures = 1
PROPERTY
    UnmaskedClientIsClosed
CHECK_DEADLOCK FALSE

\* Two pages; one may be loaded again; two clicks and two edges of the door.
SPECIFICATION Spec
CONSTANTS
    kitchen = kitchen
    phone = phone
    Pages <- MCPages
    Nothing = nothing
    MaxClicks = 2
    MaxDoorEdges = 2
    MaxLoads = 3
INVARIANTS
    QuietMeansAgreed
PROPERTIES
    EveryPageCatchesUp
CHECK_DEADLOCK FALSE

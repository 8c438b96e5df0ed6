\* The debounce loop with main.cpp's threshold.
SPECIFICATION Spec
CONSTANT Threshold = 10
INVARIANTS
    TypeOK
    SteadyLevelIsSeen
PROPERTIES
    EdgeNeedsEvidence
    SteadyDoorIsReported
    FailureNeverOpens

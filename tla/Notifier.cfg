\* Two openings' texts may wait; the operator writes once.
SPECIFICATION Spec
CONSTANTS
    Contents <- MCContents
    Moments <- MCMoments
    MaxTexts = 1
    MaxWrites = 1
INVARIANTS
    TypeOK
    LightAcrossRestarts
PROPERTIES
    DecisionIsCurrent
    AlertIsWhole
    OnlyTheUpdateSticks
    LockFromAlertToStatus

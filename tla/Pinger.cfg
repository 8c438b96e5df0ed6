\* Sequence numbers that wrap around after four requests.
SPECIFICATION Spec
CONSTANTS
    SequenceNumbers = 4
    Lifetime = 3
    MaxReplies = 3
INVARIANTS
    TypeOK
    ErrorsAreSilence
PROPERTIES
    RequestsAreSpaced
    SilenceIsNoticed
CHECK_DEADLOCK FALSE

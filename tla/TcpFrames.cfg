\* The buffer holds the 8 bytes of a length and no more; a message of three
\* frames, or three messages; frames before and after one that does not fit.
SPECIFICATION Spec
CONSTANTS
    Lengths <- MCLengths
    Extended1 = 2
    Extended2 = 3
    BufferSize = 8
    Width = 256
    MaxFrames = 3
INVARIANTS
    HandedAsSent
PROPERTIES
    WholeReadsGoThrough
CHECK_DEADLOCK FALSE

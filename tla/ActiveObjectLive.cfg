\* The queue implements the abstract one, fairness included, for work that does
\* not push to its own queue.
SPECIFICATION Spec
CONSTANTS
    main = main
    io = io
    controlThread = controlThread
    none = none
    plain = plain
    selfPushing = selfPushing
    Callers <- MCCallers
    Worker = controlThread
    NoThread = none
    Functions <- MCOnlyPlain
    SelfPushing <- MCNone
    MaxPushes = 4
PROPERTY
    ImplementsWorkQueue
CHECK_DEADLOCK FALSE

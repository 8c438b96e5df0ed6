\* Safety of the queue, with work that may push to its own queue.
SPECIFICATION Spec
CONSTANTS
    main = main
    io = io
    controlThread = controlThread
    none = none
    plain = plain
    selfPushing = selfPushing
    Callers <- MCCallers
    Worker = controlThread
    NoThread = none
    Functions <- MCFunctions
    SelfPushing <- MCSelfPushing
    MaxPushes = 4
INVARIANTS
    TypeOK
    NoLostWakeup
    StopDrainsTheQueue
PROPERTIES
    NoPushWhileRunning
    WorkQueueSafety
CHECK_DEADLOCK FALSE

\* Two calls' frames may follow each other while an item of another waits.
SPECIFICATION SyncSpec
CONSTANTS
    MaxCalls = 3
    MaxQueue = 2
INVARIANTS
    FrameOutlivesItsUse
PROPERTIES
    EveryCallReturns

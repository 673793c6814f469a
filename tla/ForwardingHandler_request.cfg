SPECIFICATION FairSpec
CONSTANTS
    Frames = {f1, f2, f3}
    First = f1
    MaxBody = 2
    BufferSize = 1
    None = none
CHECK_DEADLOCK FALSE
INVARIANTS
    OneOwes
    RefsExact
    HandlerOutlivesUse
    BuffersOutliveUse
    EntityIsForwarded
    LengthIsAccounted
    CompleteOrAborted
PROPERTIES
    KeepsPromise
    HandlerIsFreed

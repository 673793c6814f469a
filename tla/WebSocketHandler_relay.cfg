SPECIFICATION FairSpec
CONSTANTS
    Workers = {w1, w2, w3}
    Starter = starter
    None = none
CHECK_DEADLOCK FALSE
INVARIANTS OutstandingIsExact CompletionIsLast NeverStranded OneStepPerLoop UsesOpenHandle
PROPERTY CleanupFrees

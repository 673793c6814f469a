SPECIFICATION Spec
CONSTANTS
    Workers = {w1, w2, w3}
    Starter = starter
    None = none

SYMMETRY Symmetry
CHECK_DEADLOCK FALSE
INVARIANT HandlerOutlivesIo

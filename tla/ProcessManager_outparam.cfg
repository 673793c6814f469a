SPECIFICATION Spec
CONSTANTS
    Threads = {t1, t2}
    Procs = {p1}
    N = 1
    Ports = {n1}
    ForeignPorts = {}
    Children = {}
    Main = main
    RapidFailLimit = 0
    NsiSupported = TRUE
    Null = null
    Free = free
    Recycler = recycler
SYMMETRY Symmetry
CHECK_DEADLOCK FALSE
INVARIANT SuccessReturnsProcess

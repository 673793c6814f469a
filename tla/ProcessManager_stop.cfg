SPECIFICATION Spec
CONSTANTS
    Threads = {t1}
    Procs = {p1, p2}
    N = 1
    Ports = {n1}
    ForeignPorts = {}
    Children = {}
    Main = main
    RapidFailLimit = 0
    NsiSupported = TRUE
    Null = null
    Free = free
    Recycler = recycler
SYMMETRY Symmetry
CHECK_DEADLOCK FALSE
PROPERTY StopsOnlyTheFailed

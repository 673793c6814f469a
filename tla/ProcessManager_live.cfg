SPECIFICATION FairSpec
CONSTANTS
    Threads = {t1}
    Procs = {p1}
    N = 2
    Ports = {n1, n2}
    ForeignPorts = {n2}
    Children = {c1}
    Main = main
    RapidFailLimit = 0
    NsiSupported = TRUE
    Null = null
    Free = free
    Recycler = recycler
CHECK_DEADLOCK FALSE
PROPERTIES CrashedIsDelisted GetProcessReturns

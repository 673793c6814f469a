SPECIFICATION Spec
CONSTANTS
    Threads = {t1, t2}
    Procs = {p1, p2}
    N = 1
    Ports = {n1, n2}
    ForeignPorts = {}
    Children = {c1}
    Main = main
    RapidFailLimit = 0
    NsiSupported = TRUE
    Null = null
    Free = free
    Recycler = recycler
CONSTRAINT ChildrenBound
SYMMETRY Symmetry
CHECK_DEADLOCK FALSE
INVARIANTS ListedIsReady ReferencedIsLive RunningIsListed RapidFailBound
    ManagerRefs StoppedOnce

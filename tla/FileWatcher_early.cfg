SPECIFICATION Spec
CONSTANTS
    Requests = {r1}
    Creator = creator
    Recycler = recycler
    Watcher = watcher
    Htms = {h1, h2}
    MaxChanges = 1
    MayFail = FALSE
    None = none
SYMMETRY Symmetry
CHECK_DEADLOCK FALSE
INVARIANT EntryAwaitsStop

SPECIFICATION Spec
CONSTANTS
    Requests = {r1, r2}
    Creator = creator
    Recycler = recycler
    Watcher = watcher
    Htms = {h1, h2, h3}
    MaxChanges = 2
    MayFail = TRUE
    None = none
SYMMETRY Symmetry
VIEW AnyVersion
CHECK_DEADLOCK FALSE
INVARIANTS
    EntryRefsExact
    AppOutlivesUpdate
    SharedRefsExact

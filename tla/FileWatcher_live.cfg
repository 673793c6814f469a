SPECIFICATION FairSpec
CONSTANTS
    Requests = {}
    Creator = creator
    Recycler = recycler
    Watcher = watcher
    Htms = {h1, h2, h3}
    MaxChanges = 2
    MayFail = FALSE
    None = none

CHECK_DEADLOCK FALSE
PROPERTIES
    ChangeIsSeen
    ClosedIsDeleted

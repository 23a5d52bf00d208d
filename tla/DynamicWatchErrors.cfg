CONSTANTS
    Addons = {a1, a2}
    GVKs = {cert}
    Bootstrap = {}
    WatchErrors = TRUE
    MaxEdits = 1
SPECIFICATION Spec
INVARIANT WatchedAfterUpdate
CHECK_DEADLOCK FALSE

CONSTANTS
    Addons = {a1, a2}
    GVKs = {cert}
    Bootstrap = {}
    WatchErrors = TRUE
    MaxEdits = 1
SPECIFICATION FairSpec
PROPERTY PendingResolves
CHECK_DEADLOCK FALSE

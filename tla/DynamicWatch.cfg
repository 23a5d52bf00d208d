CONSTANTS
    Addons = {a1, a2}
    GVKs = {secret, cert}
    Bootstrap = {secret}
    WatchErrors = FALSE
    MaxEdits = 1
SPECIFICATION Spec
INVARIANTS
    TypeOK
    RefCountExact
    WatchedAfterUpdate
PROPERTY ImplementsLeases
CHECK_DEADLOCK FALSE
SYMMETRY AddonSymmetry

SPECIFICATION Spec
CONSTANTS
    c1 = c1
    c2 = c2
    r1 = r1
    Rules = {r1}
    Criteria = {c1}
    SelfCriteria = {}
    KeepCriteria <- NoneOf
    LiveCriteria <- OnlyC1
    ArgoFinalizer = TRUE
    Settled = FALSE
    Kinds = {"createPhase", "deleteAddon", "pause", "resource"}
    MaxVersion = 1
    MaxLag = 1
    MaxChanges = 1
    MaxFaults = 1
INVARIANTS
    TypeOK
    NoOrphanApplication
    RestIsConsistent
    ReadySound
CHECK_DEADLOCK FALSE

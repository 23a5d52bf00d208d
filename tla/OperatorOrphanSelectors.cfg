SPECIFICATION Spec
CONSTANTS
    c1 = c1
    c2 = c2
    r1 = r1
    Rules = {r1}
    Criteria = {c1}
    SelfCriteria = {}
    KeepCriteria <- NoneOf
    LiveCriteria <- OnlyC1
    ArgoFinalizer = FALSE
    Settled = TRUE
    Kinds = {"criterion", "deletePhase"}
    MaxVersion = 1
    MaxLag = 1
    MaxChanges = 2
    MaxFaults = 0
INVARIANTS
    NoSelectorsOfGonePhase
CHECK_DEADLOCK FALSE

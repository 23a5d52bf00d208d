SPECIFICATION Spec
CONSTANTS
    c1 = c1
    c2 = c2
    r1 = r1
    Rules = {r1}
    Criteria = {c1}
    SelfCriteria = {}
    KeepCriteria <- NoneOf
    LiveCriteria <- OnlyC1
    ArgoFinalizer = FALSE
    Settled = FALSE
    Kinds = {"verdict"}
    MaxVersion = 1
    MaxLag = 2
    MaxChanges = 1
    MaxFaults = 0
PROPERTIES
    DeployedNeverReset
CHECK_DEADLOCK FALSE

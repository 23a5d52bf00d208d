SPECIFICATION FairSpec
CONSTANTS
    c1 = c1
    c2 = c2
    r1 = r1
    Rules = {r1}
    Criteria = {c1}
    SelfCriteria = {}
    KeepCriteria <- NoneOf
    LiveCriteria <- OnlyC1
    ArgoFinalizer = TRUE
    Settled = TRUE
    Kinds = {"criterion","inputs","deletePhase","deleteAddon","deleteApp"}
    MaxVersion = 1
    MaxLag = 1
    MaxChanges = 2
    MaxFaults = 0
INVARIANTS
    RuleDeployedSound
PROPERTIES
    BecomesReady
    DeletionEnds
CHECK_DEADLOCK FALSE

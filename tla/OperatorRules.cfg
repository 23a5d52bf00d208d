SPECIFICATION Spec
CONSTANTS
    c1 = c1
    c2 = c2
    r1 = r1
    Rules = {r1, r2}
    Criteria = {c1, c2}
    SelfCriteria = {}
    KeepCriteria <- C1ForR1
    LiveCriteria <- C2ForR2
    ArgoFinalizer = FALSE
    Settled = TRUE
    Kinds = {"criterion", "verdict", "values"}
    MaxVersion = 2
    MaxLag = 2
    MaxChanges = 2
    MaxFaults = 0
INVARIANTS
    ReadySound
    RuleDeployedSound
    RestIsConsistent
PROPERTIES
    SelectorsOwnedByPhase
CHECK_DEADLOCK FALSE

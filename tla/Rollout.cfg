SPECIFICATION FairSpec
CONSTANTS
    Addons = {"a", "b"}
    Dependencies <- BOnA
    Regex <- TrueFalse
    BadPatterns = {"("}
    AddonKeys = {"addon", "env"}
    SpecSelectors <- SpecSel
    PhaseSelectors <- PhaseSel
    AddonValues = {1, 2}
    Contents <- SomeContents
    Labels <- SomeLabels
    FirstValues <- Two
    Scenarios <- SomeScenarios
    MaxLag = 1
INVARIANTS
    TypeOK
    GateSound
    RolloutAtRest
PROPERTIES
    ChainComesUp
CHECK_DEADLOCK FALSE

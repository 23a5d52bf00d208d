SPECIFICATION FairSpec
CONSTANTS
    Claims = {"c1", "c2"}
    Secrets = {"s"}
    CredentialRef <- Staying
    ValueLabels <- SameLabel
    AddonSpec <- NewAddon
    ControlPlanes = {"c1"}
    Rejected = {"c2"}
    Valueless = {}
    MaxConcurrentReconciles = 2
    ReadFails = FALSE
    ClaimKinds = {"secret"}
    MaxLag = 1
    MaxVer = 2
    MaxEdition = 2
    MaxChanges = 1
    MaxFaults = 0
    MaxEvents = 1
    HealthBackoffInitial = 1
    HealthBackoffMax = 1
    ShiftLimit = 0
    Width = 2
INVARIANTS
    ClientMatches
    ClaimAtRest
PROPERTIES
    ClaimBecomesReady
CHECK_DEADLOCK FALSE

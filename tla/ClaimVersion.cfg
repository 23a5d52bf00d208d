SPECIFICATION Spec
CONSTANTS
    Claims = {"c1"}
    Secrets = {"s"}
    CredentialRef <- Staying
    ValueLabels <- SameLabel
    AddonSpec <- NewAddon
    ControlPlanes = {"c1"}
    Rejected = {}
    Valueless = {}
    MaxConcurrentReconciles = 2
    ReadFails = TRUE
    ClaimKinds = {"edit"}
    MaxLag = 1
    MaxVer = 2
    MaxEdition = 2
    MaxChanges = 1
    MaxFaults = 1
    MaxEvents = 2
    HealthBackoffInitial = 2
    HealthBackoffMax = 3
    ShiftLimit = 1
    Width = 3
INVARIANTS
    VersionSound
CHECK_DEADLOCK FALSE

SPECIFICATION FairSpec
CONSTANTS
    Claims = {"c1"}
    Secrets = {"s", "t"}
    CredentialRef <- Moving
    ValueLabels <- Relabelled
    AddonSpec <- Rendered
    ControlPlanes = {"c1"}
    Rejected = {}
    Valueless = {4}
    MaxConcurrentReconciles = 2
    ReadFails = FALSE
    ClaimKinds = {"create", "edit", "pause", "delete", "secret", "template", "unready"}
    MaxLag = 1
    MaxVer = 4
    MaxEdition = 2
    MaxChanges = 2
    MaxFaults = 2
    MaxEvents = 2
    HealthBackoffInitial = 2
    HealthBackoffMax = 3
    ShiftLimit = 1
    Width = 3
INVARIANTS
    TypeOK
    VersionSound
    NoRemoteOrphan
    ClaimAtRest
PROPERTIES
    BackoffCurve
    ClaimBecomesReady
    ClaimDeletionEnds
CHECK_DEADLOCK FALSE

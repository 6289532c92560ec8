CONSTANTS
    Claims <- OneProcessClaims
    NoClaim <- NoClaimYet
    MaxToken = 12
    MaxUid = 2
    StartupLease = 1
    ActionTimeout = 1
    CleanupTtl = 1
    Procs = {p1}
    Reapers = {p1}
    MaxRuns = 1
    Kinds <- PodAndConfig
    FaultKinds = {"crash", "call", "repeat", "unowned"}
    MaxFaults = 1
    SlowDelete = FALSE
SPECIFICATION FairSpec
PROPERTIES ReleaseCompletes DeadlineResolved

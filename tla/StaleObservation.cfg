CONSTANTS
    Claims <- OneProcessClaims
    NoClaim <- NoClaimYet
    MaxToken = 6
    MaxUid = 4
    StartupLease = 1
    ActionTimeout = 1
    CleanupTtl = 1
    Procs = {p1}
    Reapers = {p1}
    MaxRuns = 1
    Kinds <- PodAndConfig
    FaultKinds = {"pod"}
    MaxFaults = 2
    SlowDelete = FALSE
SPECIFICATION Spec
INVARIANTS BarrierCoversRequests
CHECK_DEADLOCK FALSE

CONSTANTS
    Claims <- OneProcessClaims
    NoClaim <- NoClaimYet
    MaxToken = 18
    MaxUid = 2
    StartupLease = 1
    ActionTimeout = 1
    CleanupTtl = 1
    Procs = {p1}
    Reapers = {p1}
    MaxRuns = 1
    Kinds <- PodAndConfig
    FaultKinds = {"crash", "call", "repeat"}
    MaxFaults = 2
    SlowDelete = FALSE
SPECIFICATION Spec
INVARIANTS TypeOK SettledOnce BarrierCoversRequests ReleasedIsClean
PROPERTIES FenceMoves WriteBackLosesNothing

CONSTANTS
    Claims <- OneProcessClaims
    NoClaim <- NoClaimYet
    MaxToken = 4
    MaxUid = 3
    StartupLease = 1
    ActionTimeout = 1
    CleanupTtl = 1
    Procs = {p1}
    Reapers = {p1}
    MaxRuns = 2
    Kinds <- PodAndConfig
    FaultKinds = {"crash", "call"}
    MaxFaults = 1
    SlowDelete = TRUE
SPECIFICATION Spec
CONSTRAINT SuccessionBound
INVARIANTS OneUnreleasedRun SnapshotFenced
PROPERTIES ImplementsContract
CHECK_DEADLOCK FALSE

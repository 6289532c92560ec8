CONSTANTS
    Claims <- TwoProcessClaims
    NoClaim <- NoClaimYet
    MaxToken = 7
    MaxUid = 4
    StartupLease = 1
    ActionTimeout = 1
    CleanupTtl = 1
    Procs = {p1, p2}
    Reapers = {p1}
    MaxRuns = 1
    Kinds <- PodAndConfig
    FaultKinds = {"pod", "lost_answer", "unowned"}
    MaxFaults = 1
    SlowDelete = TRUE
SPECIFICATION Spec
CONSTRAINT OverlapBound
INVARIANTS OneActionPerRun ActivePodKept
PROPERTIES DeletesOnlyDoomed
CHECK_DEADLOCK FALSE

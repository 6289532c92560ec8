CONSTANTS
    MaxMsgs = 2
    MaxContent = 0
    MaxRuns = 2
    FaultKinds = {"crash", "call"}
    MaxFaults = 2
SPECIFICATION FairSpec
INVARIANTS OwnerRuns
PROPERTIES PendingMovesOn TakenIsLearnt
CHECK_DEADLOCK FALSE

CONSTANTS
    MaxMsgs = 2
    MaxContent = 1
    MaxRuns = 2
    FaultKinds = {"crash", "call", "late"}
    MaxFaults = 2
SPECIFICATION Spec
INVARIANTS TypeOK PostedOnce OwnerCanSettle AcceptedWasTaken CursorLeavesNoneBehind DeletedStaysOut RanAsStored
CHECK_DEADLOCK FALSE

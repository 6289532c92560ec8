CONSTANTS
    Workers = {w1, w2}
    Keys = {k1, k2}
    MaxDeletionFaults = 2
    Calls = {c1, c2}
    Amounts = {1, 3}
    RequestLimit = 2
    TokenLimit = 4
    WindowLimit = 1
    MaxProviderFaults = 1
    k1 = k1
    k2 = k2
    t1 = t1
    t2 = t2
    p1 = p1
    p2 = p2
    Tasks = {t1, t2}
    NewTasks = {t1}
    Projects = {p1, p2}
    Homes <- OwnProjects
    Posts <- OnePost
    TerminalStarts <- TwoStarts
    Offers <- TwoCommands
    Sessions = {s1, s2}
    SandboxLimits = {0, 2}
    NamespaceLimit = 1
    MaxAdmissions = 2
SPECIFICATION ResourcesSpec
INVARIANTS DeletionTypeOK BoundLibraryIntact FinalizedIsClean AnswersTrue ProviderTypeOK UsageIsSum SentIsCharged WithinLimits DeletionWaits CommandsTypeOK ReceiptsTell OnlyRepeatedPosts
PROPERTIES AnswerKept DeletionEnds CapacityKept
CHECK_DEADLOCK FALSE

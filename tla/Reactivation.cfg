CONSTANTS
    Calls = {c1}
    Amounts = {1}
    RequestLimit = 1
    TokenLimit = 1
    WindowLimit = 1
    MaxProviderFaults = 0
SPECIFICATION ProviderSpec
INVARIANT ActiveHasFiles
CHECK_DEADLOCK FALSE

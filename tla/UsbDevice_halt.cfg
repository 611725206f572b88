CONSTANTS
    MaxIn = 3
    MaxOut = 3
    MaxFunctions = 2
    MaxFuncEndpoints = 1
    MaxInterfaces = 2
    Speeds = {"full", "high"}
    MappingAt <- SmallMappings
    OpenedAt <- SmallEndpoints
    Addresses = {5}
    MaxResets = 1
    GiveUp = TRUE
    Halts = TRUE
    Failures = FALSE
SPECIFICATION DevSpec
INVARIANTS
    PromiseKept

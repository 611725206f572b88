\* The device: numbers that depend on the speed, one bus address, two resets.
\* The compiler: two functions, logical addresses and buffer counts up to one
\* more than a build takes, interfaces up to one more than there is room for.
\* The driver: packets in accesses of four bytes, one of odd length.
CONSTANTS
    MaxIn = 3
    MaxOut = 3
    MaxFunctions = 2
    MaxFuncEndpoints = 2
    MaxInterfaces = 3
    Speeds = {"full", "high"}
    MappingAt <- SmallMappings
    OpenedAt <- SmallEndpoints
    Addresses = {5}
    MaxResets = 2
    GiveUp = TRUE
    Halts = FALSE
    Failures = TRUE
    Targets <- SmallTargets
    Types = {bulk, interrupt}
    Requested = {0, 1}
    Buffers = {1, 2, 3}
    Interfaces = {1, 2}
    Accesses = {4}
    Config <- MCConfig
    ControlPacket = 64
    TableLength = 64
    MemoryLength = 256
    Lengths = {5}
SPECIFICATION AllSpec
INVARIANTS
    PromiseKept
    HostAgrees
    HardwareInv
    RoundTrip
    NothingForgotten
    ControlAlive
    PacketIntact
    BuffersApart
PROPERTIES
    NoNullLogic
    CallbackOwed
    ImplementsContract

CONSTANTS
    Accesses = {2, 4}
    Config <- MCConfig
    ControlPacket = 64
    TableLength = 64
    MemoryLength = 256
    Lengths = {5}
SPECIFICATION PcdSpec
INVARIANT
    ControlAlwaysOpen

CONSTANTS
    MaxPacket = 4
    MaxTransfer = 9
    Eager = TRUE
    HostLengths = {0, 3, 4, 8}
    Descriptor <- MCDescriptor
    Serial <- MCSerial
    OtherLengths = {0, 4, 5}
SPECIFICATION ControlSpec
INVARIANT
    StringEnds

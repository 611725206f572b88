\* Descriptors of one packet and a byte, and of exactly two packets; transfers
\* up to one byte more.  The host asks for none, for less than a packet, for a
\* packet and for two.
CONSTANTS
    MaxPacket = 4
    MaxTransfer = 9
    Eager = TRUE
    HostLengths = {0, 3, 4, 8}
    Descriptor <- MCDescriptor
    Serial <- MCSerial
    OtherLengths = {0, 4, 5}
SPECIFICATION ControlSpec
INVARIANTS
    NoNullDeref
    DataStageInv
    WholePackets
    ClientContract
    NobodyForgotten
    ReplyRight
    NoOverwrite
PROPERTIES
    KeepsTheRules
    Agreement
    StallBelongs
    BusTransferEnds

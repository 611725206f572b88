CONSTANTS
    c0 = c0
    c1 = c1
    Packet = 2
    RxCapacity = 2
    TxCapacity = 2
    Coding = {c0, c1}
    Signals = {c0, c1}
    Loads <- MCOnePacket
    Options = {}
SPECIFICATION PortSpec
PROPERTIES
    HeldPacketMoves

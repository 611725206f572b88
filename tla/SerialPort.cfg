CONSTANTS
    c0 = c0
    c1 = c1
    Packet = 2
    RxCapacity = 5
    TxCapacity = 4
    Coding = {c0, c1}
    Signals = {c0, c1}
    Loads <- MCLoads
    Options = {FALSE}
SPECIFICATION PortSpec
INVARIANTS
    TxUnderway
    HostStream
    RxStream
    EventsTell
PROPERTIES
    ContractKept
    TxDrains
    HeldPacketMoves
    HostAdmitted

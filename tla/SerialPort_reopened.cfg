CONSTANTS
    c0 = c0
    c1 = c1
    Packet = 2
    RxCapacity = 4
    TxCapacity = 4
    Coding = {c0, c1}
    Signals = {c0, c1}
    Loads <- MCReopened
    Options = {FALSE}
SPECIFICATION PortSpec
INVARIANTS
    CalledOnce

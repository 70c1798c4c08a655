SPECIFICATION Spec
CONSTANTS
    c1 = c1
    k1 = k1
    k2 = k2
    Clients <- MCClients
    Conns <- MCConns
    Foreign <- MCForeign
    Ports <- MCPorts
    Bytes <- MCBytes
    MaxBytes = 3
    PrefixSize = 2
    ReadSize = 2
    FirstPeers = 1
    MaxMessages = 2
INVARIANTS
    StreamKept
    NeverBlocks
PROPERTIES
    EverybodyServed
    ReadFits
CHECK_DEADLOCK FALSE

SPECIFICATION Spec
CONSTANTS
    c1 = c1
    c2 = c2
    b1 = b1
    Clients <- ClientSet
    NoClient = NoClient
    Buffers <- BufferSet
    Manners <- AnyManners
    UdpOutcomes <- AlwaysBound
    MaxInbox = 2
    MaxConnects <- ThreeConnects
    MaxSetups <- OneSetup
INVARIANTS UdpUsersHaveSocket

SPECIFICATION FairSpec
CONSTANTS
    c1 = c1
    c2 = c2
    b1 = b1
    Clients <- ClientSet
    NoClient = NoClient
    Buffers <- BufferSet
    Manners <- BothManners
    UdpOutcomes <- Outcomes
    MaxInbox = 1
    MaxConnects <- Connects
    MaxSetups <- Setups
INVARIANTS StoppedAreGone NoFrameLeak RefCountsUsers
PROPERTIES TransportSpec RequestsAreRead ClosedAreReclaimed

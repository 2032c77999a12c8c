SPECIFICATION FairSpec
CONSTANTS
    c1 = c1
    c2 = c2
    b1 = b1
    b2 = b2
    Clients <- ClientSet
    Buffers <- BufferSet
    NoBuffer = NoBuffer
    NoClient = NoClient
INVARIANTS NoFrameLeak AnsweredOnce
PROPERTIES ImagesSentSafely QueuedGetsItsTurn LeaseSpec

SPECIFICATION FairSpec
CONSTANTS
    Conducts <- AllConducts
    Sizes <- SizesOfFrames
    MaxFrames <- FramesOf
    MaxLate <- LateFramesOf
    TxBuffer = 2
    SizeOfTxSize = 1
    MaxMessage = 2
    PingSize = 2
    MaxHttp = 2
    ShortLimit = 2
    MaxPayload = 2
INVARIANTS ReceivedIsSent SentIsWritten BufferHolds
PROPERTY FramesAreRead

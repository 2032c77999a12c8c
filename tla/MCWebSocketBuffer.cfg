SPECIFICATION Spec
CONSTANTS
    Conducts <- SlowConduct
    Sizes <- SizesOfFrames
    MaxFrames <- SlowFrames
    MaxLate <- SlowFrames
    TxBuffer = 2
    SizeOfTxSize = 1
    MaxMessage = 2
    PingSize = 2
    MaxHttp = 2
    ShortLimit = 2
    MaxPayload = 2
INVARIANT WritesFit

SPECIFICATION RtpSpec
CONSTANTS
    c1 = c1
    c2 = c2
    c3 = c3
    Clients <- ClientSet
    ListHead = ListHead
    Dangling = Dangling
    Stamps <- TwoStamps
    SeqLimit = 3
    MaxFragment = 2
    Lengths <- ShortAndLong
    U32 = 12
    MsPerFrame = 1
    Units = 4
    MsPerSec = 2
    MaxDelay = 2
INVARIANTS FrameIsWhole LinksFormRing WalkVisitsAll EverySessionGetsAll
    TimestampTracks
PROPERTIES LoopEnds ImagesGoOn

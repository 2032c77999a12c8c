SPECIFICATION FairSpec
CONSTANTS
    b1 = b1
    b2 = b2
    Buffers <- BufferSet
    NoBuffer = NoBuffer
    Warmups = 2
    Minute = 3
    StepBack = 2
    MaxTime = 9
INVARIANTS NoFrameLeak UploadsCapturedFrame
PROPERTIES OncePerMinute NamesUnique SeriesGoesOn LeaseSpec

SPECIFICATION Spec
CONSTANTS
    b1 = b1
    b2 = b2
    Buffers <- BufferSet
    NoBuffer = NoBuffer
    Warmups = 2
    Minute = 4
    StepBack = 0
    MaxTime = 11
PROPERTIES SchedulesNextMinute

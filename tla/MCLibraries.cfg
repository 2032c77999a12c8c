INIT LibrariesInit
NEXT LibrariesNext
CONSTANTS
    ClockMod = 9
    RetryMs = 3
    MaxBusy = 2
    MaxAge = 20
    MaxCount = 3
    SwitchAt = 5
    Minute = 2
    Clocks <- RtcClocks
    Seconds <- RtcSeconds
    Alarms <- RtcAlarms
    Outcomes = {"done", "failed"}
    FirstYear = 1900
    LastYear = 2099
    FirstWeekDay = 1
    Characters <- UrlCharacters
    MaxPort = 1
    MaxLength <- UrlLength
    MaxSections = 3
    MaxScan = 3
    Values = {0, 165, 255}
    MaxBytes = 7
    ChunkSize = 3
    KeyRoom = 13
INVARIANTS RetryPrompt WakesForWhatWasAsked NoWakeIsMissed DatesAreKept
    PartsMakeTheUrl ScanIsFound PiecesEncodeTheWhole
PROPERTY AttemptsSpaced

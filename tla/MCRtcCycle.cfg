SPECIFICATION RtcSpec
CONSTANTS
    MaxCount = 3
    SwitchAt = 5
    Minute = 2
    Clocks <- RtcClocks
    Seconds <- RtcSeconds
    Alarms <- RtcAlarms
    Outcomes = {"done", "failed"}
INVARIANT LongCountsInMinutes

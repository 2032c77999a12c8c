----------------------------- MODULE MCLibraries -----------------------------
(* TLC instance of the small libraries' modules and of the retry timer of   *)
(* the sketch, which have nothing to do with each other: a run has one of   *)
(* them as its subject, chosen at the start, and the others stay as they    *)
(* are.  The timer: a counter modulo 9, attempts 3 ticks apart.             *)
EXTENDS WifiRetry, MCRtc, RtcCalendar, UrlParser, JpegScan, Base64

UrlCharacters == {"a", "z", "1", ".", "*", ":", "@", "[", "]", "%", "/", "?", "#", " "}
UrlLength == [c \in UrlCharacters |->
                 IF c = "a" THEN 9 ELSE IF c \in {"/", "*"} THEN 3 ELSE 1]

VARIABLE subject

Subjects == {"wifi", "rtc", "calendar", "url", "jpeg", "codec"}

LibrariesInit ==
    /\ subject \in Subjects
    /\ Init /\ (subject # "wifi" => wifi = "up")
    /\ RtcInit /\ (subject # "rtc" => ctl = {})
    /\ CalendarInit
    /\ UrlInit
    /\ ImageInit
    /\ BytesInit

OthersThan(part) ==
    /\ subject = part /\ UNCHANGED subject
    /\ part # "wifi" => UNCHANGED vars
    /\ part # "rtc" => UNCHANGED rtcVars
    /\ part # "calendar" => UNCHANGED dateVars
    /\ part # "url" => UNCHANGED urlVars
    /\ part # "jpeg" => UNCHANGED imageVars
    /\ part # "codec" => UNCHANGED bytes

LibrariesNext ==
    \/ OthersThan("wifi") /\ Next
    \/ OthersThan("rtc") /\ RtcNext
    \/ OthersThan("calendar") /\ CalendarNext
    \/ OthersThan("url") /\ UrlNext
    \/ OthersThan("jpeg") /\ ImageNext
    \/ OthersThan("codec") /\ BytesNext
=============================================================================

-------------------------------- MODULE MCRtc --------------------------------
(* TLC instance of Rtc: a timer of three counts that goes over to minutes   *)
(* at five, minutes of two seconds and hours of two minutes.                *)
EXTENDS Rtc

RtcClocks == [minutes |-> 0 .. 1, hours |-> {0}, date |-> 1 .. 2, weekDay |-> {0}]
RtcAlarms == {Never, [Never EXCEPT !["minutes"] = 1, !["date"] = 2]}

\* Disabled, a count of seconds, one in the gap, one of minutes, and one beyond all minutes.
RtcSeconds == {-1, 1, 4, 5, 7}
=============================================================================

-------------------------- MODULE Libraries_proofs --------------------------
(***************************************************************************)
(* The parts that stand alone.  What counts time: the retry timer of       *)
(* maintainWiFi, the dates and times that the clock chip's class converts, *)
(* and the timer and the alarm of the chip that wake a sleeping board.     *)
(* And what goes through sequences: the URL parser, the Base64 texts and   *)
(* the search for the scan data of an image.  For every counter width,     *)
(* interval and duration, every span of years, every request for a         *)
(* wake-up, every URL, all bytes and every image.                          *)
(***************************************************************************)
EXTENDS WifiRetry, RtcCalendar, Rtc, UrlParser, Base64, JpegScan,
        SequenceTheorems, WellFoundedInduction, TLAPS

-----------------------------------------------------------------------------
(***************************************************************************)
(* Why the comparison of line 247 works: until a wrap, nextTry lies        *)
(* exactly RetryMs after the reading of millis() it was computed from, so  *)
(* clock - nextTry + RetryMs is the real time since then (at least MaxAge  *)
(* once age has reached its cap).                                          *)
(***************************************************************************)
Elapsed == clock - nextTry + RetryMs

AgeIsElapsed ==
    era = "same" => IF age < MaxAge THEN Elapsed = age ELSE Elapsed >= MaxAge

(***************************************************************************)
(* Why an attempt is prompt: a call made while one is owed makes it, so it *)
(* has been owed only since the last call.                                 *)
(***************************************************************************)
OwedSinceCall == /\ owed <= gap
                 /\ owed > 0 => /\ pc = "loop" /\ wifi = "down"
                                /\ era = "same" /\ age >= RetryMs

WifiInv == TypeOK /\ AgeIsElapsed /\ OwedSinceCall

LEMMA InitWifi == Init => WifiInv
BY ClockAssumption
   DEF ClockAssumption, Init, WifiInv, TypeOK, AgeIsElapsed, Elapsed, OwedSinceCall

LEMMA DueFromInv == WifiInv => DueIsElapsed
BY ClockAssumption
   DEF ClockAssumption, WifiInv, TypeOK, AgeIsElapsed, Elapsed, DueIsElapsed, Due

LEMMA StepWifi == WifiInv /\ [Next]_vars => WifiInv'
<1> SUFFICES ASSUME WifiInv, [Next]_vars PROVE WifiInv'
  OBVIOUS
<1> USE ClockAssumption DEF ClockAssumption, WifiInv, TypeOK, AgeIsElapsed, Elapsed, OwedSinceCall
<1>1. CASE CallReturns
  <2>1. owed = 0
    BY <1>1, DueFromInv DEF CallReturns, DueIsElapsed
  <2>2. QED
    BY <1>1, <2>1 DEF CallReturns
<1>2. CASE Reconnect
  BY <1>2 DEF Reconnect
<1>3. CASE Arm
  <2>1. TypeOK' /\ AgeIsElapsed'
    BY <1>3 DEF Arm, Wrap
  <2>2. OwedSinceCall'
    BY <1>3 DEF Arm
  <2>3. QED
    BY <2>1, <2>2
<1>4. CASE Tick
  BY <1>4 DEF Tick, Wrap
<1>5. CASE LinkChanges
  BY <1>5 DEF LinkChanges
<1>6. CASE UNCHANGED vars
  BY <1>6 DEF vars
<1>7. QED
  BY <1>1, <1>2, <1>3, <1>4, <1>5, <1>6 DEF Next, MaintainWiFi

LEMMA WifiAlways == Spec => []WifiInv
BY InitWifi, StepWifi, PTL DEF Spec

(***************************************************************************)
(* The timer's state keeps its type: a wrapped sum is again a reading of   *)
(* the counter.                                                            *)
(***************************************************************************)
THEOREM TypeCorrect == Spec => []TypeOK
<1>1. WifiInv => TypeOK
  BY DEF WifiInv
<1>2. QED
  BY <1>1, WifiAlways, PTL

(***************************************************************************)
(* Without a wrap, the test "millis() < nextTry" is the test "less than    *)
(* RetryMs have passed since the last attempt".                            *)
(***************************************************************************)
THEOREM DueCorrect == Spec => []DueIsElapsed
BY WifiAlways, DueFromInv, PTL

(***************************************************************************)
(* Without a wrap, two calls of WiFi.reconnect() are RetryMs apart.        *)
(***************************************************************************)
THEOREM AttemptsSpacedCorrect == Spec => AttemptsSpaced
<1>1. WifiInv /\ [Next]_vars => [(pc = "loop" /\ pc' = "arm" /\ era = "same") => age >= RetryMs]_vars
  <2> SUFFICES ASSUME WifiInv, [Next]_vars, pc = "loop", pc' = "arm", era = "same"
               PROVE  age >= RetryMs
    OBVIOUS
  <2>1. Reconnect
    BY DEF Next, MaintainWiFi, CallReturns, Arm, Tick, LinkChanges, vars
  <2>2. Due
    BY <2>1 DEF Reconnect
  <2>3. QED
    BY <2>2, DueFromInv DEF DueIsElapsed
<1>2. QED
  BY <1>1, WifiAlways, PTL DEF Spec, AttemptsSpaced

(***************************************************************************)
(* Without a wrap, a due attempt waits at most for one turn of loop().     *)
(***************************************************************************)
THEOREM RetryPromptCorrect == Spec => []RetryPrompt
<1>1. WifiInv => RetryPrompt
  BY ClockAssumption DEF ClockAssumption, WifiInv, TypeOK, OwedSinceCall, RetryPrompt
<1>2. QED
  BY <1>1, WifiAlways, PTL

-----------------------------------------------------------------------------
(***************************************************************************)
(* The dates of the clock chip.  A number below 100 survives its two       *)
(* decimal digits; the century bit and the weekday come back through the   *)
(* masks.                                                                  *)
(***************************************************************************)
LEMMA BcdIsKept ==
    ASSUME NEW n \in 0 .. 99
    PROVE  /\ Bcd2ToByte(ByteToBcd2(n)) = n
           /\ n < 80 => Bcd2ToByte(ByteToBcd2(n) % 128) = n
           /\ n < 40 => Bcd2ToByte(ByteToBcd2(n) % 64) = n
BY DEF Bcd2ToByte, ByteToBcd2, Byte

LEMMA MonthIsKept ==
    ASSUME NEW n \in 1 .. 12
    PROVE  LET bcd == ByteToBcd2(n) IN
             /\ Byte(bcd + 0) < 128 /\ Bcd2ToByte(Byte(bcd + 0) % 32) = n
             /\ Byte(bcd + 128) >= 128 /\ Bcd2ToByte(Byte(bcd + 128) % 32) = n
BY DEF Bcd2ToByte, ByteToBcd2, Byte

Dates == [year : FirstYear .. LastYear, month : 1 .. 12, date : 1 .. 31, weekDay : 0 .. 6]
Times == [hours : 0 .. 23, minutes : 0 .. 59, seconds : 0 .. 59]

(***************************************************************************)
(* Why the weekday is right: the formula of setDate is, on every day, one  *)
(* weekday further than on the day before.                                 *)
(***************************************************************************)
CalendarInv ==
    /\ date \in Dates /\ time \in Times
    /\ date.date <= DaysIn(date.year, date.month)
    /\ date.weekDay = WeekDay(date)
    /\ registers = SetDateTime([date EXCEPT !.weekDay = AutoAdjust], time)

LEMMA DateIsKept ==
    ASSUME NEW d \in Dates, NEW t \in Times, d.weekDay = WeekDay(d)
    PROVE  LET r == SetDateTime([d EXCEPT !.weekDay = AutoAdjust], t) IN
             GetDate(r) = d /\ GetTime(r) = t
<1> DEFINE auto == [d EXCEPT !.weekDay = AutoAdjust]
           r == SetDateTime(auto, t)
<1>1. /\ d = [year |-> d.year, month |-> d.month, date |-> d.date, weekDay |-> d.weekDay]
      /\ d.year \in 1900 .. 2099 /\ d.month \in 1 .. 12 /\ d.date \in 1 .. 31 /\ d.weekDay \in 0 .. 6
      /\ t = [hours |-> t.hours, minutes |-> t.minutes, seconds |-> t.seconds]
      /\ t.hours \in 0 .. 23 /\ t.minutes \in 0 .. 59 /\ t.seconds \in 0 .. 59
  BY YearsAssumption DEF Dates, Times
<1>2. /\ auto.year = d.year /\ auto.month = d.month /\ auto.date = d.date /\ auto.weekDay = 255
      /\ WeekDay(auto) = WeekDay(d)
  BY <1>1 DEF Dates, AutoAdjust, WeekDay
<1>3. /\ r.seconds = ByteToBcd2(t.seconds) /\ r.minutes = ByteToBcd2(t.minutes)
      /\ r.hours = ByteToBcd2(t.hours) /\ r.date = ByteToBcd2(d.date)
      /\ r.weekDay = d.weekDay
      /\ r.month = IF d.year < 2000 THEN Byte(ByteToBcd2(d.month) + 128) ELSE Byte(ByteToBcd2(d.month) + 0)
      /\ r.year = ByteToBcd2(d.year % 100)
  <2>1. auto.weekDay > 6 /\ auto.year >= 1900 /\ auto.month \in 1 .. 12
    BY <1>1, <1>2
  <2>2. QED
    BY <2>1, <1>2 DEF SetDateTime
<1> HIDE DEF r, auto
<1>4. /\ Bcd2ToByte(r.hours % 64) = t.hours
      /\ Bcd2ToByte(r.minutes % 128) = t.minutes
      /\ Bcd2ToByte(r.seconds % 128) = t.seconds
  <2>1. t.hours \in 0 .. 99 /\ t.hours < 40 /\ t.minutes \in 0 .. 99 /\ t.minutes < 80
        /\ t.seconds \in 0 .. 99 /\ t.seconds < 80
    BY <1>1
  <2>2. /\ Bcd2ToByte(ByteToBcd2(t.hours) % 64) = t.hours
        /\ Bcd2ToByte(ByteToBcd2(t.minutes) % 128) = t.minutes
        /\ Bcd2ToByte(ByteToBcd2(t.seconds) % 128) = t.seconds
    BY <2>1, BcdIsKept
  <2>3. QED
    BY <2>2, <1>3
<1>5. Bcd2ToByte(r.date % 64) = d.date
  <2>1. d.date \in 0 .. 99 /\ d.date < 40
    BY <1>1
  <2>2. QED
    BY <2>1, <1>3, BcdIsKept
<1>6. Bcd2ToByte(r.weekDay % 8) = d.weekDay
  BY <1>1, <1>3 DEF Bcd2ToByte, Byte
<1>7. /\ Bcd2ToByte(r.month % 32) = d.month
      /\ r.month >= 128 <=> d.year < 2000
  <2>1. CASE d.year < 2000
    BY <2>1, <1>1, <1>3, MonthIsKept
  <2>2. CASE ~(d.year < 2000)
    <3>1. r.month = Byte(ByteToBcd2(d.month) + 0)
      BY <2>2, <1>3
    <3>2. r.month < 128 /\ Bcd2ToByte(r.month % 32) = d.month
      BY <3>1, <1>1, MonthIsKept
    <3>3. r.month \in Nat
      BY <3>1, <1>1 DEF Byte, ByteToBcd2
    <3>4. QED
      BY <2>2, <3>2, <3>3
  <2>3. QED
    BY <2>1, <2>2
<1>8. Bcd2ToByte(r.year) + (IF r.month >= 128 THEN 1900 ELSE 2000) = d.year
  <2>1. d.year % 100 \in 0 .. 99
    BY <1>1
  <2>2. Bcd2ToByte(r.year) = d.year % 100
    BY <2>1, <1>3, BcdIsKept
  <2>3. QED
    BY <2>2, <1>7, <1>1
<1>9. GetDate(r) = d /\ GetTime(r) = t
  <2>1. GetDate(r) = [year |-> d.year, month |-> d.month, date |-> d.date, weekDay |-> d.weekDay]
    BY <1>5, <1>6, <1>7, <1>8 DEF GetDate
  <2>2. GetTime(r) = [hours |-> t.hours, minutes |-> t.minutes, seconds |-> t.seconds]
    BY <1>4 DEF GetTime
  <2>3. QED
    BY <2>1, <2>2, <1>1
<1>10. QED
  BY <1>9 DEF r, auto

LEMMA WeekDayGoesOn ==
    ASSUME date \in Dates, date.date <= DaysIn(date.year, date.month),
           date.weekDay = WeekDay(date)
    PROVE  Tomorrow.weekDay = WeekDay(Tomorrow)
<1> DEFINE y == date.year
           m == date.month
           n == date.date
<1>1. y \in 1900 .. 2099 /\ m \in 1 .. 12 /\ n \in 1 .. 31
  BY YearsAssumption DEF Dates
<1>2. date = [year |-> y, month |-> m, date |-> n, weekDay |-> date.weekDay]
  BY DEF Dates
<1>3. CASE n < DaysIn(y, m)
  <2>1. Tomorrow = [year |-> y, month |-> m, date |-> n + 1, weekDay |-> (date.weekDay + 1) % 7]
    BY <1>2, <1>3 DEF Tomorrow
  <2>2. /\ Tomorrow.year = y /\ Tomorrow.month = m /\ Tomorrow.date = n + 1
        /\ Tomorrow.weekDay = (WeekDay(date) + 1) % 7
    BY <2>1
  <2>3. PICK k \in Int : WeekDay(date) = (k + n) % 7 /\ WeekDay(Tomorrow) = (k + (n + 1)) % 7
    <3> DEFINE yy == IF m < 3 THEN y - 1 ELSE y
               mm == IF m < 3 THEN m + 12 ELSE m
               k == yy + yy \div 4 - yy \div 100 + (yy \div 100) \div 4 + (13 * mm + 8) \div 5
    <3>1. WeekDay(date) = (k + n) % 7
      BY DEF WeekDay
    <3>2. WeekDay(Tomorrow) = (k + (n + 1)) % 7
      BY <2>2 DEF WeekDay
    <3>3. k \in Int
      BY <1>1
    <3>4. QED
      BY <3>1, <3>2, <3>3
  <2>4. QED
    BY <1>1, <2>2, <2>3
<1>4. CASE ~(n < DaysIn(y, m)) /\ m < 12
  <2>1. Tomorrow = [[date EXCEPT !.date = 1, !.month = @ + 1] EXCEPT !.weekDay = (date.weekDay + 1) % 7]
    BY <1>2, <1>4 DEF Tomorrow
  <2>2. /\ Tomorrow.year = y /\ Tomorrow.month = m + 1 /\ Tomorrow.date = 1
        /\ Tomorrow.weekDay = (WeekDay(date) + 1) % 7
    BY <1>2, <2>1
  <2>3. n = DaysIn(y, m)
    BY <1>1, <1>4 DEF DaysIn
  <2> HIDE DEF y, m, n
  <2>4. CASE m = 2
    <3>1. n = IF y % 4 = 0 /\ (y % 100 # 0 \/ y % 400 = 0) THEN 29 ELSE 28
      BY <2>3, <2>4 DEF DaysIn, IsLeap
    <3>2. WeekDay(Tomorrow) = (y + y \div 4 - y \div 100 + (y \div 100) \div 4 + 9 + 1) % 7
      BY <1>1, <2>2, <2>4 DEF WeekDay
    <3>3. WeekDay(date) = ((y - 1) + (y - 1) \div 4 - (y - 1) \div 100
                             + ((y - 1) \div 100) \div 4 + 38 + n) % 7
      BY <1>1, <2>4 DEF WeekDay, y, m, n
    <3>4. QED
      BY <1>1, <2>2, <3>1, <3>2, <3>3
  <2>5. CASE m # 2
    <3> DEFINE yy == IF m < 3 THEN y - 1 ELSE y
               mm == IF m < 3 THEN m + 12 ELSE m
               k == yy + yy \div 4 - yy \div 100 + (yy \div 100) \div 4
    <3>1. k \in Int
      BY <1>1
    <3>2. WeekDay(date) = (k + (13 * mm + 8) \div 5 + n) % 7
      BY DEF WeekDay, y, m, n
    <3>3. WeekDay(Tomorrow) = (k + (13 * (mm + 1) + 8) \div 5 + 1) % 7
      BY <1>1, <1>4, <2>2, <2>5 DEF WeekDay
    <3>4. (13 * (mm + 1) + 8) \div 5 + 1 = (13 * mm + 8) \div 5 + n - 27
      BY <1>1, <1>4, <2>3, <2>5 DEF DaysIn
    <3>5. (13 * mm + 8) \div 5 \in Int /\ (13 * (mm + 1) + 8) \div 5 \in Int
      BY <1>1
    <3> HIDE DEF k, mm
    <3>6. QED
      BY <1>1, <2>2, <3>1, <3>2, <3>3, <3>4, <3>5
  <2>6. QED
    BY <2>4, <2>5
<1>5. CASE ~(n < DaysIn(y, m)) /\ ~(m < 12)
  <2>1. Tomorrow = [year |-> y + 1, month |-> 1, date |-> 1, weekDay |-> (date.weekDay + 1) % 7]
    BY <1>5 DEF Tomorrow
  <2>2. n = 31 /\ m = 12
    BY <1>1, <1>5 DEF DaysIn
  <2>3. Tomorrow.weekDay = (WeekDay(date) + 1) % 7
    BY <2>1
  <2> HIDE DEF y, m, n
  <2>4. PICK k \in Int : WeekDay(Tomorrow) = (k + 36) % 7 /\ WeekDay(date) = (k + 63) % 7
    <3> DEFINE k == y + y \div 4 - y \div 100 + (y \div 100) \div 4
    <3>1. WeekDay(Tomorrow) = (k + 36) % 7
      BY <1>1, <2>1 DEF WeekDay
    <3>2. WeekDay(date) = (k + 63) % 7
      BY <1>1, <2>2 DEF WeekDay, y, m, n
    <3>3. k \in Int
      BY <1>1
    <3>4. QED
      BY <3>1, <3>2, <3>3
  <2>5. (k + 36) % 7 = (((k + 63) % 7) + 1) % 7
    OBVIOUS
  <2>6. QED
    BY <2>3, <2>4, <2>5
<1>6. QED
  BY <1>3, <1>4, <1>5

LEMMA TomorrowIsADate ==
    ASSUME date \in Dates, date.date <= DaysIn(date.year, date.month), Tomorrow.year <= LastYear
    PROVE  Tomorrow \in Dates /\ Tomorrow.date <= DaysIn(Tomorrow.year, Tomorrow.month)
<1>1. /\ date.year \in 1900 .. 2099 /\ date.month \in 1 .. 12 /\ date.date \in 1 .. 31
      /\ date.weekDay \in 0 .. 6 /\ FirstYear \in Int /\ LastYear \in Int
  BY YearsAssumption DEF Dates
<1>2. \A y \in Int, m \in 1 .. 12 : DaysIn(y, m) \in 28 .. 31
  BY DEF DaysIn
<1>3. CASE date.date < DaysIn(date.year, date.month)
  <2>1. Tomorrow = [[date EXCEPT !.date = @ + 1] EXCEPT !.weekDay = (date.weekDay + 1) % 7]
    BY <1>3 DEF Tomorrow, Dates
  <2>2. Tomorrow = [year |-> date.year, month |-> date.month, date |-> date.date + 1,
                    weekDay |-> (date.weekDay + 1) % 7]
    BY <2>1 DEF Dates
  <2>3. DaysIn(date.year, date.month) \in 28 .. 31
    BY <1>1, <1>2
  <2>4. date.date + 1 \in 1 .. 31 /\ date.date + 1 <= DaysIn(date.year, date.month)
    BY <1>1, <1>3, <2>3
  <2>5. QED
    BY <1>1, <2>2, <2>4 DEF Dates
<1>4. CASE ~(date.date < DaysIn(date.year, date.month)) /\ date.month < 12
  <2>1. Tomorrow = [[date EXCEPT !.date = 1, !.month = @ + 1] EXCEPT !.weekDay = (date.weekDay + 1) % 7]
    BY <1>4 DEF Tomorrow, Dates
  <2>2. Tomorrow = [year |-> date.year, month |-> date.month + 1, date |-> 1,
                    weekDay |-> (date.weekDay + 1) % 7]
    BY <2>1 DEF Dates
  <2>3. DaysIn(date.year, date.month + 1) \in 28 .. 31
    BY <1>1, <1>2, <1>4
  <2>4. QED
    BY <1>1, <1>4, <2>2, <2>3 DEF Dates
<1>5. CASE ~(date.date < DaysIn(date.year, date.month)) /\ ~(date.month < 12)
  <2>1. Tomorrow = [year |-> date.year + 1, month |-> 1, date |-> 1,
                    weekDay |-> (date.weekDay + 1) % 7]
    BY <1>5 DEF Tomorrow
  <2>2. DaysIn(date.year + 1, 1) \in 28 .. 31
    BY <1>1, <1>2
  <2>3. date.year + 1 \in FirstYear .. LastYear
    BY <1>1, <2>1 DEF Dates
  <2>4. QED
    BY <1>1, <2>1, <2>2, <2>3 DEF Dates
<1>6. QED
  BY <1>3, <1>4, <1>5

LEMMA FirstDayIsADate ==
    /\ FirstDay \in Dates /\ FirstDay.date <= DaysIn(FirstDay.year, FirstDay.month)
    /\ FirstDay.weekDay = WeekDay(FirstDay)
<1>1. FirstDay = [year |-> FirstYear, month |-> 1, date |-> 1, weekDay |-> FirstWeekDay]
  BY DEF FirstDay
<1>2. FirstDay \in Dates /\ FirstDay.date <= DaysIn(FirstDay.year, FirstDay.month)
  BY <1>1, YearsAssumption DEF Dates, DaysIn
<1>3. WeekDay(FirstDay) = ((FirstYear - 1) + (FirstYear - 1) \div 4 - (FirstYear - 1) \div 100
                             + ((FirstYear - 1) \div 100) \div 4 + 35 + 1) % 7
  BY <1>1, YearsAssumption DEF WeekDay
<1>4. ((FirstYear - 1) \div 100) \div 4 = (FirstYear - 1) \div 400
  BY YearsAssumption
<1>5. QED
  BY <1>1, <1>2, <1>3, <1>4, YearsAssumption

LEMMA CalendarAlways == CalendarSpec => []CalendarInv
<1>1. CalendarInit => CalendarInv
  <2> SUFFICES ASSUME CalendarInit PROVE CalendarInv
    OBVIOUS
  <2>1. time \in Times
    BY DEF CalendarInit, Times
  <2>2. QED
    BY <2>1, FirstDayIsADate DEF CalendarInit, CalendarInv
<1>2. CalendarInv /\ [CalendarNext]_dateVars => CalendarInv'
  <2> SUFFICES ASSUME CalendarInv, [CalendarNext]_dateVars PROVE CalendarInv'
    OBVIOUS
  <2>1. CASE NextDay
    <3>1. date' = Tomorrow /\ time' = Later
          /\ registers' = SetDateTime([date' EXCEPT !.weekDay = AutoAdjust], time')
      BY <2>1 DEF NextDay, SetOn
    <3>2. Later \in Times
      BY DEF Later, Times, CalendarInv
    <3>3. /\ Tomorrow \in Dates /\ Tomorrow.date <= DaysIn(Tomorrow.year, Tomorrow.month)
          /\ Tomorrow.weekDay = WeekDay(Tomorrow)
      BY <2>1, TomorrowIsADate, WeekDayGoesOn DEF NextDay, CalendarInv
    <3>4. QED
      BY <3>1, <3>2, <3>3 DEF CalendarInv
  <2>2. CASE StartAgain
    <3>1. date' = FirstDay /\ time' \in Times
          /\ registers' = SetDateTime([date' EXCEPT !.weekDay = AutoAdjust], time')
      BY <2>2 DEF StartAgain, SetOn, Times
    <3>2. QED
      BY <3>1, FirstDayIsADate DEF CalendarInv
  <2>3. CASE UNCHANGED dateVars
    BY <2>3 DEF dateVars, CalendarInv
  <2>4. QED
    BY <2>1, <2>2, <2>3 DEF CalendarNext
<1>3. QED
  BY <1>1, <1>2, PTL DEF CalendarSpec

(***************************************************************************)
(* setDateTime() and getDateTime() lose nothing of any date of the two     *)
(* centuries, whatever years are walked through, and the weekday that the  *)
(* class works out is the calendar's.                                      *)
(***************************************************************************)
THEOREM DatesAreKeptCorrect == CalendarSpec => []DatesAreKept
<1>1. CalendarInv => DatesAreKept
  BY DateIsKept DEF CalendarInv, DatesAreKept
<1>2. QED
  BY <1>1, CalendarAlways, PTL

-----------------------------------------------------------------------------
(***************************************************************************)
(* Waking up.  First the arithmetic of setAlarmIRQ(int): a request of at   *)
(* least a second counts at least one tick and fits the longest countdown, *)
(* and what it is set to is near what was asked for.                       *)
(***************************************************************************)
LEMMA MinOfTwo ==
    ASSUME NEW a \in Int, NEW b \in Int
    PROVE  Min({a, b}) = IF a <= b THEN a ELSE b
BY DEF Min

LEMMA UnitIsNat == \A n \in Nat : Unit(n) \in Nat \ {0} /\ Unit(n) \in {1, Minute}
BY RtcAssumption DEF Unit

LEMMA MinutesOf ==
    ASSUME NEW n \in Nat
    PROVE  LET q == (n + Minute \div 2) \div Minute IN
             /\ q \in Nat
             /\ n >= SwitchAt => q >= 1
             /\ 2 * (q * Minute - n) <= Minute
             /\ 2 * (n - q * Minute) <= Minute
             /\ n <= Longest => q <= MaxCount
<1> DEFINE h == Minute \div 2
           q == (n + h) \div Minute
           r == (n + h) % Minute
<1>1. Minute \in Nat /\ Minute > 0 /\ MaxCount \in Nat /\ SwitchAt \in Nat /\ Minute <= SwitchAt
  BY RtcAssumption
<1>2. h \in Nat /\ 2 * h <= Minute /\ Minute <= 2 * h + 1
  BY <1>1
<1>3. q \in Nat /\ r \in Nat /\ r < Minute /\ n + h = q * Minute + r
  BY <1>1, <1>2
<1> HIDE DEF h, q, r
<1>4. n >= SwitchAt => q >= 1
  BY <1>1, <1>2, <1>3
<1>5. 2 * (q * Minute - n) <= Minute /\ 2 * (n - q * Minute) <= Minute
  <2> DEFINE m == q * Minute
  <2>1. m \in Nat
    BY <1>1, <1>3
  <2> HIDE DEF m
  <2>2. n + h = m + r
    BY <1>3 DEF m
  <2>3. 2 * (m - n) <= Minute /\ 2 * (n - m) <= Minute
    BY <2>1, <2>2, <1>1, <1>2, <1>3
  <2>4. QED
    BY <2>3 DEF m
<1>6. n <= Longest => q <= MaxCount
  <2> SUFFICES ASSUME n <= MaxCount * Minute, q >= MaxCount + 1 PROVE FALSE
    BY <1>1, <1>3 DEF Longest
  <2>1. q * Minute >= (MaxCount + 1) * Minute
    BY <1>1, <1>3
  <2>2. (MaxCount + 1) * Minute = MaxCount * Minute + Minute
    BY <1>1
  <2>3. QED
    BY <1>1, <1>2, <1>3, <2>1, <2>2
<1>7. QED
  BY <1>3, <1>4, <1>5, <1>6 DEF h, q

LEMMA CountOf ==
    ASSUME NEW n \in Nat
    PROVE  /\ Count(n) \in 0 .. MaxCount
           /\ n > 0 => Count(n) >= 1
           /\ n = 0 => Count(n) = 0
           /\ SetSeconds(n) \in Nat /\ SetSeconds(n) <= Longest
           /\ SetFor(n, SetSeconds(n))
<1> DEFINE q == (n + Minute \div 2) \div Minute
           w == IF InSeconds(n) THEN n ELSE q
<1>1. Minute \in Nat /\ Minute > 0 /\ MaxCount \in Nat /\ MaxCount > 0
      /\ SwitchAt \in Nat /\ Minute <= SwitchAt
  BY RtcAssumption
<1>2. /\ q \in Nat /\ (n >= SwitchAt => q >= 1)
      /\ 2 * (q * Minute - n) <= Minute /\ 2 * (n - q * Minute) <= Minute
      /\ n <= Longest => q <= MaxCount
  BY MinutesOf
<1> HIDE DEF q
<1>3. w \in Nat /\ Count(n) = IF MaxCount <= w THEN MaxCount ELSE w
  <2>1. w \in Nat
    BY <1>2
  <2>2. Count(n) = Min({MaxCount, w})
    BY DEF Count, q
  <2>3. QED
    BY <1>1, <2>1, <2>2, MinOfTwo
<1>4. Count(n) \in 0 .. MaxCount /\ (n > 0 => Count(n) >= 1) /\ (n = 0 => Count(n) = 0)
  BY <1>1, <1>2, <1>3 DEF InSeconds
<1>5. SetSeconds(n) \in Nat /\ SetSeconds(n) <= Longest
  <2>1. Unit(n) \in Nat /\ 1 <= Unit(n) /\ Unit(n) <= Minute
    BY <1>1 DEF Unit
  <2>2. Count(n) * Unit(n) \in Nat
    BY <1>4, <2>1
  <2>3. Count(n) * Unit(n) <= MaxCount * Unit(n)
    BY <1>1, <1>4, <2>1
  <2>4. MaxCount * Unit(n) <= MaxCount * Minute
    BY <1>1, <2>1
  <2>5. QED
    BY <1>1, <2>1, <2>2, <2>3, <2>4 DEF SetSeconds, Longest
<1>6. CASE InSeconds(n)
  <2>1. Count(n) \in Nat /\ Count(n) = IF MaxCount <= n THEN MaxCount ELSE n
    BY <1>3, <1>4, <1>6
  <2>2. SetSeconds(n) = Count(n)
    BY <1>6, <2>1 DEF SetSeconds, Unit
  <2>3. QED
    BY <1>1, <1>4, <1>5, <1>6, <2>1, <2>2 DEF InSeconds, SetFor
<1>7. CASE ~InSeconds(n)
  <2>1. n >= SwitchAt
    BY <1>1, <1>7 DEF InSeconds
  <2>2. SetSeconds(n) = Count(n) * Minute
    BY <1>7 DEF SetSeconds, Unit
  <2>3. CASE n <= Longest
    <3>1. Count(n) = q
      BY <1>1, <1>2, <1>3, <1>7, <2>3
    <3>2. n \in SwitchAt .. Longest
      BY <1>1, <2>1, <2>3 DEF Longest
    <3>3. QED
      BY <1>2, <1>4, <1>5, <2>2, <3>1, <3>2 DEF SetFor
  <2>4. CASE n > Longest
    <3>1. q >= MaxCount
      <4> SUFFICES ASSUME q <= MaxCount - 1 PROVE FALSE
        BY <1>1, <1>2
      <4>1. q * Minute <= (MaxCount - 1) * Minute
        BY <1>1, <1>2
      <4>2. (MaxCount - 1) * Minute = Longest - Minute
        BY <1>1 DEF Longest
      <4>3. q * Minute \in Nat /\ Longest \in Nat
        BY <1>1, <1>2 DEF Longest
      <4>4. QED
        BY <1>1, <1>2, <2>4, <4>1, <4>2, <4>3
    <3>2. Count(n) = MaxCount
      BY <1>1, <1>2, <1>3, <1>7, <3>1
    <3>3. QED
      BY <1>4, <1>5, <2>1, <2>2, <2>4, <3>2 DEF SetFor, Longest
  <2>5. QED
    BY <1>1, <1>4, <1>5, <2>3, <2>4 DEF Longest
<1>8. QED
  BY <1>6, <1>7

(***************************************************************************)
(* A sleeping sketch carries out a plan: the transactions of timerSleep    *)
(* and then the power pin.  What remains of it is told by the number of    *)
(* the next step.                                                          *)
(***************************************************************************)
TimerPlan(n) == DisableIRQ \o SetTimer(n) \o <<PowerOff>>
AlarmPlan(a) == DisableIRQ \o SetAlarm(a) \o <<PowerOff>>
Rest(plan, k) == SubSeq(plan, k, Len(plan))

\* What a sketch that stays awake asks of the chip.
Awake == {Read} \cup {Control(off, on) : off \in SUBSET Bits, on \in SUBSET Bits}
            \cup {TimerMode(e, u) : e \in {"no", "yes"}, u \in {1, Minute}}
            \cup {TimerCount(Count(n)) : n \in Seconds}
            \cup {AlarmAt(a) : a \in Alarms \cup {Never}}

LEMMA ThePlans ==
    /\ \A n \in Seconds : n < 0 =>
          TimerPlan(n) = <<AlarmAt(Never), TimerMode("no", 1), Control(Bits, {}), Read,
                           Control(Flags \cup {"TIE"}, {}), TimerMode("no", Minute), PowerOff>>
    /\ \A n \in Seconds : ~(n < 0) =>
          TimerPlan(n) = <<AlarmAt(Never), TimerMode("no", 1), Control(Bits, {}), Read,
                           TimerMode("yes", Unit(n)), TimerCount(Count(n)),
                           Control(Flags, {"TIE"}), PowerOff>>
    /\ \A a \in Alarms :
          AlarmPlan(a) = <<AlarmAt(Never), TimerMode("no", 1), Control(Bits, {}),
                           AlarmAt(a), Read,
                           IF a = Never THEN Control({"AIE"}, {}) ELSE Control({}, {"AIE"}), PowerOff>>
<1>1. ASSUME NEW a, NEW b, NEW c, NEW d, NEW e, NEW f, NEW g
      PROVE  <<a, b, c>> \o <<d, e, f>> \o <<g>> = <<a, b, c, d, e, f, g>>
  <2> DEFINE T == {a, b, c, d, e, f, g}
             s == <<a, b, c>> \o <<d, e, f>>
             t == s \o <<g>>
  <2>1. s \in Seq(T) /\ Len(s) = 6 /\ s[1] = a /\ s[2] = b /\ s[3] = c /\ s[4] = d
        /\ s[5] = e /\ s[6] = f
    OBVIOUS
  <2> HIDE DEF s
  <2>2. t \in Seq(T) /\ Len(t) = 7 /\ t[7] = g /\ \A i \in 1 .. 6 : t[i] = s[i]
    <3>1. g \in T
      OBVIOUS
    <3> HIDE DEF T
    <3> DEFINE last == <<g>>
    <3>2. last \in Seq(T) /\ Len(last) = 1 /\ last[1] = g
      BY <3>1
    <3> HIDE DEF last
    <3>3. /\ s \o last \in Seq(T) /\ Len(s \o last) = Len(s) + Len(last)
          /\ \A i \in 1 .. Len(s) + Len(last) :
               (s \o last)[i] = IF i <= Len(s) THEN s[i] ELSE last[i - Len(s)]
      BY <2>1, <3>2, ConcatProperties
    <3>4. QED
      BY <2>1, <3>2, <3>3 DEF last
  <2>3. <<a, b, c, d, e, f, g>> \in Seq(T) /\ Len(<<a, b, c, d, e, f, g>>) = 7
    OBVIOUS
  <2>4. \A i \in 1 .. 7 : t[i] = <<a, b, c, d, e, f, g>>[i]
    BY <2>1, <2>2
  <2>5. QED
    BY <2>2, <2>3, <2>4, SeqEqual DEF s
<1>2. ASSUME NEW a, NEW b, NEW c, NEW d, NEW e, NEW f, NEW g, NEW h
      PROVE  <<a, b, c>> \o <<d, e, f, g>> \o <<h>> = <<a, b, c, d, e, f, g, h>>
  <2> DEFINE T == {a, b, c, d, e, f, g, h}
             s == <<a, b, c>> \o <<d, e, f, g>>
             t == s \o <<h>>
  <2>1. s \in Seq(T) /\ Len(s) = 7 /\ s[1] = a /\ s[2] = b /\ s[3] = c /\ s[4] = d
        /\ s[5] = e /\ s[6] = f /\ s[7] = g
    OBVIOUS
  <2> HIDE DEF s
  <2>2. t \in Seq(T) /\ Len(t) = 8 /\ t[8] = h /\ \A i \in 1 .. 7 : t[i] = s[i]
    <3>1. h \in T
      OBVIOUS
    <3> HIDE DEF T
    <3> DEFINE last == <<h>>
    <3>2. last \in Seq(T) /\ Len(last) = 1 /\ last[1] = h
      BY <3>1
    <3> HIDE DEF last
    <3>3. /\ s \o last \in Seq(T) /\ Len(s \o last) = Len(s) + Len(last)
          /\ \A i \in 1 .. Len(s) + Len(last) :
               (s \o last)[i] = IF i <= Len(s) THEN s[i] ELSE last[i - Len(s)]
      BY <2>1, <3>2, ConcatProperties
    <3>4. QED
      BY <2>1, <3>2, <3>3 DEF last
  <2>3. <<a, b, c, d, e, f, g, h>> \in Seq(T) /\ Len(<<a, b, c, d, e, f, g, h>>) = 8
    OBVIOUS
  <2>4. \A i \in 1 .. 8 : t[i] = <<a, b, c, d, e, f, g, h>>[i]
    BY <2>1, <2>2
  <2>5. QED
    BY <2>2, <2>3, <2>4, SeqEqual DEF s
<1>3. \A n \in Seconds : n < 0 =>
        SetTimer(n) = <<Read, Control(Flags \cup {"TIE"}, {}), TimerMode("no", Minute)>>
  BY DEF SetTimer
<1>4. \A n \in Seconds : ~(n < 0) =>
        SetTimer(n) = <<Read, TimerMode("yes", Unit(n)), TimerCount(Count(n)), Control(Flags, {"TIE"})>>
  BY DEF SetTimer
<1>5. \A n \in Seconds : n < 0 =>
        TimerPlan(n) = <<AlarmAt(Never), TimerMode("no", 1), Control(Bits, {}), Read,
                         Control(Flags \cup {"TIE"}, {}), TimerMode("no", Minute), PowerOff>>
  <2> SUFFICES ASSUME NEW n \in Seconds, n < 0
               PROVE  TimerPlan(n) = <<AlarmAt(Never), TimerMode("no", 1), Control(Bits, {}), Read,
                         Control(Flags \cup {"TIE"}, {}), TimerMode("no", Minute), PowerOff>>
    OBVIOUS
  <2>1. TimerPlan(n) = DisableIRQ
          \o <<Read, Control(Flags \cup {"TIE"}, {}), TimerMode("no", Minute)>> \o <<PowerOff>>
    BY <1>3 DEF TimerPlan
  <2>2. QED
    BY <1>1, <2>1 DEF DisableIRQ
<1>6. \A n \in Seconds : ~(n < 0) =>
        TimerPlan(n) = <<AlarmAt(Never), TimerMode("no", 1), Control(Bits, {}), Read,
                         TimerMode("yes", Unit(n)), TimerCount(Count(n)),
                         Control(Flags, {"TIE"}), PowerOff>>
  <2> SUFFICES ASSUME NEW n \in Seconds, ~(n < 0)
               PROVE  TimerPlan(n) = <<AlarmAt(Never), TimerMode("no", 1), Control(Bits, {}), Read,
                         TimerMode("yes", Unit(n)), TimerCount(Count(n)),
                         Control(Flags, {"TIE"}), PowerOff>>
    OBVIOUS
  <2>1. TimerPlan(n) = DisableIRQ
          \o <<Read, TimerMode("yes", Unit(n)), TimerCount(Count(n)), Control(Flags, {"TIE"})>>
          \o <<PowerOff>>
    BY <1>4 DEF TimerPlan
  <2>2. QED
    BY <1>2, <2>1 DEF DisableIRQ
<1>7. \A a \in Alarms :
        AlarmPlan(a) = <<AlarmAt(Never), TimerMode("no", 1), Control(Bits, {}),
                         AlarmAt(a), Read,
                         IF a = Never THEN Control({"AIE"}, {}) ELSE Control({}, {"AIE"}), PowerOff>>
  BY <1>1 DEF AlarmPlan, DisableIRQ, SetAlarm
<1>8. QED
  BY <1>5, <1>6, <1>7

LEMMA PlanStep ==
    ASSUME NEW T, NEW plan \in Seq(T), NEW k \in 1 .. Len(plan) + 1
    PROVE  /\ Rest(plan, k) # <<>> <=> k <= Len(plan)
           /\ k <= Len(plan) => /\ Head(Rest(plan, k)) = plan[k]
                                /\ Tail(Rest(plan, k)) = Rest(plan, k + 1)
           /\ Rest(plan, 1) = plan
BY DEF Rest

LEMMA AwakeOps ==
    /\ \A n \in Seconds : SetTimer(n) \in Seq(Awake)
    /\ \A a \in Alarms : SetAlarm(a) \in Seq(Awake)
    /\ Begin \in Seq(Awake) /\ ClearIRQ \in Seq(Awake) /\ DisableIRQ \in Seq(Awake)
    /\ \A t \in Awake : t.reg # "off"
<1>1. Read \in Awake
  BY DEF Awake
<1>2. /\ Control(Flags, {}) \in Awake /\ Control(Flags, {"TIE"}) \in Awake
      /\ Control(Flags \cup {"TIE"}, {}) \in Awake /\ Control(Bits, {}) \in Awake
      /\ Control({"AIE"}, {}) \in Awake /\ Control({}, {"AIE"}) \in Awake
  BY DEF Awake, Flags, Bits
<1>3. \A e \in {"no", "yes"}, u \in {1, Minute} : TimerMode(e, u) \in Awake
  BY DEF Awake
<1>4. \A n \in Seconds : TimerCount(Count(n)) \in Awake
  BY DEF Awake
<1>5. \A a \in Alarms \cup {Never} : AlarmAt(a) \in Awake
  BY DEF Awake
<1>6. \A n : Unit(n) \in {1, Minute}
  BY DEF Unit
<1>7. \A t \in Awake : t.reg # "off"
  BY DEF Awake, Read, Control, TimerMode, TimerCount, AlarmAt
<1> HIDE DEF Awake
<1>8. \A n \in Seconds : SetTimer(n) \in Seq(Awake)
  <2> SUFFICES ASSUME NEW n \in Seconds PROVE SetTimer(n) \in Seq(Awake)
    OBVIOUS
  <2>1. \A x, y, z \in Awake : <<x, y, z>> \in Seq(Awake)
    OBVIOUS
  <2>2. \A w, x, y, z \in Awake : <<w, x, y, z>> \in Seq(Awake)
    OBVIOUS
  <2>3. TimerMode("no", Minute) \in Awake /\ TimerMode("yes", Unit(n)) \in Awake
    BY <1>3, <1>6
  <2>4. CASE n < 0
    BY <1>1, <1>2, <2>1, <2>3, <2>4, Zenon DEF SetTimer
  <2>5. CASE ~(n < 0)
    BY <1>1, <1>2, <1>4, <2>2, <2>3, <2>5, Zenon DEF SetTimer
  <2>6. QED
    BY <2>4, <2>5
<1>9. \A a \in Alarms : SetAlarm(a) \in Seq(Awake)
  <2>1. \A x, y, z \in Awake : <<x, y, z>> \in Seq(Awake)
    OBVIOUS
  <2>2. QED
    BY <1>1, <1>2, <1>5, <2>1, Zenon DEF SetAlarm
<1>10. Begin \in Seq(Awake)
  BY <1>3 DEF Begin
<1>11. ClearIRQ \in Seq(Awake)
  BY <1>1, <1>2 DEF ClearIRQ
<1>12. DisableIRQ \in Seq(Awake)
  BY <1>2, <1>3, <1>5 DEF DisableIRQ
<1>13. QED
  BY <1>7, <1>8, <1>9, <1>10, <1>11, <1>12

(***************************************************************************)
(* Why a countdown ends in time: the ticks it has made, in seconds, are    *)
(* the seconds elapsed, less the part of the first minute that had passed  *)
(* before it was started.                                                  *)
(***************************************************************************)
Passed(n) == IF Unit(n) = 1 THEN 0 ELSE second

Early(n) == (Count(n) - timer.left) * Unit(n) + Passed(n) - elapsed

Counting(n) == IF n = 0 THEN timer.left = 0
               ELSE timer.left \in 1 .. Count(n) /\ Early(n) \in 0 .. Unit(n) - 1

InTime(n) == n > 0 /\ elapsed > SetSeconds(n) - Unit(n) /\ elapsed <= SetSeconds(n)

(***************************************************************************)
(* What the plans have achieved when their next step is the k-th, unless a *)
(* transaction failed or a flag was lost: first of all the chip is quiet,  *)
(* whatever earlier operations have left behind.                           *)
(***************************************************************************)
Quiet(k, last) ==
    /\ k \in 2 .. last => alarm = Never
    /\ k \in 3 .. last => timer.enabled = "no"
    /\ k \in 4 .. last => ctl = {}

NoTimerAt(k) == Quiet(k, 8) /\ temp = {} /\ matched = "no"

TimerAt(n, k) ==
    /\ Quiet(k, 5) /\ temp = {} /\ matched = "no"
    /\ k >= 6 => alarm = Never /\ timer.enabled = "yes" /\ timer.unit = Unit(n)
    /\ k \in 6 .. 7 => ctl \subseteq {"TF"}
    /\ k >= 7 /\ "TF" \notin ctl => Counting(n)
    /\ k >= 8 => ctl \in {{"TIE"}, {"TIE", "TF"}} /\ ("TF" \in ctl => InTime(n))

AlarmAtStep(a, k) ==
    /\ Quiet(k, 4)
    /\ k # 6 => temp = {} \/ k >= 7
    /\ k >= 5 => /\ alarm = a /\ timer.enabled = "no"
                 /\ "AF" \in ctl <=> matched = "yes"
                 /\ a = Never => matched = "no"
    /\ k \in 5 .. 6 => ctl \subseteq {"AF"}
    /\ k = 6 => temp \subseteq ctl
    /\ k >= 7 => ctl \ {"AF"} = IF a = Never THEN {} ELSE {"AIE"}

(***************************************************************************)
(* The next step, and what goes with it; the board is off at the end only. *)
(***************************************************************************)
Remains(plan, k) ==
    /\ k \in 1 .. Len(plan) + 1 /\ todo = Rest(plan, k)
    /\ power = IF k = Len(plan) + 1 THEN "off" ELSE "on"

ForTimer(n) == [kind |-> "timer", n |-> n]
ForAlarm(a) == [kind |-> "alarm", at |-> a]

OnTimer(n) ==
    \E k \in 1 .. 9 :
        /\ Remains(TimerPlan(n), k)
        /\ disturbed = "no" => IF n < 0 THEN NoTimerAt(k) ELSE TimerAt(n, k)

OnAlarm(a) ==
    \E k \in 1 .. 8 :
        /\ Remains(AlarmPlan(a), k)
        /\ disturbed = "no" => AlarmAtStep(a, k)

SleepInv ==
    /\ asked \in {Nothing} \cup {ForTimer(n) : n \in Seconds} \cup {ForAlarm(a) : a \in Alarms}
    /\ asked = Nothing => power = "on" /\ todo \in Seq(Awake)
    /\ \A n \in Seconds : asked = ForTimer(n) => OnTimer(n)
    /\ \A a \in Alarms : asked = ForAlarm(a) => OnAlarm(a)

RtcTyped ==
    /\ second \in 0 .. Minute - 1 /\ elapsed \in Nat
    /\ timer = [enabled |-> timer.enabled, unit |-> timer.unit,
                count |-> timer.count, left |-> timer.left]
    /\ power \in {"on", "off"} /\ matched \in {"no", "yes"} /\ disturbed \in {"no", "yes"}

IsPlan(plan) == /\ plan \in Seq(Awake \cup {PowerOff}) /\ Len(plan) > 0
                /\ plan[Len(plan)] = PowerOff
                /\ \A k \in 1 .. Len(plan) - 1 : plan[k] # PowerOff

LEMMA PlanOfTimer ==
    ASSUME NEW n \in Seconds, ~(n < 0)
    PROVE  LET p == TimerPlan(n) IN
             /\ IsPlan(p) /\ Len(p) = 8
             /\ p[1].reg = "alarm" /\ p[1].at = Never
             /\ p[2].reg = "mode" /\ p[2].enabled = "no"
             /\ p[3].reg = "control" /\ p[3].off = Bits /\ p[3].on = {}
             /\ p[4].reg = "read"
             /\ p[5].reg = "mode" /\ p[5].enabled = "yes" /\ p[5].unit = Unit(n)
             /\ p[6].reg = "count" /\ p[6].n = Count(n)
             /\ p[7].reg = "control" /\ p[7].off = Flags /\ p[7].on = {"TIE"}
<1> DEFINE p == TimerPlan(n)
<1>1. p = <<AlarmAt(Never), TimerMode("no", 1), Control(Bits, {}), Read,
            TimerMode("yes", Unit(n)), TimerCount(Count(n)), Control(Flags, {"TIE"}), PowerOff>>
  BY ThePlans
<1>2. /\ Read \in Awake /\ Control(Flags, {"TIE"}) \in Awake /\ Control(Bits, {}) \in Awake
      /\ TimerMode("no", 1) \in Awake /\ TimerMode("yes", Unit(n)) \in Awake
      /\ TimerCount(Count(n)) \in Awake /\ AlarmAt(Never) \in Awake
  BY DEF Awake, Flags, Bits, Unit
<1> HIDE DEF p
<1>3. p \in Seq(Awake \cup {PowerOff}) /\ Len(p) = 8
  BY <1>1, <1>2
<1>4. /\ p[1] = AlarmAt(Never) /\ p[2] = TimerMode("no", 1) /\ p[3] = Control(Bits, {})
      /\ p[4] = Read /\ p[5] = TimerMode("yes", Unit(n)) /\ p[6] = TimerCount(Count(n))
      /\ p[7] = Control(Flags, {"TIE"}) /\ p[8] = PowerOff
  BY <1>1
<1>5. \A k \in 1 .. 7 : p[k] \in Awake
  BY <1>2, <1>4
<1>6. IsPlan(p)
  BY <1>3, <1>4, <1>5, AwakeOps DEF IsPlan, PowerOff
<1>7. QED
  BY <1>3, <1>4, <1>6 DEF p, AlarmAt, TimerMode, Control, Read, TimerCount

LEMMA PlanOfNoTimer ==
    ASSUME NEW n \in Seconds, n < 0
    PROVE  LET p == TimerPlan(n) IN
             /\ IsPlan(p) /\ Len(p) = 7
             /\ p[1].reg = "alarm" /\ p[1].at = Never
             /\ p[2].reg = "mode" /\ p[2].enabled = "no"
             /\ p[3].reg = "control" /\ p[3].off = Bits /\ p[3].on = {}
             /\ p[4].reg = "read"
             /\ p[5].reg = "control" /\ p[5].on = {}
             /\ p[6].reg = "mode" /\ p[6].enabled = "no"
<1> DEFINE p == TimerPlan(n)
<1>1. p = <<AlarmAt(Never), TimerMode("no", 1), Control(Bits, {}), Read,
            Control(Flags \cup {"TIE"}, {}), TimerMode("no", Minute), PowerOff>>
  BY ThePlans
<1>2. /\ Read \in Awake /\ Control(Flags \cup {"TIE"}, {}) \in Awake /\ Control(Bits, {}) \in Awake
      /\ TimerMode("no", 1) \in Awake /\ TimerMode("no", Minute) \in Awake
      /\ AlarmAt(Never) \in Awake
  BY DEF Awake, Flags, Bits
<1> HIDE DEF p
<1>3. p \in Seq(Awake \cup {PowerOff}) /\ Len(p) = 7
  BY <1>1, <1>2
<1>4. /\ p[1] = AlarmAt(Never) /\ p[2] = TimerMode("no", 1) /\ p[3] = Control(Bits, {})
      /\ p[4] = Read /\ p[5] = Control(Flags \cup {"TIE"}, {}) /\ p[6] = TimerMode("no", Minute)
      /\ p[7] = PowerOff
  BY <1>1
<1>5. \A k \in 1 .. 6 : p[k] \in Awake
  BY <1>2, <1>4
<1>6. IsPlan(p)
  BY <1>3, <1>4, <1>5, AwakeOps DEF IsPlan, PowerOff
<1>7. QED
  BY <1>3, <1>4, <1>6 DEF p, AlarmAt, TimerMode, Control, Read

LEMMA PlanOfAlarm ==
    ASSUME NEW a \in Alarms
    PROVE  LET p == AlarmPlan(a) IN
             /\ IsPlan(p) /\ Len(p) = 7
             /\ p[1].reg = "alarm" /\ p[1].at = Never
             /\ p[2].reg = "mode" /\ p[2].enabled = "no"
             /\ p[3].reg = "control" /\ p[3].off = Bits /\ p[3].on = {}
             /\ p[4].reg = "alarm" /\ p[4].at = a
             /\ p[5].reg = "read"
             /\ p[6].reg = "control"
             /\ p[6].off = IF a = Never THEN {"AIE"} ELSE {}
             /\ p[6].on = IF a = Never THEN {} ELSE {"AIE"}
<1> DEFINE p == AlarmPlan(a)
           c == IF a = Never THEN Control({"AIE"}, {}) ELSE Control({}, {"AIE"})
<1>1. p = <<AlarmAt(Never), TimerMode("no", 1), Control(Bits, {}), AlarmAt(a), Read, c, PowerOff>>
  BY ThePlans
<1>2. /\ Read \in Awake /\ Control({"AIE"}, {}) \in Awake /\ Control({}, {"AIE"}) \in Awake
      /\ Control(Bits, {}) \in Awake /\ TimerMode("no", 1) \in Awake
      /\ AlarmAt(Never) \in Awake /\ AlarmAt(a) \in Awake
  BY DEF Awake, Bits
<1> HIDE DEF p
<1>3. c \in Awake
  BY <1>2
<1>4. p \in Seq(Awake \cup {PowerOff}) /\ Len(p) = 7
  BY <1>1, <1>2, <1>3
<1>5. /\ p[1] = AlarmAt(Never) /\ p[2] = TimerMode("no", 1) /\ p[3] = Control(Bits, {})
      /\ p[4] = AlarmAt(a) /\ p[5] = Read /\ p[6] = c /\ p[7] = PowerOff
  BY <1>1
<1>6. \A k \in 1 .. 6 : p[k] \in Awake
  BY <1>2, <1>3, <1>5
<1>7. IsPlan(p)
  BY <1>4, <1>5, <1>6, AwakeOps DEF IsPlan, PowerOff
<1>8. QED
  BY <1>4, <1>5, <1>7 DEF p, AlarmAt, TimerMode, Control, Read

(***************************************************************************)
(* How the steps of the sketch and of the chip move through a plan.        *)
(***************************************************************************)
LEMMA TransactionIsNext ==
    ASSUME NEW plan, IsPlan(plan), NEW k, Remains(plan, k),
           todo # <<>>, Head(todo) # PowerOff, todo' = Tail(todo), power' = power
    PROVE  k \in 1 .. Len(plan) - 1 /\ Head(todo) = plan[k] /\ Remains(plan, k + 1)'
<1>1. plan \in Seq(Awake \cup {PowerOff}) /\ Len(plan) \in Nat /\ k \in 1 .. Len(plan) + 1
      /\ todo = Rest(plan, k) /\ plan[Len(plan)] = PowerOff
  BY DEF IsPlan, Remains
<1>2. k <= Len(plan) /\ Head(todo) = plan[k] /\ Tail(todo) = Rest(plan, k + 1)
  BY <1>1, PlanStep
<1>3. k # Len(plan)
  BY <1>1, <1>2
<1>4. QED
  BY <1>1, <1>2, <1>3 DEF Remains

LEMMA LetGoIsLast ==
    ASSUME NEW plan, IsPlan(plan), NEW k, Remains(plan, k), LetGo
    PROVE  k = Len(plan) /\ Remains(plan, k + 1)'
<1>1. plan \in Seq(Awake \cup {PowerOff}) /\ Len(plan) \in Nat /\ k \in 1 .. Len(plan) + 1
      /\ todo = Rest(plan, k) /\ (k < Len(plan) => plan[k] # PowerOff)
  BY DEF IsPlan, Remains
<1>2. k <= Len(plan) /\ Head(todo) = plan[k] /\ Tail(todo) = Rest(plan, k + 1)
  BY <1>1, PlanStep DEF LetGo
<1>3. k = Len(plan)
  BY <1>1, <1>2 DEF LetGo
<1>4. QED
  BY <1>1, <1>2, <1>3 DEF Remains, LetGo

Transaction(outcome) == \/ ReadControl(outcome) \/ WriteControl(outcome)
                        \/ WriteTimer(outcome) \/ WriteAlarm(outcome)

LEMMA TransactionOf ==
    ASSUME NEW outcome \in Outcomes, Transaction(outcome)
    PROVE  /\ todo # <<>> /\ Head(todo) # PowerOff /\ todo' = Tail(todo) /\ power' = power
           /\ disturbed' = "no" => outcome = "done" /\ disturbed = "no"
<1>1. todo # <<>> /\ todo' = Tail(todo) /\ power' = power
      /\ Head(todo).reg \in {"read", "control", "mode", "count", "alarm"}
  BY DEF Transaction, ReadControl, WriteControl, WriteTimer, WriteAlarm, Transact
<1>2. Head(todo) # PowerOff
  BY <1>1 DEF PowerOff
<1>3. disturbed' = "no" => outcome = "done" /\ disturbed = "no"
  <2>1. outcome \in {"done", "failed"}
    BY RtcAssumption
  <2>2. QED
    BY <2>1 DEF Transaction, ReadControl, WriteControl, WriteTimer, WriteAlarm, Disturbs
<1>4. QED
  BY <1>1, <1>2, <1>3

LEMMA TimerTransaction ==
    ASSUME NEW n \in Seconds, ~(n < 0), NEW k, Remains(TimerPlan(n), k), TimerAt(n, k), RtcTyped,
           NEW outcome \in Outcomes, Transaction(outcome), disturbed' = "no"
    PROVE  TimerAt(n, k + 1)'
<1> DEFINE p == TimerPlan(n)
<1>1. /\ IsPlan(p) /\ Len(p) = 8
      /\ p[1].reg = "alarm" /\ p[1].at = Never
      /\ p[2].reg = "mode" /\ p[2].enabled = "no"
      /\ p[3].reg = "control" /\ p[3].off = Bits /\ p[3].on = {}
      /\ p[4].reg = "read"
      /\ p[5].reg = "mode" /\ p[5].enabled = "yes" /\ p[5].unit = Unit(n)
      /\ p[6].reg = "count" /\ p[6].n = Count(n)
      /\ p[7].reg = "control" /\ p[7].off = Flags /\ p[7].on = {"TIE"}
  BY PlanOfTimer
<1>2. k \in 1 .. 7 /\ Head(todo) = p[k] /\ outcome = "done"
  <2>1. /\ todo # <<>> /\ Head(todo) # PowerOff /\ todo' = Tail(todo) /\ power' = power
        /\ outcome = "done"
    BY TransactionOf
  <2>2. IsPlan(p) /\ Remains(p, k)
    BY <1>1
  <2> HIDE DEF p
  <2>3. k \in 1 .. Len(p) - 1 /\ Head(todo) = p[k]
    BY <2>1, <2>2, TransactionIsNext
  <2>4. QED
    BY <1>1, <2>1, <2>3
<1> HIDE DEF p
<1>3. CASE ReadControl(outcome)
  <2>1. k = 4
    BY <1>1, <1>2, <1>3 DEF ReadControl, Transact
  <2>2. QED
    BY <1>2, <1>3, <2>1 DEF ReadControl, chip, TimerAt, Quiet
<1>4. CASE WriteControl(outcome)
  <2>1. k \in {3, 7}
    BY <1>1, <1>2, <1>4 DEF WriteControl, Transact
  <2>2. temp = {}
    BY DEF TimerAt
  <2>3. CASE k = 3
    <3>1. ctl' = {}
      BY <1>1, <1>2, <1>4, <2>2, <2>3 DEF WriteControl
    <3>2. QED
      BY <1>4, <2>3, <3>1 DEF WriteControl, TimerAt, Quiet
  <2>4. CASE k = 7
    <3>1. ctl \subseteq {"TF"} /\ ("TF" \notin ctl => Counting(n))
      BY <2>4 DEF TimerAt
    <3>2. Flags \cap ctl \subseteq {"TIE"} /\ ctl' = ({"TIE"} \ Flags) \cup ({"TIE"} \cap ctl)
      BY <1>1, <1>2, <1>4, <2>2, <2>4 DEF WriteControl
    <3>3. "TF" \notin ctl /\ ctl' = {"TIE"}
      BY <3>1, <3>2 DEF Flags
    <3>4. Counting(n)'
      BY <3>1, <3>3, <1>4 DEF WriteControl, Counting, Early, Passed
    <3>5. QED
      BY <1>4, <2>4, <3>3, <3>4 DEF WriteControl, TimerAt, Quiet
  <2>5. QED
    BY <2>1, <2>3, <2>4
<1>5. CASE WriteTimer(outcome)
  <2>1. k \in {2, 5, 6}
    BY <1>1, <1>2, <1>5 DEF WriteTimer, Transact
  <2>2. CASE k = 2
    <3>1. timer'.enabled = "no"
      BY <1>1, <1>2, <1>5, <2>2 DEF WriteTimer, RtcTyped
    <3>2. QED
      BY <1>5, <2>2, <3>1 DEF WriteTimer, TimerAt, Quiet
  <2>3. CASE k = 5
    <3>1. timer'.enabled = "yes" /\ timer'.unit = Unit(n)
      BY <1>1, <1>2, <1>5, <2>3 DEF WriteTimer, RtcTyped
    <3>2. QED
      BY <1>5, <2>3, <3>1 DEF WriteTimer, TimerAt, Quiet
  <2>4. CASE k = 6
    <3>1. /\ timer'.enabled = timer.enabled /\ timer'.unit = timer.unit
          /\ timer'.left = Count(n) /\ elapsed' = 0 /\ second' = second
      BY <1>1, <1>2, <1>5, <2>4 DEF WriteTimer, RtcTyped
    <3>2. Counting(n)'
      <4>1. n \in Nat /\ second \in 0 .. Minute - 1 /\ Minute \in Nat
        BY RtcAssumption DEF RtcTyped
      <4>2. Count(n) \in Nat /\ (n > 0 => Count(n) >= 1) /\ (n = 0 => Count(n) = 0)
            /\ Unit(n) \in Nat \ {0} /\ Unit(n) \in {1, Minute}
        BY <4>1, CountOf, UnitIsNat, RtcAssumption
      <4>3. Early(n)' = Passed(n)
        BY <3>1, <4>1, <4>2 DEF Early, Passed
      <4>4. Passed(n) \in 0 .. Unit(n) - 1
        BY <4>1, <4>2 DEF Passed
      <4>5. QED
        BY <3>1, <4>1, <4>2, <4>3, <4>4 DEF Counting
    <3>3. QED
      BY <1>5, <2>4, <3>1, <3>2 DEF WriteTimer, TimerAt, Quiet
  <2>5. QED
    BY <2>1, <2>2, <2>3, <2>4
<1>6. CASE WriteAlarm(outcome)
  <2>1. k = 1
    BY <1>1, <1>2, <1>6 DEF WriteAlarm, Transact
  <2>2. alarm' = Never
    BY <1>1, <1>2, <1>6, <2>1 DEF WriteAlarm
  <2>3. QED
    BY <1>6, <2>1, <2>2 DEF WriteAlarm, TimerAt, Quiet
<1>7. QED
  BY <1>3, <1>4, <1>5, <1>6 DEF Transaction

LEMMA NoTimerTransaction ==
    ASSUME NEW n \in Seconds, n < 0, NEW k, Remains(TimerPlan(n), k), NoTimerAt(k), RtcTyped,
           NEW outcome \in Outcomes, Transaction(outcome), disturbed' = "no"
    PROVE  NoTimerAt(k + 1)'
<1> DEFINE p == TimerPlan(n)
<1>1. /\ IsPlan(p) /\ Len(p) = 7
      /\ p[1].reg = "alarm" /\ p[1].at = Never
      /\ p[2].reg = "mode" /\ p[2].enabled = "no"
      /\ p[3].reg = "control" /\ p[3].off = Bits /\ p[3].on = {}
      /\ p[4].reg = "read"
      /\ p[5].reg = "control" /\ p[5].on = {}
      /\ p[6].reg = "mode" /\ p[6].enabled = "no"
  BY PlanOfNoTimer
<1>2. k \in 1 .. 6 /\ Head(todo) = p[k] /\ outcome = "done"
  <2>1. /\ todo # <<>> /\ Head(todo) # PowerOff /\ todo' = Tail(todo) /\ power' = power
        /\ outcome = "done"
    BY TransactionOf
  <2>2. k \in 1 .. Len(p) - 1 /\ Head(todo) = p[k]
    BY <1>1, <2>1, TransactionIsNext
  <2>3. QED
    BY <1>1, <2>1, <2>2
<1> HIDE DEF p
<1>3. CASE ReadControl(outcome)
  <2>1. k = 4
    BY <1>1, <1>2, <1>3 DEF ReadControl, Transact
  <2>2. QED
    BY <1>2, <1>3, <2>1 DEF ReadControl, chip, NoTimerAt, Quiet
<1>4. CASE WriteControl(outcome)
  <2>1. k \in {3, 5} /\ temp = {}
    BY <1>1, <1>2, <1>4 DEF WriteControl, Transact, NoTimerAt
  <2>2. ctl' = {}
    BY <1>1, <1>2, <1>4, <2>1 DEF WriteControl
  <2>3. QED
    BY <1>4, <2>1, <2>2 DEF WriteControl, NoTimerAt, Quiet
<1>5. CASE WriteTimer(outcome)
  <2>1. k \in {2, 6}
    BY <1>1, <1>2, <1>5 DEF WriteTimer, Transact
  <2>2. timer'.enabled = "no"
    BY <1>1, <1>2, <1>5, <2>1 DEF WriteTimer, RtcTyped
  <2>3. QED
    BY <1>5, <2>1, <2>2 DEF WriteTimer, NoTimerAt, Quiet
<1>6. CASE WriteAlarm(outcome)
  <2>1. k = 1
    BY <1>1, <1>2, <1>6 DEF WriteAlarm, Transact
  <2>2. alarm' = Never
    BY <1>1, <1>2, <1>6, <2>1 DEF WriteAlarm
  <2>3. QED
    BY <1>6, <2>1, <2>2 DEF WriteAlarm, NoTimerAt, Quiet
<1>7. QED
  BY <1>3, <1>4, <1>5, <1>6 DEF Transaction

LEMMA AlarmTransaction ==
    ASSUME NEW a \in Alarms, NEW k, Remains(AlarmPlan(a), k), AlarmAtStep(a, k), RtcTyped,
           NEW outcome \in Outcomes, Transaction(outcome), disturbed' = "no"
    PROVE  AlarmAtStep(a, k + 1)'
<1> DEFINE p == AlarmPlan(a)
<1>1. /\ IsPlan(p) /\ Len(p) = 7
      /\ p[1].reg = "alarm" /\ p[1].at = Never
      /\ p[2].reg = "mode" /\ p[2].enabled = "no"
      /\ p[3].reg = "control" /\ p[3].off = Bits /\ p[3].on = {}
      /\ p[4].reg = "alarm" /\ p[4].at = a
      /\ p[5].reg = "read"
      /\ p[6].reg = "control"
      /\ p[6].off = IF a = Never THEN {"AIE"} ELSE {}
      /\ p[6].on = IF a = Never THEN {} ELSE {"AIE"}
  BY PlanOfAlarm
<1>2. k \in 1 .. 6 /\ Head(todo) = p[k] /\ outcome = "done"
  <2>1. /\ todo # <<>> /\ Head(todo) # PowerOff /\ todo' = Tail(todo) /\ power' = power
        /\ outcome = "done"
    BY TransactionOf
  <2>2. k \in 1 .. Len(p) - 1 /\ Head(todo) = p[k]
    BY <1>1, <2>1, TransactionIsNext
  <2>3. QED
    BY <1>1, <2>1, <2>2
<1> HIDE DEF p
<1>3. CASE ReadControl(outcome)
  <2>1. k = 5
    BY <1>1, <1>2, <1>3 DEF ReadControl, Transact
  <2>2. QED
    BY <1>2, <1>3, <2>1 DEF ReadControl, chip, AlarmAtStep, Quiet
<1>4. CASE WriteControl(outcome)
  <2>1. k \in {3, 6}
    BY <1>1, <1>2, <1>4 DEF WriteControl, Transact
  <2>2. CASE k = 3
    <3>1. temp = {}
      BY <2>2 DEF AlarmAtStep
    <3>2. ctl' = {}
      BY <1>1, <1>2, <1>4, <2>2, <3>1 DEF WriteControl
    <3>3. QED
      BY <1>4, <2>2, <3>1, <3>2 DEF WriteControl, AlarmAtStep, Quiet
  <2>3. CASE k = 6
    <3>1. /\ ctl \subseteq {"AF"} /\ temp \subseteq ctl
          /\ "AF" \in ctl <=> matched = "yes"
          /\ a = Never => matched = "no"
      BY <2>3 DEF AlarmAtStep
    <3>2. CASE a = Never
      <4>1. ctl = {} /\ temp = {}
        BY <3>1, <3>2
      <4>2. ctl' = {}
        BY <1>1, <1>2, <1>4, <2>3, <3>2, <4>1 DEF WriteControl
      <4>3. QED
        BY <1>4, <2>3, <3>1, <3>2, <4>1, <4>2 DEF WriteControl, AlarmAtStep, Quiet
    <3>3. CASE a # Never
      <4>1. /\ Flags \cap ctl \subseteq temp \cup {"AIE"}
            /\ ctl' = ((temp \cup {"AIE"}) \ Flags) \cup ((temp \cup {"AIE"}) \cap ctl)
        BY <1>1, <1>2, <1>4, <2>3, <3>3 DEF WriteControl
      <4>2. ctl' \ {"AF"} = {"AIE"} /\ ("AF" \in ctl' <=> "AF" \in ctl)
        BY <3>1, <4>1 DEF Flags
      <4>3. QED
        BY <1>4, <2>3, <3>1, <3>3, <4>2 DEF WriteControl, AlarmAtStep, Quiet
    <3>4. QED
      BY <3>2, <3>3
  <2>4. QED
    BY <2>1, <2>2, <2>3
<1>5. CASE WriteTimer(outcome)
  <2>1. k = 2
    BY <1>1, <1>2, <1>5 DEF WriteTimer, Transact
  <2>2. timer'.enabled = "no"
    BY <1>1, <1>2, <1>5, <2>1 DEF WriteTimer, RtcTyped
  <2>3. QED
    BY <1>5, <2>1, <2>2 DEF WriteTimer, AlarmAtStep, Quiet
<1>6. CASE WriteAlarm(outcome)
  <2>1. k \in {1, 4}
    BY <1>1, <1>2, <1>6 DEF WriteAlarm, Transact
  <2>2. alarm' = p[k].at /\ matched' = "no" /\ ctl' = ctl /\ temp' = temp /\ timer' = timer
    BY <1>1, <1>2, <1>6, <2>1 DEF WriteAlarm
  <2>3. CASE k = 1
    BY <1>1, <2>2, <2>3 DEF AlarmAtStep, Quiet
  <2>4. CASE k = 4
    BY <1>1, <2>2, <2>4 DEF AlarmAtStep, Quiet
  <2>5. QED
    BY <2>1, <2>3, <2>4
<1>7. QED
  BY <1>3, <1>4, <1>5, <1>6 DEF Transaction

LEMMA NeverIsNotReached == ~Reaches(Never)
BY DEF Reaches, Agrees

LEMMA TickWhenQuiet ==
    ASSUME ChipTick, NEW k \in Nat, NEW last, Quiet(k, last)
    PROVE  Quiet(k, last)'
<1>1. alarm' = alarm /\ (alarm = Never => ~Reaches(alarm))
  BY NeverIsNotReached DEF ChipTick
<1>2. timer.enabled = "no" => timer' = timer /\ ~Ends
  BY DEF ChipTick, Ends, Counts
<1>3. ~Ends /\ ~Reaches(alarm) => ctl' = ctl
  BY DEF ChipTick
<1>4. QED
  BY <1>1, <1>2, <1>3 DEF Quiet

LEMMA CountingTicks ==
    ASSUME NEW n \in Nat, Counting(n), RtcTyped, ChipTick, asked = ForTimer(n), ~Interrupt,
           timer.enabled = "yes", timer.unit = Unit(n)
    PROVE  (Ends => InTime(n)') /\ (~Ends => Counting(n)')
<1> DEFINE u == Unit(n)
           c == Count(n)
           left == timer.left
<1>1. /\ u \in Nat /\ u >= 1 /\ u \in {1, Minute} /\ c \in Nat
      /\ n > 0 => c >= 1
      /\ c * u \in Nat /\ c * u <= Longest /\ Longest \in Nat
      /\ second \in 0 .. Minute - 1 /\ Minute \in Nat /\ Minute >= 1 /\ elapsed \in Nat
      /\ SetSeconds(n) = c * u
  BY UnitIsNat, CountOf, RtcAssumption DEF RtcTyped, Longest, SetSeconds
<1>2. elapsed' = IF elapsed <= Longest THEN elapsed + 1 ELSE Longest + 1
  <2>1. elapsed' = Min({elapsed + 1, Longest + 1})
    BY DEF ChipTick, ForTimer
  <2>2. QED
    BY <1>1, <2>1, MinOfTwo
<1>3. /\ Counts <=> left > 0 /\ (u = 1 \/ second + 1 = Minute)
      /\ Ends <=> Counts /\ left = 1
  BY DEF Counts, Ends, NewMinute
<1>4. /\ ~Ends /\ Counts => timer'.left = left - 1
      /\ ~Ends /\ ~Counts => timer'.left = left
      /\ second' = IF second + 1 = Minute THEN 0 ELSE second + 1
  <2>1. second' = (second + 1) % Minute
    BY DEF ChipTick
  <2>2. second' = IF second + 1 = Minute THEN 0 ELSE second + 1
    BY <1>1, <2>1
  <2>3. QED
    BY <2>2 DEF ChipTick, RtcTyped
<1>5. CASE n = 0
  <2>1. left = 0
    BY <1>5 DEF Counting
  <2>2. ~Counts /\ ~Ends
    BY <1>3, <2>1
  <2>3. QED
    BY <1>4, <1>5, <2>1, <2>2 DEF Counting
<1>6. CASE n # 0
  <2> DEFINE m == (c - left) * u
  <2>1. left \in 1 .. c /\ m + Passed(n) - elapsed \in 0 .. u - 1
    BY <1>6 DEF Counting, Early
  <2>2. m \in Int /\ m = c * u - left * u /\ left * u \in Nat /\ left * u >= u
    BY <1>1, <2>1
  <2>3. Passed(n) = IF u = 1 THEN 0 ELSE second
    BY DEF Passed
  <2>4. elapsed' = elapsed + 1
    BY <1>1, <1>2, <2>1, <2>2, <2>3
  <2>5. CASE Ends
    <3>1. left = 1 /\ (u = 1 \/ second = Minute - 1)
      BY <1>1, <1>3, <2>5
    <3>2. elapsed + 1 > c * u - u /\ elapsed + 1 <= c * u
      BY <1>1, <2>1, <2>2, <2>3, <3>1
    <3>3. QED
      BY <1>1, <1>6, <2>4, <2>5, <3>2 DEF InTime
  <2>6. CASE ~Ends /\ Counts
    <3>1. timer'.left \in 1 .. c /\ (c - timer'.left) * u = m + u
      BY <1>1, <1>3, <1>4, <2>1, <2>6
    <3>2. Passed(n)' = IF u = 1 THEN 0 ELSE Passed(n) - (Minute - 1)
      BY <1>1, <1>3, <1>4, <2>3, <2>6 DEF Passed
    <3>3. Early(n)' = m + Passed(n) - elapsed
      BY <1>1, <2>2, <2>3, <2>4, <3>1, <3>2 DEF Early
    <3>4. QED
      BY <1>6, <2>1, <2>6, <3>1, <3>3 DEF Counting
  <2>7. CASE ~Counts
    <3>1. timer'.left = left /\ ~Ends /\ u # 1 /\ second + 1 # Minute
      BY <1>3, <1>4, <2>1, <2>7
    <3>2. Passed(n)' = Passed(n) + 1
      BY <1>1, <1>4, <2>3, <3>1 DEF Passed
    <3>3. Early(n)' = m + Passed(n) - elapsed
      BY <1>1, <2>2, <2>3, <2>4, <3>1, <3>2 DEF Early
    <3>4. QED
      BY <1>6, <2>1, <3>1, <3>3 DEF Counting
  <2>8. QED
    BY <2>5, <2>6, <2>7
<1>7. QED
  BY <1>5, <1>6

LEMMA TimerTicks ==
    ASSUME NEW n \in Seconds, ~(n < 0), NEW k \in 1 .. 9, TimerAt(n, k), RtcTyped,
           ChipTick, asked = ForTimer(n)
    PROVE  TimerAt(n, k)'
<1>1. n \in Nat
  BY RtcAssumption
<1>2. Quiet(k, 5)' /\ temp' = {} /\ alarm' = alarm
  <2>1. k \in Nat /\ Quiet(k, 5)
    BY DEF TimerAt
  <2>2. Quiet(k, 5)'
    BY <2>1, TickWhenQuiet
  <2>3. temp' = {} /\ alarm' = alarm
    BY DEF ChipTick, TimerAt
  <2>4. QED
    BY <2>2, <2>3
<1>3. matched' = "no"
  BY DEF ChipTick, ForTimer, TimerAt
<1>4. k >= 6 => /\ alarm' = Never /\ timer'.enabled = "yes" /\ timer'.unit = Unit(n)
                /\ ctl' = ctl \cup (IF Ends THEN {"TF"} ELSE {})
  <2> SUFFICES ASSUME k >= 6 PROVE /\ alarm' = Never /\ timer'.enabled = "yes" /\ timer'.unit = Unit(n)
                                   /\ ctl' = ctl \cup (IF Ends THEN {"TF"} ELSE {})
    OBVIOUS
  <2>1. alarm = Never /\ ~Reaches(alarm) /\ timer.enabled = "yes" /\ timer.unit = Unit(n)
    BY NeverIsNotReached DEF TimerAt
  <2>2. timer'.enabled = timer.enabled /\ timer'.unit = timer.unit
    BY DEF ChipTick, RtcTyped
  <2>3. QED
    BY <1>2, <2>1, <2>2 DEF ChipTick
<1>5. k \in 6 .. 7 => ctl' \subseteq {"TF"}
  BY <1>4 DEF TimerAt
<1>6. k >= 7 /\ "TF" \notin ctl =>
        ~Interrupt /\ (Ends => InTime(n)') /\ (~Ends => Counting(n)')
  <2> SUFFICES ASSUME k >= 7, "TF" \notin ctl
               PROVE  ~Interrupt /\ (Ends => InTime(n)') /\ (~Ends => Counting(n)')
    OBVIOUS
  <2>1. Counting(n) /\ timer.enabled = "yes" /\ timer.unit = Unit(n)
    BY DEF TimerAt
  <2>2. ctl \subseteq {"TIE"}
    BY DEF TimerAt
  <2>3. ~Interrupt
    BY <2>2 DEF Interrupt
  <2>4. QED
    BY <1>1, <2>1, <2>3, CountingTicks
<1>7. k >= 7 /\ "TF" \notin ctl' => Counting(n)'
  <2>1. k >= 7 /\ "TF" \notin ctl' => "TF" \notin ctl /\ ~Ends
    BY <1>4
  <2>2. QED
    BY <1>6, <2>1
<1>8. k >= 8 => ctl' \in {{"TIE"}, {"TIE", "TF"}} /\ ("TF" \in ctl' => InTime(n)')
  <2> SUFFICES ASSUME k >= 8
               PROVE  ctl' \in {{"TIE"}, {"TIE", "TF"}} /\ ("TF" \in ctl' => InTime(n)')
    OBVIOUS
  <2>1. ctl \in {{"TIE"}, {"TIE", "TF"}} /\ ("TF" \in ctl => InTime(n))
    BY DEF TimerAt
  <2>2. ctl' \in {{"TIE"}, {"TIE", "TF"}}
    BY <1>4, <2>1
  <2>3. CASE "TF" \in ctl
    <3>1. Interrupt
      BY <2>1, <2>3 DEF Interrupt
    <3>2. elapsed' = elapsed
      BY <3>1 DEF ChipTick
    <3>3. QED
      BY <2>1, <2>2, <2>3, <3>2 DEF InTime
  <2>4. CASE "TF" \notin ctl
    BY <1>4, <1>6, <2>2, <2>4
  <2>5. QED
    BY <2>3, <2>4
<1>9. QED
  BY <1>2, <1>3, <1>4, <1>5, <1>7, <1>8 DEF TimerAt

LEMMA NoTimerTicks ==
    ASSUME NEW n, NEW k \in 1 .. 9, NoTimerAt(k), ChipTick, asked = ForTimer(n)
    PROVE  NoTimerAt(k)'
<1>1. Quiet(k, 8)' /\ temp' = {}
  <2>1. k \in Nat /\ Quiet(k, 8)
    BY DEF NoTimerAt
  <2>2. Quiet(k, 8)'
    BY <2>1, TickWhenQuiet
  <2>3. temp' = {}
    BY DEF ChipTick, NoTimerAt
  <2>4. QED
    BY <2>2, <2>3
<1>2. matched' = "no"
  BY DEF ChipTick, ForTimer, NoTimerAt
<1>3. QED
  BY <1>1, <1>2 DEF NoTimerAt

LEMMA AlarmTicks ==
    ASSUME NEW a \in Alarms, NEW k \in 1 .. 8, AlarmAtStep(a, k), ChipTick, asked = ForAlarm(a)
    PROVE  AlarmAtStep(a, k)'
<1>1. Quiet(k, 4)' /\ temp' = temp
  <2>1. k \in Nat /\ Quiet(k, 4)
    BY DEF AlarmAtStep
  <2>2. Quiet(k, 4)'
    BY <2>1, TickWhenQuiet
  <2>3. temp' = temp
    BY DEF ChipTick
  <2>4. QED
    BY <2>2, <2>3
<1>2. k >= 5 => /\ alarm' = a /\ timer' = timer /\ timer.enabled = "no"
                /\ ctl' = ctl \cup (IF Reaches(a) THEN {"AF"} ELSE {})
                /\ matched' = IF Reaches(a) THEN "yes" ELSE matched
                /\ a = Never => ~Reaches(a)
  <2> SUFFICES ASSUME k >= 5
               PROVE  /\ alarm' = a /\ timer' = timer /\ timer.enabled = "no"
                      /\ ctl' = ctl \cup (IF Reaches(a) THEN {"AF"} ELSE {})
                      /\ matched' = IF Reaches(a) THEN "yes" ELSE matched
                      /\ a = Never => ~Reaches(a)
    OBVIOUS
  <2>1. alarm = a /\ timer.enabled = "no"
    BY DEF AlarmAtStep
  <2>2. ~Counts /\ ~Ends
    BY <2>1 DEF Counts, Ends
  <2>3. asked.kind = "alarm" /\ asked.at = a
    BY DEF ForAlarm
  <2>4. QED
    BY <2>1, <2>2, <2>3, NeverIsNotReached DEF ChipTick
<1>3. k >= 5 => ("AF" \in ctl' <=> matched' = "yes") /\ (a = Never => matched' = "no")
  BY <1>2 DEF AlarmAtStep
<1>4. /\ k \in 5 .. 6 => ctl' \subseteq {"AF"}
      /\ k = 6 => temp' \subseteq ctl'
      /\ k >= 7 => ctl' \ {"AF"} = IF a = Never THEN {} ELSE {"AIE"}
  BY <1>1, <1>2 DEF AlarmAtStep
<1>5. QED
  BY <1>1, <1>2, <1>3, <1>4 DEF AlarmAtStep

LEMMA LastSteps ==
    ASSUME LetGo
    PROVE  /\ \A n \in Seconds : TimerAt(n, 8) => TimerAt(n, 9)'
           /\ NoTimerAt(7) => NoTimerAt(8)'
           /\ \A a \in Alarms : AlarmAtStep(a, 7) => AlarmAtStep(a, 8)'
<1>1. UNCHANGED <<ctl, timer, alarm, second, elapsed, matched>> /\ temp' = {}
  BY DEF LetGo, chip, history
<1>2. QED
  BY <1>1 DEF TimerAt, NoTimerAt, AlarmAtStep, Quiet, Counting, Early, Passed, InTime

-----------------------------------------------------------------------------
(***************************************************************************)
(* The state keeps its type, and the plan its achievements.                *)
(***************************************************************************)
LEMMA RtcKeepsType ==
    ASSUME RtcTyped, [RtcNext]_rtcVars
    PROVE  RtcTyped'
<1> USE RtcAssumption DEF RtcTyped
<1>1. CASE \E n \in Seconds : SleepFor(n)
  BY <1>1 DEF SleepFor, Starts, chip
<1>2. CASE \E a \in Alarms : SleepUntil(a)
  BY <1>2 DEF SleepUntil, Starts, chip
<1>3. CASE StayAwake
  BY <1>3 DEF StayAwake, Starts, chip, history
<1>4. ASSUME NEW outcome \in Outcomes, ReadControl(outcome) PROVE RtcTyped'
  BY <1>4 DEF ReadControl, chip, Disturbs
<1>5. ASSUME NEW outcome \in Outcomes, WriteControl(outcome) PROVE RtcTyped'
  BY <1>5 DEF WriteControl, Disturbs
<1>6. ASSUME NEW outcome \in Outcomes, WriteTimer(outcome) PROVE RtcTyped'
  BY <1>6 DEF WriteTimer, Disturbs
<1>7. ASSUME NEW outcome \in Outcomes, WriteAlarm(outcome) PROVE RtcTyped'
  BY <1>7 DEF WriteAlarm, Disturbs
<1>8. CASE LetGo
  BY <1>8 DEF LetGo, chip, history
<1>9. CASE ChipTick
  <2>1. second' \in 0 .. Minute - 1
    BY <1>9 DEF ChipTick
  <2>2. elapsed' \in Nat
    <3>1. Longest + 1 \in Nat /\ elapsed + 1 \in Nat
      BY DEF Longest
    <3>2. \A a, b \in Nat : Min({a, b}) \in Nat
      BY MinOfTwo
    <3>3. Min({elapsed + 1, Longest + 1}) \in Nat
      BY <3>1, <3>2
    <3>4. QED
      BY <1>9, <3>3 DEF ChipTick
  <2>3. timer' = [enabled |-> timer'.enabled, unit |-> timer'.unit,
                  count |-> timer'.count, left |-> timer'.left]
    BY <1>9 DEF ChipTick
  <2>4. QED
    BY <1>9, <2>1, <2>2, <2>3 DEF ChipTick
<1>10. CASE Wake
  BY <1>10 DEF Wake, chip
<1>11. CASE UNCHANGED rtcVars
  BY <1>11 DEF rtcVars, chip, history
<1>12. QED
  BY <1>1, <1>2, <1>3, <1>4, <1>5, <1>6, <1>7, <1>8, <1>9, <1>10, <1>11 DEF RtcNext, Sketch

LEMMA TimerIsPlan ==
    ASSUME NEW n \in Seconds
    PROVE  IsPlan(TimerPlan(n)) /\ Len(TimerPlan(n)) = IF n < 0 THEN 7 ELSE 8
BY PlanOfTimer, PlanOfNoTimer

LEMMA KindsDiffer ==
    /\ \A n, m : ForTimer(n) = ForTimer(m) => n = m
    /\ \A a, b : ForAlarm(a) = ForAlarm(b) => a = b
    /\ \A n, a : ForTimer(n) # ForAlarm(a) /\ ForTimer(n) # Nothing /\ ForAlarm(a) # Nothing
<1>1. \A n : ForTimer(n).kind = "timer" /\ ForTimer(n).n = n
  BY DEF ForTimer
<1>2. \A a : ForAlarm(a).kind = "alarm" /\ ForAlarm(a).at = a
  BY DEF ForAlarm
<1>3. Nothing.kind = "nothing"
  BY DEF Nothing
<1>4. QED
  BY <1>1, <1>2, <1>3

LEMMA IdleIsFresh ==
    ASSUME SleepInv, Idle
    PROVE  asked = Nothing
<1>1. ASSUME NEW plan, NEW k, IsPlan(plan), Remains(plan, k) PROVE FALSE
  <2>1. plan \in Seq(Awake \cup {PowerOff}) /\ Len(plan) \in Nat /\ k \in 1 .. Len(plan) + 1
        /\ todo = Rest(plan, k) /\ power = IF k = Len(plan) + 1 THEN "off" ELSE "on"
    BY <1>1 DEF IsPlan, Remains
  <2>2. ~(k <= Len(plan))
    BY <2>1, PlanStep DEF Idle
  <2>3. QED
    BY <2>1, <2>2 DEF Idle
<1>2. ASSUME NEW n \in Seconds, asked = ForTimer(n) PROVE FALSE
  <2>1. PICK k : Remains(TimerPlan(n), k)
    BY <1>2 DEF SleepInv, OnTimer
  <2>2. QED
    BY <1>1, <2>1, TimerIsPlan
<1>3. ASSUME NEW a \in Alarms, asked = ForAlarm(a) PROVE FALSE
  <2>1. PICK k : Remains(AlarmPlan(a), k)
    BY <1>3 DEF SleepInv, OnAlarm
  <2>2. QED
    BY <1>1, <2>1, PlanOfAlarm
<1>4. QED
  BY <1>2, <1>3 DEF SleepInv

LEMMA SetOut ==
    /\ \A n \in Seconds : SleepFor(n) => OnTimer(n)'
    /\ \A a \in Alarms : SleepUntil(a) => OnAlarm(a)'
<1>1. ASSUME NEW plan, IsPlan(plan), Starts(plan) PROVE Remains(plan, 1)'
  <2>1. plan \in Seq(Awake \cup {PowerOff}) /\ Len(plan) \in Nat /\ Len(plan) > 0
    BY <1>1 DEF IsPlan
  <2>2. Rest(plan, 1) = plan
    BY <2>1, PlanStep
  <2>3. QED
    BY <1>1, <2>1, <2>2 DEF Remains, Starts, Idle
<1>2. ASSUME NEW n \in Seconds, SleepFor(n) PROVE OnTimer(n)'
  <2>1. Remains(TimerPlan(n), 1)'
    BY <1>1, <1>2, TimerIsPlan DEF SleepFor, TimerPlan
  <2>2. temp' = {} /\ matched' = "no"
    BY <1>2 DEF SleepFor, Starts
  <2>3. NoTimerAt(1)' /\ TimerAt(n, 1)'
    BY <2>2 DEF NoTimerAt, TimerAt, Quiet
  <2>4. QED
    BY <2>1, <2>3 DEF OnTimer
<1>3. ASSUME NEW a \in Alarms, SleepUntil(a) PROVE OnAlarm(a)'
  <2>1. Remains(AlarmPlan(a), 1)'
    BY <1>1, <1>3, PlanOfAlarm DEF SleepUntil, AlarmPlan
  <2>2. temp' = {}
    BY <1>3 DEF SleepUntil, Starts
  <2>3. AlarmAtStep(a, 1)'
    BY <2>2 DEF AlarmAtStep, Quiet
  <2>4. QED
    BY <2>1, <2>3 DEF OnAlarm
<1>4. QED
  BY <1>2, <1>3

LEMMA TimerGoesOn ==
    ASSUME NEW n \in Seconds, OnTimer(n), RtcTyped, asked = ForTimer(n),
           \/ \E outcome \in Outcomes : Transaction(outcome)
           \/ LetGo
           \/ ChipTick
    PROVE  OnTimer(n)'
<1>1. PICK k \in 1 .. 9 : /\ Remains(TimerPlan(n), k)
                          /\ disturbed = "no" => IF n < 0 THEN NoTimerAt(k) ELSE TimerAt(n, k)
  BY DEF OnTimer
<1>2. IsPlan(TimerPlan(n)) /\ Len(TimerPlan(n)) = IF n < 0 THEN 7 ELSE 8
  BY TimerIsPlan
<1>3. ASSUME NEW outcome \in Outcomes, Transaction(outcome) PROVE OnTimer(n)'
  <2>1. /\ todo # <<>> /\ Head(todo) # PowerOff /\ todo' = Tail(todo) /\ power' = power
        /\ disturbed' = "no" => disturbed = "no"
    BY <1>3, TransactionOf
  <2>2. k \in 1 .. Len(TimerPlan(n)) - 1 /\ Remains(TimerPlan(n), k + 1)'
    BY <1>1, <1>2, <2>1, TransactionIsNext
  <2>3. disturbed' = "no" => IF n < 0 THEN NoTimerAt(k + 1)' ELSE TimerAt(n, k + 1)'
    BY <1>1, <1>3, <2>1, TimerTransaction, NoTimerTransaction
  <2>4. k + 1 \in 1 .. 9
    BY <1>2, <2>2
  <2>5. QED
    BY <2>2, <2>3, <2>4 DEF OnTimer
<1>4. CASE LetGo
  <2>1. k = Len(TimerPlan(n)) /\ Remains(TimerPlan(n), k + 1)' /\ disturbed' = disturbed
    BY <1>1, <1>2, <1>4, LetGoIsLast DEF LetGo, history
  <2>2. disturbed' = "no" => IF n < 0 THEN NoTimerAt(k + 1)' ELSE TimerAt(n, k + 1)'
    BY <1>1, <1>2, <1>4, <2>1, LastSteps
  <2>3. QED
    BY <1>2, <2>1, <2>2 DEF OnTimer
<1>5. CASE ChipTick
  <2>1. Remains(TimerPlan(n), k)' /\ disturbed' = disturbed
    BY <1>1, <1>5 DEF ChipTick, Remains
  <2>2. disturbed' = "no" => IF n < 0 THEN NoTimerAt(k)' ELSE TimerAt(n, k)'
    BY <1>1, <1>5, <2>1, TimerTicks, NoTimerTicks
  <2>3. QED
    BY <2>1, <2>2 DEF OnTimer
<1>6. QED
  BY <1>3, <1>4, <1>5

LEMMA AlarmGoesOn ==
    ASSUME NEW a \in Alarms, OnAlarm(a), RtcTyped, asked = ForAlarm(a),
           \/ \E outcome \in Outcomes : Transaction(outcome)
           \/ LetGo
           \/ ChipTick
    PROVE  OnAlarm(a)'
<1>1. PICK k \in 1 .. 8 : Remains(AlarmPlan(a), k) /\ (disturbed = "no" => AlarmAtStep(a, k))
  BY DEF OnAlarm
<1>2. IsPlan(AlarmPlan(a)) /\ Len(AlarmPlan(a)) = 7
  BY PlanOfAlarm
<1>3. ASSUME NEW outcome \in Outcomes, Transaction(outcome) PROVE OnAlarm(a)'
  <2>1. /\ todo # <<>> /\ Head(todo) # PowerOff /\ todo' = Tail(todo) /\ power' = power
        /\ disturbed' = "no" => disturbed = "no"
    BY <1>3, TransactionOf
  <2>2. k \in 1 .. Len(AlarmPlan(a)) - 1 /\ Remains(AlarmPlan(a), k + 1)'
    BY <1>1, <1>2, <2>1, TransactionIsNext
  <2>3. disturbed' = "no" => AlarmAtStep(a, k + 1)'
    BY <1>1, <1>3, <2>1, AlarmTransaction
  <2>4. k + 1 \in 1 .. 8
    BY <1>2, <2>2
  <2>5. QED
    BY <2>2, <2>3, <2>4 DEF OnAlarm
<1>4. CASE LetGo
  <2>1. k = Len(AlarmPlan(a)) /\ Remains(AlarmPlan(a), k + 1)' /\ disturbed' = disturbed
    BY <1>1, <1>2, <1>4, LetGoIsLast DEF LetGo, history
  <2>2. disturbed' = "no" => AlarmAtStep(a, k + 1)'
    BY <1>1, <1>2, <1>4, <2>1, LastSteps
  <2>3. QED
    BY <1>2, <2>1, <2>2 DEF OnAlarm
<1>5. CASE ChipTick
  <2>1. Remains(AlarmPlan(a), k)' /\ disturbed' = disturbed
    BY <1>1, <1>5 DEF ChipTick, Remains
  <2>2. disturbed' = "no" => AlarmAtStep(a, k)'
    BY <1>1, <1>5, <2>1, AlarmTicks
  <2>3. QED
    BY <2>1, <2>2 DEF OnAlarm
<1>6. QED
  BY <1>3, <1>4, <1>5

LEMMA StepSleep ==
    ASSUME SleepInv, RtcTyped, [RtcNext]_rtcVars
    PROVE  SleepInv'
<1>1. ASSUME NEW n \in Seconds, SleepFor(n) PROVE SleepInv'
  <2>1. asked' = ForTimer(n) /\ OnTimer(n)'
    BY <1>1, SetOut DEF SleepFor, ForTimer
  <2>2. QED
    BY <2>1, KindsDiffer DEF SleepInv
<1>2. ASSUME NEW a \in Alarms, SleepUntil(a) PROVE SleepInv'
  <2>1. asked' = ForAlarm(a) /\ OnAlarm(a)'
    BY <1>2, SetOut DEF SleepUntil, ForAlarm
  <2>2. QED
    BY <2>1, KindsDiffer DEF SleepInv
<1>3. CASE StayAwake
  <2>1. Idle /\ power' = power /\ asked' = asked
    BY <1>3 DEF StayAwake, Starts, history
  <2>2. asked = Nothing /\ power' = "on"
    BY <2>1, IdleIsFresh DEF Idle
  <2>3. todo' \in Seq(Awake)
    BY <1>3, AwakeOps DEF StayAwake, Starts
  <2>4. QED
    BY <2>1, <2>2, <2>3, KindsDiffer DEF SleepInv
<1>4. ASSUME \/ \E outcome \in Outcomes : Transaction(outcome)
             \/ LetGo
             \/ ChipTick
      PROVE  SleepInv'
  <2>1. asked' = asked
    BY <1>4 DEF Transaction, ReadControl, WriteControl, WriteTimer, WriteAlarm, LetGo, history, ChipTick
  <2>2. CASE asked = Nothing
    <3>1. power = "on" /\ todo \in Seq(Awake)
      BY <2>2 DEF SleepInv
    <3>2. ASSUME NEW outcome \in Outcomes, Transaction(outcome)
          PROVE  power' = "on" /\ todo' \in Seq(Awake)
      BY <3>1, <3>2, TransactionOf, HeadTailProperties
    <3>3. ~LetGo
      <4> SUFFICES ASSUME LetGo PROVE FALSE
        OBVIOUS
      <4>1. todo # <<>> /\ Head(todo).reg = "off"
        BY DEF LetGo, PowerOff
      <4>2. Head(todo) \in Awake
        BY <3>1, <4>1, HeadTailProperties
      <4>3. QED
        BY <4>1, <4>2, AwakeOps
    <3>4. ChipTick => power' = "on" /\ todo' \in Seq(Awake)
      BY <3>1 DEF ChipTick
    <3>5. power' = "on" /\ todo' \in Seq(Awake)
      BY <1>4, <3>2, <3>3, <3>4
    <3>6. QED
      BY <2>1, <2>2, <3>5, KindsDiffer DEF SleepInv
  <2>3. ASSUME NEW n \in Seconds, asked = ForTimer(n) PROVE SleepInv'
    <3>1. OnTimer(n)'
      BY <1>4, <2>3, TimerGoesOn DEF SleepInv
    <3>2. QED
      BY <2>1, <2>3, <3>1, KindsDiffer DEF SleepInv
  <2>4. ASSUME NEW a \in Alarms, asked = ForAlarm(a) PROVE SleepInv'
    <3>1. OnAlarm(a)'
      BY <1>4, <2>4, AlarmGoesOn DEF SleepInv
    <3>2. QED
      BY <2>1, <2>4, <3>1, KindsDiffer DEF SleepInv
  <2>5. QED
    BY <2>2, <2>3, <2>4 DEF SleepInv
<1>5. CASE Wake
  <2>1. asked' = Nothing /\ power' = "on" /\ todo' \in Seq(Awake)
    BY <1>5, AwakeOps DEF Wake
  <2>2. QED
    BY <2>1, KindsDiffer DEF SleepInv
<1>6. CASE UNCHANGED rtcVars
  BY <1>6 DEF rtcVars, chip, history, SleepInv, OnTimer, OnAlarm, Remains, NoTimerAt, TimerAt, AlarmAtStep,
              Quiet, Counting, Early, Passed, InTime
<1>7. QED
  BY <1>1, <1>2, <1>3, <1>4, <1>5, <1>6 DEF RtcNext, Sketch, Transaction

LEMMA RtcAlways == RtcSpec => [](SleepInv /\ RtcTyped)
<1>1. RtcInit => SleepInv /\ RtcTyped
  <2> SUFFICES ASSUME RtcInit PROVE SleepInv /\ RtcTyped
    OBVIOUS
  <2>1. SleepInv
    BY AwakeOps, KindsDiffer DEF RtcInit, SleepInv
  <2>2. RtcTyped
    BY RtcAssumption DEF RtcInit, RtcTyped
  <2>3. QED
    BY <2>1, <2>2
<1>2. SleepInv /\ RtcTyped /\ [RtcNext]_rtcVars => (SleepInv /\ RtcTyped)'
  BY StepSleep, RtcKeepsType
<1>3. QED
  BY <1>1, <1>2, PTL DEF RtcSpec

(***************************************************************************)
(* What a board asleep is waiting for: it is at the end of its plan.       *)
(***************************************************************************)
LEMMA AsleepAtTheEnd ==
    ASSUME SleepInv, Asleep
    PROVE  \/ \E n \in Seconds : n < 0 /\ asked = ForTimer(n) /\ NoTimerAt(8)
           \/ \E n \in Seconds : ~(n < 0) /\ asked = ForTimer(n) /\ TimerAt(n, 9)
           \/ \E a \in Alarms : asked = ForAlarm(a) /\ AlarmAtStep(a, 8)
<1>1. power = "off" /\ disturbed = "no"
  BY DEF Asleep
<1>2. asked # Nothing
  BY <1>1 DEF SleepInv
<1>3. ASSUME NEW n \in Seconds, asked = ForTimer(n)
      PROVE  IF n < 0 THEN NoTimerAt(8) ELSE TimerAt(n, 9)
  <2>1. PICK k \in 1 .. 9 : Remains(TimerPlan(n), k) /\ IF n < 0 THEN NoTimerAt(k) ELSE TimerAt(n, k)
    BY <1>1, <1>3 DEF SleepInv, OnTimer
  <2>2. k = Len(TimerPlan(n)) + 1
    BY <1>1, <2>1 DEF Remains
  <2>3. CASE n < 0
    <3>1. Len(TimerPlan(n)) = 7
      BY <2>3, TimerIsPlan
    <3>2. k = 8
      BY <2>1, <2>2, <3>1
    <3>3. QED
      BY <2>1, <2>3, <3>2
  <2>4. CASE ~(n < 0)
    <3>1. Len(TimerPlan(n)) = 8
      BY <2>4, TimerIsPlan
    <3>2. k = 9
      BY <2>1, <2>2, <3>1
    <3>3. QED
      BY <2>1, <2>4, <3>2
  <2>5. QED
    BY <2>3, <2>4
<1>4. ASSUME NEW a \in Alarms, asked = ForAlarm(a) PROVE AlarmAtStep(a, 8)
  <2>1. PICK k \in 1 .. 8 : Remains(AlarmPlan(a), k) /\ AlarmAtStep(a, k)
    BY <1>1, <1>4 DEF SleepInv, OnAlarm
  <2>2. k = Len(AlarmPlan(a)) + 1
    BY <1>1, <2>1 DEF Remains
  <2>3. QED
    BY <2>1, <2>2, PlanOfAlarm
<1>5. QED
  BY <1>2, <1>3, <1>4 DEF SleepInv

LEMMA WakeIsRight == SleepInv /\ RtcTyped => WakesForWhatWasAsked /\ NoWakeIsMissed
<1> SUFFICES ASSUME SleepInv, RtcTyped, Asleep
             PROVE  WakesForWhatWasAsked /\ NoWakeIsMissed
  BY DEF WakesForWhatWasAsked, NoWakeIsMissed
<1>1. ASSUME NEW n \in Seconds, n < 0, asked = ForTimer(n), NoTimerAt(8)
      PROVE  WakesForWhatWasAsked /\ NoWakeIsMissed
  <2>1. ctl = {} /\ matched = "no"
    BY <1>1 DEF NoTimerAt, Quiet
  <2>2. ~Interrupt
    BY <2>1 DEF Interrupt
  <2>3. asked.kind = "timer" /\ asked.n = n /\ n \in Int
    BY <1>1, RtcAssumption DEF ForTimer
  <2>4. QED
    BY <1>1, <2>1, <2>2, <2>3 DEF WakesForWhatWasAsked, NoWakeIsMissed
<1>2. ASSUME NEW n \in Seconds, ~(n < 0), asked = ForTimer(n), TimerAt(n, 9)
      PROVE  WakesForWhatWasAsked /\ NoWakeIsMissed
  <2>1. asked.kind = "timer" /\ asked.n = n /\ n \in Nat
    BY <1>2, RtcAssumption DEF ForTimer
  <2>2. /\ matched = "no"
        /\ ctl \in {{"TIE"}, {"TIE", "TF"}} /\ ("TF" \in ctl => InTime(n))
        /\ "TF" \notin ctl => Counting(n)
    BY <1>2 DEF TimerAt
  <2>3. Interrupt <=> "TF" \in ctl
    BY <2>2 DEF Interrupt
  <2>4. WakesForWhatWasAsked
    BY <2>1, <2>2, <2>3, CountOf DEF WakesForWhatWasAsked, InTime
  <2>5. n > 0 /\ Counting(n) => elapsed < SetSeconds(n)
    <3> SUFFICES ASSUME n > 0, Counting(n) PROVE elapsed < SetSeconds(n)
      OBVIOUS
    <3> DEFINE u == Unit(n)
               c == Count(n)
               left == timer.left
    <3>1. /\ u \in Nat /\ u >= 1 /\ u \in {1, Minute} /\ c \in Nat
          /\ second \in 0 .. Minute - 1 /\ Minute \in Nat /\ elapsed \in Nat
          /\ SetSeconds(n) = c * u
      BY <2>1, UnitIsNat, CountOf, RtcAssumption DEF RtcTyped, SetSeconds
    <3>2. left \in 1 .. c /\ (c - left) * u + Passed(n) - elapsed \in 0 .. u - 1
      BY <2>1 DEF Counting, Early
    <3>3. Passed(n) \in 0 .. u - 1
      BY <3>1 DEF Passed
    <3>4. (c - left) * u = c * u - left * u /\ left * u >= u /\ left * u \in Nat /\ c * u \in Nat
      BY <3>1, <3>2
    <3>5. elapsed <= (c - left) * u + Passed(n)
      BY <3>1, <3>2, <3>3, <3>4
    <3>6. QED
      BY <3>1, <3>3, <3>4, <3>5
  <2>6. QED
    BY <2>1, <2>2, <2>3, <2>4, <2>5 DEF NoWakeIsMissed
<1>3. ASSUME NEW a \in Alarms, asked = ForAlarm(a), AlarmAtStep(a, 8)
      PROVE  WakesForWhatWasAsked /\ NoWakeIsMissed
  <2>1. asked.kind = "alarm"
    BY <1>3 DEF ForAlarm
  <2>2. /\ "AF" \in ctl <=> matched = "yes"
        /\ a = Never => matched = "no"
        /\ ctl \ {"AF"} = IF a = Never THEN {} ELSE {"AIE"}
    BY <1>3 DEF AlarmAtStep
  <2>3. Interrupt <=> matched = "yes"
    BY <2>2 DEF Interrupt
  <2>4. QED
    BY <2>1, <2>3 DEF WakesForWhatWasAsked, NoWakeIsMissed, RtcTyped
<1>4. QED
  BY <1>1, <1>2, <1>3, AsleepAtTheEnd

(***************************************************************************)
(* A board that timerSleep has switched off is powered on by what it asked *)
(* for and at the time it asked for, whatever timers and alarms were left  *)
(* armed before, however the chip's ticks fall between the transactions.   *)
(***************************************************************************)
THEOREM WakesForWhatWasAskedCorrect == RtcSpec => []WakesForWhatWasAsked
BY WakeIsRight, RtcAlways, PTL

(***************************************************************************)
(* And it is powered on then: while it sleeps, the alarm has not been      *)
(* reached and the countdown has not lasted what it was set to.            *)
(***************************************************************************)
THEOREM NoWakeIsMissedCorrect == RtcSpec => []NoWakeIsMissed
BY WakeIsRight, RtcAlways, PTL

-----------------------------------------------------------------------------
(***************************************************************************)
(* What the library operators do: induction on sets of numbers, the folds  *)
(* of the community modules as a function of the number of elements, and   *)
(* where the elements of a flattened sequence are.                         *)
(***************************************************************************)
LEMMA StrongInduction ==
    ASSUME NEW S, \A n \in Nat : (\A m \in 0 .. n - 1 : m \in S) => n \in S
    PROVE  \A n \in Nat : n \in S
<1> DEFINE Less == OpToRel(<, Nat)
           T == Nat \ S
<1> SUFFICES ASSUME T # {} PROVE FALSE
  OBVIOUS
<1>1. IsWellFoundedOn(Less, Nat)
  BY NatLessThanWellFounded
<1>2. T \subseteq Nat
  OBVIOUS
<1>3. \A m, n \in Nat : m < n => <<m, n>> \in Less
  BY DEF OpToRel
<1> HIDE DEF Less, T
<1>4. PICK n \in T : \A m \in T : ~ (<<m, n>> \in Less)
  BY <1>1, <1>2, WFMin
<1>5. n \in Nat /\ n \notin S
  BY <1>4 DEF T
<1>6. \A m \in 0 .. n - 1 : m \in Nat /\ m < n
  BY <1>5
<1>7. \A m \in 0 .. n - 1 : m \in S
  BY <1>3, <1>4, <1>5, <1>6 DEF T
<1> QED
  BY <1>5, <1>7

\* A step further, from what holds of the number before.
LEMMA StepInduction ==
    ASSUME NEW N \in Nat, NEW S, 0 \in S, \A n \in 1 .. N : n - 1 \in S => n \in S
    PROVE  \A n \in 0 .. N : n \in S
<1> DEFINE P == {n \in Nat : n \in 0 .. N => n \in S}
<1>1. ASSUME NEW n \in Nat, \A m \in 0 .. n - 1 : m \in P PROVE n \in P
  <2>1. CASE n = 0
    BY <2>1
  <2>2. CASE n # 0
    <3>1. n - 1 \in 0 .. n - 1 /\ n - 1 \in Nat
      BY <2>2
    <3>2. n - 1 \in P
      BY <1>1, <3>1
    <3> SUFFICES ASSUME n \in 0 .. N PROVE n \in S
      OBVIOUS
    <3>3. n \in 1 .. N /\ n - 1 \in 0 .. N
      BY <2>2
    <3> QED
      BY <3>2, <3>3
  <2> QED
    BY <2>1, <2>2
<1> HIDE DEF P
<1>2. \A n \in Nat : n \in P
  BY <1>1, StrongInduction
<1> QED
  BY <1>2 DEF P

\* The largest of some of the first numbers, and of all of them.
LEMMA MaxOf ==
    ASSUME NEW n \in Nat
    PROVE  /\ \A x \in SUBSET (1 .. n) : x # {} => Max(x) \in x /\ \A y \in x : y <= Max(x)
           /\ n > 0 => Max(1 .. n) = n
<1> DEFINE S == {k \in Nat : \A x \in SUBSET (1 .. k) : x # {} =>
                               \E m \in x : \A y \in x : m >= y}
<1>1. 0 \in S
  <2>1. \A x \in SUBSET (1 .. 0) : x = {}
    OBVIOUS
  <2> QED
    BY <2>1
<1>2. ASSUME NEW k \in 1 .. n, k - 1 \in S PROVE k \in S
  <2> SUFFICES ASSUME NEW x \in SUBSET (1 .. k), x # {} PROVE \E m \in x : \A y \in x : m >= y
    OBVIOUS
  <2>1. CASE k \in x
    BY <2>1
  <2>2. CASE k \notin x
    <3>1. x \in SUBSET (1 .. k - 1)
      BY <2>2
    <3> QED
      BY <1>2, <3>1
  <2> QED
    BY <2>1, <2>2
<1>3. n \in S
  <2> HIDE DEF S
  <2> QED
    BY <1>1, <1>2, StepInduction
<1>4. ASSUME NEW x \in SUBSET (1 .. n), x # {} PROVE Max(x) \in x /\ \A y \in x : Max(x) >= y
  <2>1. \E m \in x : \A y \in x : m >= y
    BY <1>3, <1>4
  <2> QED
    BY <2>1 DEF Max
<1>5. ASSUME n > 0 PROVE Max(1 .. n) = n
  <2>1. Max(1 .. n) \in 1 .. n /\ Max(1 .. n) >= n
    BY <1>4, <1>5
  <2> QED
    BY <2>1
<1> QED
  BY <1>4, <1>5

\* A fold: what is defined by taking the largest position off a set of positions.
IsFold(F, D, G, b, s) ==
    /\ F \in [SUBSET DOMAIN s -> D]
    /\ F[{}] = b
    /\ \A x \in SUBSET DOMAIN s : x # {} => F[x] = G[<<F[x \ {Max(x)}], s[Max(x)]>>]

LEMMA FoldExists ==
    ASSUME NEW D, NEW T, NEW G \in [D \X T -> D], NEW b \in D, NEW s \in Seq(T)
    PROVE  \E F : IsFold(F, D, G, b, s)
<1> DEFINE N == Len(s)
           Is(F, n) == /\ F \in [SUBSET (1 .. n) -> D]
                       /\ \A x \in SUBSET (1 .. n) :
                             F[x] = IF x = {} THEN b ELSE G[<<F[x \ {Max(x)}], s[Max(x)]>>]
           S == {n \in Nat : \E F : Is(F, n)}
<1>1. N \in Nat /\ DOMAIN s = 1 .. N /\ \A i \in 1 .. N : s[i] \in T
  OBVIOUS
<1>2. 0 \in S
  <2> DEFINE F == [x \in SUBSET (1 .. 0) |-> b]
  <2>1. 1 .. 0 = {}
    OBVIOUS
  <2>2. Is(F, 0)
    BY <2>1
  <2> QED
    BY <2>2
<1>3. ASSUME NEW n \in 1 .. N, n - 1 \in S PROVE n \in S
  <2>1. PICK F : Is(F, n - 1)
    BY <1>3
  <2> DEFINE H == [x \in SUBSET (1 .. n) |->
                     IF n \in x THEN G[<<F[x \ {n}], s[n]>>] ELSE F[x]]
  <2>2. \A x \in SUBSET (1 .. n) : /\ x \ {n} \in SUBSET (1 .. n - 1)
                                   /\ n \notin x => x \in SUBSET (1 .. n - 1)
    BY <1>1
  <2>3. H \in [SUBSET (1 .. n) -> D]
    <3> SUFFICES ASSUME NEW x \in SUBSET (1 .. n) PROVE H[x] \in D
      OBVIOUS
    <3>1. CASE n \in x
      <4>1. F[x \ {n}] \in D /\ s[n] \in T
        BY <1>1, <2>1, <2>2
      <4>2. <<F[x \ {n}], s[n]>> \in D \X T
        BY <4>1
      <4> QED
        BY <3>1, <4>2
    <3>2. CASE n \notin x
      BY <2>1, <2>2, <3>2
    <3> QED
      BY <3>1, <3>2
  <2>4. ASSUME NEW x \in SUBSET (1 .. n)
        PROVE  H[x] = IF x = {} THEN b ELSE G[<<H[x \ {Max(x)}], s[Max(x)]>>]
    <3>1. CASE x = {}
      <4>1. H[x] = F[x]
        BY <3>1
      <4> QED
        BY <2>1, <2>2, <3>1, <4>1
    <3>2. CASE n \in x
      <4>1. Max(x) = n
        <5>1. n \in Nat
          OBVIOUS
        <5>2. Max(x) \in x /\ n <= Max(x)
          BY <3>2, <5>1, MaxOf
        <5>3. Max(x) \in 1 .. n
          BY <5>2
        <5> QED
          BY <5>2, <5>3
      <4>2. H[x \ {n}] = F[x \ {n}]
        BY <2>2
      <4> HIDE DEF H
      <4>3. H[x] = G[<<F[x \ {n}], s[n]>>]
        BY <3>2 DEF H
      <4> QED
        BY <3>2, <4>1, <4>2, <4>3
    <3>3. CASE x # {} /\ n \notin x
      <4>1. x \in SUBSET (1 .. n - 1) /\ H[x] = F[x]
        BY <2>2, <3>3
      <4>2. Max(x) \in x
        <5>1. n \in Nat
          OBVIOUS
        <5> QED
          BY <3>3, <5>1, MaxOf
      <4>3. x \ {Max(x)} \in SUBSET (1 .. n) /\ n \notin x \ {Max(x)}
        BY <3>3
      <4>4. H[x \ {Max(x)}] = F[x \ {Max(x)}]
        BY <4>3
      <4>5. F[x] = G[<<F[x \ {Max(x)}], s[Max(x)]>>]
        BY <2>1, <3>3, <4>1
      <4> HIDE DEF H
      <4> QED
        BY <3>3, <4>1, <4>4, <4>5
    <3> QED
      BY <3>1, <3>2, <3>3
  <2>5. Is(H, n)
    BY <2>3, <2>4
  <2> HIDE DEF Is, H
  <2> QED
    BY <2>5
<1>4. N \in S
  <2> HIDE DEF S
  <2>1. N \in Nat
    BY <1>1
  <2> HIDE DEF N
  <2>2. \A n \in 0 .. N : n \in S
    BY <1>2, <1>3, <2>1, StepInduction
  <2> QED
    BY <2>1, <2>2
<1>5. PICK F : Is(F, N)
  BY <1>4
<1>6. IsFold(F, D, G, b, s)
  BY <1>1, <1>5 DEF IsFold
<1> QED
  BY <1>6

\* The sets of positions that the fold goes through.
LEMMA FoldChain ==
    ASSUME NEW n \in Nat, NEW k \in 1 .. n
    PROVE  /\ 1 .. k \in SUBSET (1 .. n) /\ 1 .. k # {} /\ Max(1 .. k) = k
           /\ (1 .. k) \ {k} = 1 .. k - 1
<1>1. Max(1 .. k) = k
  BY MaxOf
<1> QED
  BY <1>1

\* The results of a fold, position by position, for any function that folds so.
FoldsBy(F, D, G, b, s) ==
    /\ F[{}] = b
    /\ \A x \in SUBSET DOMAIN s :
          (x # {} /\ F[x \ {Max(x)}] \in D) => F[x] = G[<<F[x \ {Max(x)}], s[Max(x)]>>]

IsPath(f, F, D, G, b, s) ==
    /\ f \in [0 .. Len(s) -> D]
    /\ f[0] = b /\ f[Len(s)] = F[DOMAIN s]
    /\ \A k \in 1 .. Len(s) : f[k] = G[<<f[k - 1], s[k]>>]

LEMMA FoldPath ==
    ASSUME NEW D, NEW T, NEW G \in [D \X T -> D], NEW b \in D, NEW s \in Seq(T), NEW F,
           FoldsBy(F, D, G, b, s)
    PROVE  \E f : IsPath(f, F, D, G, b, s)
<1> DEFINE N == Len(s)
<1>1. N \in Nat /\ DOMAIN s = 1 .. N /\ \A k \in 1 .. N : s[k] \in T
  OBVIOUS
<1> HIDE DEF N
<1> DEFINE f == [k \in 0 .. N |-> F[1 .. k]]
           S == {k \in Nat : k \in 0 .. N => f[k] \in D}
<1>2. f[0] = b
  <2>1. 1 .. 0 = {} /\ 0 \in 0 .. N
    BY <1>1
  <2>2. F[{}] = b
    BY DEF FoldsBy
  <2> QED
    BY <2>1, <2>2
<1>3. ASSUME NEW k \in 1 .. N, f[k - 1] \in D PROVE f[k] = G[<<f[k - 1], s[k]>>]
  <2>1. /\ 1 .. k \in SUBSET (1 .. N) /\ 1 .. k # {} /\ Max(1 .. k) = k
        /\ (1 .. k) \ {k} = 1 .. k - 1
    BY <1>1, FoldChain
  <2>2. k \in 0 .. N /\ k - 1 \in 0 .. N
    BY <1>1
  <2>3. F[1 .. k - 1] \in D
    BY <1>3, <2>2
  <2>4. F[1 .. k] = G[<<F[1 .. k - 1], s[k]>>]
    <3> DEFINE x == 1 .. k
    <3> HIDE DEF x
    <3>1. x \in SUBSET DOMAIN s /\ x # {} /\ F[x \ {Max(x)}] \in D
      BY <1>1, <2>1, <2>3 DEF x
    <3>2. F[x] = G[<<F[x \ {Max(x)}], s[Max(x)]>>]
      BY <3>1 DEF FoldsBy
    <3> QED
      BY <2>1, <3>2 DEF x
  <2> QED
    BY <2>2, <2>4
<1>4. \A k \in 0 .. N : k \in S
  <2>1. 0 \in S
    BY <1>2
  <2>2. ASSUME NEW k \in 1 .. N, k - 1 \in S PROVE k \in S
    <3>1. k - 1 \in 0 .. N
      BY <1>1
    <3>2. f[k - 1] \in D /\ s[k] \in T
      BY <1>1, <2>2, <3>1
    <3> HIDE DEF f
    <3>3. f[k] = G[<<f[k - 1], s[k]>>]
      BY <1>3, <3>2
    <3>4. <<f[k - 1], s[k]>> \in D \X T
      BY <3>2
    <3>5. f[k] \in D
      BY <3>3, <3>4
    <3> QED
      BY <3>5
  <2> HIDE DEF S
  <2> QED
    BY <1>1, <2>1, <2>2, StepInduction
<1>5. f \in [0 .. N -> D] /\ f[N] = F[DOMAIN s]
  BY <1>1, <1>4
<1>6. \A k \in 1 .. N : f[k - 1] \in D
  BY <1>1, <1>4
<1> HIDE DEF f
<1>7. IsPath(f, F, D, G, b, s)
  BY <1>2, <1>3, <1>5, <1>6 DEF IsPath, N
<1> QED
  BY <1>7

LEMMA FlattenRecursion ==
    ASSUME NEW s, NEW N \in Nat, Len(s) = N, N > 0
    PROVE  \E f : /\ FlattenSeq(s) = f[N]
                  /\ \A i \in 1 .. N : f[i] = IF i = 1 THEN s[i] ELSE f[i - 1] \o s[i]
<1> DEFINE Is(f, m) == f = [i \in 1 .. m |-> IF i = 1 THEN s[i] ELSE f[i - 1] \o s[i]]
           S == {m \in Nat : \E f : Is(f, m)}
<1>1. ASSUME NEW m \in Nat, \A l \in 0 .. m - 1 : l \in S PROVE m \in S
  <2>1. CASE m = 0
    <3> DEFINE g == [i \in 1 .. 0 |-> s[i]]
    <3>1. Is(g, 0)
      <4>1. [i \in 1 .. 0 |-> IF i = 1 THEN s[i] ELSE g[i - 1] \o s[i]] = g
        OBVIOUS
      <4> QED
        BY <4>1
    <3> QED
      BY <2>1, <3>1
  <2>2. CASE m # 0
    <3>1. m - 1 \in S
      <4>1. m - 1 \in 0 .. m - 1
        BY <2>2
      <4> HIDE DEF S
      <4> QED
        BY <1>1, <4>1
    <3>2. PICK f : Is(f, m - 1)
      BY <3>1
    <3> DEFINE g == [i \in 1 .. m |-> IF i < m THEN f[i] ELSE IF i = 1 THEN s[i] ELSE f[i - 1] \o s[i]]
               h == [i \in 1 .. m |-> IF i = 1 THEN s[i] ELSE g[i - 1] \o s[i]]
    <3>3. ASSUME NEW i \in 1 .. m PROVE g[i] = h[i]
      <4>1. i # 1 => i - 1 \in 1 .. m /\ i - 1 < m
        OBVIOUS
      <4>2. i # 1 => g[i - 1] = f[i - 1]
        BY <4>1
      <4>3. i < m => f[i] = IF i = 1 THEN s[i] ELSE f[i - 1] \o s[i]
        <5>1. i < m => i \in 1 .. m - 1
          OBVIOUS
        <5> QED
          BY <3>2, <5>1
      <4>4. g[i] = IF i < m THEN f[i] ELSE IF i = 1 THEN s[i] ELSE f[i - 1] \o s[i]
        OBVIOUS
      <4>5. h[i] = IF i = 1 THEN s[i] ELSE g[i - 1] \o s[i]
        OBVIOUS
      <4> HIDE DEF g, h
      <4>6. CASE i < m
        BY <4>2, <4>3, <4>4, <4>5, <4>6, Zenon
      <4>7. CASE ~ (i < m)
        BY <4>2, <4>4, <4>5, <4>7, Zenon
      <4> QED
        BY <4>6, <4>7
    <3>4. g = h
      <4>1. g = [i \in 1 .. m |-> g[i]] /\ h = [i \in 1 .. m |-> h[i]]
        OBVIOUS
      <4> HIDE DEF g, h
      <4> QED
        BY <3>3, <4>1
    <3>5. Is(g, m)
      BY <3>4
    <3> QED
      BY <3>5
  <2> QED
    BY <2>1, <2>2
<1>2. N \in S
  <2> HIDE DEF S
  <2>1. \A m \in Nat : m \in S
    BY <1>1, StrongInduction, Zenon
  <2> QED
    BY <2>1
<1> DEFINE F == CHOOSE f : Is(f, N)
<1>3. Is(F, N)
  BY <1>2
<1>4. FlattenSeq(s) = F[N]
  BY DEF FlattenSeq
<1> HIDE DEF F
<1>5. \A i \in 1 .. N : F[i] = IF i = 1 THEN s[i] ELSE F[i - 1] \o s[i]
  BY <1>3
<1> QED
  BY <1>4, <1>5

LEMMA FlattenType ==
    ASSUME NEW T, NEW s \in Seq(Seq(T))
    PROVE  FlattenSeq(s) \in Seq(T)
<1>1. CASE s = <<>>
  <2>1. FlattenSeq(s) = <<>>
    BY <1>1 DEF FlattenSeq
  <2> QED
    BY <2>1
<1>2. CASE s # <<>>
  <2> DEFINE N == Len(s)
  <2>1. N \in Nat /\ N > 0 /\ \A i \in 1 .. N : s[i] \in Seq(T)
    BY <1>2
  <2>2. PICK f : /\ FlattenSeq(s) = f[N]
                 /\ \A i \in 1 .. N : f[i] = IF i = 1 THEN s[i] ELSE f[i - 1] \o s[i]
    BY <2>1, FlattenRecursion
  <2> HIDE DEF N
  <2> DEFINE S == {i \in Nat : i \in 1 .. N => f[i] \in Seq(T)}
  <2>3. ASSUME NEW i \in Nat, \A l \in 0 .. i - 1 : l \in S PROVE i \in S
    <3> SUFFICES ASSUME i \in 1 .. N PROVE f[i] \in Seq(T)
      OBVIOUS
    <3>1. CASE i = 1
      BY <2>1, <2>2, <3>1
    <3>2. CASE i # 1
      <4>1. i - 1 \in 0 .. i - 1 /\ i - 1 \in 1 .. N
        BY <2>1, <3>2
      <4>2. f[i - 1] \in Seq(T)
        BY <2>3, <4>1
      <4>3. f[i] = f[i - 1] \o s[i] /\ s[i] \in Seq(T)
        BY <2>1, <2>2, <3>2
      <4> QED
        BY <4>2, <4>3, ConcatProperties
    <3> QED
      BY <3>1, <3>2
  <2>4. N \in S
    <3> HIDE DEF S
    <3> QED
      BY <2>1, <2>3, StrongInduction
  <2> QED
    BY <2>1, <2>2, <2>4
<1> QED
  BY <1>1, <1>2

\* Where in a concatenation the pieces are: behind those before them.
Offsets(off, s) ==
    /\ off \in [0 .. Len(s) -> Nat] /\ off[0] = 0
    /\ \A k \in 1 .. Len(s) : off[k] = off[k - 1] + Len(s[k])

\* The sequence t over T is the pieces of s, each at its place.
Placed(t, off, s, T) ==
    /\ t \in Seq(T) /\ Len(t) = off[Len(s)]
    /\ \A k \in 1 .. Len(s) : \A i \in 1 .. Len(s[k]) :
          off[k - 1] + i \in 1 .. off[Len(s)] /\ t[off[k - 1] + i] = s[k][i]

LEMMA FlattenAt ==
    ASSUME NEW T, NEW s \in Seq(Seq(T)), NEW off, Offsets(off, s)
    PROVE  Placed(FlattenSeq(s), off, s, T)
<1> SUFFICES /\ FlattenSeq(s) \in Seq(T) /\ Len(FlattenSeq(s)) = off[Len(s)]
             /\ \A k \in 1 .. Len(s) : \A i \in 1 .. Len(s[k]) :
                   /\ off[k - 1] + i \in 1 .. off[Len(s)]
                   /\ FlattenSeq(s)[off[k - 1] + i] = s[k][i]
  BY DEF Placed
<1> DEFINE N == Len(s)
<1>1. N \in Nat /\ \A k \in 1 .. N : s[k] \in Seq(T)
  OBVIOUS
<1>2. CASE N = 0
  <2>1. s = <<>>
    BY <1>2
  <2>2. FlattenSeq(s) = <<>>
    BY <2>1 DEF FlattenSeq
  <2> QED
    BY <2>1, <2>2 DEF Offsets
<1>3. CASE N > 0
  <2>1. PICK f : /\ FlattenSeq(s) = f[N]
                 /\ \A i \in 1 .. N : f[i] = IF i = 1 THEN s[i] ELSE f[i - 1] \o s[i]
    BY <1>1, <1>3, FlattenRecursion
  <2>2. /\ off \in [0 .. N -> Nat] /\ off[0] = 0
        /\ \A k \in 1 .. N : off[k] = off[k - 1] + Len(s[k])
    BY DEF Offsets
  <2> HIDE DEF N
  <2> DEFINE Pre(m) == /\ f[m] \in Seq(T) /\ Len(f[m]) = off[m]
                       /\ \A k \in 1 .. m : \A i \in 1 .. Len(s[k]) :
                             off[k - 1] + i \in 1 .. off[m] /\ f[m][off[k - 1] + i] = s[k][i]
             S == {m \in Nat : m \in 1 .. N => Pre(m)}
  <2>3. 0 \in S
    OBVIOUS
  <2>4. ASSUME NEW m \in 1 .. N, m - 1 \in S PROVE m \in S
    <3> DEFINE w == s[m]
    <3>1. w \in Seq(T) /\ off[m] = off[m - 1] + Len(w) /\ off[m - 1] \in Nat
      BY <1>1, <2>2
    <3>2. CASE m = 1
      <4>1. f[m] = w
        BY <1>1, <2>1, <3>2
      <4>2. off[m - 1] = 0
        BY <2>2, <3>2
      <4> HIDE DEF w
      <4>3. Len(f[m]) = off[m] /\ f[m] \in Seq(T)
        BY <3>1, <4>1, <4>2
      <4>4. \A k \in 1 .. m : \A i \in 1 .. Len(s[k]) :
               off[k - 1] + i \in 1 .. off[m] /\ f[m][off[k - 1] + i] = s[k][i]
        <5>1. \A k \in 1 .. m : k = m /\ s[k] = w
          BY <3>2 DEF w
        <5> QED
          BY <3>1, <4>1, <4>2, <5>1
      <4> QED
        BY <4>3, <4>4
    <3>3. CASE m # 1
      <4>1. m - 1 \in 1 .. N /\ m \in Nat
        BY <1>1, <3>3
      <4>2. Pre(m - 1)
        BY <2>4, <4>1
      <4> DEFINE v == f[m - 1]
      <4>3. f[m] = v \o w
        BY <2>1, <3>3
      <4>4. v \in Seq(T) /\ Len(v) = off[m - 1]
        BY <4>2
      <4>5. \A k \in 1 .. m - 1 : \A i \in 1 .. Len(s[k]) :
               off[k - 1] + i \in 1 .. off[m - 1] /\ v[off[k - 1] + i] = s[k][i]
        BY <4>2
      <4> HIDE DEF v, w
      <4>6. v \o w \in Seq(T) /\ Len(v \o w) = Len(v) + Len(w)
        BY <3>1, <4>4, ConcatProperties
      <4>7. Len(v) \in Nat /\ Len(w) \in Nat
        BY <3>1, <4>4
      <4>8. f[m] \in Seq(T) /\ Len(f[m]) = off[m]
        BY <3>1, <4>3, <4>4, <4>6
      <4>9. \A j \in 1 .. off[m - 1] : f[m][j] = v[j]
        BY <3>1, <4>3, <4>4, <4>7
      <4>10. ASSUME NEW i \in 1 .. Len(w) PROVE f[m][off[m - 1] + i] = w[i]
        <5> DEFINE j == Len(v) + i
        <5>1. j \in 1 .. Len(v) + Len(w) /\ ~ (j <= Len(v)) /\ j - Len(v) = i
          BY <4>7
        <5> HIDE DEF j
        <5>2. (v \o w)[j] = w[j - Len(v)]
          BY <3>1, <4>4, <5>1, ConcatProperties
        <5>3. (v \o w)[j] = w[i]
          BY <5>1, <5>2, Zenon
        <5>4. f[m][j] = w[i]
          BY <4>3, <5>3, Zenon
        <5>5. off[m - 1] + i = j
          BY <4>4, Zenon DEF j
        <5> QED
          BY <5>4, <5>5, Zenon
      <4>11. ASSUME NEW k \in 1 .. m, NEW i \in 1 .. Len(s[k])
            PROVE  off[k - 1] + i \in 1 .. off[m] /\ f[m][off[k - 1] + i] = s[k][i]
        <5>1. CASE k = m
          BY <3>1, <4>10, <5>1 DEF w
        <5>2. CASE k # m
          <6>1. k \in 1 .. m - 1
            BY <5>2
          <6>2. off[k - 1] + i \in 1 .. off[m - 1] /\ v[off[k - 1] + i] = s[k][i]
            BY <4>5, <6>1
          <6>3. off[m - 1] <= off[m] /\ off[m] \in Nat /\ off[m - 1] \in Nat
            BY <3>1
          <6>4. off[k - 1] + i \in 1 .. off[m]
            BY <6>2, <6>3
          <6>5. f[m][off[k - 1] + i] = v[off[k - 1] + i]
            BY <4>9, <6>2, Zenon
          <6> QED
            BY <6>2, <6>4, <6>5, Zenon
        <5> QED
          BY <5>1, <5>2
      <4> QED
        BY <4>8, <4>11
    <3> QED
      BY <3>2, <3>3
  <2>5. Pre(N)
    <3> HIDE DEF S
    <3>1. \A m \in 0 .. N : m \in S
      BY <1>1, <2>3, <2>4, StepInduction
    <3>2. N \in S
      BY <1>1, <3>1
    <3> QED
      BY <1>1, <1>3, <3>2 DEF S
  <2> QED
    BY <2>1, <2>5 DEF N
<1> QED
  BY <1>1, <1>2, <1>3

-----------------------------------------------------------------------------
(* The server part of an URL.                                              *)

Letters == Characters \cup {":", "/", "@", "[", "]", "?", "#"}

HostStates == {"userinfo_start", "userinfo", "host_start", "host", "v6_start", "v6", "v6_zone_start",
               "v6_zone", "v6_end", "port_start", "port", Dead}

HostFields == {"userinfo", "host", "port"}

HostResults == [state : HostStates, parts : [HostFields -> Seq(Letters)]]

LEMMA HostMoves ==
    ASSUME NEW s \in HostStates, NEW ch
    PROVE  LET t == ParseHostChar(s, ch) IN
             /\ t \in HostStates
             /\ t # "userinfo_start"
             /\ t = "userinfo" => s \in {"userinfo_start", "userinfo"}
             /\ t = "host_start" => s \in {"userinfo_start", "userinfo"} /\ ch = "@"
             /\ t = "v6_start" => s = "host_start" /\ ch = "["
             /\ t = "host" => s \in {"host_start", "host"}
             /\ t = "v6" => s \in {"v6_start", "v6"}
             /\ t = "v6_zone_start" => s = "v6"
             /\ t = "v6_zone" => s \in {"v6_zone_start", "v6_zone"}
             /\ t = "v6_end" => s \in {"v6", "v6_zone"} /\ ch = "]"
             /\ t = "port_start" => s \in {"host", "v6_end"} /\ ch = ":"
             /\ t = "port" => s \in {"port_start", "port"}
BY DEF ParseHostChar, HostStates, Dead

\* One character more goes to the part that the new state belongs to.
LEMMA HostStepIs ==
    ASSUME NEW h \in HostResults, NEW ch \in Letters
    PROVE  LET t == ParseHostChar(h.state, ch) IN
             /\ HostStep(h, ch) \in HostResults /\ HostStep(h, ch).state = t
             /\ \A f \in HostFields :
                   HostStep(h, ch).parts[f] = IF f = HostPart(t) THEN Append(h.parts[f], ch)
                                                                 ELSE h.parts[f]
<1> DEFINE t == ParseHostChar(h.state, ch)
           part == HostPart(t)
           g == IF part \in HostFields THEN [h.parts EXCEPT ![part] = Append(@, ch)] ELSE h.parts
<1>1. h.state \in HostStates /\ h.parts \in [HostFields -> Seq(Letters)]
  BY DEF HostResults
<1>2. t \in HostStates
  BY <1>1, HostMoves
<1>3. DOMAIN NoServer = HostFields
  BY DEF NoServer, HostFields
<1>4. HostStep(h, ch) = [state |-> t, parts |-> g]
  BY <1>3 DEF HostStep
<1> HIDE DEF t, part
<1>5. /\ g \in [HostFields -> Seq(Letters)]
      /\ \A f \in HostFields : g[f] = IF f = part THEN Append(h.parts[f], ch) ELSE h.parts[f]
  BY <1>1
<1> HIDE DEF g
<1> QED
  BY <1>2, <1>4, <1>5 DEF HostResults, t, part

\* The server part, read from the first character to the last.
LEMMA HostFold ==
    ASSUME NEW server \in Seq(Letters), NEW b \in HostResults
    PROVE  \E f \in [0 .. Len(server) -> HostResults] :
             /\ f[0] = b /\ f[Len(server)] = FoldLeft(HostStep, b, server)
             /\ \A k \in 1 .. Len(server) : f[k] = HostStep(f[k - 1], server[k])
<1> DEFINE N == Len(server)
           D == HostResults
           G == [p \in D \X Letters |-> HostStep(p[1], p[2])]
           Is(F) == F = [x \in SUBSET DOMAIN server |->
                           IF x = {} THEN b ELSE HostStep(F[x \ {Max(x)}], server[Max(x)])]
<1>1. N \in Nat /\ DOMAIN server = 1 .. N /\ \A k \in 1 .. N : server[k] \in Letters
  OBVIOUS
<1>2. G \in [D \X Letters -> D]
  BY HostStepIs
<1>3. \A h \in D, ch \in Letters : G[<<h, ch>>] = HostStep(h, ch)
  OBVIOUS
<1> HIDE DEF G, D
<1>4. PICK H : IsFold(H, D, G, b, server)
  <2>1. b \in D
    BY DEF D
  <2> QED
    BY <1>2, <2>1, FoldExists, Zenon
<1>5. ASSUME NEW x \in SUBSET DOMAIN server, x # {}
      PROVE  G[<<H[x \ {Max(x)}], server[Max(x)]>>] = HostStep(H[x \ {Max(x)}], server[Max(x)])
  <2>1. Max(x) \in x
    <3> HIDE DEF N
    <3> QED
      BY <1>1, <1>5, MaxOf
  <2>2. H[x \ {Max(x)}] \in D /\ server[Max(x)] \in Letters
    BY <1>1, <1>4, <2>1 DEF IsFold
  <2> QED
    BY <1>3, <2>2
<1>6. Is(H)
  BY <1>4, <1>5 DEF IsFold
<1> DEFINE F == CHOOSE F : Is(F)
<1>7. Is(F)
  BY <1>6
<1>8. FoldLeft(HostStep, b, server) = F[DOMAIN server]
  BY DEF FoldLeft, MapThenFoldSet
<1> HIDE DEF F, N
<1>9. FoldsBy(F, D, G, b, server)
  <2>1. F[{}] = b
    BY <1>7
  <2>2. ASSUME NEW x \in SUBSET DOMAIN server, x # {}, F[x \ {Max(x)}] \in D
        PROVE  F[x] = G[<<F[x \ {Max(x)}], server[Max(x)]>>]
    <3>1. Max(x) \in x
      BY <1>1, <2>2, MaxOf
    <3>2. server[Max(x)] \in Letters
      BY <1>1, <3>1
    <3>3. F[x] = HostStep(F[x \ {Max(x)}], server[Max(x)])
      BY <1>7, <2>2
    <3> QED
      BY <1>3, <2>2, <3>2, <3>3
  <2> QED
    BY <2>1, <2>2 DEF FoldsBy
<1>10. PICK f : IsPath(f, F, D, G, b, server)
  <2>1. b \in D
    BY DEF D
  <2> QED
    BY <1>2, <1>9, <2>1, FoldPath
<1>11. \A k \in 1 .. N : f[k] = HostStep(f[k - 1], server[k])
  <2>1. \A k \in 1 .. N : k - 1 \in 0 .. N
    BY <1>1
  <2> QED
    BY <1>1, <1>3, <1>10, <2>1 DEF IsPath, N
<1> QED
  BY <1>8, <1>10, <1>11 DEF IsPath, N, D

-----------------------------------------------------------------------------
(* What has been read of the server part, state by state.                  *)

HostsOf(h) == {h.parts["host"], Append(<<"[">> \o h.parts["host"], "]")}

UserOf(h, at) == IF at = "yes" THEN h.parts["userinfo"] \o <<"@">> ELSE <<>>

HostRead(h, at, w) ==
    /\ h.state \in {"userinfo_start", "userinfo"} => at = "yes" /\ w = h.parts["userinfo"]
    /\ h.state = "host_start" => w = UserOf(h, at)
    /\ h.state = "host" => w = UserOf(h, at) \o h.parts["host"]
    /\ h.state = "v6_start" => w = UserOf(h, at) \o <<"[">>
    /\ h.state \in {"v6", "v6_zone_start", "v6_zone"} =>
          w = UserOf(h, at) \o (<<"[">> \o h.parts["host"])
    /\ h.state \in {"userinfo_start", "userinfo", "host_start", "v6_start"} => h.parts["host"] = <<>>
    /\ h.state = "v6_end" => w = UserOf(h, at) \o Append(<<"[">> \o h.parts["host"], "]")
    /\ h.state \notin {"port", Dead} => h.parts["port"] = <<>>
    /\ h.state = "port_start" => \E x \in HostsOf(h) : w = (UserOf(h, at) \o x) \o <<":">>
    /\ h.state = "port" => /\ h.parts["port"] # <<>>
                           /\ \E x \in HostsOf(h) :
                                 w = ((UserOf(h, at) \o x) \o <<":">>) \o h.parts["port"]

LEMMA LettersAssociate ==
    \A r, s, t \in Seq(Letters) : (r \o s) \o t = r \o (s \o t)
<1> TAKE r, s, t \in Seq(Letters)
<1> QED
  BY ConcatAssociative

\* A character behind two sequences is behind the second.
LEMMA AppendBehind ==
    \A s, t \in Seq(Letters), c \in Letters : Append(s \o t, c) = s \o Append(t, c)
<1> TAKE s, t \in Seq(Letters), c \in Letters
<1>1. <<c>> \in Seq(Letters) /\ s \o t \in Seq(Letters)
  BY ConcatProperties
<1>2. (s \o t) \o <<c>> = s \o (t \o <<c>>)
  BY <1>1, ConcatAssociative
<1>3. Append(s \o t, c) = (s \o t) \o <<c>> /\ Append(t, c) = t \o <<c>>
  BY <1>1, AppendIsConcat
<1> QED
  BY <1>2, <1>3

LEMMA AppendBehindBoth ==
    \A r, s, t \in Seq(Letters), c \in Letters :
       Append(r \o (s \o t), c) = r \o (s \o Append(t, c))
<1> TAKE r, s, t \in Seq(Letters), c \in Letters
<1>1. s \o t \in Seq(Letters)
  BY ConcatProperties
<1>2. Append(r \o (s \o t), c) = r \o Append(s \o t, c)
  BY <1>1, AppendBehind, Zenon
<1>3. Append(s \o t, c) = s \o Append(t, c)
  BY AppendBehind, Zenon
<1> QED
  BY <1>2, <1>3

LEMMA AppendIs ==
    \A s \in Seq(Letters), c \in Letters :
       Append(s, c) = s \o <<c>> /\ Append(s, c) \in Seq(Letters) /\ Append(s, c) # <<>>
BY AppendIsConcat, AppendProperties

LEMMA ConcatIs ==
    /\ \A s, t \in Seq(Letters) : s \o t \in Seq(Letters)
    /\ \A s \in Seq(Letters) : s \o <<>> = s /\ <<>> \o s = s
BY ConcatProperties, ConcatEmptySeq

LEMMA LettersAre ==
    /\ <<>> \in Seq(Letters) /\ {":", "/", "@", "[", "]", "?", "#"} \subseteq Letters
    /\ <<"[">> \in Seq(Letters) /\ <<"@">> \in Seq(Letters) /\ <<":">> \in Seq(Letters)
BY DEF Letters

LEMMA HostReadStep ==
    ASSUME NEW h \in HostResults, NEW at \in {"yes", "no"}, NEW w \in Seq(Letters), NEW ch \in Letters,
           HostRead(h, at, w)
    PROVE  HostRead(HostStep(h, ch), at, Append(w, ch))
<1> DEFINE t == ParseHostChar(h.state, ch)
           g == HostStep(h, ch)
           u == h.parts["userinfo"]
           x == h.parts["host"]
           p == h.parts["port"]
           v == Append(w, ch)
<1>1. h.state \in HostStates /\ u \in Seq(Letters) /\ x \in Seq(Letters) /\ p \in Seq(Letters)
  BY DEF HostResults, HostFields
<1>2. g.state = t /\ \A f \in HostFields : g.parts[f] = IF f = HostPart(t) THEN Append(h.parts[f], ch)
                                                                     ELSE h.parts[f]
  BY HostStepIs
<1>3. /\ g.parts["userinfo"] = IF t = "userinfo" THEN Append(u, ch) ELSE u
      /\ g.parts["host"] = IF t \in {"host", "v6", "v6_zone_start", "v6_zone"} THEN Append(x, ch) ELSE x
      /\ g.parts["port"] = IF t = "port" THEN Append(p, ch) ELSE p
  <2>1. /\ HostPart(t) = "userinfo" <=> t = "userinfo"
        /\ HostPart(t) = "host" <=> t \in {"host", "v6", "v6_zone_start", "v6_zone"}
        /\ HostPart(t) = "port" <=> t = "port"
    BY DEF HostPart
  <2> HIDE DEF t, g, u, x, p
  <2>2. "userinfo" \in HostFields /\ "host" \in HostFields /\ "port" \in HostFields
    BY DEF HostFields
  <2> QED
    BY <1>2, <2>1, <2>2 DEF u, x, p
<1>4. UserOf(h, at) \in Seq(Letters) /\ v \in Seq(Letters) /\ <<"[">> \o x \in Seq(Letters)
  BY <1>1, AppendIs, ConcatIs, LettersAre DEF UserOf
<1>5. t # "userinfo" => UserOf(g, at) = UserOf(h, at)
  BY <1>3 DEF UserOf
<1> SUFFICES HostRead(g, at, v)
  OBVIOUS
<1>6. /\ t # "userinfo_start"
      /\ t = "userinfo" => h.state \in {"userinfo_start", "userinfo"}
      /\ t = "host_start" => h.state \in {"userinfo_start", "userinfo"} /\ ch = "@"
      /\ t = "v6_start" => h.state = "host_start" /\ ch = "["
      /\ t = "host" => h.state \in {"host_start", "host"}
      /\ t = "v6" => h.state \in {"v6_start", "v6"}
      /\ t = "v6_zone_start" => h.state = "v6"
      /\ t = "v6_zone" => h.state \in {"v6_zone_start", "v6_zone"}
      /\ t = "v6_end" => h.state \in {"v6", "v6_zone"} /\ ch = "]"
      /\ t = "port_start" => h.state \in {"host", "v6_end"} /\ ch = ":"
      /\ t = "port" => h.state \in {"port_start", "port"}
      /\ t \in HostStates
  BY <1>1, HostMoves
<1> DEFINE U == UserOf(h, at)
<1> HIDE DEF t, g, v
<1>7. h.state # "port" /\ h.state # Dead => p = <<>>
  BY DEF HostRead
<1>8. CASE t = "userinfo"
  <2>1. at = "yes" /\ w = u /\ x = <<>> /\ p = <<>>
    BY <1>6, <1>7, <1>8 DEF HostRead, Dead
  <2>2. v = Append(u, ch)
    BY <2>1 DEF v
  <2> QED
    BY <1>2, <1>3, <1>8, <2>1, <2>2 DEF HostRead, Dead
<1>9. CASE t = "host_start"
  <2>1. at = "yes" /\ w = u /\ x = <<>> /\ p = <<>> /\ ch = "@"
    BY <1>6, <1>7, <1>9 DEF HostRead, Dead
  <2>2. v = UserOf(g, at)
    BY <1>1, <1>5, <1>9, <2>1, AppendIs DEF v, UserOf
  <2> QED
    BY <1>2, <1>3, <1>9, <2>1, <2>2 DEF HostRead, Dead
<1>10. CASE t = "v6_start"
  <2>1. w = U /\ x = <<>> /\ p = <<>> /\ ch = "["
    BY <1>6, <1>7, <1>10 DEF HostRead, Dead
  <2>2. v = UserOf(g, at) \o <<"[">>
    BY <1>4, <1>5, <1>10, <2>1, AppendIs DEF v
  <2> QED
    BY <1>2, <1>3, <1>10, <2>1, <2>2 DEF HostRead, Dead
<1>11. CASE t = "host"
  <2>1. w = U \o x /\ p = <<>>
    <3>1. CASE h.state = "host_start"
      <4>1. w = U /\ x = <<>> /\ p = <<>>
        BY <1>7, <3>1 DEF HostRead, Dead
      <4>2. U \o <<>> = U
        BY <1>4, ConcatIs
      <4> QED
        BY <4>1, <4>2
    <3>2. CASE h.state = "host"
      BY <1>7, <3>2 DEF HostRead, Dead
    <3> QED
      BY <1>6, <1>11, <3>1, <3>2
  <2>2. v = UserOf(g, at) \o Append(x, ch)
    <3>1. v = U \o Append(x, ch)
      <4>1. U \in Seq(Letters) /\ x \in Seq(Letters)
        BY <1>1, <1>4
      <4> HIDE DEF U
      <4>2. Append(U \o x, ch) = U \o Append(x, ch)
        BY <4>1, AppendBehind, Zenon
      <4> QED
        BY <2>1, <4>2, Zenon DEF v
    <3> QED
      BY <1>5, <1>11, <3>1
  <2> QED
    BY <1>2, <1>3, <1>11, <2>1, <2>2 DEF HostRead, Dead
<1>12. CASE t \in {"v6", "v6_zone_start", "v6_zone"}
  <2>1. w = U \o (<<"[">> \o x) /\ p = <<>>
    <3>1. h.state = "v6_start" => w = U \o <<"[">> /\ x = <<>>
      BY DEF HostRead
    <3>2. <<"[">> \o <<>> = <<"[">>
      BY ConcatIs, LettersAre
    <3>3. h.state \in {"v6_start", "v6", "v6_zone_start", "v6_zone"}
      BY <1>6, <1>12
    <3> QED
      BY <1>7, <3>1, <3>2, <3>3 DEF HostRead, Dead
  <2>2. v = UserOf(g, at) \o (<<"[">> \o Append(x, ch))
    <3>1. Append(<<"[">> \o x, ch) = <<"[">> \o Append(x, ch)
      <4>1. <<"[">> \in Seq(Letters)
        BY LettersAre
      <4> QED
        BY <1>1, <4>1, AppendBehind, Zenon
    <3>2. v = U \o Append(<<"[">> \o x, ch)
      BY <1>4, <2>1, AppendBehind, Zenon DEF v
    <3> QED
      BY <1>5, <1>12, <3>1, <3>2
  <2> QED
    BY <1>2, <1>3, <1>12, <2>1, <2>2 DEF HostRead, Dead
<1>13. CASE t = "v6_end"
  <2>1. w = U \o (<<"[">> \o x) /\ p = <<>> /\ ch = "]"
    BY <1>6, <1>7, <1>13 DEF HostRead, Dead
  <2>2. v = UserOf(g, at) \o Append(<<"[">> \o x, "]")
    <3>1. v = U \o Append(<<"[">> \o x, ch)
      <4>1. Append(U \o (<<"[">> \o x), ch) = U \o Append(<<"[">> \o x, ch)
        BY <1>4, AppendBehind, Zenon
      <4> HIDE DEF U
      <4> QED
        BY <2>1, <4>1, Zenon DEF v
    <3> QED
      BY <1>5, <1>13, <2>1, <3>1
  <2> QED
    BY <1>2, <1>3, <1>13, <2>1, <2>2 DEF HostRead, Dead
<1>14. CASE t = "port_start"
  <2>1. PICK y \in HostsOf(h) : w = U \o y /\ p = <<>> /\ ch = ":"
    BY <1>6, <1>7, <1>14 DEF HostRead, HostsOf, Dead
  <2>2. y \in Seq(Letters) /\ y \in HostsOf(g)
    BY <1>1, <1>3, <1>4, <1>14, AppendIs, LettersAre DEF HostsOf
  <2>3. v = (UserOf(g, at) \o y) \o <<":">>
    BY <1>4, <1>5, <1>14, <2>1, <2>2, AppendIs, ConcatIs, LettersAre DEF v
  <2> QED
    BY <1>2, <1>3, <1>14, <2>1, <2>2, <2>3 DEF HostRead, Dead
<1>15. CASE t = "port"
  <2>1. PICK y \in HostsOf(h) : w = ((U \o y) \o <<":">>) \o p
    <3>1. CASE h.state = "port_start"
      <4>1. PICK y \in HostsOf(h) : w = (U \o y) \o <<":">>
        BY <3>1 DEF HostRead
      <4>2. y \in Seq(Letters)
        BY <1>1, <1>4, AppendIs, LettersAre DEF HostsOf
      <4>3. p = <<>> /\ (U \o y) \o <<":">> \in Seq(Letters)
        BY <1>4, <1>7, <3>1, <4>2, ConcatIs, LettersAre DEF Dead
      <4> QED
        BY <4>1, <4>3, ConcatIs
    <3>2. CASE h.state = "port"
      BY <3>2 DEF HostRead
    <3> QED
      BY <1>6, <1>15, <3>1, <3>2
  <2>2. y \in Seq(Letters) /\ y \in HostsOf(g)
    <3>1. g.parts["host"] = x
      BY <1>3, <1>15
    <3>2. y \in HostsOf(g)
      BY <3>1 DEF HostsOf
    <3> QED
      BY <1>1, <1>4, <3>2, AppendIs, LettersAre DEF HostsOf
  <2>3. v = ((UserOf(g, at) \o y) \o <<":">>) \o Append(p, ch)
    <3>1. (U \o y) \o <<":">> \in Seq(Letters)
      BY <1>4, <2>2, ConcatIs, LettersAre
    <3>2. v = ((U \o y) \o <<":">>) \o Append(p, ch)
      BY <1>1, <2>1, <3>1, AppendBehind, Zenon DEF v
    <3>3. UserOf(g, at) = U
      BY <1>5, <1>15
    <3> QED
      BY <3>2, <3>3
  <2>4. Append(p, ch) # <<>>
    BY <1>1, AppendIs
  <2> QED
    BY <1>2, <1>3, <1>15, <2>2, <2>3, <2>4 DEF HostRead, Dead
<1>16. CASE t = Dead
  BY <1>2, <1>16 DEF HostRead, Dead
<1> QED
  BY <1>6, <1>8, <1>9, <1>10, <1>11, <1>12, <1>13, <1>14, <1>15, <1>16 DEF HostStates, g, v

\* A server part that is accepted is its parts.
LEMMA HostIsParts ==
    ASSUME NEW server \in Seq(Letters), NEW at \in {"yes", "no"},
           ParseHost(server, at).state \notin Unfinished \cup {Dead}
    PROVE  LET h == ParseHost(server, at) IN
             /\ h \in HostResults
             /\ \E x \in HostsOf(h),
                   p \in IF h.parts["port"] = <<>> THEN {<<>>} ELSE {<<":">> \o h.parts["port"]} :
                   server = (UserOf(h, at) \o x) \o p
<1> DEFINE b == [state |-> IF at = "yes" THEN "userinfo_start" ELSE "host_start", parts |-> NoServer]
           N == Len(server)
           h == ParseHost(server, at)
<1>0. NoServer = [f \in HostFields |-> <<>>]
  BY DEF NoServer, HostFields
<1>1. NoServer \in [HostFields -> Seq(Letters)] /\ \A f \in HostFields : NoServer[f] = <<>>
  BY <1>0, LettersAre
<1>2. b \in HostResults
  BY <1>1 DEF HostResults, HostStates
<1>3. N \in Nat /\ \A k \in 1 .. N : server[k] \in Letters
  OBVIOUS
<1>4. h = FoldLeft(HostStep, b, server)
  BY DEF ParseHost
<1>5. PICK f \in [0 .. N -> HostResults] :
         /\ f[0] = b /\ f[N] = h
         /\ \A k \in 1 .. N : f[k] = HostStep(f[k - 1], server[k])
  <2> HIDE DEF b, h
  <2> QED
    BY <1>2, <1>4, HostFold
<1> DEFINE w(k) == SubSeq(server, 1, k)
           S == {k \in Nat : k \in 0 .. N => HostRead(f[k], at, w(k))}
<1>6. \A k \in 0 .. N : w(k) \in Seq(Letters)
  BY <1>3
<1>7. 0 \in S
  <2>1. w(0) = <<>>
    OBVIOUS
  <2>2. b.parts = NoServer /\ b.state = IF at = "yes" THEN "userinfo_start" ELSE "host_start"
    OBVIOUS
  <2> HIDE DEF b
  <2>3. HostRead(b, at, <<>>)
    BY <1>1, <2>2 DEF HostRead, HostFields, UserOf, Dead
  <2> QED
    BY <1>5, <2>1, <2>3
<1>8. ASSUME NEW k \in 1 .. N, k - 1 \in S PROVE k \in S
  <2>1. k - 1 \in 0 .. N /\ f[k - 1] \in HostResults /\ server[k] \in Letters
    BY <1>3
  <2>2. HostRead(f[k - 1], at, w(k - 1))
    BY <1>8, <2>1
  <2>3. w(k) = Append(w(k - 1), server[k])
    BY <1>3
  <2>4. w(k - 1) \in Seq(Letters)
    BY <1>6, <2>1
  <2> HIDE DEF w
  <2>5. HostRead(f[k], at, w(k))
    BY <1>5, <2>1, <2>2, <2>3, <2>4, HostReadStep
  <2> QED
    BY <2>5
<1>9. HostRead(h, at, server)
  <2> HIDE DEF S
  <2>1. N \in S
    <3> HIDE DEF N
    <3>1. \A k \in 0 .. N : k \in S
      BY <1>3, <1>7, <1>8, StepInduction
    <3> QED
      BY <1>3, <3>1
  <2>2. w(N) = server
    OBVIOUS
  <2>3. N \in 0 .. N
    BY <1>3
  <2> HIDE DEF w, N
  <2>4. HostRead(f[N], at, w(N))
    BY <2>1, <2>3 DEF S
  <2> QED
    BY <1>5, <2>2, <2>4
<1>10. h \in HostResults
  BY <1>3, <1>5
<1> HIDE DEF h
<1>11. h.state \in {"host", "v6_end", "port"}
  BY <1>10 DEF HostResults, HostStates, Unfinished, h
<1>12. /\ h.parts["userinfo"] \in Seq(Letters) /\ h.parts["host"] \in Seq(Letters)
       /\ h.parts["port"] \in Seq(Letters)
  BY <1>10 DEF HostResults, HostFields
<1>13. UserOf(h, at) \in Seq(Letters) /\ \A x \in HostsOf(h) : x \in Seq(Letters)
  BY <1>12, AppendIs, ConcatIs, LettersAre DEF UserOf, HostsOf
<1>14. CASE h.state \in {"host", "v6_end"}
  <2>1. h.parts["port"] = <<>> /\ \E x \in HostsOf(h) : server = UserOf(h, at) \o x
    BY <1>9, <1>14 DEF HostRead, HostsOf, Dead
  <2> QED
    BY <1>10, <1>13, <2>1, ConcatIs DEF h
<1>15. CASE h.state = "port"
  <2>1. PICK x \in HostsOf(h) : server = ((UserOf(h, at) \o x) \o <<":">>) \o h.parts["port"]
    BY <1>9, <1>15 DEF HostRead
  <2>2. h.parts["port"] # <<>>
    BY <1>9, <1>15 DEF HostRead
  <2>3. UserOf(h, at) \o x \in Seq(Letters) /\ <<":">> \in Seq(Letters)
    BY <1>13, ConcatIs, LettersAre
  <2>4. server = (UserOf(h, at) \o x) \o (<<":">> \o h.parts["port"])
    <3> DEFINE r == UserOf(h, at) \o x
               s == <<":">>
               t == h.parts["port"]
    <3>1. r \in Seq(Letters) /\ s \in Seq(Letters) /\ t \in Seq(Letters) /\ server = (r \o s) \o t
      BY <1>12, <2>1, <2>3
    <3> HIDE DEF r, s, t
    <3>2. server = r \o (s \o t)
      <4>1. \A i, j, k \in Seq(Letters) : (i \o j) \o k = i \o (j \o k)
        BY LettersAssociate
      <4>2. (r \o s) \o t = r \o (s \o t)
        <5>1. r \in Seq(Letters) /\ s \in Seq(Letters) /\ t \in Seq(Letters)
          BY <3>1
        <5> QED
          BY <4>1, <5>1
      <4>3. server = (r \o s) \o t
        BY <3>1
      <4> QED
        BY <4>2, <4>3, Zenon
    <3> QED
      BY <3>2 DEF r, s, t
  <2> QED
    BY <1>10, <2>2, <2>4 DEF h
<1> QED
  BY <1>11, <1>14, <1>15

-----------------------------------------------------------------------------
(* The whole URL: what has been read of it, state by state.                *)

Openings == {"start", "schema", "schema_slash", "schema_slash_slash", "server_start"}
Servers == {"server", "server_with_at"}
UrlStates == Openings \cup Servers \cup
    {"path", "query_start", "query", "fragment_start", "fragment", Dead}

SchemaEnd == IF field["schema"] = <<>> THEN <<>> ELSE field["schema"] \o <<":", "/", "/">>
UpToPath == (SchemaEnd \o field["host"]) \o field["path"]
Hash(n) == [k \in 1 .. n |-> "#"]

UrlTyped ==
    /\ url \in Seq(Letters)
    /\ state \in UrlStates
    /\ foundAt \in {"yes", "no"}
    /\ field \in [UrlFields -> Seq(Letters)]

\* A field is empty until its state is reached, and goes on while it lasts.
FieldsFollow ==
    /\ state = "start" => field["schema"] = <<>>
    /\ state \in Openings => field["host"] = <<>>
    /\ state \in Openings \cup Servers => field["path"] = <<>>
    /\ state \in Openings \cup Servers \cup {"path", "query_start"} => field["query"] = <<>>
    /\ state \in UrlStates \ {"fragment", Dead} => field["fragment"] = <<>>
    /\ state \notin Delimiters \cup {"start", Dead} => old = FieldOf(state)

\* A server has been preceded by a schema.
FieldsNeed ==
    /\ state \in Openings \cup Servers => state = "start" \/ field["schema"] # <<>>
    /\ state \in Servers => field["host"] # <<>>
    /\ field["host"] # <<>> => field["schema"] # <<>>
    /\ foundAt = "yes" => field["host"] # <<>>
    /\ state = "query" => field["query"] # <<>>
    /\ state = "fragment" => field["fragment"] # <<>>

UrlReads(u) ==
    /\ state \in {"start", "schema"} => u = field["schema"]
    /\ state = "schema_slash" => u = Append(field["schema"], ":")
    /\ state = "schema_slash_slash" => u = Append(Append(field["schema"], ":"), "/")
    /\ state \in Servers \cup {"start", "server_start", "path"} => u = UpToPath
    /\ state = "query_start" => u = UpToPath \o <<"?">>
    /\ state = "query" => u = UpToPath \o (<<"?">> \o field["query"])
    /\ state = "fragment_start" =>
          \E q \in Queries, n \in 1 .. Len(u) : u = (UpToPath \o q) \o Hash(n)
    /\ state = "fragment" =>
          \E q \in Queries, n \in 1 .. Len(u) : u = (UpToPath \o q) \o (Hash(n) \o field["fragment"])

UrlInv == UrlTyped /\ FieldsFollow /\ FieldsNeed /\ UrlReads(url)

LEMMA UrlMoves ==
    ASSUME NEW s \in UrlStates, s # Dead, NEW ch
    PROVE  LET t == ParseUrlChar(s, ch) IN
             /\ t \in UrlStates /\ t # "start"
             /\ t = "schema" => s \in {"start", "schema"}
             /\ t = "schema_slash" => s = "schema" /\ ch = ":"
             /\ t = "schema_slash_slash" => s = "schema_slash" /\ ch = "/"
             /\ t = "server_start" => s = "schema_slash_slash" /\ ch = "/"
             /\ t \in Servers => s \in Servers \cup {"server_start"}
             /\ t = "path" => s \in Servers \cup {"start", "server_start", "path"}
             /\ t = "query_start" => s \in Servers \cup {"server_start", "path"} /\ ch = "?"
             /\ t = "query" => s \in {"query_start", "query"}
             /\ t = "fragment_start" =>
                   s \in {"path", "query_start", "query", "fragment_start"} /\ ch = "#"
             /\ t = "fragment" => s \in {"fragment_start", "fragment"}
BY DEF ParseUrlChar, UrlStates, Openings, Servers, Dead

LEMMA InitUrl == UrlInit => UrlInv
<1> SUFFICES ASSUME UrlInit PROVE UrlInv
  OBVIOUS
<1>1. url = <<>> /\ state = "start" /\ foundAt = "no" /\ \A f \in UrlFields : field[f] = <<>>
  BY DEF UrlInit
<1>2. {"schema", "host", "path", "query", "fragment"} \subseteq UrlFields
  BY DEF UrlFields
<1>3. UrlTyped
  BY <1>1, LettersAre DEF UrlInit, UrlTyped, UrlStates, Openings
<1>4. FieldsFollow
  BY <1>1, <1>2 DEF FieldsFollow, Openings
<1>5. FieldsNeed
  BY <1>1, <1>2 DEF FieldsNeed, Openings, Servers
<1>6. UpToPath = <<>>
  BY <1>1, <1>2, LettersAre, ConcatIs DEF UpToPath, SchemaEnd
<1>7. UrlReads(url)
  BY <1>1, <1>2, <1>6 DEF UrlReads, Servers
<1> QED
  BY <1>3, <1>4, <1>5, <1>7 DEF UrlInv

\* What one character does to the fields.
LEMMA FieldsGrow ==
    ASSUME UrlInv, NEW ch \in Characters, state # Dead, state' = ParseUrlChar(state, ch),
           IF state' \in Delimiters \cup {Dead}
           THEN UNCHANGED <<old, field>>
           ELSE /\ old' = FieldOf(state')
                /\ field' = [field EXCEPT ![FieldOf(state')] =
                                IF FieldOf(state') = old THEN Append(@, ch) ELSE <<ch>>]
    PROVE  /\ field' \in [UrlFields -> Seq(Letters)]
           /\ \A f \in UrlFields :
                 field'[f] = IF state' \notin Delimiters \cup {Dead} /\ f = FieldOf(state')
                             THEN Append(field[f], ch) ELSE field[f]
           /\ state' \notin Delimiters \cup {Dead} => old' = FieldOf(state')
<1> DEFINE t == ParseUrlChar(state, ch)
           f == FieldOf(t)
<1>1. state \in UrlStates /\ field \in [UrlFields -> Seq(Letters)] /\ ch \in Letters
  BY DEF UrlInv, UrlTyped, Letters
<1>2. CASE t \in Delimiters \cup {Dead}
  BY <1>1, <1>2
<1>3. CASE t \notin Delimiters \cup {Dead}
  <2>1. t \in {"schema", "path", "query", "fragment"} \cup Servers
    BY <1>1, <1>3, UrlMoves DEF UrlStates, Openings, Delimiters
  <2>2. f \in UrlFields
    BY <2>1 DEF FieldOf, Servers, UrlFields
  <2>3. f # old => field[f] = <<>>
    <3>1. t = "schema" => state = "start" \/ state = "schema"
      BY <1>1, UrlMoves
    <3>2. t \in Servers => state = "server_start" \/ state \in Servers
      BY <1>1, UrlMoves
    <3>3. t = "path" => state \in Servers \cup {"start", "server_start"} \/ state = "path"
      BY <1>1, UrlMoves
    <3>4. t = "query" => state = "query_start" \/ state = "query"
      BY <1>1, UrlMoves
    <3>5. t = "fragment" => state = "fragment_start" \/ state = "fragment"
      BY <1>1, UrlMoves
    <3>6. state \in {"schema", "path", "query", "fragment"} \cup Servers => old = FieldOf(state)
      BY DEF UrlInv, FieldsFollow, Delimiters, Servers, Dead
    <3>7. CASE t = "schema"
      BY <3>1, <3>6, <3>7 DEF UrlInv, FieldsFollow, FieldOf
    <3>8. CASE t \in Servers
      BY <3>2, <3>6, <3>8 DEF UrlInv, FieldsFollow, FieldOf, Servers, Openings
    <3>9. CASE t = "path"
      BY <3>3, <3>6, <3>9 DEF UrlInv, FieldsFollow, FieldOf, Servers, Openings
    <3>10. CASE t = "query"
      BY <3>4, <3>6, <3>10 DEF UrlInv, FieldsFollow, FieldOf
    <3>11. CASE t = "fragment"
      BY <3>5, <3>6, <3>11 DEF UrlInv, UrlTyped, FieldsFollow, FieldOf, UrlStates, Dead
    <3> QED
      BY <2>1, <3>7, <3>8, <3>9, <3>10, <3>11
  <2> HIDE DEF t, f
  <2>4. field' = [field EXCEPT ![f] = IF f = old THEN Append(@, ch) ELSE <<ch>>] /\ old' = f
    BY <1>3 DEF t, f
  <2>5. Append(<<>>, ch) = <<ch>> /\ Append(field[f], ch) \in Seq(Letters)
    BY <1>1, <2>2
  <2>6. field' = [field EXCEPT ![f] = Append(field[f], ch)]
    BY <2>3, <2>4, <2>5
  <2> QED
    BY <1>1, <1>3, <2>2, <2>4, <2>5, <2>6 DEF t, f
<1> QED
  BY <1>2, <1>3

LEMMA HashIs ==
    /\ Hash(1) = <<"#">>
    /\ \A n \in Nat : Hash(n) \in Seq(Letters) /\ Append(Hash(n), "#") = Hash(n + 1)
<1>1. ASSUME NEW n \in Nat PROVE Hash(n) \in Seq(Letters) /\ Append(Hash(n), "#") = Hash(n + 1)
  BY DEF Hash, Letters
<1>2. Hash(1) = <<"#">>
  BY DEF Hash
<1> QED
  BY <1>1, <1>2

\* The schema with what belongs behind it.
LEMMA SchemaIs ==
    ASSUME NEW s \in Seq(Letters)
    PROVE  Append(Append(Append(s, ":"), "/"), "/") = s \o <<":", "/", "/">>
BY DEF Letters

LEMMA QueriesAre ==
    ASSUME field \in [UrlFields -> Seq(Letters)]
    PROVE  \A q \in Queries : q \in Seq(Letters)
<1>1. field["query"] \in Seq(Letters) /\ <<"?">> \in Seq(Letters)
  BY DEF Letters, UrlFields
<1>2. <<"?">> \o field["query"] \in Seq(Letters)
  BY <1>1, ConcatIs
<1> QED
  BY <1>1, <1>2, LettersAre DEF Queries

LEMMA EndsAre ==
    ASSUME field \in [UrlFields -> Seq(Letters)]
    PROVE  /\ \A f \in {"schema", "host", "path", "query", "fragment"} : field[f] \in Seq(Letters)
           /\ SchemaEnd \in Seq(Letters) /\ SchemaEnd \o field["host"] \in Seq(Letters)
           /\ UpToPath \in Seq(Letters)
<1>1. \A f \in {"schema", "host", "path", "query", "fragment"} : field[f] \in Seq(Letters)
  BY DEF UrlFields
<1>2. SchemaEnd \in Seq(Letters)
  <2>1. <<":", "/", "/">> \in Seq(Letters)
    BY DEF Letters
  <2> QED
    BY <1>1, <2>1, ConcatIs, LettersAre DEF SchemaEnd
<1> QED
  BY <1>1, <1>2, ConcatIs DEF UpToPath

\* What has been read up to the path, in any state before a query.
LEMMA StepUrlReads ==
    ASSUME UrlInv, NEW ch \in Characters, state # Dead, state' = ParseUrlChar(state, ch),
           url' = Append(url, ch),
           field' \in [UrlFields -> Seq(Letters)],
           \A f \in UrlFields :
              field'[f] = IF state' \notin Delimiters \cup {Dead} /\ f = FieldOf(state')
                          THEN Append(field[f], ch) ELSE field[f]
    PROVE  UrlReads(url)'
<1> DEFINE S == field["schema"]
           H == field["host"]
           P == field["path"]
           Q == field["query"]
           F == field["fragment"]
           Grow(f) == state' \notin Delimiters \cup {Dead} /\ FieldOf(state') = f
<1>0. /\ state' \in UrlStates /\ state' # "start"
      /\ state' = "schema" => state \in {"start", "schema"}
      /\ state' = "schema_slash" => state = "schema" /\ ch = ":"
      /\ state' = "schema_slash_slash" => state = "schema_slash" /\ ch = "/"
      /\ state' = "server_start" => state = "schema_slash_slash" /\ ch = "/"
      /\ state' \in Servers => state \in Servers \cup {"server_start"}
      /\ state' = "path" => state \in Servers \cup {"start", "server_start", "path"}
      /\ state' = "query_start" => state \in Servers \cup {"server_start", "path"} /\ ch = "?"
      /\ state' = "query" => state \in {"query_start", "query"}
      /\ state' = "fragment_start" =>
            state \in {"path", "query_start", "query", "fragment_start"} /\ ch = "#"
      /\ state' = "fragment" => state \in {"fragment_start", "fragment"}
  <2> DEFINE t == ParseUrlChar(state, ch)
  <2>1. state \in UrlStates /\ state' = t
    BY DEF UrlInv, UrlTyped
  <2> HIDE DEF t
  <2> QED
    BY <2>1, UrlMoves DEF t
<1>1. /\ S' = IF Grow("schema") THEN Append(S, ch) ELSE S
      /\ H' = IF Grow("host") THEN Append(H, ch) ELSE H
      /\ P' = IF Grow("path") THEN Append(P, ch) ELSE P
      /\ Q' = IF Grow("query") THEN Append(Q, ch) ELSE Q
      /\ F' = IF Grow("fragment") THEN Append(F, ch) ELSE F
  BY DEF UrlFields
<1>2. /\ Grow("schema") <=> state' = "schema"
      /\ Grow("host") <=> state' \in Servers
      /\ Grow("path") <=> state' = "path"
      /\ Grow("query") <=> state' = "query"
      /\ Grow("fragment") <=> state' = "fragment"
  BY <1>0 DEF Delimiters, FieldOf, Servers, UrlStates, Openings, Dead
<1> HIDE DEF Grow
<1>3. /\ state \in UrlStates /\ field \in [UrlFields -> Seq(Letters)] /\ ch \in Letters
      /\ url \in Seq(Letters) /\ Len(url) \in Nat /\ Len(url') = Len(url) + 1
  <2>1. url \in Seq(Letters) /\ ch \in Letters
    BY DEF UrlInv, UrlTyped, Letters
  <2>2. Len(url) \in Nat /\ Len(url') = Len(url) + 1
    BY <2>1
  <2> QED
    BY <2>1, <2>2 DEF UrlInv, UrlTyped
<1>4. /\ S \in Seq(Letters) /\ H \in Seq(Letters) /\ P \in Seq(Letters) /\ Q \in Seq(Letters)
      /\ F \in Seq(Letters)
      /\ SchemaEnd \in Seq(Letters) /\ SchemaEnd \o H \in Seq(Letters) /\ UpToPath \in Seq(Letters)
      /\ \A q \in Queries : q \in Seq(Letters)
  BY <1>3, EndsAre, QueriesAre
<1>5. /\ UrlReads(url) /\ FieldsFollow /\ FieldsNeed
  BY DEF UrlInv
<1>6. state' # "schema" => S' = S /\ SchemaEnd' = SchemaEnd
  BY <1>1, <1>2 DEF SchemaEnd
<1>7. state' \notin {"schema", "path"} \cup Servers => UpToPath' = UpToPath
  BY <1>1, <1>2, <1>6 DEF UpToPath
<1>8. state' # "query" => Queries' = Queries
  BY <1>1, <1>2 DEF Queries
<1> HIDE DEF S, H, P, Q, F
<1>9. CASE state' = "schema"
  <2>1. url = S /\ S' = Append(S, ch)
    BY <1>0, <1>1, <1>2, <1>5, <1>9 DEF UrlReads, S
  <2> QED
    BY <1>9, <2>1 DEF UrlReads, Servers, S
<1>10. CASE state' = "schema_slash"
  <2>1. url = S /\ ch = ":"
    BY <1>0, <1>5, <1>10 DEF UrlReads, S
  <2> QED
    BY <1>6, <1>10, <2>1 DEF UrlReads, Servers, S
<1>11. CASE state' = "schema_slash_slash"
  <2>1. url = Append(S, ":") /\ ch = "/"
    BY <1>0, <1>5, <1>11 DEF UrlReads, S
  <2> QED
    BY <1>6, <1>11, <2>1 DEF UrlReads, Servers, S
<1>12. CASE state' = "server_start"
  <2>1. url = Append(Append(S, ":"), "/") /\ ch = "/" /\ state = "schema_slash_slash"
    BY <1>0, <1>5, <1>12 DEF UrlReads, S
  <2>2. S # <<>> /\ H = <<>> /\ P = <<>>
    BY <1>5, <2>1 DEF FieldsNeed, FieldsFollow, Openings, S, H, P
  <2>3. url' = SchemaEnd
    BY <1>4, <2>1, <2>2, SchemaIs DEF SchemaEnd, S
  <2>4. UpToPath = SchemaEnd
    BY <1>4, <2>2, ConcatIs DEF UpToPath, H, P
  <2>5. UpToPath' = UpToPath
    BY <1>7, <1>12 DEF Servers
  <2> QED
    BY <1>12, <2>3, <2>4, <2>5 DEF UrlReads, Servers
<1>13. CASE state' \in Servers
  <2>1. url = UpToPath /\ P = <<>>
    <3>1. state \in Servers \cup {"server_start"}
      BY <1>0, <1>13
    <3> QED
      BY <1>5, <3>1 DEF UrlReads, FieldsFollow, Openings, P
  <2>2. url' = SchemaEnd \o Append(H, ch)
    <3>1. url = SchemaEnd \o H
      BY <1>4, <2>1, ConcatIs DEF UpToPath, H, P
    <3> QED
      BY <1>3, <1>4, <3>1, AppendBehind, Zenon
  <2>3. H' = Append(H, ch) /\ P' = <<>> /\ SchemaEnd' = SchemaEnd
    BY <1>1, <1>2, <1>6, <1>13, <2>1 DEF Servers
  <2>4. UpToPath' = SchemaEnd \o Append(H, ch)
    <3>1. SchemaEnd \o Append(H, ch) \in Seq(Letters)
      BY <1>3, <1>4, AppendIs, ConcatIs
    <3> QED
      BY <2>3, <3>1, ConcatIs DEF UpToPath, H, P
  <2> QED
    BY <1>13, <2>2, <2>4 DEF UrlReads, Servers
<1>14. CASE state' = "path"
  <2>1. url = UpToPath
    <3>1. state \in Servers \cup {"start", "server_start", "path"}
      BY <1>0, <1>14
    <3> QED
      BY <1>5, <3>1 DEF UrlReads
  <2>2. url' = (SchemaEnd \o H) \o Append(P, ch)
    <3>1. url = (SchemaEnd \o H) \o P
      BY <2>1 DEF UpToPath, H, P
    <3> QED
      BY <1>3, <1>4, <3>1, AppendBehind, Zenon
  <2>3. H' = H /\ P' = Append(P, ch) /\ SchemaEnd' = SchemaEnd
    BY <1>1, <1>2, <1>6, <1>14 DEF Servers
  <2> QED
    BY <1>14, <2>2, <2>3 DEF UrlReads, Servers, UpToPath, H, P
<1>15. CASE state' = "query_start"
  <2>1. url = UpToPath /\ ch = "?"
    <3>1. state \in Servers \cup {"server_start", "path"} /\ ch = "?"
      BY <1>0, <1>15
    <3> QED
      BY <1>5, <3>1 DEF UrlReads
  <2>2. url' = UpToPath \o <<"?">>
    BY <1>3, <1>4, <2>1, AppendIs
  <2> QED
    BY <1>7, <1>15, <2>2 DEF UrlReads, Servers
<1>16. CASE state' = "query"
  <2>1. url = UpToPath \o (<<"?">> \o Q)
    <3>1. state = "query_start" \/ state = "query"
      BY <1>0, <1>16
    <3>2. state = "query_start" => Q = <<>>
      BY <1>5 DEF FieldsFollow, Q
    <3>3. <<"?">> \o <<>> = <<"?">>
      OBVIOUS
    <3> QED
      BY <1>5, <3>1, <3>2, <3>3 DEF UrlReads, Q
  <2>2. url' = UpToPath \o (<<"?">> \o Append(Q, ch))
    <3> DEFINE m == <<"?">>
    <3>1. m \in Seq(Letters) /\ m \o Q \in Seq(Letters)
      BY <1>4, ConcatIs DEF Letters
    <3>2. url = UpToPath \o (m \o Q)
      BY <2>1
    <3> HIDE DEF m
    <3>3. UpToPath \in Seq(Letters) /\ m \in Seq(Letters) /\ Q \in Seq(Letters) /\ ch \in Letters
      BY <1>3, <1>4, <3>1
    <3>4. Append(UpToPath \o (m \o Q), ch) = UpToPath \o (m \o Append(Q, ch))
      BY <3>3, AppendBehindBoth, Zenon
    <3> QED
      BY <3>2, <3>4 DEF m
  <2> QED
    BY <1>1, <1>2, <1>7, <1>16, <2>2 DEF UrlReads, Servers, Q
<1>17. CASE state' = "fragment_start"
  <2>1. state \in {"path", "query_start", "query", "fragment_start"} /\ ch = "#"
    BY <1>0, <1>17
  <2>2. CASE state # "fragment_start"
    <3>1. PICK q \in Queries : url = UpToPath \o q
      <4>1. CASE state = "path"
        <5>1. Q = <<>> /\ url = UpToPath \o <<>>
          BY <1>4, <1>5, <4>1, ConcatIs DEF UrlReads, FieldsFollow, Q
        <5> QED
          BY <5>1 DEF Queries, Q
      <4>2. CASE state = "query_start"
        <5>1. Q = <<>> /\ url = UpToPath \o <<"?">>
          BY <1>5, <4>2 DEF UrlReads, FieldsFollow, Q
        <5> QED
          BY <5>1 DEF Queries, Q
      <4>3. CASE state = "query"
        <5>1. Q # <<>> /\ url = UpToPath \o (<<"?">> \o Q)
          BY <1>5, <4>3 DEF UrlReads, FieldsNeed, Q
        <5> QED
          BY <5>1 DEF Queries, Q
      <4> QED
        BY <2>1, <2>2, <4>1, <4>2, <4>3
    <3>2. url' = (UpToPath \o q) \o Hash(1)
      BY <1>3, <2>1, <3>1, AppendIs, HashIs
    <3>3. 1 \in 1 .. Len(url')
      BY <1>3
    <3> QED
      BY <1>7, <1>8, <1>17, <3>2, <3>3 DEF UrlReads, Servers
  <2>3. CASE state = "fragment_start"
    <3>1. PICK q \in Queries, n \in 1 .. Len(url) : url = (UpToPath \o q) \o Hash(n)
      BY <1>5, <2>3 DEF UrlReads
    <3>2. /\ UpToPath \o q \in Seq(Letters) /\ Hash(n) \in Seq(Letters)
          /\ Append(Hash(n), "#") = Hash(n + 1) /\ n + 1 \in 1 .. Len(url')
      BY <1>3, <1>4, ConcatIs, HashIs
    <3>3. url' = (UpToPath \o q) \o Append(Hash(n), ch)
      BY <1>3, <3>1, <3>2, AppendBehind, Zenon
    <3>4. url' = (UpToPath \o q) \o Hash(n + 1)
      BY <2>1, <3>2, <3>3
    <3> QED
      BY <1>7, <1>8, <1>17, <3>2, <3>4 DEF UrlReads, Servers
  <2> QED
    BY <2>2, <2>3
<1>18. CASE state' = "fragment"
  <2>1. PICK q \in Queries, n \in 1 .. Len(url) : url = (UpToPath \o q) \o (Hash(n) \o F)
    <3>1. CASE state = "fragment_start"
      <4>1. F = <<>>
        BY <1>5, <3>1 DEF FieldsFollow, UrlStates, Dead, F
      <4>2. PICK q \in Queries, n \in 1 .. Len(url) : url = (UpToPath \o q) \o Hash(n)
        BY <1>5, <3>1 DEF UrlReads
      <4>3. Hash(n) \o F = Hash(n)
        BY <1>3, <4>1, HashIs, ConcatIs
      <4> QED
        BY <4>2, <4>3
    <3>2. CASE state = "fragment"
      BY <1>5, <3>2 DEF UrlReads, F
    <3> QED
      BY <1>0, <1>18, <3>1, <3>2
  <2>2. /\ UpToPath \o q \in Seq(Letters) /\ Hash(n) \in Seq(Letters)
        /\ Hash(n) \o F \in Seq(Letters) /\ n \in 1 .. Len(url')
    BY <1>3, <1>4, ConcatIs, HashIs
  <2>3. url' = (UpToPath \o q) \o (Hash(n) \o Append(F, ch))
    <3> DEFINE r == UpToPath \o q
               m == Hash(n)
    <3> HIDE DEF r, m
    <3>1. r \in Seq(Letters) /\ m \in Seq(Letters) /\ F \in Seq(Letters) /\ ch \in Letters
      BY <1>3, <1>4, <2>2 DEF r, m
    <3>2. Append(r \o (m \o F), ch) = r \o (m \o Append(F, ch))
      BY <3>1, AppendBehindBoth, Zenon
    <3> QED
      BY <2>1, <3>2 DEF r, m
  <2>4. F' = Append(F, ch)
    BY <1>1, <1>2, <1>18
  <2> QED
    BY <1>7, <1>8, <1>18, <2>2, <2>3, <2>4 DEF UrlReads, Servers, F
<1>19. CASE state' = Dead
  BY <1>19 DEF UrlReads, Servers, Dead
<1> QED
  BY <1>0, <1>9, <1>10, <1>11, <1>12, <1>13, <1>14, <1>15, <1>16, <1>17, <1>18, <1>19
     DEF UrlStates, Openings

LEMMA StepUrl == UrlInv /\ [UrlNext]_urlVars => UrlInv'
<1> SUFFICES ASSUME UrlInv, [UrlNext]_urlVars PROVE UrlInv'
  OBVIOUS
<1>1. CASE ReadCharacter
  <2>1. PICK ch \in Characters :
           /\ url' = Append(url, ch)
           /\ state' = ParseUrlChar(state, ch)
           /\ foundAt' = IF state' = "server_with_at" THEN "yes" ELSE foundAt
           /\ IF state' \in Delimiters \cup {Dead}
              THEN UNCHANGED <<old, field>>
              ELSE /\ old' = FieldOf(state')
                   /\ field' = [field EXCEPT ![FieldOf(state')] =
                                   IF FieldOf(state') = old THEN Append(@, ch) ELSE <<ch>>]
    BY <1>1 DEF ReadCharacter
  <2>2. state \in UrlStates /\ state # Dead
    BY <1>1 DEF ReadCharacter, UrlInv, UrlTyped
  <2>3. /\ field' \in [UrlFields -> Seq(Letters)]
        /\ \A f \in UrlFields :
              field'[f] = IF state' \notin Delimiters \cup {Dead} /\ f = FieldOf(state')
                          THEN Append(field[f], ch) ELSE field[f]
        /\ state' \notin Delimiters \cup {Dead} => old' = FieldOf(state')
    BY <2>1, <2>2, FieldsGrow
  <2>4. UrlReads(url)'
    BY <2>1, <2>2, <2>3, StepUrlReads
  <2>5. /\ state' \in UrlStates /\ state' # "start"
        /\ state' \in Openings => state \in Openings
        /\ state' \in {"schema_slash", "schema_slash_slash", "server_start"} =>
              state \in Openings \ {"start"}
        /\ state' \in Servers => state \in Servers \cup {"server_start"}
        /\ state' = "path" => state \in Servers \cup Openings \cup {"path"}
        /\ state' = "query_start" => state \in Servers \cup Openings \cup {"path"}
        /\ state' = "query" => state \in {"query_start", "query"}
        /\ state' = "fragment_start" => state \in {"path", "query_start", "query", "fragment_start"}
    <3> DEFINE t == ParseUrlChar(state, ch)
    <3> HIDE DEF t
    <3> QED
      BY <2>1, <2>2, UrlMoves DEF Openings, Servers, t
  <2>6. /\ ch \in Letters /\ url \in Seq(Letters) /\ field \in [UrlFields -> Seq(Letters)]
        /\ {"schema", "host", "path", "query", "fragment"} \subseteq UrlFields
    BY DEF UrlInv, UrlTyped, UrlFields, Letters
  <2>7. UrlTyped'
    BY <2>1, <2>3, <2>5, <2>6, AppendIs DEF UrlInv, UrlTyped
  <2>8. \A f \in UrlFields : /\ field'[f] = field[f] \/ field'[f] # <<>>
                             /\ field[f] # <<>> => field'[f] # <<>>
    <3>1. \A f \in UrlFields : Append(field[f], ch) # <<>>
      BY <2>6, AppendIs
    <3> QED
      BY <2>3, <3>1
  <2>9. FieldsFollow'
    <3>1. \A f \in UrlFields : (state' \in Delimiters \cup {Dead} \/ f # FieldOf(state')) => field'[f] = field[f]
      BY <2>3
    <3>2. FieldsFollow
      BY DEF UrlInv
    <3>3. state' \in Openings => field'["host"] = <<>>
      BY <2>5, <2>6, <3>1, <3>2 DEF FieldsFollow, Openings, FieldOf, Servers
    <3>4. state' \in Openings \cup Servers => field'["path"] = <<>>
      BY <2>5, <2>6, <3>1, <3>2 DEF FieldsFollow, Openings, FieldOf, Servers
    <3>5. state' \in Openings \cup Servers \cup {"path", "query_start"} => field'["query"] = <<>>
      BY <2>5, <2>6, <3>1, <3>2 DEF FieldsFollow, Openings, FieldOf, Servers, Delimiters
    <3>6. state' \in UrlStates \ {"fragment", Dead} => field'["fragment"] = <<>>
      <4>1. state' \in UrlStates \ {"fragment", Dead} =>
               state \in UrlStates \ {"fragment", Dead} /\ FieldOf(state') # "fragment"
        BY <2>2, <2>5 DEF UrlStates, Openings, Servers, FieldOf, Dead
      <4> QED
        BY <2>6, <3>1, <3>2, <4>1 DEF FieldsFollow
    <3>7. state' \notin Delimiters \cup {"start", Dead} => old' = FieldOf(state')
      BY <2>3
    <3> QED
      BY <2>5, <3>3, <3>4, <3>5, <3>6, <3>7 DEF FieldsFollow
  <2>10. FieldsNeed'
    <3>1. FieldsNeed
      BY DEF UrlInv
    <3>2. \A f \in UrlFields : (state' \notin Delimiters \cup {Dead} /\ f = FieldOf(state')) => field'[f] # <<>>
      BY <2>3, <2>6, AppendIs
    <3>3. state' \in Openings \cup Servers => field'["schema"] # <<>>
      <4>1. CASE state' = "schema"
        BY <2>6, <3>2, <4>1 DEF FieldOf, Servers, Delimiters, Dead
      <4>2. CASE state' \in (Openings \cup Servers) \ {"schema"}
        BY <2>5, <2>6, <2>8, <3>1, <4>2 DEF FieldsNeed, Openings, Servers
      <4> QED
        BY <4>1, <4>2
    <3>4. state' \in Servers => field'["host"] # <<>>
      BY <2>6, <3>2 DEF FieldOf, Servers, Delimiters, Dead
    <3>5. field'["host"] # <<>> => field'["schema"] # <<>>
      <4>1. CASE state' \in Servers
        BY <3>3, <4>1
      <4>2. CASE state' \notin Servers
        <5>1. field'["host"] = field["host"]
          BY <2>3, <2>5, <2>6, <4>2 DEF FieldOf, Servers, UrlStates, Openings, Delimiters, Dead
        <5> QED
          BY <2>6, <2>8, <3>1, <5>1 DEF FieldsNeed
      <4> QED
        BY <4>1, <4>2
    <3>6. foundAt' = "yes" => field'["host"] # <<>>
      BY <2>1, <2>6, <2>8, <3>1, <3>4 DEF FieldsNeed, Servers
    <3>7. state' = "query" => field'["query"] # <<>>
      BY <2>6, <3>2 DEF FieldOf, Servers, Delimiters, Dead
    <3>8. state' = "fragment" => field'["fragment"] # <<>>
      BY <2>6, <3>2 DEF FieldOf, Servers, Delimiters, Dead
    <3> QED
      BY <3>3, <3>4, <3>5, <3>6, <3>7, <3>8 DEF FieldsNeed
  <2> QED
    BY <2>4, <2>7, <2>9, <2>10 DEF UrlInv
<1>2. CASE NextUrl
  <2>1. /\ url' = <<>> /\ state' = "start" /\ foundAt' = "no"
        /\ field' = [f \in UrlFields |-> <<>>]
    BY <1>2 DEF NextUrl
  <2>2. \A f \in {"schema", "host", "path", "query", "fragment"} : field'[f] = <<>>
    BY <2>1 DEF UrlFields
  <2>3. UrlTyped'
    BY <2>1, LettersAre DEF UrlTyped, UrlStates, Openings
  <2>4. FieldsFollow'
    BY <2>1, <2>2 DEF FieldsFollow, Openings
  <2>5. FieldsNeed'
    BY <2>1, <2>2 DEF FieldsNeed, Openings, Servers
  <2>6. UpToPath' = <<>>
    <3>1. SchemaEnd' = <<>> /\ field'["host"] = <<>> /\ field'["path"] = <<>>
      BY <2>2 DEF SchemaEnd
    <3>2. <<>> \o <<>> = <<>>
      BY LettersAre, ConcatIs
    <3> QED
      BY <3>1, <3>2 DEF UpToPath
  <2>7. UrlReads(url)'
    BY <2>1, <2>2, <2>6 DEF UrlReads, Servers
  <2> QED
    BY <2>3, <2>4, <2>5, <2>7 DEF UrlInv
<1>3. CASE UNCHANGED urlVars
  <2>1. /\ UNCHANGED <<url, state, foundAt, old, field>>
    BY <1>3 DEF urlVars
  <2>2. UrlTyped' /\ FieldsFollow' /\ FieldsNeed'
    BY <2>1 DEF UrlInv, UrlTyped, FieldsFollow, FieldsNeed
  <2>3. UpToPath' = UpToPath /\ Queries' = Queries
    BY <2>1 DEF UpToPath, SchemaEnd, Queries
  <2>4. UrlReads(url)'
    BY <2>1, <2>3 DEF UrlInv, UrlReads
  <2> QED
    BY <2>2, <2>4 DEF UrlInv
<1> QED
  BY <1>1, <1>2, <1>3 DEF UrlNext

\* A server part that is accepted is in the URL with its parts.
LEMMA ReadIsParts ==
    ASSUME UrlInv, Result = "ok", url # <<>>
    PROVE  PartsMakeTheUrl
<1> DEFINE S == field["schema"]
           H == field["host"]
           P == field["path"]
<1>1. /\ state \in UrlStates /\ field \in [UrlFields -> Seq(Letters)] /\ foundAt \in {"yes", "no"}
      /\ H \in Seq(Letters) /\ P \in Seq(Letters) /\ field["fragment"] \in Seq(Letters)
      /\ SchemaEnd \in Seq(Letters) /\ UpToPath \in Seq(Letters)
      /\ \A q \in Queries : q \in Seq(Letters)
  BY EndsAre, QueriesAre DEF UrlInv, UrlTyped
<1>2. /\ FieldsFollow /\ FieldsNeed /\ UrlReads(url)
  BY DEF UrlInv
<1>3. /\ state # Dead /\ (S # <<>> => H # <<>>)
      /\ H # <<>> => Server.state \notin Unfinished \cup {Dead}
  BY DEF Result
<1>4. SchemaEnd \in Schemas /\ P \in {field["path"], PathOf}
  BY DEF SchemaEnd, Schemas
<1>5. \E u \in Users, h \in Hosts, p \in Ports :
         u \in Seq(Letters) /\ h \in Seq(Letters) /\ p \in Seq(Letters) /\ H = (u \o h) \o p
  <2>1. CASE H = <<>>
    <3>1. foundAt # "yes" /\ Authority = NoServer
      BY <1>2, <2>1 DEF FieldsNeed, Authority
    <3>2. Authority.host = <<>> /\ Authority.port = <<>>
      BY <3>1 DEF NoServer
    <3>3. <<>> \in Users /\ <<>> \in Hosts /\ <<>> \in Ports
      BY <3>1, <3>2 DEF Users, Hosts, Ports, PortOf
    <3>4. (<<>> \o <<>>) \o <<>> = <<>> /\ <<>> \in Seq(Letters)
      BY LettersAre, ConcatIs
    <3> QED
      BY <2>1, <3>3, <3>4, Zenon
  <2>2. CASE H # <<>>
    <3>1. Server = ParseHost(H, foundAt) /\ Authority = Server.parts
      BY <2>2 DEF Server, Authority
    <3>0. LET h == ParseHost(H, foundAt) IN
            /\ h \in HostResults
            /\ \E x \in HostsOf(h),
                  p \in IF h.parts["port"] = <<>> THEN {<<>>} ELSE {<<":">> \o h.parts["port"]} :
                  H = (UserOf(h, foundAt) \o x) \o p
      <4>1. ParseHost(H, foundAt).state \notin Unfinished \cup {Dead}
        BY <1>3, <2>2, <3>1
      <4> HIDE DEF H
      <4> QED
        BY <1>1, <4>1, HostIsParts
    <3>2. Server \in HostResults
      BY <3>0, <3>1
    <3>3. PICK x \in HostsOf(Server),
               p \in IF Server.parts["port"] = <<>> THEN {<<>>} ELSE {<<":">> \o Server.parts["port"]} :
               H = (UserOf(Server, foundAt) \o x) \o p
      <4> HIDE DEF H
      <4> QED
        BY <3>0, <3>1
    <3>4. UserOf(Server, foundAt) \in Users
      BY <3>1 DEF UserOf, Users
    <3>5. p \in Ports
      BY <3>1 DEF Ports, PortOf
    <3>6. /\ Server.parts["userinfo"] \in Seq(Letters) /\ Server.parts["host"] \in Seq(Letters)
          /\ Server.parts["port"] \in Seq(Letters)
      BY <3>2 DEF HostResults, HostFields
    <3>7. <<"[">> \o Server.parts["host"] \in Seq(Letters) /\ "]" \in Letters
      BY <3>6, ConcatIs, LettersAre
    <3>8. Append(<<"[">> \o Server.parts["host"], "]") = <<"[">> \o Server.parts["host"] \o <<"]">>
      BY <3>7, AppendIs
    <3>9. x \in Hosts
      BY <3>1, <3>8 DEF HostsOf, Hosts
    <3>10. UserOf(Server, foundAt) \in Seq(Letters) /\ x \in Seq(Letters)
      <4>1. Server.parts["userinfo"] \o <<"@">> \in Seq(Letters) /\ <<>> \in Seq(Letters)
        BY <3>6, ConcatIs, LettersAre
      <4>2. Append(<<"[">> \o Server.parts["host"], "]") \in Seq(Letters)
        BY <3>7, AppendIs
      <4> HIDE DEF H
      <4>3. x = Server.parts["host"] \/ x = Append(<<"[">> \o Server.parts["host"], "]")
        BY DEF HostsOf
      <4>4. UserOf(Server, foundAt) = Server.parts["userinfo"] \o <<"@">> \/ UserOf(Server, foundAt) = <<>>
        BY DEF UserOf
      <4> QED
        BY <3>6, <4>1, <4>2, <4>3, <4>4
    <3>11. p \in Seq(Letters)
      <4>1. <<":">> \o Server.parts["port"] \in Seq(Letters) /\ <<>> \in Seq(Letters)
        BY <3>6, ConcatIs, LettersAre
      <4>2. p = <<>> \/ p = <<":">> \o Server.parts["port"]
        OBVIOUS
      <4> QED
        BY <4>1, <4>2
    <3> QED
      BY <3>3, <3>4, <3>5, <3>9, <3>10, <3>11
  <2> QED
    BY <2>1, <2>2
<1>6. \E q \in Queries, f \in Fragments :
         f \in Seq(Letters) /\ url = (UpToPath \o q) \o f
  <2>1. CASE state \in Openings
    <3>1. state = "start" \/ (H = <<>> /\ S # <<>>)
      BY <1>2, <2>1 DEF FieldsFollow, FieldsNeed
    <3>2. state = "start" => url = S /\ S = <<>>
      BY <1>2 DEF UrlReads, FieldsFollow
    <3> QED
      BY <1>3, <3>1, <3>2
  <2>2. CASE state \in Servers \cup {"path"}
    <3>1. field["query"] = <<>> /\ field["fragment"] = <<>> /\ url = UpToPath
      BY <1>1, <1>2, <2>2 DEF FieldsFollow, UrlReads, UrlStates, Servers, Dead
    <3>2. url = (UpToPath \o <<>>) \o <<>>
      BY <1>1, <3>1, ConcatIs
    <3> QED
      BY <3>1, <3>2, LettersAre DEF Queries, Fragments
  <2>3. CASE state \in {"query_start", "query"}
    <3>1. PICK q \in Queries : url = UpToPath \o q
      BY <1>2, <2>3 DEF Queries, UrlReads, FieldsFollow, FieldsNeed
    <3>2. field["fragment"] = <<>>
      BY <1>1, <1>2, <2>3 DEF FieldsFollow, Dead
    <3>3. url = (UpToPath \o q) \o <<>>
      BY <1>1, <3>1, ConcatIs
    <3> QED
      BY <3>2, <3>3, LettersAre DEF Fragments
  <2>4. CASE state \in {"fragment_start", "fragment"}
    <3>1. PICK q \in Queries, n \in 1 .. Len(url) :
             /\ state = "fragment_start" => url = (UpToPath \o q) \o Hash(n)
             /\ state = "fragment" => url = (UpToPath \o q) \o (Hash(n) \o field["fragment"])
      BY <1>2, <2>4 DEF UrlReads
    <3>2. Len(url) \in Nat
      BY DEF UrlInv, UrlTyped
    <3>3. Hash(n) \in Hashes /\ Hash(n) \in Seq(Letters)
      <4>1. n \in 1 .. Len(url) /\ n \in Nat
        BY <3>2
      <4>2. Hash(n) \in Hashes
        BY <4>1, Zenon DEF Hashes, Hash
      <4> QED
        BY <4>1, <4>2, HashIs
    <3>4. CASE state = "fragment_start"
      <4>1. field["fragment"] = <<>>
        BY <1>1, <1>2, <3>4 DEF FieldsFollow, Dead
      <4> QED
        BY <3>1, <3>3, <3>4, <4>1 DEF Fragments
    <3>5. CASE state = "fragment"
      <4>1. field["fragment"] # <<>>
        BY <1>2, <3>5 DEF FieldsNeed
      <4> QED
        BY <1>1, <3>1, <3>3, <3>5, <4>1, ConcatIs DEF Fragments
    <3> QED
      BY <2>4, <3>4, <3>5
  <2> QED
    BY <1>1, <1>3, <2>1, <2>2, <2>3, <2>4 DEF UrlStates
<1>7. PICK u \in Users, h \in Hosts, p \in Ports :
         u \in Seq(Letters) /\ h \in Seq(Letters) /\ p \in Seq(Letters) /\ H = (u \o h) \o p
  BY <1>5
<1>8. PICK q \in Queries, f \in Fragments :
         f \in Seq(Letters) /\ url = (UpToPath \o q) \o f
  BY <1>6
<1>9. SchemaEnd \o H = ((SchemaEnd \o u) \o h) \o p
  <2>1. \A r, s, t \in Seq(Letters) : (r \o s) \o t = r \o (s \o t)
    BY LettersAssociate
  <2>2. u \o h \in Seq(Letters)
    BY <1>7, ConcatIs
  <2>3. SchemaEnd \o ((u \o h) \o p) = (SchemaEnd \o (u \o h)) \o p
    <3> DEFINE v == u \o h
    <3>1. v \in Seq(Letters)
      BY <2>2
    <3> HIDE DEF v
    <3>2. SchemaEnd \in Seq(Letters) /\ p \in Seq(Letters)
      BY <1>1, <1>7
    <3>3. (SchemaEnd \o v) \o p = SchemaEnd \o (v \o p)
      BY <2>1, <3>1, <3>2, Zenon
    <3> QED
      BY <3>3 DEF v
  <2>4. SchemaEnd \o (u \o h) = (SchemaEnd \o u) \o h
    <3>1. SchemaEnd \in Seq(Letters) /\ u \in Seq(Letters) /\ h \in Seq(Letters)
      BY <1>1, <1>7
    <3> QED
      BY <2>1, <3>1
  <2> QED
    BY <1>7, <2>3, <2>4
<1>10. url = SchemaEnd \o u \o h \o p \o P \o q \o f
  BY <1>8, <1>9, Zenon DEF UpToPath
<1> QED
  BY <1>4, <1>7, <1>8, <1>10 DEF PartsMakeTheUrl

(***************************************************************************)
(* The parts of an URL that is accepted, put together with the delimiters  *)
(* between them, are the URL: for URLs of any length and any characters.   *)
(***************************************************************************)
THEOREM PartsMakeTheUrlCorrect == UrlSpec => []PartsMakeTheUrl
<1>1. UrlInv => PartsMakeTheUrl
  BY ReadIsParts DEF PartsMakeTheUrl
<1> QED
  BY <1>1, InitUrl, StepUrl, PTL DEF UrlSpec

-----------------------------------------------------------------------------
(* Base64 texts, group by group.                                           *)

Octets == 0 .. 255
Symbols == 0 .. 64

\* The number of groups, and the text that they make.
GroupCount(data) == (Len(data) + 2) \div 3

IsText(text, data) ==
    /\ text \in Seq(Symbols)
    /\ Len(text) = 4 * GroupCount(data)
    /\ \A g \in 0 .. GroupCount(data) - 1 : \A i \in 1 .. 4 :
          text[4 * g + i] = EncodeGroup(From(3 * g + 1, data, 3))[i]

LEMMA FromIs ==
    ASSUME NEW data \in Seq(Octets), NEW p \in 1 .. Len(data), NEW size \in Nat \ {0}
    PROVE  /\ From(p, data, size) \in Seq(Octets)
           /\ Len(From(p, data, size)) = IF p + size - 1 < Len(data) THEN size
                                                                    ELSE Len(data) - p + 1
           /\ \A i \in 1 .. Len(From(p, data, size)) : From(p, data, size)[i] = data[p + i - 1]
<1> DEFINE e == IF p + size - 1 < Len(data) THEN p + size - 1 ELSE Len(data)
<1>1. p \in Nat /\ Len(data) \in Nat /\ p >= 1 /\ p <= e /\ e <= Len(data) /\ e \in Nat
  OBVIOUS
<1>2. From(p, data, size) = SubSeq(data, p, e)
  BY DEF From
<1>3. e - p + 1 = IF p + size - 1 < Len(data) THEN size ELSE Len(data) - p + 1
  BY <1>1
<1> HIDE DEF e
<1>4. /\ SubSeq(data, p, e) \in Seq(Octets) /\ Len(SubSeq(data, p, e)) = e - p + 1
      /\ \A i \in 1 .. e - p + 1 : SubSeq(data, p, e)[i] = data[p + i - 1]
  BY <1>1
<1> QED
  BY <1>2, <1>3, <1>4

\* What is taken from a piece is taken from the whole.
LEMMA FromPiece ==
    ASSUME NEW data \in Seq(Octets), NEW p \in 1 .. Len(data), NEW size \in Nat \ {0},
           NEW q \in 1 .. Len(From(p, data, size)), NEW short \in Nat \ {0},
           q + short - 1 <= size
    PROVE  /\ p + q - 1 \in 1 .. Len(data)
           /\ From(q, From(p, data, size), short) = From(p + q - 1, data, short)
<1> DEFINE d == From(p, data, size)
           x == From(q, d, short)
           r == p + q - 1
           y == From(r, data, short)
<1> HIDE DEF r, x, y
<1>1. /\ d \in Seq(Octets)
      /\ Len(d) = IF p + size - 1 < Len(data) THEN size ELSE Len(data) - p + 1
      /\ \A i \in 1 .. Len(d) : d[i] = data[p + i - 1]
  BY FromIs
<1>2. /\ q \in 1 .. Len(d) /\ q \in Nat /\ Len(d) \in Nat
      /\ p \in Nat /\ p >= 1 /\ p <= Len(data) /\ Len(data) \in Nat
  <2>1. Len(d) \in Nat /\ Len(data) \in Nat
    BY <1>1
  <2> QED
    BY <2>1
<1> HIDE DEF d
<1>3. r \in 1 .. Len(data)
  BY <1>1, <1>2 DEF r
<1>4. /\ x \in Seq(Octets)
      /\ Len(x) = IF q + short - 1 < Len(d) THEN short ELSE Len(d) - q + 1
      /\ \A i \in 1 .. Len(x) : x[i] = d[q + i - 1]
  BY <1>1, <1>2, FromIs DEF x
<1>5. /\ y \in Seq(Octets)
      /\ Len(y) = IF r + short - 1 < Len(data) THEN short ELSE Len(data) - r + 1
      /\ \A i \in 1 .. Len(y) : y[i] = data[r + i - 1]
  BY <1>3, FromIs DEF y
<1>6. Len(x) = Len(y) /\ Len(x) \in Nat /\ q + Len(x) - 1 <= Len(d)
  <2> DEFINE n == Len(data)
             m == Len(d)
             k == Len(x)
             l == Len(y)
  <2>1. /\ n \in Nat /\ p \in 1 .. n /\ m \in Nat /\ q \in 1 .. m
        /\ m = IF p + size - 1 < n THEN size ELSE n - p + 1
    BY <1>1, <1>2
  <2>2. k = (IF q + short - 1 < m THEN short ELSE m - q + 1)
    BY <1>4
  <2>3. l = (IF (p + q - 1) + short - 1 < n THEN short ELSE n - (p + q - 1) + 1)
    BY <1>5 DEF r
  <2> HIDE DEF n, m, k, l
  <2>4. k = l /\ k \in Nat /\ q + k - 1 <= m
    BY <2>1, <2>2, <2>3
  <2> QED
    BY <2>4 DEF k, l, m
<1>7. ASSUME NEW i \in 1 .. Len(x) PROVE x[i] = y[i]
  <2>1. q + i - 1 \in 1 .. Len(d) /\ p + (q + i - 1) - 1 = r + i - 1
    BY <1>2, <1>6 DEF r
  <2>2. x[i] = d[q + i - 1] /\ y[i] = data[r + i - 1]
    BY <1>4, <1>5, <1>6
  <2>3. d[q + i - 1] = data[p + (q + i - 1) - 1]
    BY <1>1, <2>1
  <2> QED
    BY <2>1, <2>2, <2>3
<1>8. x = y
  BY <1>4, <1>5, <1>6, <1>7, SeqEqual
<1> QED
  BY <1>3, <1>8 DEF d, x, y, r

LEMMA SextetsAre ==
    ASSUME NEW g \in Seq(Octets)
    PROVE  \A i \in 1 .. 4 : Sextets(g)[i] \in 0 .. 63
<1>1. At(g, 1) \in Octets /\ At(g, 2) \in Octets /\ At(g, 3) \in Octets
  <2>1. \A k \in 1 .. Len(g) : g[k] \in Octets
    OBVIOUS
  <2>2. Len(g) \in Nat
    OBVIOUS
  <2> QED
    BY <2>1, <2>2 DEF At, Octets
<1>2. \A a, b, c \in Octets : /\ a \div 4 \in 0 .. 63 /\ (a % 4) * 16 + b \div 16 \in 0 .. 63
                            /\ (b % 16) * 4 + c \div 64 \in 0 .. 63 /\ c % 64 \in 0 .. 63
  BY DEF Octets
<1> DEFINE a == At(g, 1)
           b == At(g, 2)
           c == At(g, 3)
<1> HIDE DEF a, b, c
<1>3. Sextets(g) = <<a \div 4, (a % 4) * 16 + b \div 16, (b % 16) * 4 + c \div 64, c % 64>>
  BY DEF Sextets, a, b, c
<1>4. ASSUME NEW u \in 0 .. 63, NEW v \in 0 .. 63, NEW w \in 0 .. 63, NEW x \in 0 .. 63
      PROVE  \A i \in 1 .. 4 : <<u, v, w, x>>[i] \in 0 .. 63
  <2>1. \A i \in 1 .. 4 : i = 1 \/ i = 2 \/ i = 3 \/ i = 4
    OBVIOUS
  <2>2. /\ <<u, v, w, x>>[1] = u /\ <<u, v, w, x>>[2] = v
        /\ <<u, v, w, x>>[3] = w /\ <<u, v, w, x>>[4] = x
    OBVIOUS
  <2> QED
    BY <2>1, <2>2
<1>5. /\ a \div 4 \in 0 .. 63 /\ (a % 4) * 16 + b \div 16 \in 0 .. 63
      /\ (b % 16) * 4 + c \div 64 \in 0 .. 63 /\ c % 64 \in 0 .. 63
  BY <1>1, <1>2 DEF a, b, c
<1> QED
  BY <1>3, <1>4, <1>5

LEMMA EncodeGroupIs ==
    ASSUME NEW g \in Seq(Octets), Len(g) \in 1 .. 3
    PROVE  /\ EncodeGroup(g) \in Seq(Symbols) /\ Len(EncodeGroup(g)) = 4
           /\ \A i \in 1 .. 4 : EncodeGroup(g)[i] = Pad <=> i > Len(g) + 1
           /\ \A i \in 1 .. Len(g) + 1 : EncodeGroup(g)[i] = Sextets(g)[i]
<1> DEFINE s == Sextets(g)
           n == Len(g)
<1>1. \A i \in 1 .. 4 : s[i] \in 0 .. 63
  BY SextetsAre
<1>2. n \in 1 .. 3
  OBVIOUS
<1> HIDE DEF s, n
<1> DEFINE e == [k \in 1 .. 4 |-> IF k <= n + 1 THEN s[k] ELSE 64]
<1>3. EncodeGroup(g) = e
  BY DEF EncodeGroup, Pad, s, n
<1>4. \A i \in 1 .. 4 : e[i] = IF i <= n + 1 THEN s[i] ELSE 64
  OBVIOUS
<1>5. e \in Seq(Symbols) /\ Len(e) = 4
  BY <1>1 DEF Symbols
<1> HIDE DEF e
<1>6. \A x \in 0 .. 63 : x # 64
  OBVIOUS
<1>7. ASSUME NEW i \in 1 .. 4 PROVE e[i] = 64 <=> i > n + 1
  <2>1. s[i] # 64
    BY <1>1, <1>6
  <2>2. e[i] = IF i <= n + 1 THEN s[i] ELSE 64
    BY <1>4
  <2>3. i > n + 1 <=> ~ (i <= n + 1)
    BY <1>2
  <2> QED
    BY <2>1, <2>2, <2>3
<1>8. \A i \in 1 .. n + 1 : e[i] = s[i]
  BY <1>2, <1>4
<1> QED
  BY <1>3, <1>5, <1>7, <1>8 DEF Pad, s, n

LEMMA GroupIs ==
    ASSUME NEW data \in Seq(Octets), NEW g \in 0 .. GroupCount(data) - 1
    PROVE  /\ 3 * g + 1 \in 1 .. Len(data)
           /\ From(3 * g + 1, data, 3) \in Seq(Octets) /\ Len(From(3 * g + 1, data, 3)) \in 1 .. 3
           /\ Len(From(3 * g + 1, data, 3)) = IF 3 * g + 3 < Len(data) THEN 3 ELSE Len(data) - 3 * g
<1> DEFINE p == 3 * g + 1
<1>1. Len(data) \in Nat /\ g \in Nat /\ p \in 1 .. Len(data)
  BY DEF GroupCount
<1>2. p + 3 - 1 = 3 * g + 3 /\ Len(data) - p + 1 = Len(data) - 3 * g
  BY <1>1
<1>3. 3 \in Nat \ {0}
  OBVIOUS
<1> HIDE DEF p
<1>4. /\ From(p, data, 3) \in Seq(Octets)
      /\ Len(From(p, data, 3)) = IF p + 3 - 1 < Len(data) THEN 3 ELSE Len(data) - p + 1
  BY <1>1, <1>3, FromIs
<1>5. Len(From(p, data, 3)) \in 1 .. 3
  <2> DEFINE l == Len(From(p, data, 3))
             n == Len(data)
  <2>1. l = IF p + 3 - 1 < n THEN 3 ELSE n - p + 1
    BY <1>4
  <2>2. n \in Nat /\ p \in 1 .. n
    BY <1>1
  <2> HIDE DEF l, n
  <2>3. l \in 1 .. 3
    BY <2>1, <2>2
  <2> QED
    BY <2>3 DEF l
<1> QED
  BY <1>1, <1>2, <1>4, <1>5 DEF p

\* The sketch's own encoder.
LEMMA ChunkedIsText ==
    ASSUME NEW data \in Seq(Octets)
    PROVE  IsText(Base64EncodeChunked(data), data)
<1> DEFINE N == GroupCount(data)
           s == [n \in 1 .. N |-> EncodeGroup(From((n - 1) * 3 + 1, data, 3))]
           off == [k \in 0 .. N |-> 4 * k]
<1>1. N \in Nat
  <2>1. Len(data) \in Nat
    OBVIOUS
  <2> QED
    BY <2>1 DEF GroupCount
<1>2. Base64EncodeChunked(data) = FlattenSeq(s)
  <2>1. (Len(data) + 3 - 1) \div 3 = N
    <3>1. Len(data) \in Nat
      OBVIOUS
    <3> QED
      BY <3>1 DEF GroupCount
  <2>2. Groups(data, 3) = [n \in 1 .. N |-> From((n - 1) * 3 + 1, data, 3)]
    BY <2>1 DEF Groups
  <2> QED
    BY <2>2 DEF Base64EncodeChunked
<1>3. ASSUME NEW n \in 1 .. N
      PROVE  /\ s[n] = EncodeGroup(From(3 * (n - 1) + 1, data, 3)) /\ n - 1 \in 0 .. N - 1
             /\ s[n] \in Seq(Symbols) /\ Len(s[n]) = 4
  <2> DEFINE g == n - 1
  <2>1. g \in 0 .. N - 1 /\ 3 * g + 1 = (n - 1) * 3 + 1
    BY <1>1
  <2>2. s[n] = EncodeGroup(From(3 * g + 1, data, 3))
    BY <2>1
  <2> HIDE DEF g, s
  <2>3. From(3 * g + 1, data, 3) \in Seq(Octets) /\ Len(From(3 * g + 1, data, 3)) \in 1 .. 3
    BY <2>1, GroupIs
  <2> QED
    BY <2>1, <2>2, <2>3, EncodeGroupIs DEF g
<1> HIDE DEF N
<1>4. s \in Seq(Seq(Symbols)) /\ Len(s) = N
  BY <1>1, <1>3
<1> HIDE DEF s
<1>5. /\ off \in [0 .. N -> Nat] /\ off[0] = 0
      /\ \A k \in 1 .. N : off[k] = off[k - 1] + Len(s[k])
  <2>1. off \in [0 .. N -> Nat] /\ off[0] = 0
    BY <1>1
  <2>2. ASSUME NEW k \in 1 .. N PROVE off[k] = off[k - 1] + Len(s[k])
    <3>1. k - 1 \in 0 .. N /\ k \in 0 .. N
      BY <1>1
    <3>2. off[k] = 4 * k /\ off[k - 1] = 4 * (k - 1)
      BY <3>1
    <3>3. Len(s[k]) = 4
      BY <1>3
    <3> HIDE DEF off
    <3> QED
      BY <3>2, <3>3
  <2> QED
    BY <2>1, <2>2
<1> HIDE DEF off
<1>6. /\ FlattenSeq(s) \in Seq(Symbols) /\ Len(FlattenSeq(s)) = off[N]
      /\ \A k \in 1 .. N : \A i \in 1 .. Len(s[k]) : FlattenSeq(s)[off[k - 1] + i] = s[k][i]
  <2>1. Offsets(off, s)
    BY <1>4, <1>5 DEF Offsets
  <2>2. Placed(FlattenSeq(s), off, s, Symbols)
    BY <1>4, <2>1, FlattenAt
  <2> QED
    BY <1>4, <2>2 DEF Placed
<1>7. ASSUME NEW g \in 0 .. N - 1, NEW i \in 1 .. 4
      PROVE  FlattenSeq(s)[4 * g + i] = EncodeGroup(From(3 * g + 1, data, 3))[i]
  <2>1. g + 1 \in 1 .. N /\ (g + 1) - 1 = g /\ g \in 0 .. N
    BY <1>1
  <2>2. s[g + 1] = EncodeGroup(From(3 * g + 1, data, 3)) /\ Len(s[g + 1]) = 4
    BY <1>3, <2>1
  <2>3. off[g] = 4 * g
    BY <2>1 DEF off
  <2>4. FlattenSeq(s)[off[(g + 1) - 1] + i] = s[g + 1][i]
    <3> DEFINE k == g + 1
    <3>1. k \in 1 .. N /\ i \in 1 .. Len(s[k])
      BY <2>1, <2>2
    <3> HIDE DEF k
    <3>2. FlattenSeq(s)[off[k - 1] + i] = s[k][i]
      BY <1>6, <3>1
    <3> QED
      BY <3>2 DEF k
  <2> QED
    BY <2>1, <2>2, <2>3, <2>4
<1>8. off[N] = 4 * N
  BY <1>1 DEF off
<1> QED
  BY <1>2, <1>6, <1>7, <1>8 DEF IsText, N

\* A position within one of the pieces of size m.
LEMMA PieceOf ==
    ASSUME NEW m \in Nat \ {0}, NEW t \in Nat
    PROVE  \E k \in Nat \ {0}, r \in 0 .. m - 1 : t = m * (k - 1) + r
<1> DEFINE q == t \div m
           r == t - m * q
<1>1. q \in Nat /\ r \in 0 .. m - 1
  OBVIOUS
<1>2. t = m * q + r
  BY <1>1
<1> HIDE DEF q, r
<1>3. q + 1 \in Nat \ {0} /\ (q + 1) - 1 = q
  BY <1>1
<1> QED
  BY <1>1, <1>2, <1>3

\* The chunks of the sketch, as many as are needed.
LEMMA ChunksAre ==
    ASSUME NEW n \in Nat, NEW m \in Nat \ {0}
    PROVE  LET N == (n + 3 * m - 1) \div (3 * m) IN
             /\ N \in Nat
             /\ n <= 3 * (m * N)
             /\ N > 0 => 3 * (m * (N - 1)) < n
<1> DEFINE c == 3 * m
           N == (n + c - 1) \div c
<1>1. c \in Nat /\ c > 0
  OBVIOUS
<1> HIDE DEF c
<1>2. N \in Nat /\ c * N >= n /\ (n > 0 => c * (N - 1) < n) /\ (N > 0 => n > 0)
  <2>1. \A a, b \in Nat : b > 0 => /\ b * ((a + b - 1) \div b) >= a
                                   /\ (a + b - 1) \div b \in Nat
                                   /\ a > 0 => b * ((a + b - 1) \div b - 1) < a
    OBVIOUS
  <2>2. n = 0 => N = 0
    <3>1. \A b \in Nat : b > 0 => (0 + b - 1) \div b = 0
      OBVIOUS
    <3> QED
      BY <1>1, <3>1
  <2> QED
    BY <1>1, <2>1, <2>2
<1> HIDE DEF N
<1>3. c * N = 3 * (m * N) /\ c * (N - 1) = 3 * (m * (N - 1))
  BY <1>2 DEF c
<1> QED
  BY <1>2, <1>3 DEF N, c

\* Data in N chunks of 3 * m bytes, the last one with what is left.
InChunks(data, m, N) == Len(data) <= 3 * (m * N) /\ (N > 0 => 3 * (m * (N - 1)) < Len(data))

Chunk(data, m, k) == From((k - 1) * (3 * m) + 1, data, 3 * m)

ChunkFacts(data, m, N, k, d) ==
    LET p == (k - 1) * (3 * m) + 1 IN
    /\ p = 3 * (m * (k - 1)) + 1 /\ p \in 1 .. Len(data)
    /\ d \in Seq(Octets) /\ Len(d) \in 1 .. 3 * m
    /\ k < N => Len(d) = 3 * m /\ GroupCount(d) = m
    /\ k = N => /\ Len(d) = Len(data) - 3 * (m * (N - 1))
                /\ GroupCount(d) = GroupCount(data) - m * (N - 1)

LEMMA ChunkIs ==
    ASSUME NEW data \in Seq(Octets), NEW m \in Nat \ {0}, NEW N \in Nat, NEW k \in 1 .. N,
           InChunks(data, m, N)
    PROVE  ChunkFacts(data, m, N, k, Chunk(data, m, k))
<1> DEFINE p == (k - 1) * (3 * m) + 1
           d == From(p, data, 3 * m)
           x == m * (k - 1)
           y == m * (N - 1)
           n == Len(data)
<1>0. d = Chunk(data, m, k)
  BY DEF Chunk
<1>1. n \in Nat /\ x \in Nat /\ y \in Nat /\ x <= y /\ p = 3 * x + 1
  <2>1. k - 1 \in Nat /\ N - 1 \in Nat /\ k - 1 <= N - 1
    OBVIOUS
  <2>2. \A a, b \in Nat : m * a \in Nat /\ (a <= b => m * a <= m * b)
    OBVIOUS
  <2>3. x \in Nat /\ y \in Nat /\ x <= y
    BY <2>1, <2>2
  <2>4. \A a \in Nat : a * (3 * m) = 3 * (m * a)
    OBVIOUS
  <2>5. (k - 1) * (3 * m) = 3 * x
    BY <2>1, <2>4
  <2> QED
    BY <2>3, <2>5
<1>2. k < N => x + m <= y
  <2>1. \A a, b \in Nat : a < b => m * a + m <= m * b
    OBVIOUS
  <2>2. k - 1 \in Nat /\ N - 1 \in Nat /\ (k < N => k - 1 < N - 1)
    OBVIOUS
  <2> QED
    BY <2>1, <2>2
<1>3. k = N => x = y
  OBVIOUS
<1>4. n <= 3 * y + 3 * m /\ 3 * y < n
  <2>1. m * N = y + m /\ N > 0
    OBVIOUS
  <2> QED
    BY <2>1 DEF InChunks
<1> HIDE DEF x, y, n, p
<1>5. p \in 1 .. n /\ 3 * m \in Nat \ {0}
  BY <1>1, <1>4
<1>6. d \in Seq(Octets) /\ Len(d) = IF p + 3 * m - 1 < n THEN 3 * m ELSE n - p + 1
  <2> DEFINE size == 3 * m
  <2> HIDE DEF size
  <2>1. From(p, data, size) \in Seq(Octets) /\ Len(From(p, data, size)) = IF p + size - 1 < n THEN size ELSE n - p + 1
    BY <1>5, FromIs DEF n, size
  <2> QED
    BY <2>1 DEF size
<1> DEFINE l == Len(d)
<1>7. l = IF p + 3 * m - 1 < n THEN 3 * m ELSE n - p + 1
  BY <1>6
<1>8. GroupCount(d) = (l + 2) \div 3 /\ GroupCount(data) = (n + 2) \div 3
  BY DEF GroupCount, n
<1> HIDE DEF d, l
<1>9. l \in 1 .. 3 * m
  BY <1>1, <1>5, <1>7
<1>10. k < N => l = 3 * m
  BY <1>1, <1>2, <1>4, <1>7
<1>11. k = N => l = n - 3 * y
  BY <1>1, <1>3, <1>4, <1>7
<1>12. k < N => GroupCount(d) = m
  BY <1>8, <1>10
<1>13. k = N => GroupCount(d) = GroupCount(data) - y
  BY <1>1, <1>8, <1>11
<1> QED
  BY <1>0, <1>1, <1>5, <1>6, <1>9, <1>10, <1>11, <1>12, <1>13 DEF ChunkFacts, l, p, x, y, n

\* The chunks, encoded one by one.
LEMMA FileIsText ==
    ASSUME bytes \in Seq(Octets)
    PROVE  IsText(FileData, bytes)
<1>1. PICK m \in Nat \ {0} : ChunkSize = 3 * m
  <2> DEFINE m == ChunkSize \div 3
  <2>1. ChunkSize = 3 * m /\ m \in Nat \ {0}
    BY Base64Assumption
  <2> QED
    BY <2>1
<1> DEFINE n == Len(bytes)
           N == (n + 3 * m - 1) \div (3 * m)
           G == GroupCount(bytes)
           d(k) == Chunk(bytes, m, k)
           s == [k \in 1 .. N |-> Base64EncodeChunked(d(k))]
           off == [k \in 0 .. N |-> IF k < N THEN 4 * (m * k) ELSE 4 * G]
<1>2. n \in Nat /\ G \in Nat /\ G = (n + 2) \div 3
  <2>1. n \in Nat
    OBVIOUS
  <2> HIDE DEF n
  <2> QED
    BY <2>1 DEF GroupCount, n
<1>3. N \in Nat /\ n <= 3 * (m * N) /\ (N > 0 => 3 * (m * (N - 1)) < n)
  BY <1>2, ChunksAre
<1>4. FileData = FlattenSeq(s)
  <2>1. Groups(bytes, ChunkSize) = [k \in 1 .. N |-> d(k)]
    BY <1>1 DEF Groups, Chunk
  <2> QED
    BY <2>1 DEF FileData
<1> HIDE DEF N, G
<1>5. ASSUME NEW k \in 1 .. N
      PROVE  LET p == (k - 1) * (3 * m) + 1 IN
             /\ p = 3 * (m * (k - 1)) + 1 /\ p \in 1 .. n
             /\ d(k) \in Seq(Octets) /\ Len(d(k)) \in 1 .. 3 * m
             /\ k < N => Len(d(k)) = 3 * m /\ GroupCount(d(k)) = m
             /\ k = N => /\ Len(d(k)) = n - 3 * (m * (N - 1))
                         /\ GroupCount(d(k)) = G - m * (N - 1)
  <2>1. InChunks(bytes, m, N)
    BY <1>3 DEF InChunks
  <2>2. ChunkFacts(bytes, m, N, k, Chunk(bytes, m, k))
    BY <1>3, <2>1, ChunkIs
  <2> QED
    BY <2>2 DEF ChunkFacts, G
<1> HIDE DEF d
<1>6. ASSUME NEW k \in 1 .. N PROVE s[k] = Base64EncodeChunked(d(k)) /\ IsText(s[k], d(k))
  BY <1>5, ChunkedIsText
<1>7. s \in Seq(Seq(Symbols)) /\ Len(s) = N
  <2>1. \A k \in 1 .. N : s[k] \in Seq(Symbols)
    BY <1>6 DEF IsText
  <2> QED
    BY <1>3, <2>1
<1> HIDE DEF s
<1>8. /\ off \in [0 .. N -> Nat] /\ \A k \in 0 .. N - 1 : off[k] = 4 * (m * k)
      /\ off[N] = 4 * G
  <2>1. \A k \in 0 .. N : m * k \in Nat
    BY <1>3
  <2>2. off \in [0 .. N -> Nat]
    BY <1>2, <2>1
  <2> QED
    BY <1>3, <2>2
<1> HIDE DEF off
<1>9. Offsets(off, s)
  <2>1. off[0] = 0
    <3>1. CASE N = 0
      <4>1. n = 0
        BY <1>2, <1>3, <3>1
      <4>2. G = 0
        BY <1>2, <4>1
      <4> QED
        BY <1>8, <3>1, <4>2
    <3>2. CASE N # 0
      <4>1. 0 \in 0 .. N - 1 /\ 4 * (m * 0) = 0
        BY <1>3, <3>2
      <4> QED
        BY <1>8, <4>1
    <3> QED
      BY <3>1, <3>2
  <2>2. ASSUME NEW k \in 1 .. N PROVE off[k] = off[k - 1] + Len(s[k])
    <3>1. Len(s[k]) = 4 * GroupCount(d(k))
      BY <1>6 DEF IsText
    <3>2. k - 1 \in 0 .. N - 1 /\ off[k - 1] = 4 * (m * (k - 1))
      BY <1>3, <1>8
    <3>3. CASE k < N
      <4>1. off[k] = 4 * (m * k) /\ GroupCount(d(k)) = m
        BY <1>3, <1>5, <1>8, <3>3
      <4>2. m * k = m * (k - 1) + m
        OBVIOUS
      <4>3. m * (k - 1) \in Nat
        BY <1>3
      <4> QED
        BY <3>1, <3>2, <4>1, <4>2, <4>3
    <3>4. CASE k = N
      <4>1. off[k] = 4 * G /\ GroupCount(d(k)) = G - m * (k - 1)
        BY <1>5, <1>8, <3>4
      <4>2. m * (k - 1) \in Nat
        BY <1>3
      <4> QED
        BY <1>2, <3>1, <3>2, <4>1, <4>2
    <3> QED
      BY <1>3, <3>3, <3>4
  <2> QED
    BY <1>7, <1>8, <2>1, <2>2 DEF Offsets
<1>10. /\ FlattenSeq(s) \in Seq(Symbols) /\ Len(FlattenSeq(s)) = 4 * G
       /\ \A k \in 1 .. N : \A i \in 1 .. Len(s[k]) : FlattenSeq(s)[off[k - 1] + i] = s[k][i]
  <2>1. Placed(FlattenSeq(s), off, s, Symbols)
    BY <1>7, <1>9, FlattenAt
  <2> QED
    BY <1>7, <1>8, <2>1 DEF Placed
<1>11. ASSUME NEW t \in 0 .. G - 1, NEW i \in 1 .. 4
       PROVE  FlattenSeq(s)[4 * t + i] = EncodeGroup(From(3 * t + 1, bytes, 3))[i]
  <2>1. t \in Nat /\ 3 * t < n
    BY <1>2
  <2>2. PICK k \in Nat \ {0}, r \in 0 .. m - 1 : t = m * (k - 1) + r
    BY <2>1, PieceOf
  <2> DEFINE x == m * (k - 1)
             p == (k - 1) * (3 * m) + 1
  <2>3. k \in 1 .. N
    <3> SUFFICES ASSUME k > N PROVE FALSE
      BY <1>3
    <3>1. \A a, b \in Nat : a <= b => m * a <= m * b
      OBVIOUS
    <3>2. N \in Nat /\ k - 1 \in Nat /\ N <= k - 1
      BY <1>3
    <3>3. m * N <= m * (k - 1) /\ m * N \in Nat /\ m * (k - 1) \in Nat
      BY <3>1, <3>2
    <3>4. 3 * t >= 3 * (m * N)
      BY <2>2, <3>3
    <3> QED
      BY <1>2, <1>3, <2>1, <3>3, <3>4
  <2>4. /\ p = 3 * x + 1 /\ p \in 1 .. n /\ d(k) \in Seq(Octets) /\ Len(d(k)) \in Nat
        /\ GroupCount(d(k)) = IF k < N THEN m ELSE G - x
        /\ x \in Nat
    <3>1. x \in Nat
      OBVIOUS
    <3>2. k < N \/ k = N
      BY <1>3, <2>3
    <3> QED
      BY <1>5, <2>3, <3>1, <3>2
  <2> HIDE DEF x
  <2>5. r \in 0 .. GroupCount(d(k)) - 1 /\ t = x + r
    BY <1>2, <2>2, <2>4 DEF x
  <2>6. s[k][4 * r + i] = EncodeGroup(From(3 * r + 1, d(k), 3))[i] /\ Len(s[k]) = 4 * GroupCount(d(k))
    BY <1>6, <2>3, <2>5 DEF IsText
  <2>7. FlattenSeq(s)[off[k - 1] + (4 * r + i)] = s[k][4 * r + i]
    <3> DEFINE j == 4 * r + i
    <3>1. j \in 1 .. Len(s[k])
      <4>1. GroupCount(d(k)) \in Nat
        BY <1>2, <2>4
      <4> QED
        BY <2>5, <2>6, <4>1
    <3> HIDE DEF j
    <3>2. FlattenSeq(s)[off[k - 1] + j] = s[k][j]
      BY <1>10, <2>3, <3>1
    <3> QED
      BY <3>2 DEF j
  <2>8. off[k - 1] = 4 * x
    <3>1. k - 1 \in 0 .. N - 1
      BY <1>3, <2>3
    <3> QED
      BY <1>8, <3>1 DEF x
  <2>9. off[k - 1] + (4 * r + i) = 4 * t + i
    BY <2>4, <2>5, <2>8
  <2>10. From(3 * r + 1, d(k), 3) = From(3 * t + 1, bytes, 3)
    <3> DEFINE q == 3 * r + 1
               c == 3 * m
    <3>1. q \in 1 .. Len(d(k))
      <4> DEFINE l == Len(d(k))
      <4>1. l \in Nat /\ r \in 0 .. (l + 2) \div 3 - 1
        BY <2>4, <2>5 DEF GroupCount
      <4> HIDE DEF l
      <4>2. q \in 1 .. l
        BY <4>1
      <4> QED
        BY <4>2 DEF l
    <3>2. q + 3 - 1 <= c /\ c \in Nat \ {0} /\ 3 \in Nat \ {0}
      OBVIOUS
    <3>3. p + q - 1 = 3 * t + 1
      BY <2>4, <2>5
    <3>4. d(k) = From(p, bytes, c) /\ p \in 1 .. Len(bytes)
      BY <2>4 DEF d, Chunk
    <3> HIDE DEF q, c, p
    <3>5. From(q, From(p, bytes, c), 3) = From(p + q - 1, bytes, 3)
      BY <3>1, <3>2, <3>4, FromPiece
    <3> QED
      BY <3>3, <3>4, <3>5 DEF q
  <2> QED
    BY <2>6, <2>7, <2>9, <2>10
<1> QED
  BY <1>4, <1>10, <1>11 DEF IsText, G

\* A group of at most three bytes, encoded with room for four symbols.
LEMMA SmallGroup ==
    ASSUME NEW x \in Seq(Octets), Len(x) \in 1 .. 3
    PROVE  B64Encode(x, 4) = EncodeGroup(x)
<1> DEFINE t == Base64EncodeChunked(x)
           e == EncodeGroup(x)
           l == Len(x)
<1>1. l \in 1 .. 3
  OBVIOUS
<1> HIDE DEF l
<1>2. ~ (4 < (Len(x) * 8) \div 6)
  <2>1. ~ (4 < (l * 8) \div 6)
    BY <1>1
  <2> QED
    BY <2>1 DEF l
<1>3. B64Encode(x, 4) = t
  BY <1>2 DEF B64Encode, Base64EncodeChunked
<1>4. IsText(t, x)
  BY ChunkedIsText
<1>5. GroupCount(x) = 1
  <2>1. (l + 2) \div 3 = 1
    BY <1>1
  <2> QED
    BY <2>1 DEF GroupCount, l
<1>6. From(3 * 0 + 1, x, 3) = x
  <2>1. 3 * 0 + 1 = 1 /\ (IF 1 + 3 - 1 < Len(x) THEN 1 + 3 - 1 ELSE Len(x)) = Len(x)
    <3>1. (IF 1 + 3 - 1 < l THEN 1 + 3 - 1 ELSE l) = l
      BY <1>1
    <3> QED
      BY <3>1 DEF l
  <2>2. SubSeq(x, 1, Len(x)) = x
    OBVIOUS
  <2> QED
    BY <2>1, <2>2 DEF From
<1> HIDE DEF t, e
<1>7. /\ e \in Seq(Symbols) /\ Len(e) = 4
  BY EncodeGroupIs DEF e
<1>8. t \in Seq(Symbols) /\ Len(t) = 4
  BY <1>4, <1>5 DEF IsText
<1>9. ASSUME NEW i \in 1 .. 4 PROVE t[i] = e[i]
  <2>1. 0 \in 0 .. GroupCount(x) - 1 /\ 4 * 0 + i = i
    BY <1>5
  <2>2. t[4 * 0 + i] = EncodeGroup(From(3 * 0 + 1, x, 3))[i]
    BY <1>4, <2>1 DEF IsText
  <2> QED
    BY <1>6, <2>1, <2>2 DEF e
<1>10. t = e
  BY <1>7, <1>8, <1>9, SeqEqual
<1> QED
  BY <1>3, <1>10 DEF e

\* The first q groups of a text.
IsPart(text, q, data) ==
    /\ text \in Seq(Symbols) /\ Len(text) = 4 * q
    /\ \A g \in 0 .. q - 1 : \A i \in 1 .. 4 :
          text[4 * g + i] = EncodeGroup(From(3 * g + 1, data, 3))[i]

LEMMA PartGrows ==
    ASSUME NEW data \in Seq(Octets), NEW text, NEW q \in Nat, IsPart(text, q, data),
           NEW x \in Seq(Octets), Len(x) \in 1 .. 3, x = From(3 * q + 1, data, 3)
    PROVE  IsPart(text \o EncodeGroup(x), q + 1, data)
<1> DEFINE e == EncodeGroup(x)
           u == text \o e
<1>1. e \in Seq(Symbols) /\ Len(e) = 4
  BY EncodeGroupIs
<1>2. text \in Seq(Symbols) /\ Len(text) = 4 * q
  BY DEF IsPart
<1>3. u \in Seq(Symbols) /\ Len(u) = 4 * (q + 1)
  <2> HIDE DEF e
  <2>1. text \o e \in Seq(Symbols) /\ Len(text \o e) = Len(text) + Len(e)
    BY <1>1, <1>2, ConcatProperties
  <2> QED
    BY <1>1, <1>2, <2>1
<1>4. ASSUME NEW g \in 0 .. (q + 1) - 1, NEW i \in 1 .. 4
      PROVE  u[4 * g + i] = EncodeGroup(From(3 * g + 1, data, 3))[i]
  <2> DEFINE j == 4 * g + i
  <2> HIDE DEF e
  <2>1. j \in 1 .. Len(text) + Len(e)
    BY <1>1, <1>2
  <2>2. u[j] = IF j <= Len(text) THEN text[j] ELSE e[j - Len(text)]
    <3> HIDE DEF j
    <3> QED
      BY <1>1, <1>2, <2>1, ConcatProperties
  <2>3. CASE g = q
    <3>1. ~ (j <= Len(text)) /\ j - Len(text) = i
      BY <1>2, <2>3
    <3> HIDE DEF j, u
    <3>2. u[j] = e[i]
      BY <2>2, <3>1
    <3> QED
      BY <2>3, <3>2 DEF e, j
  <2>4. CASE g # q
    <3>1. j <= Len(text) /\ g \in 0 .. q - 1
      BY <1>2, <2>4
    <3> HIDE DEF u
    <3> QED
      BY <2>2, <3>1 DEF IsPart
  <2> QED
    BY <2>3, <2>4
<1> HIDE DEF u
<1>5. IsPart(u, q + 1, data)
  BY <1>3, <1>4 DEF IsPart
<1> QED
  BY <1>5 DEF u

\* sendBasicAuth between two bytes.
Sending == {h \in [sent : Seq(Symbols), input : Seq(Octets)] : Len(h.input) < 3}

LEMMA SendByteIs ==
    ASSUME NEW h \in Sending, NEW byte \in Octets
    PROVE  /\ SendByte(h, byte) \in Sending
           /\ Len(h.input) < 2 =>
                 SendByte(h, byte).sent = h.sent /\ SendByte(h, byte).input = Append(h.input, byte)
           /\ Len(h.input) = 2 =>
                 /\ SendByte(h, byte).sent = h.sent \o EncodeGroup(Append(h.input, byte))
                 /\ SendByte(h, byte).input = <<>>
<1> DEFINE v == h.sent
           w == h.input
           a == Append(w, byte)
           g == SendByte(h, byte)
<1>1. v \in Seq(Symbols) /\ w \in Seq(Octets) /\ Len(w) < 3
  BY DEF Sending
<1>2. g = IF Len(w) < 2 THEN [sent |-> v, input |-> a]
          ELSE [sent |-> v \o B64Encode(a, 4), input |-> <<>>]
  BY DEF SendByte
<1> HIDE DEF v, w, g
<1>3. Len(w) \in 0 .. 2 /\ a \in Seq(Octets) /\ Len(a) = Len(w) + 1
  <2> DEFINE l == Len(w)
  <2>1. l \in Nat /\ l < 3
    BY <1>1
  <2>2. a \in Seq(Octets) /\ Len(a) = l + 1
    BY <1>1
  <2> HIDE DEF a, l
  <2>3. l \in 0 .. 2
    BY <2>1
  <2> QED
    BY <2>2, <2>3 DEF l
<1> HIDE DEF a
<1>4. ASSUME NEW s \in Seq(Symbols), NEW t \in Seq(Octets), Len(t) < 3
      PROVE  [sent |-> s, input |-> t] \in Sending
  BY <1>4 DEF Sending
<1>5. CASE Len(w) < 2
  <2>1. g = [sent |-> v, input |-> a]
    BY <1>2, <1>5, Zenon
  <2>2. Len(a) < 3 /\ Len(w) # 2
    <3> DEFINE l == Len(w)
    <3>1. l \in 0 .. 2 /\ l < 2 /\ Len(a) = l + 1
      BY <1>3, <1>5
    <3> HIDE DEF l
    <3>2. l + 1 < 3 /\ l # 2
      BY <3>1
    <3> QED
      BY <3>1, <3>2 DEF l
  <2>3. g \in Sending
    BY <1>1, <1>3, <1>4, <2>1, <2>2
  <2>4. g.sent = v /\ g.input = a
    BY <2>1
  <2> QED
    BY <2>2, <2>3, <2>4 DEF v, w, a, g
<1>6. CASE ~ (Len(w) < 2)
  <2>1. Len(w) = 2 /\ Len(a) = 3
    <3> DEFINE l == Len(w)
    <3>1. l \in 0 .. 2 /\ ~ (l < 2) /\ Len(a) = l + 1
      BY <1>3, <1>6
    <3> HIDE DEF l
    <3>2. l = 2
      BY <3>1
    <3> QED
      BY <3>1, <3>2 DEF l
  <2>2. Len(a) \in 1 .. 3
    BY <2>1
  <2>3. B64Encode(a, 4) = EncodeGroup(a) /\ EncodeGroup(a) \in Seq(Symbols)
    BY <1>3, <2>2, SmallGroup, EncodeGroupIs
  <2> DEFINE z == v \o EncodeGroup(a)
  <2>4. g = [sent |-> z, input |-> <<>>]
    BY <1>2, <1>6, <2>3
  <2>5. z \in Seq(Symbols)
    BY <1>1, <2>3, ConcatProperties
  <2>6. <<>> \in Seq(Octets) /\ Len(<<>>) < 3
    OBVIOUS
  <2> HIDE DEF z
  <2>7. g \in Sending
    BY <1>4, <2>4, <2>5, <2>6
  <2>8. g.sent = z /\ g.input = <<>>
    BY <2>4
  <2> QED
    BY <1>6, <2>7, <2>8 DEF v, w, a, g, z
<1> QED
  BY <1>5, <1>6

LEMMA SendingFold ==
    ASSUME NEW data \in Seq(Octets), NEW b \in Sending
    PROVE  \E f \in [0 .. Len(data) -> Sending] :
             /\ f[0] = b /\ f[Len(data)] = FoldLeft(SendByte, b, data)
             /\ \A k \in 1 .. Len(data) : f[k] = SendByte(f[k - 1], data[k])
<1> DEFINE N == Len(data)
           D == Sending
           G == [p \in D \X Octets |-> SendByte(p[1], p[2])]
           Is(F) == F = [x \in SUBSET DOMAIN data |->
                           IF x = {} THEN b ELSE SendByte(F[x \ {Max(x)}], data[Max(x)])]
<1>1. N \in Nat /\ DOMAIN data = 1 .. N /\ \A k \in 1 .. N : data[k] \in Octets
  OBVIOUS
<1>2. G \in [D \X Octets -> D]
  BY SendByteIs
<1>3. \A h \in D, byte \in Octets : G[<<h, byte>>] = SendByte(h, byte)
  OBVIOUS
<1> HIDE DEF G, D
<1>4. PICK H : IsFold(H, D, G, b, data)
  <2>1. b \in D
    BY DEF D
  <2> QED
    BY <1>2, <2>1, FoldExists, Zenon
<1>5. ASSUME NEW x \in SUBSET DOMAIN data, x # {}
      PROVE  G[<<H[x \ {Max(x)}], data[Max(x)]>>] = SendByte(H[x \ {Max(x)}], data[Max(x)])
  <2>1. Max(x) \in x
    <3> HIDE DEF N
    <3> QED
      BY <1>1, <1>5, MaxOf
  <2>2. H[x \ {Max(x)}] \in D /\ data[Max(x)] \in Octets
    BY <1>1, <1>4, <2>1 DEF IsFold
  <2> QED
    BY <1>3, <2>2
<1>6. Is(H)
  BY <1>4, <1>5 DEF IsFold
<1> DEFINE F == CHOOSE F : Is(F)
<1>7. Is(F)
  BY <1>6
<1>8. FoldLeft(SendByte, b, data) = F[DOMAIN data]
  BY DEF FoldLeft, MapThenFoldSet
<1> HIDE DEF F, N
<1>9. FoldsBy(F, D, G, b, data)
  <2>1. F[{}] = b
    BY <1>7
  <2>2. ASSUME NEW x \in SUBSET DOMAIN data, x # {}, F[x \ {Max(x)}] \in D
        PROVE  F[x] = G[<<F[x \ {Max(x)}], data[Max(x)]>>]
    <3>1. Max(x) \in x
      BY <1>1, <2>2, MaxOf
    <3>2. data[Max(x)] \in Octets
      BY <1>1, <3>1
    <3>3. F[x] = SendByte(F[x \ {Max(x)}], data[Max(x)])
      BY <1>7, <2>2
    <3> QED
      BY <1>3, <2>2, <3>2, <3>3
  <2> QED
    BY <2>1, <2>2 DEF FoldsBy
<1>10. PICK f : IsPath(f, F, D, G, b, data)
  <2>1. b \in D
    BY DEF D
  <2> QED
    BY <1>2, <1>9, <2>1, FoldPath
<1>11. \A k \in 1 .. N : f[k] = SendByte(f[k - 1], data[k])
  <2>1. \A k \in 1 .. N : k - 1 \in 0 .. N
    BY <1>1
  <2> QED
    BY <1>1, <1>3, <1>10, <2>1 DEF IsPath, N
<1> QED
  BY <1>8, <1>10, <1>11 DEF IsPath, N, D

\* One more byte of what is taken from the data.
LEMMA SubSeqGrows ==
    ASSUME NEW data \in Seq(Octets), NEW k \in 1 .. Len(data), NEW p \in 1 .. k
    PROVE  SubSeq(data, p, k) = Append(SubSeq(data, p, k - 1), data[k])
<1> DEFINE s == SubSeq(data, p, k)
           t == SubSeq(data, p, k - 1)
<1>1. /\ k \in Nat /\ p \in Nat /\ Len(data) \in Nat /\ data[k] \in Octets
  OBVIOUS
<1>2. /\ s \in Seq(Octets) /\ Len(s) = k - p + 1
      /\ \A i \in 1 .. k - p + 1 : s[i] = data[p + i - 1]
  BY <1>1
<1>3. /\ t \in Seq(Octets) /\ Len(t) = k - p
      /\ \A i \in 1 .. k - p : t[i] = data[p + i - 1]
  BY <1>1
<1> HIDE DEF s, t
<1>4. Append(t, data[k]) \in Seq(Octets) /\ Len(Append(t, data[k])) = k - p + 1
  BY <1>1, <1>3
<1>5. ASSUME NEW i \in 1 .. k - p + 1 PROVE Append(t, data[k])[i] = s[i]
  <2>1. CASE i = k - p + 1
    <3>1. p + i - 1 = k /\ i = Len(t) + 1
      BY <1>1, <1>3, <2>1
    <3>2. Append(t, data[k])[Len(t) + 1] = data[k]
      BY <1>1, <1>3
    <3>3. s[i] = data[p + i - 1]
      BY <1>2
    <3> QED
      BY <3>1, <3>2, <3>3
  <2>2. CASE i # k - p + 1
    <3>1. i \in 1 .. k - p
      BY <1>1, <2>2
    <3>2. Append(t, data[k])[i] = t[i]
      BY <1>1, <1>3, <3>1
    <3> QED
      BY <1>2, <1>3, <3>1, <3>2
  <2> QED
    BY <2>1, <2>2
<1>6. s = Append(t, data[k])
  BY <1>1, <1>2, <1>4, <1>5, SeqEqual
<1> QED
  BY <1>6 DEF s, t

LEMMA SentIsText ==
    ASSUME bytes \in Seq(Octets)
    PROVE  IsText(SendBasicAuth, bytes)
<1> DEFINE n == Len(bytes)
           b == [sent |-> <<>>, input |-> <<>>]
           last == FoldLeft(SendByte, b, bytes)
<1>1. n \in Nat /\ \A k \in 1 .. n : bytes[k] \in Octets
  OBVIOUS
<1>2. b \in Sending /\ b.sent = <<>> /\ b.input = <<>>
  BY DEF Sending
<1>3. SendBasicAuth = IF last.input = <<>> THEN last.sent ELSE last.sent \o B64Encode(last.input, 4)
  BY DEF SendBasicAuth
<1> HIDE DEF b, last
<1>4. PICK f \in [0 .. n -> Sending] :
         /\ f[0] = b /\ f[n] = last
         /\ \A k \in 1 .. n : f[k] = SendByte(f[k - 1], bytes[k])
  BY <1>2, SendingFold DEF last
<1> HIDE DEF n
<1> DEFINE Sent(k) == /\ IsPart(f[k].sent, k \div 3, bytes)
                      /\ f[k].input = SubSeq(bytes, 3 * (k \div 3) + 1, k)
           S == {k \in Nat : k \in 0 .. n => Sent(k)}
<1>5. \A k \in 0 .. n : LET x == SubSeq(bytes, 3 * (k \div 3) + 1, k) IN
         x \in Seq(Octets) /\ Len(x) = k - 3 * (k \div 3) /\ k - 3 * (k \div 3) \in 0 .. 2
  <2> TAKE k \in 0 .. n
  <2> DEFINE p == 3 * (k \div 3) + 1
  <2>1. p \in Nat /\ p >= 1 /\ p <= k + 1 /\ k - p + 1 \in 0 .. 2 /\ k - p + 1 = k - 3 * (k \div 3)
    BY <1>1
  <2> HIDE DEF p
  <2>2. SubSeq(bytes, p, k) \in Seq(Octets) /\ Len(SubSeq(bytes, p, k)) = k - p + 1
    <3>1. k \in Nat /\ k <= Len(bytes)
      BY <1>1 DEF n
    <3>2. \A i \in p .. k : bytes[i] \in Octets
      BY <1>1, <2>1, <3>1
    <3> QED
      BY <2>1, <3>1, <3>2
  <2> QED
    BY <2>1, <2>2 DEF p
<1>6. 0 \in S
  <2>1. 0 \div 3 = 0 /\ f[0].sent = <<>> /\ f[0].input = <<>>
    BY <1>2, <1>4
  <2>2. SubSeq(bytes, 3 * 0 + 1, 0) = <<>>
    OBVIOUS
  <2>3. IsPart(<<>>, 0, bytes)
    BY DEF IsPart
  <2> QED
    BY <2>1, <2>2, <2>3
<1>7. ASSUME NEW k \in 1 .. n, k - 1 \in S PROVE k \in S
  <2> DEFINE j == k - 1
             q == j \div 3
             h == f[j]
             x == SubSeq(bytes, 3 * q + 1, j)
             y == SubSeq(bytes, 3 * q + 1, k)
  <2>1. j \in 0 .. n /\ h \in Sending /\ bytes[k] \in Octets /\ q \in Nat /\ k \in 0 .. n
    BY <1>1
  <2>2. IsPart(h.sent, q, bytes) /\ h.input = x
    BY <1>7, <2>1
  <2>3. f[k] = SendByte(h, bytes[k])
    BY <1>4
  <2>4. x \in Seq(Octets) /\ Len(x) = j - 3 * q /\ Len(x) \in 0 .. 2
    BY <1>5, <2>1
  <2>5. y = Append(x, bytes[k])
    <3>1. 3 * q + 1 \in 1 .. k /\ k \in 1 .. Len(bytes)
      BY <2>1 DEF n
    <3> QED
      BY <3>1, SubSeqGrows
  <2>6. k = j + 1 /\ j \in Nat
    BY <1>1
  <2>7. CASE Len(x) < 2
    <3>1. k \div 3 = q
      BY <2>1, <2>4, <2>6, <2>7
    <3> HIDE DEF h, x, y, q, j
    <3>2. Len(h.input) < 2
      BY <2>2, <2>7
    <3>3. f[k].sent = h.sent /\ f[k].input = y
      <4>1. /\ SendByte(h, bytes[k]).sent = h.sent
            /\ SendByte(h, bytes[k]).input = Append(h.input, bytes[k])
        BY <2>1, <3>2, SendByteIs
      <4> QED
        BY <2>2, <2>3, <2>5, <4>1
    <3>4. IsPart(f[k].sent, k \div 3, bytes) /\ f[k].input = SubSeq(bytes, 3 * (k \div 3) + 1, k)
      BY <2>2, <3>1, <3>3 DEF y
    <3> QED
      BY <3>4
  <2>8. CASE Len(x) = 2
    <3>1. k \div 3 = q + 1 /\ k = 3 * q + 3
      BY <2>1, <2>4, <2>6, <2>8
    <3>2. y = From(3 * q + 1, bytes, 3)
      <4>1. (IF 3 * q + 1 + 3 - 1 < Len(bytes) THEN 3 * q + 1 + 3 - 1 ELSE Len(bytes)) = k
        BY <1>1, <3>1 DEF n
      <4> QED
        BY <4>1 DEF From
    <3> HIDE DEF h, x, y, q, j
    <3>3. y \in Seq(Octets) /\ Len(y) = 3
      BY <2>1, <2>4, <2>5, <2>8
    <3>4. f[k].sent = h.sent \o EncodeGroup(y) /\ f[k].input = <<>>
      <4>1. Len(h.input) = 2
        BY <2>2, <2>8
      <4>2. /\ SendByte(h, bytes[k]).sent = h.sent \o EncodeGroup(Append(h.input, bytes[k]))
            /\ SendByte(h, bytes[k]).input = <<>>
        BY <2>1, <4>1, SendByteIs
      <4> QED
        BY <2>2, <2>3, <2>5, <4>2
    <3>5. IsPart(f[k].sent, q + 1, bytes)
      BY <2>1, <2>2, <3>2, <3>3, <3>4, PartGrows
    <3>6. SubSeq(bytes, 3 * (q + 1) + 1, k) = <<>>
      <4>1. 3 * (q + 1) + 1 > k
        BY <2>1, <3>1
      <4> QED
        BY <2>1, <4>1
    <3>7. IsPart(f[k].sent, k \div 3, bytes) /\ f[k].input = SubSeq(bytes, 3 * (k \div 3) + 1, k)
      BY <3>1, <3>4, <3>5, <3>6
    <3> QED
      BY <3>7
  <2> QED
    BY <2>4, <2>7, <2>8
<1>8. Sent(n)
  <2> HIDE DEF S
  <2>1. \A k \in 0 .. n : k \in S
    BY <1>1, <1>6, <1>7, StepInduction
  <2>2. n \in S /\ n \in 0 .. n
    BY <1>1, <2>1
  <2> QED
    BY <2>2 DEF S
<1> DEFINE q == n \div 3
           x == SubSeq(bytes, 3 * q + 1, n)
<1>9. IsPart(last.sent, q, bytes) /\ last.input = x
  BY <1>4, <1>8
<1>10. x \in Seq(Octets) /\ Len(x) = n - 3 * q /\ Len(x) \in 0 .. 2 /\ q \in Nat
  BY <1>1, <1>5
<1>11. GroupCount(bytes) = (n + 2) \div 3
  BY DEF GroupCount, n
<1>12. CASE Len(x) = 0
  <2>1. GroupCount(bytes) = q
    BY <1>1, <1>10, <1>11, <1>12
  <2>2. x = <<>>
    <3> HIDE DEF x
    <3> QED
      BY <1>10, <1>12, EmptySeq
  <2> HIDE DEF x, q
  <2> QED
    BY <1>3, <1>9, <2>1, <2>2 DEF IsPart, IsText
<1>13. CASE Len(x) # 0
  <2>1. GroupCount(bytes) = q + 1
    BY <1>1, <1>10, <1>11, <1>13
  <2>2. x = From(3 * q + 1, bytes, 3)
    <3>1. (IF 3 * q + 1 + 3 - 1 < n THEN 3 * q + 1 + 3 - 1 ELSE n) = n
      BY <1>1, <1>10
    <3> QED
      BY <3>1 DEF From, n
  <2> HIDE DEF x, q
  <2>3. Len(x) \in 1 .. 3 /\ x # <<>>
    BY <1>10, <1>13
  <2>4. SendBasicAuth = last.sent \o EncodeGroup(x)
    BY <1>3, <1>9, <1>10, <2>3, SmallGroup
  <2>5. IsPart(SendBasicAuth, q + 1, bytes)
    BY <1>9, <1>10, <2>2, <2>3, <2>4, PartGrows
  <2> QED
    BY <2>1, <2>5 DEF IsPart, IsText
<1> QED
  BY <1>12, <1>13

\* b is the bits of the first M of v, W of each.
AreBits(b, v, M, W) ==
    /\ \E T : b \in Seq(T)
    /\ Len(b) = W * M
    /\ \A k \in 1 .. M : \A j \in 1 .. W :
          b[W * (k - 1) + j] = (v[k] \div 2 ^ (W - j)) % 2

\* A text of bits, symbol by symbol or byte by byte.
LEMMA BitsAre ==
    ASSUME NEW v, NEW M \in Nat, NEW W \in Nat
    PROVE  AreBits(FlattenSeq([k \in 1 .. M |-> BitsOf(v[k], W)]), v, M, W)
<1> DEFINE bit(k, j) == (v[k] \div 2 ^ (W - j)) % 2
           T == {bit(k, j) : k \in 1 .. M, j \in 1 .. W}
           s == [k \in 1 .. M |-> [j \in 1 .. W |-> bit(k, j)]]
           off == [k \in 0 .. M |-> W * k]
<1>1. FlattenSeq([k \in 1 .. M |-> BitsOf(v[k], W)]) = FlattenSeq(s)
  BY DEF BitsOf
<1>2. \A k \in 1 .. M : \A j \in 1 .. W : bit(k, j) \in T
  OBVIOUS
<1> HIDE DEF bit, T
<1>3. /\ s \in Seq(Seq(T)) /\ Len(s) = M
      /\ \A k \in 1 .. M : Len(s[k]) = W /\ \A j \in 1 .. W : s[k][j] = bit(k, j)
  <2>1. ASSUME NEW k \in 1 .. M
        PROVE  s[k] \in Seq(T) /\ Len(s[k]) = W /\ \A j \in 1 .. W : s[k][j] = bit(k, j)
    <3>1. [j \in 1 .. W |-> bit(k, j)] \in Seq(T)
      BY <1>2
    <3> QED
      BY <3>1
  <2> QED
    BY <2>1
<1> HIDE DEF s
<1>4. /\ off \in [0 .. M -> Nat] /\ \A k \in 0 .. M : off[k] = W * k
  OBVIOUS
<1> HIDE DEF off
<1>5. Offsets(off, s)
  <2>1. off[0] = 0
    BY <1>4
  <2>2. ASSUME NEW k \in 1 .. M PROVE off[k] = off[k - 1] + Len(s[k])
    <3>1. k - 1 \in 0 .. M /\ k \in 0 .. M /\ W * k = W * (k - 1) + W
      OBVIOUS
    <3> QED
      BY <1>3, <1>4, <3>1
  <2> QED
    BY <1>3, <1>4, <2>1, <2>2 DEF Offsets
<1>6. /\ FlattenSeq(s) \in Seq(T) /\ Len(FlattenSeq(s)) = off[M]
      /\ \A k \in 1 .. M : \A j \in 1 .. W :
            off[k - 1] + j \in 1 .. off[M] /\ FlattenSeq(s)[off[k - 1] + j] = s[k][j]
  <2>1. Placed(FlattenSeq(s), off, s, T)
    BY <1>3, <1>5, FlattenAt
  <2> QED
    BY <1>3, <2>1 DEF Placed
<1>7. Len(FlattenSeq(s)) = W * M
  <2>1. off[M] = W * M
    BY <1>4
  <2> QED
    BY <1>6, <2>1
<1>8. ASSUME NEW k \in 1 .. M, NEW j \in 1 .. W
      PROVE  FlattenSeq(s)[W * (k - 1) + j] = bit(k, j)
  <2>1. k - 1 \in 0 .. M
    OBVIOUS
  <2>2. off[k - 1] = W * (k - 1)
    BY <1>4, <2>1
  <2>3. FlattenSeq(s)[off[k - 1] + j] = s[k][j] /\ s[k][j] = bit(k, j)
    BY <1>3, <1>6
  <2> QED
    BY <2>2, <2>3
<1> QED
  BY <1>1, <1>6, <1>7, <1>8 DEF bit, AreBits

Bit(v, e) == (v \div 2 ^ e) % 2

LEMMA Powers ==
    /\ 2 ^ 0 = 1 /\ 2 ^ 1 = 2 /\ 2 ^ 2 = 4 /\ 2 ^ 3 = 8
    /\ 2 ^ 4 = 16 /\ 2 ^ 5 = 32 /\ 2 ^ 6 = 64 /\ 2 ^ 7 = 128
OBVIOUS

\* The bits of three bytes are those of the four sextets.
Sextet1(s, a) ==
    /\ Bit(s, 5) = Bit(a, 7) /\ Bit(s, 4) = Bit(a, 6) /\ Bit(s, 3) = Bit(a, 5)
    /\ Bit(s, 2) = Bit(a, 4) /\ Bit(s, 1) = Bit(a, 3) /\ Bit(s, 0) = Bit(a, 2)

Sextet2(s, a, b) ==
    /\ Bit(s, 5) = Bit(a, 1) /\ Bit(s, 4) = Bit(a, 0) /\ Bit(s, 3) = Bit(b, 7)
    /\ Bit(s, 2) = Bit(b, 6) /\ Bit(s, 1) = Bit(b, 5) /\ Bit(s, 0) = Bit(b, 4)

Sextet3(s, b, c) ==
    /\ Bit(s, 5) = Bit(b, 3) /\ Bit(s, 4) = Bit(b, 2) /\ Bit(s, 3) = Bit(b, 1)
    /\ Bit(s, 2) = Bit(b, 0) /\ Bit(s, 1) = Bit(c, 7) /\ Bit(s, 0) = Bit(c, 6)

Sextet4(s, c) ==
    /\ Bit(s, 5) = Bit(c, 5) /\ Bit(s, 4) = Bit(c, 4) /\ Bit(s, 3) = Bit(c, 3)
    /\ Bit(s, 2) = Bit(c, 2) /\ Bit(s, 1) = Bit(c, 1) /\ Bit(s, 0) = Bit(c, 0)

LEMMA BitTable1 ==
    ASSUME NEW a \in 0 .. 255,
           NEW s, s = a \div 4
    PROVE  Sextet1(s, a)
<1>1. (s \div 32) % 2 = (a \div 128) % 2
  OBVIOUS
<1>2. (s \div 16) % 2 = (a \div 64) % 2
  OBVIOUS
<1>3. (s \div 8) % 2 = (a \div 32) % 2
  OBVIOUS
<1>4. (s \div 4) % 2 = (a \div 16) % 2
  OBVIOUS
<1>5. (s \div 2) % 2 = (a \div 8) % 2
  OBVIOUS
<1>6. (s \div 1) % 2 = (a \div 4) % 2
  OBVIOUS
<1> QED
  BY <1>1, <1>2, <1>3, <1>4, <1>5, <1>6, Powers, Zenon DEF Sextet1, Bit

LEMMA BitTable2 ==
    ASSUME NEW a \in 0 .. 255, NEW b \in 0 .. 255,
           NEW s, s = (a % 4) * 16 + b \div 16
    PROVE  Sextet2(s, a, b)
<1>1. (s \div 32) % 2 = (a \div 2) % 2
  OBVIOUS
<1>2. (s \div 16) % 2 = (a \div 1) % 2
  OBVIOUS
<1>3. (s \div 8) % 2 = (b \div 128) % 2
  OBVIOUS
<1>4. (s \div 4) % 2 = (b \div 64) % 2
  OBVIOUS
<1>5. (s \div 2) % 2 = (b \div 32) % 2
  OBVIOUS
<1>6. (s \div 1) % 2 = (b \div 16) % 2
  OBVIOUS
<1> QED
  BY <1>1, <1>2, <1>3, <1>4, <1>5, <1>6, Powers, Zenon DEF Sextet2, Bit

LEMMA BitTable3 ==
    ASSUME NEW b \in 0 .. 255, NEW c \in 0 .. 255,
           NEW s, s = (b % 16) * 4 + c \div 64
    PROVE  Sextet3(s, b, c)
<1>1. (s \div 32) % 2 = (b \div 8) % 2
  OBVIOUS
<1>2. (s \div 16) % 2 = (b \div 4) % 2
  OBVIOUS
<1>3. (s \div 8) % 2 = (b \div 2) % 2
  OBVIOUS
<1>4. (s \div 4) % 2 = (b \div 1) % 2
  OBVIOUS
<1>5. (s \div 2) % 2 = (c \div 128) % 2
  OBVIOUS
<1>6. (s \div 1) % 2 = (c \div 64) % 2
  OBVIOUS
<1> QED
  BY <1>1, <1>2, <1>3, <1>4, <1>5, <1>6, Powers, Zenon DEF Sextet3, Bit

LEMMA BitTable4 ==
    ASSUME NEW c \in 0 .. 255,
           NEW s, s = c % 64
    PROVE  Sextet4(s, c)
<1>1. (s \div 32) % 2 = (c \div 32) % 2
  OBVIOUS
<1>2. (s \div 16) % 2 = (c \div 16) % 2
  OBVIOUS
<1>3. (s \div 8) % 2 = (c \div 8) % 2
  OBVIOUS
<1>4. (s \div 4) % 2 = (c \div 4) % 2
  OBVIOUS
<1>5. (s \div 2) % 2 = (c \div 2) % 2
  OBVIOUS
<1>6. (s \div 1) % 2 = (c \div 1) % 2
  OBVIOUS
<1> QED
  BY <1>1, <1>2, <1>3, <1>4, <1>5, <1>6, Powers, Zenon DEF Sextet4, Bit

\* The 24 bits of a group, from its bytes and from its sextets.
GroupBit(x, r) == Bit(At(x, (r - 1) \div 8 + 1), 8 * ((r - 1) \div 8) + 8 - r)

LEMMA SextetBits ==
    ASSUME NEW x \in Seq(Octets), NEW r \in 1 .. 24
    PROVE  Bit(Sextets(x)[(r - 1) \div 6 + 1], 6 * ((r - 1) \div 6) + 6 - r) = GroupBit(x, r)
<1> DEFINE S(k) == Sextets(x)[k]
           B(k) == At(x, k)
<1>1. B(1) \in 0 .. 255 /\ B(2) \in 0 .. 255 /\ B(3) \in 0 .. 255
  <2>1. \A k \in 1 .. Len(x) : x[k] \in Octets
    OBVIOUS
  <2>2. Len(x) \in Nat
    OBVIOUS
  <2> QED
    BY <2>1, <2>2 DEF At, Octets
<1>2. /\ S(1) = B(1) \div 4 /\ S(2) = (B(1) % 4) * 16 + B(2) \div 16
      /\ S(3) = (B(2) % 16) * 4 + B(3) \div 64 /\ S(4) = B(3) % 64
  BY DEF Sextets
<1> HIDE DEF B
<1>3. Sextet1(S(1), B(1))
  <2>1. S(1) = B(1) \div 4
    BY <1>2, Zenon
  <2> HIDE DEF S
  <2> QED
    BY <1>1, <2>1, BitTable1, Zenon
<1>4. Sextet2(S(2), B(1), B(2))
  <2>1. S(2) = (B(1) % 4) * 16 + B(2) \div 16
    BY <1>2, Zenon
  <2> HIDE DEF S
  <2> QED
    BY <1>1, <2>1, BitTable2, Zenon
<1>5. Sextet3(S(3), B(2), B(3))
  <2>1. S(3) = (B(2) % 16) * 4 + B(3) \div 64
    BY <1>2, Zenon
  <2> HIDE DEF S
  <2> QED
    BY <1>1, <2>1, BitTable3, Zenon
<1>6. Sextet4(S(4), B(3))
  <2>1. S(4) = B(3) % 64
    BY <1>2, Zenon
  <2> HIDE DEF S
  <2> QED
    BY <1>1, <2>1, BitTable4, Zenon
<1> HIDE DEF S
<1> SUFFICES Bit(S((r - 1) \div 6 + 1), 6 * ((r - 1) \div 6) + 6 - r) =
             Bit(B((r - 1) \div 8 + 1), 8 * ((r - 1) \div 8) + 8 - r)
  BY DEF GroupBit, S, B
<1>7. CASE r = 1
  BY <1>3, <1>7 DEF Sextet1
<1>8. CASE r = 2
  BY <1>3, <1>8 DEF Sextet1
<1>9. CASE r = 3
  BY <1>3, <1>9 DEF Sextet1
<1>10. CASE r = 4
  BY <1>3, <1>10 DEF Sextet1
<1>11. CASE r = 5
  BY <1>3, <1>11 DEF Sextet1
<1>12. CASE r = 6
  BY <1>3, <1>12 DEF Sextet1
<1>13. CASE r = 7
  BY <1>4, <1>13 DEF Sextet2
<1>14. CASE r = 8
  BY <1>4, <1>14 DEF Sextet2
<1>15. CASE r = 9
  BY <1>4, <1>15 DEF Sextet2
<1>16. CASE r = 10
  BY <1>4, <1>16 DEF Sextet2
<1>17. CASE r = 11
  BY <1>4, <1>17 DEF Sextet2
<1>18. CASE r = 12
  BY <1>4, <1>18 DEF Sextet2
<1>19. CASE r = 13
  BY <1>5, <1>19 DEF Sextet3
<1>20. CASE r = 14
  BY <1>5, <1>20 DEF Sextet3
<1>21. CASE r = 15
  BY <1>5, <1>21 DEF Sextet3
<1>22. CASE r = 16
  BY <1>5, <1>22 DEF Sextet3
<1>23. CASE r = 17
  BY <1>5, <1>23 DEF Sextet3
<1>24. CASE r = 18
  BY <1>5, <1>24 DEF Sextet3
<1>25. CASE r = 19
  BY <1>6, <1>25 DEF Sextet4
<1>26. CASE r = 20
  BY <1>6, <1>26 DEF Sextet4
<1>27. CASE r = 21
  BY <1>6, <1>27 DEF Sextet4
<1>28. CASE r = 22
  BY <1>6, <1>28 DEF Sextet4
<1>29. CASE r = 23
  BY <1>6, <1>29 DEF Sextet4
<1>30. CASE r = 24
  BY <1>6, <1>30 DEF Sextet4
<1> QED
  BY <1>7, <1>8, <1>9, <1>10, <1>11, <1>12, <1>13, <1>14, <1>15, <1>16, <1>17, <1>18,
     <1>19, <1>20, <1>21, <1>22, <1>23, <1>24, <1>25, <1>26, <1>27, <1>28, <1>29, <1>30

\* Where the padding is.
LEMMA PaddingAt ==
    ASSUME NEW n \in Nat, NEW g \in 0 .. (n + 2) \div 3 - 1, NEW i \in 1 .. 4
    PROVE  LET l == IF 3 * g + 3 < n THEN 3 ELSE n - 3 * g IN
             i > l + 1 <=> 4 * g + i > 4 * ((n + 2) \div 3) - ((2 * n) % 3)
<1> DEFINE P == (2 * n) % 3
           G == (n + 2) \div 3
<1>1. CASE 3 * g + 3 < n
  <2>1. g + 1 < G /\ P \in 0 .. 2 /\ G \in Nat
    BY <1>1
  <2> HIDE DEF P, G
  <2>2. ~ (i > 3 + 1) /\ ~ (4 * g + i > 4 * G - P)
    BY <2>1
  <2> QED
    BY <1>1, <2>2 DEF P, G
<1>2. CASE ~ (3 * g + 3 < n)
  <2>1. /\ G = g + 1
        /\ \/ n - 3 * g = 1 /\ P = 2
           \/ n - 3 * g = 2 /\ P = 1
           \/ n - 3 * g = 3 /\ P = 0
    BY <1>2
  <2> DEFINE l == n - 3 * g
  <2> HIDE DEF P, G, l
  <2>2. i > l + 1 <=> 4 * g + i > 4 * G - P
    BY <2>1 DEF l
  <2> QED
    BY <1>2, <2>2 DEF P, G, l
<1> QED
  BY <1>1, <1>2

\* A text, bit by bit.
LEMMA TextBitIs ==
    ASSUME bytes \in Seq(Octets), NEW text, IsText(text, bytes),
           \A k \in DOMAIN text : text[k] = Pad <=> k > Len(text) - Padding,
           NEW g \in Nat, NEW r \in 1 .. 24,
           24 * g + r <= 6 * (Len(text) - Padding)
    PROVE  TextBits(text)[24 * g + r] = GroupBit(From(3 * g + 1, bytes, 3), r)
<1> DEFINE M == Len(text) - Padding
           G == GroupCount(bytes)
           s == (r - 1) \div 6
           k == 4 * g + s + 1
           j == r - 6 * s
           x == From(3 * g + 1, bytes, 3)
<1>1. Len(bytes) \in Nat /\ Len(text) = 4 * G /\ G = (Len(bytes) + 2) \div 3 /\ text \in Seq(Symbols)
  BY DEF IsText, GroupCount
<1>2. Padding = (2 * Len(bytes)) % 3 /\ Padding \in 0 .. 2
  BY <1>1 DEF Padding
<1>3. M \in Nat /\ G \in Nat /\ M <= 4 * G
  <2> DEFINE n == Len(bytes)
             P == Padding
  <2>1. n \in Nat /\ P = (2 * n) % 3 /\ G = (n + 2) \div 3 /\ Len(text) = 4 * G
    BY <1>1, <1>2
  <2> HIDE DEF n, P, G
  <2>2. 4 * G - P \in Nat /\ G \in Nat /\ 4 * G - P <= 4 * G
    BY <2>1
  <2> QED
    BY <2>1, <2>2 DEF P
<1> HIDE DEF G
<1>4. s \in 0 .. 3 /\ j \in 1 .. 6 /\ r = 6 * s + j
  OBVIOUS
<1>5. k \in 1 .. M /\ g \in 0 .. G - 1 /\ 6 * (k - 1) + j = 24 * g + r
  <2> HIDE DEF M, s, j
  <2>1. 24 * g + r <= 6 * M
    BY DEF M
  <2> QED
    BY <1>3, <1>4, <2>1
<1>6. TextBits(text)[6 * (k - 1) + j] = (text[k] \div 2 ^ (6 - j)) % 2
  <2> HIDE DEF M, s, j, k
  <2>1. TextBits(text) = FlattenSeq([l \in 1 .. M |-> BitsOf(text[l], 6)])
    BY DEF TextBits, M
  <2>2. \A l \in 1 .. M : \A i \in 1 .. 6 :
           TextBits(text)[6 * (l - 1) + i] = (text[l] \div 2 ^ (6 - i)) % 2
    <3>1. AreBits(TextBits(text), text, M, 6)
      BY <1>3, <2>1, BitsAre
    <3> QED
      BY <3>1 DEF AreBits
  <2> QED
    BY <1>4, <1>5, <2>2
<1>7. x \in Seq(Octets) /\ Len(x) \in 1 .. 3
  BY <1>5, GroupIs DEF G
<1>8. s + 1 \in 1 .. 4 /\ k = 4 * g + (s + 1) /\ text[k] = EncodeGroup(x)[s + 1]
  <2> HIDE DEF s, x
  <2>1. s + 1 \in 1 .. 4 /\ k = 4 * g + (s + 1)
    BY <1>4
  <2>2. text[4 * g + (s + 1)] = EncodeGroup(x)[s + 1]
    <3> DEFINE i == s + 1
    <3> HIDE DEF i
    <3>1. text[4 * g + i] = EncodeGroup(x)[i]
      BY <1>5, <2>1 DEF IsText, G, x, i
    <3> QED
      BY <3>1 DEF i
  <2> QED
    BY <2>1, <2>2
<1>9. text[k] # Pad
  <2> HIDE DEF k
  <2>1. k \in DOMAIN text /\ ~ (k > M)
    BY <1>1, <1>3, <1>5
  <2> QED
    BY <2>1 DEF M
<1>10. text[k] = Sextets(x)[s + 1]
  <2> HIDE DEF k, s, x
  <2>1. ~ (s + 1 > Len(x) + 1)
    BY <1>7, <1>8, <1>9, EncodeGroupIs
  <2>2. s + 1 \in 1 .. Len(x) + 1
    <3> DEFINE l == Len(x)
    <3>1. l \in 1 .. 3 /\ ~ (s + 1 > l + 1)
      BY <1>7, <2>1
    <3> HIDE DEF l
    <3>2. s + 1 \in 1 .. l + 1
      BY <1>4, <3>1
    <3> QED
      BY <3>2 DEF l
  <2> QED
    BY <1>7, <1>8, <2>2, EncodeGroupIs
<1>11. 6 - j = 6 * s + 6 - r
  BY <1>4
<1>12. (Sextets(x)[s + 1] \div 2 ^ (6 * s + 6 - r)) % 2 = GroupBit(x, r)
  BY <1>7, SextetBits DEF Bit
<1> HIDE DEF x, k, s, j
<1> QED
  BY <1>5, <1>6, <1>10, <1>11, <1>12 DEF x

LEMMA TextEncodes ==
    ASSUME bytes \in Seq(Octets), NEW text, IsText(text, bytes)
    PROVE  Encodes(text)
<1> DEFINE n == Len(bytes)
           G == GroupCount(bytes)
           M == Len(text) - Padding
<1>1. n \in Nat /\ Len(text) = 4 * G /\ G = (n + 2) \div 3 /\ text \in Seq(Symbols)
  BY DEF IsText, GroupCount
<1>2. Padding = (2 * n) % 3 /\ DOMAIN text = 1 .. 4 * G
  BY <1>1 DEF Padding
<1>3. ByteBits = FlattenSeq([k \in 1 .. n |-> BitsOf(bytes[k], 8)])
  <2>1. DOMAIN bytes = 1 .. n
    OBVIOUS
  <2> QED
    BY <2>1 DEF ByteBits
<1>4. M \in Nat /\ 8 * n <= 6 * M /\ 6 * M <= 24 * G /\ G \in Nat
      /\ (G > 0 => 24 * G < 8 * n + 24)
  <2> DEFINE P == Padding
  <2> HIDE DEF n, G, P
  <2>1. n \in Nat /\ G = (n + 2) \div 3 /\ P = (2 * n) % 3
    BY <1>1, <1>2 DEF P
  <2>2. /\ 4 * G - P \in Nat /\ 8 * n <= 6 * (4 * G - P) /\ 6 * (4 * G - P) <= 24 * G /\ G \in Nat
        /\ (G > 0 => 24 * G < 8 * n + 24)
    BY <2>1
  <2> QED
    BY <1>1, <2>2 DEF P
<1>5. ASSUME NEW k \in DOMAIN text PROVE text[k] = Pad <=> k > Len(text) - Padding
  <2> DEFINE g == (k - 1) \div 4
             i == k - 4 * g
             x == From(3 * g + 1, bytes, 3)
  <2> HIDE DEF n, G
  <2>1. k \in 1 .. 4 * G
    BY <1>2
  <2>2. g \in 0 .. G - 1 /\ i \in 1 .. 4 /\ k = 4 * g + i
    <3>1. k \in Int /\ G \in Nat /\ 1 <= k /\ k <= 4 * G
      BY <1>4, <2>1
    <3>2. g \in Int /\ 4 * g <= k - 1 /\ k - 1 < 4 * g + 4
      BY <3>1
    <3> HIDE DEF g
    <3> QED
      BY <3>1, <3>2
  <2> HIDE DEF g, i, x
  <2>3. text[k] = EncodeGroup(x)[i]
    BY <2>2 DEF IsText, G, x
  <2>4. /\ x \in Seq(Octets) /\ Len(x) \in 1 .. 3
        /\ Len(x) = IF 3 * g + 3 < n THEN 3 ELSE n - 3 * g
    BY <2>2, GroupIs DEF G, x, n
  <2>5. EncodeGroup(x)[i] = Pad <=> i > Len(x) + 1
    BY <2>2, <2>4, EncodeGroupIs
  <2>6. i > Len(x) + 1 <=> 4 * g + i > 4 * G - ((2 * n) % 3)
    <3>1. g \in 0 .. (n + 2) \div 3 - 1
      BY <1>1, <2>2
    <3>2. LET l == IF 3 * g + 3 < n THEN 3 ELSE n - 3 * g IN
            i > l + 1 <=> 4 * g + i > 4 * ((n + 2) \div 3) - ((2 * n) % 3)
      BY <1>1, <2>2, <3>1, PaddingAt
    <3> QED
      BY <1>1, <2>4, <3>2
  <2> QED
    <3>1. Len(text) - Padding = 4 * G - ((2 * n) % 3)
      BY <1>1, <1>2
    <3> QED
      BY <2>2, <2>3, <2>5, <2>6, <3>1
<1>6. ASSUME NEW g \in Nat, NEW r \in 1 .. 24, 24 * g + r <= 6 * M
      PROVE  TextBits(text)[24 * g + r] = GroupBit(From(3 * g + 1, bytes, 3), r)
  BY <1>5, <1>6, TextBitIs
<1>7. /\ \E T : TextBits(text) \in Seq(T)
      /\ Len(TextBits(text)) = 6 * M
  <2> HIDE DEF M
  <2>1. TextBits(text) = FlattenSeq([k \in 1 .. M |-> BitsOf(text[k], 6)])
    BY DEF TextBits, M
  <2>2. AreBits(TextBits(text), text, M, 6)
    BY <1>4, <2>1, BitsAre
  <2> QED
    BY <2>2 DEF AreBits
<1>8. /\ \E T : ByteBits \in Seq(T)
      /\ Len(ByteBits) = 8 * n
      /\ \A k \in 1 .. n : \A j \in 1 .. 8 :
            ByteBits[8 * (k - 1) + j] = (bytes[k] \div 2 ^ (8 - j)) % 2
  <2> HIDE DEF n
  <2>1. AreBits(ByteBits, bytes, n, 8)
    BY <1>1, <1>3, BitsAre
  <2> QED
    BY <2>1 DEF AreBits
<1> HIDE DEF n, G, M
\* A bit, its group and its place in it.
<1>9. ASSUME NEW b \in 1 .. 6 * M
      PROVE  \E g \in 0 .. G - 1, r \in 1 .. 24 : b = 24 * g + r
  <2> DEFINE g == (b - 1) \div 24
             r == b - 24 * g
  <2>1. g \in 0 .. G - 1 /\ r \in 1 .. 24 /\ b = 24 * g + r
    BY <1>4
  <2> QED
    BY <2>1
<1>10. ASSUME NEW b \in 1 .. 8 * n PROVE TextBits(text)[b] = ByteBits[b]
  <2>1. b \in 1 .. 6 * M
    BY <1>1, <1>4
  <2>2. PICK g \in 0 .. G - 1, r \in 1 .. 24 : b = 24 * g + r
    BY <1>9, <2>1
  <2> DEFINE t == (r - 1) \div 8
             x == From(3 * g + 1, bytes, 3)
             j == r - 8 * t
             k == 3 * g + t + 1
  <2>3. /\ t \in 0 .. 2 /\ j \in 1 .. 8 /\ r = 8 * t + j
        /\ k \in 1 .. n /\ 8 * (k - 1) + j = b
    BY <1>1, <2>2
  <2>4. ByteBits[b] = (bytes[k] \div 2 ^ (8 - j)) % 2
    <3> HIDE DEF j, k
    <3>1. ByteBits[8 * (k - 1) + j] = (bytes[k] \div 2 ^ (8 - j)) % 2
      BY <1>8, <2>3
    <3> QED
      BY <2>3, <3>1
  <2>5. TextBits(text)[b] = GroupBit(x, r)
    <3>1. g \in Nat /\ 24 * g + r <= 6 * M
      BY <1>4, <2>1, <2>2
    <3> QED
      BY <1>6, <2>2, <3>1
  <2>6. At(x, t + 1) = bytes[k]
    <3> HIDE DEF t, x
    <3>1. /\ x \in Seq(Octets)
          /\ Len(x) = IF (3 * g + 1) + 3 - 1 < n THEN 3 ELSE n - (3 * g + 1) + 1
          /\ \A i \in 1 .. Len(x) : x[i] = bytes[(3 * g + 1) + i - 1]
      <4> DEFINE p == 3 * g + 1
      <4>1. p \in 1 .. Len(bytes) /\ 3 \in Nat \ {0}
        BY GroupIs DEF G
      <4> HIDE DEF p
      <4> QED
        BY <4>1, FromIs DEF n, p, x
    <3> DEFINE l == Len(x)
    <3>2. l = IF (3 * g + 1) + 3 - 1 < n THEN 3 ELSE n - (3 * g + 1) + 1
      BY <3>1
    <3> HIDE DEF l
    <3>3. t + 1 \in 1 .. l
      BY <1>1, <1>4, <2>3, <3>2
    <3>4. t + 1 <= l /\ (3 * g + 1) + (t + 1) - 1 = k
      BY <2>3, <3>3
    <3> QED
      BY <3>1, <3>3, <3>4 DEF At, l
  <2>7. 8 * t + 8 - r = 8 - j
    BY <2>3
  <2> HIDE DEF x, j, k
  <2> QED
    BY <2>4, <2>5, <2>6, <2>7 DEF GroupBit, Bit
<1>11. ASSUME NEW b \in 8 * n + 1 .. 6 * M PROVE TextBits(text)[b] = 0
  <2>1. b \in 1 .. 6 * M
    BY <1>1, <1>4
  <2>2. PICK g \in 0 .. G - 1, r \in 1 .. 24 : b = 24 * g + r
    BY <1>9, <2>1
  <2> DEFINE t == (r - 1) \div 8
             x == From(3 * g + 1, bytes, 3)
             e == 8 * t + 8 - r
  <2>3. t \in 0 .. 2 /\ e \in 0 .. 7
    BY <2>2
  <2>4. TextBits(text)[b] = GroupBit(x, r)
    <3>1. g \in Nat /\ 24 * g + r <= 6 * M
      BY <1>4, <2>1, <2>2
    <3> QED
      BY <1>6, <2>2, <3>1
  <2>5. At(x, t + 1) = 0
    <3> HIDE DEF x
    <3>1. Len(x) = IF 3 * g + 3 < n THEN 3 ELSE n - 3 * g
      BY GroupIs DEF G, x, n
    <3> DEFINE l == Len(x)
    <3>2. l = IF 3 * g + 3 < n THEN 3 ELSE n - 3 * g
      BY <3>1
    <3> HIDE DEF l
    <3>3. ~ (t + 1 <= l)
      BY <1>1, <1>4, <2>2, <3>2
    <3> QED
      BY <3>3 DEF At, l
  <2>6. (0 \div 2 ^ e) % 2 = 0
    <3> HIDE DEF e
    <3>1. e = 0 \/ e = 1 \/ e = 2 \/ e = 3 \/ e = 4 \/ e = 5 \/ e = 6 \/ e = 7
      BY <2>3
    <3>2. \/ 2 ^ e = 1 \/ 2 ^ e = 2 \/ 2 ^ e = 4 \/ 2 ^ e = 8
          \/ 2 ^ e = 16 \/ 2 ^ e = 32 \/ 2 ^ e = 64 \/ 2 ^ e = 128
      <4>1. e = 0 => 2 ^ e = 1
        BY Powers, Zenon
      <4>2. e = 1 => 2 ^ e = 2
        BY Powers, Zenon
      <4>3. e = 2 => 2 ^ e = 4
        BY Powers, Zenon
      <4>4. e = 3 => 2 ^ e = 8
        BY Powers, Zenon
      <4>5. e = 4 => 2 ^ e = 16
        BY Powers, Zenon
      <4>6. e = 5 => 2 ^ e = 32
        BY Powers, Zenon
      <4>7. e = 6 => 2 ^ e = 64
        BY Powers, Zenon
      <4>8. e = 7 => 2 ^ e = 128
        BY Powers, Zenon
      <4> QED
        BY <3>1, <4>1, <4>2, <4>3, <4>4, <4>5, <4>6, <4>7, <4>8, Zenon
    <3> DEFINE p == 2 ^ e
    <3>3. p \in Nat \ {0}
      BY <3>2
    <3> HIDE DEF p
    <3>4. (0 \div p) % 2 = 0
      BY <3>3
    <3> QED
      BY <3>4 DEF p
  <2> HIDE DEF x
  <2> QED
    BY <2>4, <2>5, <2>6 DEF GroupBit, Bit
<1>12. IsPrefix(ByteBits, TextBits(text))
  <2> DEFINE s == ByteBits
             t == TextBits(text)
  <2>1. PICK T : s \in Seq(T)
    BY <1>8
  <2>2. PICK U : t \in Seq(U)
    BY <1>7
  <2>3. Len(s) = 8 * n /\ Len(t) = 6 * M /\ \A b \in 1 .. 8 * n : t[b] = s[b]
    BY <1>7, <1>8, <1>10
  <2> HIDE DEF s, t
  <2>4. Len(s) <= Len(t) /\ Len(s) \in Nat /\ Len(t) \in Nat
    BY <1>1, <1>4, <2>3
  <2>5. SubSeq(s, 1, Len(s)) = SubSeq(t, 1, Len(s))
    <3> DEFINE m == Len(s)
    <3>1. m \in Nat /\ \A b \in 1 .. m : s[b] = t[b]
      BY <2>3, <2>4
    <3>2. SubSeq(s, 1, m) = [b \in 1 .. m |-> s[b]]
      BY <2>1, <3>1
    <3>3. SubSeq(t, 1, m) = [b \in 1 .. m |-> t[b]]
      BY <2>2, <2>4, <3>1
    <3> QED
      BY <3>1, <3>2, <3>3
  <2> QED
    BY <2>4, <2>5 DEF IsPrefix, s, t
<1> QED
  BY <1>1, <1>5, <1>7, <1>8, <1>11, <1>12 DEF Encodes, n, M

\* What is encoded is bytes, as many as are encoded at once.
BytesInv == bytes \in Seq(Octets) /\ Len(bytes) <= MaxBytes

LEMMA BytesInvariant == BytesSpec => []BytesInv
<1>1. BytesInit => BytesInv
  BY Base64Assumption DEF BytesInit, BytesInv
<1>2. BytesInv /\ [BytesNext]_bytes => BytesInv'
  <2> SUFFICES ASSUME BytesInv, [BytesNext]_bytes PROVE BytesInv'
    OBVIOUS
  <2>1. CASE AddByte
    <3>1. PICK value \in Values : bytes' = Append(bytes, value)
      BY <2>1 DEF AddByte
    <3>2. value \in Octets
      BY Base64Assumption DEF Octets
    <3>3. bytes' \in Seq(Octets) /\ Len(bytes') = Len(bytes) + 1
      BY <3>1, <3>2 DEF BytesInv
    <3>4. Len(bytes) < MaxBytes /\ Len(bytes) \in Nat /\ MaxBytes \in Nat
      BY <2>1, Base64Assumption DEF AddByte, BytesInv
    <3> QED
      BY <3>3, <3>4 DEF BytesInv
  <2>2. CASE NextInput
    BY <2>2, Base64Assumption DEF NextInput, BytesInv
  <2>3. CASE UNCHANGED bytes
    BY <2>3 DEF BytesInv
  <2> QED
    BY <2>1, <2>2, <2>3 DEF BytesNext
<1> QED
  BY <1>1, <1>2, PTL DEF BytesSpec

\* The key of a web socket has room, and so b64_encode does encode it.
LEMMA KeyHasRoom ==
    ASSUME BytesInv
    PROVE  /\ B64Encode(bytes, KeyRoom) = Base64EncodeChunked(bytes)
           /\ 4 * GroupCount(bytes) < KeyRoom
<1> DEFINE n == Len(bytes)
           most == 4 * ((MaxBytes + 2) \div 3)
           G == (n + 2) \div 3
<1>1. n \in Nat /\ MaxBytes \in Nat /\ n <= MaxBytes /\ KeyRoom \in Nat /\ KeyRoom > most
  BY Base64Assumption DEF BytesInv
<1> HIDE DEF n
<1>2. G <= (MaxBytes + 2) \div 3
  BY <1>1
<1>3. (n * 8) \div 6 <= 4 * G /\ G \in Nat /\ (n * 8) \div 6 \in Nat
  BY <1>1
<1>4. 4 * G <= most /\ most \in Nat
  BY <1>1, <1>2, <1>3
<1> HIDE DEF G, most
<1>5. 4 * G < KeyRoom /\ ~ (KeyRoom < (n * 8) \div 6)
  BY <1>1, <1>3, <1>4
<1> QED
  BY <1>5 DEF B64Encode, Base64EncodeChunked, GroupCount, G, n

(***************************************************************************)
(* Base64: whatever the bytes and however they are cut, the text is that   *)
(* of the whole, and the key of a web socket fits into its array.          *)
(***************************************************************************)
THEOREM PiecesEncodeTheWholeCorrect == BytesSpec => []PiecesEncodeTheWhole
<1>1. BytesInv => PiecesEncodeTheWhole
  <2> SUFFICES ASSUME BytesInv PROVE PiecesEncodeTheWhole
    OBVIOUS
  <2>1. bytes \in Seq(Octets)
    BY DEF BytesInv
  <2>2. Encodes(SendBasicAuth)
    BY <2>1, SentIsText, TextEncodes
  <2>3. Encodes(FileData)
    BY <2>1, FileIsText, TextEncodes
  <2>4. IsText(Base64EncodeChunked(bytes), bytes)
    BY <2>1, ChunkedIsText
  <2>5. Encodes(Base64EncodeChunked(bytes))
    BY <2>1, <2>4, TextEncodes
  <2>6. Len(Base64EncodeChunked(bytes)) = 4 * GroupCount(bytes)
    BY <2>4 DEF IsText
  <2> QED
    BY <2>2, <2>3, <2>5, <2>6, KeyHasRoom DEF PiecesEncodeTheWhole
<1> QED
  BY <1>1, BytesInvariant, PTL

-----------------------------------------------------------------------------
(***************************************************************************)
(* The JPEG scan.  Both searches are recursive functions that only go      *)
(* forward in the buffer, and so there are such functions.                 *)
(***************************************************************************)
Forward(f, Stop, val, next) == f = [p \in Nat |-> IF p \in Stop THEN val[p] ELSE f[next[p]]]

LEMMA ForwardExists ==
    ASSUME NEW L \in Nat, NEW Stop \in SUBSET Nat, NEW val, NEW next \in [Nat -> Nat],
           \A p \in Nat : p \notin Stop => p < L /\ next[p] > p
    PROVE  \E f : Forward(f, Stop, val, next)
<1> DEFINE Body(f, p) == IF p \in Stop THEN val[p] ELSE f[next[p]]
           Right(f, k) == \A p \in Nat : p >= L - k => f[p] = Body(f, p)
           S == {k \in Nat : \E f : f = [p \in Nat |-> f[p]] /\ Right(f, k)}
<1>1. 0 \in S
  <2> DEFINE g == [p \in Nat |-> val[p]]
  <2>1. ASSUME NEW p \in Nat, p >= L - 0 PROVE g[p] = Body(g, p)
    BY <2>1
  <2>2. g = [p \in Nat |-> g[p]]
    OBVIOUS
  <2> HIDE DEF g
  <2> QED
    BY <2>1, <2>2
<1>2. ASSUME NEW k \in 1 .. L, k - 1 \in S PROVE k \in S
  <2>1. PICK f : f = [p \in Nat |-> f[p]] /\ Right(f, k - 1)
    BY <1>2
  <2> DEFINE q == L - k
             g == [p \in Nat |-> IF p = q THEN Body(f, q) ELSE f[p]]
  <2>2. q \in Nat
    OBVIOUS
  <2>3. ASSUME NEW p \in Nat, p >= q PROVE g[p] = Body(g, p)
    <3>1. p \notin Stop => next[p] \in Nat /\ next[p] > p
      OBVIOUS
    <3>2. p \notin Stop => g[next[p]] = f[next[p]]
      <4>1. p \notin Stop => next[p] # q
        BY <2>2, <2>3, <3>1
      <4> HIDE DEF q
      <4> QED
        BY <3>1, <4>1
    <3>3. CASE p = q
      BY <3>2, <3>3
    <3>4. CASE p # q
      <4>1. p >= L - (k - 1)
        BY <2>3, <3>4
      <4>2. f[p] = Body(f, p)
        BY <2>1, <4>1
      <4>3. g[p] = f[p]
        BY <3>4
      <4> HIDE DEF g
      <4> QED
        BY <3>2, <4>2, <4>3
    <3> QED
      BY <3>3, <3>4
  <2>4. g = [p \in Nat |-> g[p]]
    OBVIOUS
  <2> HIDE DEF g
  <2>5. Right(g, k)
    BY <2>3
  <2> QED
    BY <2>4, <2>5
<1>3. L \in S
  <2> HIDE DEF S
  <2> QED
    BY <1>1, <1>2, StepInduction
<1>4. PICK f : f = [p \in Nat |-> f[p]] /\ Right(f, L)
  BY <1>3
<1>5. ASSUME NEW p \in Nat PROVE f[p] = Body(f, p)
  BY <1>4
<1> DEFINE h == [p \in Nat |-> Body(f, p)]
<1>6. f = h
  BY <1>4, <1>5
<1> QED
  BY <1>6 DEF Forward

\* The function of findJPEGheader, and what it says: f is the search for a header
\* from every position.
IsSearch(f, b, start, len, marker) ==
    f = [p \in Nat |->
            IF p - start >= len THEN NotFound
            ELSE IF p >= Len(b) THEN BeyondBuffer
            ELSE IF b[p] # 255 THEN NotFound
            ELSE IF b[p + 1] = marker THEN p + 2
            ELSE IF b[p + 1] \notin Skipped THEN f[p + 2]
            ELSE IF p + 3 > Len(b) THEN BeyondBuffer
            ELSE f[NextBlock(b, p + 2)]]

Finds(f, b, start, len, marker) ==
    \A p \in Nat :
       f[p] = IF p - start >= len THEN NotFound
              ELSE IF p >= Len(b) THEN BeyondBuffer
              ELSE IF b[p] # 255 THEN NotFound
              ELSE IF b[p + 1] = marker THEN p + 2
              ELSE IF b[p + 1] \notin Skipped THEN f[p + 2]
              ELSE IF p + 3 > Len(b) THEN BeyondBuffer
              ELSE f[NextBlock(b, p + 2)]

LEMMA FindHeaderIs ==
    ASSUME NEW b \in Seq(Octets), NEW start \in Nat, NEW len \in Int, NEW marker
    PROVE  \E f : FindHeader(b, start, len, marker) = f[start] /\ Finds(f, b, start, len, marker)
<1> DEFINE L == Len(b)
           Body(f, p) == IF p - start >= len THEN NotFound
                         ELSE IF p >= Len(b) THEN BeyondBuffer
                         ELSE IF b[p] # 255 THEN NotFound
                         ELSE IF b[p + 1] = marker THEN p + 2
                         ELSE IF b[p + 1] \notin Skipped THEN f[p + 2]
                         ELSE IF p + 3 > Len(b) THEN BeyondBuffer
                         ELSE f[NextBlock(b, p + 2)]
           Stop == {p \in Nat : \/ p - start >= len \/ p >= L \/ b[p] # 255 \/ b[p + 1] = marker
                                \/ b[p + 1] \in Skipped /\ p + 3 > L}
           none == [p \in Nat |-> 0]
           val == [p \in Nat |-> Body(none, p)]
           next == [p \in Nat |-> IF p \in Stop THEN p ELSE IF b[p + 1] \notin Skipped THEN p + 2
                                                            ELSE NextBlock(b, p + 2)]
<1>1. L \in Nat
  OBVIOUS
<1>2. ASSUME NEW p \in Nat PROVE next[p] \in Nat /\ (p \notin Stop => p < L /\ next[p] > p)
  <2>1. CASE p \in Stop
    BY <2>1
  <2>2. CASE p \notin Stop
    <3>1. p < L /\ (b[p + 1] \in Skipped => p + 3 <= L)
      BY <1>1, <2>2
    <3> HIDE DEF L
    <3>2. CASE b[p + 1] \notin Skipped
      <4>1. next[p] = p + 2
        BY <2>2, <3>2
      <4> QED
        BY <3>1, <4>1
    <3>3. CASE b[p + 1] \in Skipped
      <4>1. p + 2 \in 1 .. L /\ p + 3 \in 1 .. L /\ (p + 2) + 1 = p + 3
        BY <1>1, <3>1, <3>3
      <4>2. \A i \in 1 .. L : b[i] \in Octets
        BY DEF L
      <4> DEFINE x == b[p + 2]
                 y == b[p + 3]
      <4>3. x \in Octets /\ y \in Octets /\ next[p] = p + 2 + (x * 256 + y)
        <5>1. next[p] = NextBlock(b, p + 2)
          BY <2>2, <3>3
        <5> QED
          BY <4>1, <4>2, <5>1 DEF NextBlock, BlockLength
      <4> HIDE DEF x, y, next
      <4> QED
        BY <3>1, <4>3 DEF Octets
    <3> QED
      BY <3>2, <3>3
  <2> QED
    BY <2>1, <2>2
<1>3. next \in [Nat -> Nat] /\ Stop \in SUBSET Nat
  <2> HIDE DEF Stop
  <2>1. \A p \in Nat : next[p] \in Nat
    BY <1>2
  <2> QED
    BY <2>1 DEF Stop
<1>4. PICK f : Forward(f, Stop, val, next)
  <2> HIDE DEF L, Stop, val, next
  <2> QED
    BY <1>1, <1>2, <1>3, ForwardExists
<1>5. ASSUME NEW p \in Nat PROVE (IF p \in Stop THEN val[p] ELSE f[next[p]]) = Body(f, p)
  <2>1. CASE p \in Stop
    <3>1. Body(f, p) = Body(none, p)
      BY <1>1, <2>1
    <3> HIDE DEF Stop
    <3> QED
      BY <2>1, <3>1
  <2>2. CASE p \notin Stop
    <3>1. Body(f, p) = IF b[p + 1] \notin Skipped THEN f[p + 2] ELSE f[NextBlock(b, p + 2)]
      BY <1>1, <2>2
    <3>2. next[p] = IF b[p + 1] \notin Skipped THEN p + 2 ELSE NextBlock(b, p + 2)
      BY <2>2
    <3> HIDE DEF Stop, next
    <3> QED
      BY <2>2, <3>1, <3>2
  <2> QED
    BY <2>1, <2>2
<1> HIDE DEF Stop, val, next
<1>6. IsSearch(f, b, start, len, marker)
  <2> DEFINE g == [p \in Nat |-> IF p \in Stop THEN val[p] ELSE f[next[p]]]
             h == [p \in Nat |-> Body(f, p)]
  <2>1. \A p \in Nat : g[p] = h[p]
    BY <1>5
  <2>2. g = h
    BY <2>1
  <2> QED
    BY <1>4, <2>2 DEF Forward, IsSearch
<1> DEFINE F == CHOOSE g : IsSearch(g, b, start, len, marker)
<1>7. IsSearch(F, b, start, len, marker)
  BY <1>6
<1>8. FindHeader(b, start, len, marker) = F[start]
  BY DEF FindHeader, IsSearch
<1> HIDE DEF F
<1>9. Finds(F, b, start, len, marker)
  <2> DEFINE g == [p \in Nat |-> Body(F, p)]
  <2>1. F = g
    BY <1>7 DEF IsSearch
  <2>2. \A p \in Nat : g[p] = Body(F, p)
    OBVIOUS
  <2> HIDE DEF g
  <2> QED
    BY <2>1, <2>2, Zenon DEF Finds
<1> QED
  BY <1>8, <1>9

\* And f that for the end of the scan data.
Skips(f, b) ==
    \A p \in Nat :
       f[p] = IF p >= Len(b) THEN BeyondBuffer
              ELSE IF b[p] # 255 THEN f[p + 1]
              ELSE IF b[p + 1] # 0 THEN p
              ELSE f[p + 2]

LEMMA SkipScanBytesIs ==
    ASSUME NEW b \in Seq(Octets), NEW start \in Nat
    PROVE  \E f : SkipScanBytes(b, start) = f[start] /\ Skips(f, b)
<1> DEFINE L == Len(b)
           Body(f, p) == IF p >= Len(b) THEN BeyondBuffer
                         ELSE IF b[p] # 255 THEN f[p + 1]
                         ELSE IF b[p + 1] # 0 THEN p
                         ELSE f[p + 2]
           Is(f) == f = [p \in Nat |-> Body(f, p)]
           Stop == {p \in Nat : p >= L \/ (b[p] = 255 /\ b[p + 1] # 0)}
           val == [p \in Nat |-> IF p >= L THEN BeyondBuffer ELSE p]
           next == [p \in Nat |-> IF b[p] # 255 THEN p + 1 ELSE p + 2]
<1>1. L \in Nat
  OBVIOUS
<1>2. \A p \in Nat : p \notin Stop => p < L /\ next[p] > p
  BY <1>1
<1>3. next \in [Nat -> Nat] /\ Stop \in SUBSET Nat
  OBVIOUS
<1>4. PICK f : Forward(f, Stop, val, next)
  <2> HIDE DEF L, Stop, val, next
  <2> QED
    BY <1>1, <1>2, <1>3, ForwardExists
<1>5. ASSUME NEW p \in Nat PROVE (IF p \in Stop THEN val[p] ELSE f[next[p]]) = Body(f, p)
  <2>1. CASE p >= L
    BY <2>1
  <2>2. CASE ~ (p >= L) /\ b[p] # 255
    BY <2>2
  <2>3. CASE ~ (p >= L) /\ b[p] = 255 /\ b[p + 1] # 0
    BY <2>3
  <2>4. CASE ~ (p >= L) /\ b[p] = 255 /\ b[p + 1] = 0
    BY <2>4
  <2> QED
    BY <2>1, <2>2, <2>3, <2>4
<1> HIDE DEF Stop, val, next
<1>6. Is(f)
  <2> DEFINE g == [p \in Nat |-> IF p \in Stop THEN val[p] ELSE f[next[p]]]
             h == [p \in Nat |-> Body(f, p)]
  <2>1. \A p \in Nat : g[p] = h[p]
    BY <1>5
  <2>2. g = h
    BY <2>1
  <2> QED
    BY <1>4, <2>2 DEF Forward
<1> DEFINE F == CHOOSE g : Is(g)
<1>7. Is(F)
  <2> HIDE DEF Is
  <2> QED
    BY <1>6
<1>8. SkipScanBytes(b, start) = F[start]
  BY DEF SkipScanBytes
<1> HIDE DEF F
<1>9. \A p \in Nat : F[p] = Body(F, p)
  BY <1>7
<1> QED
  BY <1>8, <1>9 DEF Skips

\* Where the elements of two sequences are in their concatenation.
InTwo(b, r, s) ==
    /\ b \in Seq(Octets) /\ Len(b) = Len(r) + Len(s)
    /\ \A i \in 1 .. Len(r) : b[i] = r[i]
    /\ \A i \in 1 .. Len(s) : b[Len(r) + i] = s[i]

LEMMA TwoParts ==
    ASSUME NEW r \in Seq(Octets), NEW s \in Seq(Octets)
    PROVE  InTwo(r \o s, r, s)
<1> DEFINE b == r \o s
           l == Len(r)
           m == Len(s)
<1>1. b \in Seq(Octets) /\ Len(b) = l + m /\ l \in Nat /\ m \in Nat
      /\ \A i \in 1 .. Len(b) : b[i] = IF i <= l THEN r[i] ELSE s[i - l]
  BY ConcatProperties
<1> HIDE DEF b, l, m
<1>2. ASSUME NEW i \in 1 .. l PROVE b[i] = r[i]
  <2>1. i \in 1 .. Len(b) /\ i <= l
    BY <1>1
  <2> QED
    BY <1>1, <2>1
<1>3. ASSUME NEW i \in 1 .. m PROVE b[l + i] = s[i]
  <2>1. l + i \in 1 .. Len(b) /\ ~ (l + i <= l) /\ (l + i) - l = i
    BY <1>1
  <2> QED
    BY <1>1, <2>1
<1> QED
  BY <1>1, <1>2, <1>3 DEF InTwo, b, l, m

LEMMA FourBytes ==
    ASSUME NEW i \in Octets, NEW j \in Octets, NEW k \in Octets, NEW l \in Octets
    PROVE  <<i, j, k, l>> \in Seq(Octets) /\ Len(<<i, j, k, l>>) = 4
OBVIOUS

\* How long a section is in the buffer.
Size(name) == Len(Payload[name]) + 4

LEMMA SectionIs ==
    ASSUME NEW name \in Kinds \cup {"SOS"}
    PROVE  /\ Section(name) \in Seq(Octets) /\ Len(Section(name)) = Size(name) /\ Size(name) \in 5 .. 7
           /\ Section(name)[1] = 255 /\ Section(name)[2] = Marker[name]
           /\ Section(name)[3] = 0 /\ Section(name)[4] = Size(name) - 2
           /\ name \in {"DQT", "SOS"} => Size(name) = 6
<1> DEFINE x == Payload[name]
           h == <<255, Marker[name], 0, Len(x) + 2>>
<1>1. x \in Seq(Octets) /\ Len(x) \in 1 .. 3 /\ Marker[name] \in Octets
      /\ (name \in {"DQT", "SOS"} => Len(x) = 2)
  <2>1. CASE name = "APP0"
    BY <2>1 DEF Payload, Marker, Octets
  <2>2. CASE name = "DQT"
    BY <2>2 DEF Payload, Marker, Octets
  <2>3. CASE name = "DHT"
    BY <2>3 DEF Payload, Marker, Octets
  <2>4. CASE name = "SOF0"
    BY <2>4 DEF Payload, Marker, Octets
  <2>5. CASE name = "DRI"
    BY <2>5 DEF Payload, Marker, Octets
  <2>6. CASE name = "SOS"
    BY <2>6 DEF Payload, Marker, Octets
  <2> QED
    BY <2>1, <2>2, <2>3, <2>4, <2>5, <2>6 DEF Kinds
<1> HIDE DEF x
<1>2. h \in Seq(Octets) /\ Len(h) = 4
  <2> DEFINE y == Marker[name]
             l == Len(x)
  <2>1. y \in Octets /\ l \in 1 .. 3
    BY <1>1
  <2> HIDE DEF y, l
  <2>3. 255 \in Octets /\ 0 \in Octets /\ l + 2 \in Octets
    BY <2>1 DEF Octets
  <2>2. <<255, y, 0, l + 2>> \in Seq(Octets) /\ Len(<<255, y, 0, l + 2>>) = 4
    BY <2>1, <2>3, FourBytes
  <2> QED
    BY <2>2 DEF y, l
<1>3. h[1] = 255 /\ h[2] = Marker[name] /\ h[3] = 0 /\ h[4] = Len(x) + 2
  OBVIOUS
<1> HIDE DEF h
<1>4. /\ h \o x \in Seq(Octets) /\ Len(h \o x) = 4 + Len(x)
      /\ \A i \in 1 .. 4 : (h \o x)[i] = h[i]
  <2>1. /\ h \o x \in Seq(Octets) /\ Len(h \o x) = Len(h) + Len(x)
        /\ \A i \in 1 .. Len(h) : (h \o x)[i] = h[i]
    BY <1>1, <1>2, TwoParts DEF InTwo
  <2> QED
    BY <1>2, <2>1
<1>5. Section(name) = h \o x
  BY DEF Section, h, x
<1>6. Size(name) = Len(x) + 4
  BY DEF Size, x
<1> DEFINE l == Len(x)
<1>7. l \in 1 .. 3 /\ Len(h \o x) = 4 + l /\ Size(name) = l + 4 /\ h[4] = l + 2
  BY <1>1, <1>3, <1>4, <1>6
<1> HIDE DEF l
<1>8. Size(name) \in 5 .. 7 /\ h[4] = Size(name) - 2 /\ Len(h \o x) = Size(name)
  BY <1>7
<1>9. ASSUME name \in {"DQT", "SOS"} PROVE Size(name) = 6
  <2>1. Len(x) = 2
    BY <1>1, <1>9
  <2> QED
    BY <1>6, <2>1
<1> QED
  BY <1>3, <1>4, <1>5, <1>8, <1>9

LEMMA ElementIs ==
    ASSUME NEW e \in DOMAIN Element
    PROVE  Element[e] \in Seq(Octets) /\ Len(Element[e]) \in 1 .. 3
<1>1. e = "plain" \/ e = "zero" \/ e = "stuffed" \/ e = "restart"
  BY DEF Element
<1>2. CASE e = "plain"
  BY <1>2 DEF Element, Octets
<1>3. CASE e = "zero"
  BY <1>3 DEF Element, Octets
<1>4. CASE e = "stuffed"
  BY <1>4 DEF Element, Octets
<1>5. CASE e = "restart"
  BY <1>5 DEF Element, Octets
<1> QED
  BY <1>1, <1>2, <1>3, <1>4, <1>5

LEMMA EndingIs ==
    ASSUME NEW e \in DOMAIN Endings
    PROVE  /\ Endings[e] \in Seq(Octets) /\ e \in {"exact", "padded", "filled"}
           /\ Len(Endings[e]) \in 2 .. 4
<1>1. e = "exact" \/ e = "padded" \/ e = "filled"
  BY DEF Endings
<1>2. CASE e = "exact"
  BY <1>2 DEF Endings, Octets
<1>3. CASE e = "padded"
  <2>1. Endings[e] = <<255, 217, 0, 0>>
    BY <1>3 DEF Endings
  <2>2. 255 \in Octets /\ 217 \in Octets /\ 0 \in Octets
    BY DEF Octets
  <2> QED
    BY <1>3, <2>1, <2>2, FourBytes
<1>4. CASE e = "filled"
  BY <1>4 DEF Endings, Octets
<1> QED
  BY <1>1, <1>2, <1>3, <1>4

LEMMA OffsetsExist ==
    ASSUME NEW T, NEW s \in Seq(Seq(T))
    PROVE  \E off : Offsets(off, s)
<1> DEFINE N == Len(s)
           Right(g, m) == /\ g \in [0 .. m -> Nat] /\ g[0] = 0
                          /\ \A k \in 1 .. m : g[k] = g[k - 1] + Len(s[k])
           S == {m \in Nat : \E g : Right(g, m)}
<1>1. N \in Nat /\ \A k \in 1 .. N : Len(s[k]) \in Nat
  OBVIOUS
<1>2. 0 \in S
  <2>1. Right([k \in 0 .. 0 |-> 0], 0)
    OBVIOUS
  <2> QED
    BY <2>1
<1> HIDE DEF N
<1>3. ASSUME NEW m \in 1 .. N, m - 1 \in S PROVE m \in S
  <2>1. PICK g : Right(g, m - 1)
    BY <1>3
  <2> DEFINE h == [k \in 0 .. m |-> IF k = m THEN g[m - 1] + Len(s[m]) ELSE g[k]]
  <2>2. h \in [0 .. m -> Nat] /\ h[0] = 0
    BY <1>1, <2>1
  <2>3. ASSUME NEW k \in 1 .. m PROVE h[k] = h[k - 1] + Len(s[k])
    <3>1. k - 1 \in 0 .. m /\ k - 1 # m /\ k \in 0 .. m
      BY <1>1
    <3>2. h[k - 1] = g[k - 1]
      BY <3>1
    <3>3. CASE k = m
      BY <3>1, <3>2, <3>3
    <3>4. CASE k # m
      <4>1. k \in 1 .. m - 1 /\ h[k] = g[k]
        BY <1>1, <3>1, <3>4
      <4> HIDE DEF h
      <4> QED
        BY <2>1, <3>2, <4>1
    <3> QED
      BY <3>3, <3>4
  <2> HIDE DEF h
  <2>4. \E f : Right(f, m)
    <3>1. Right(h, m)
      BY <2>2, <2>3
    <3> QED
      BY <3>1
  <2> HIDE DEF Right
  <2>5. m \in Nat
    BY <1>1
  <2> QED
    BY <2>4, <2>5
<1>4. N \in S
  <2> HIDE DEF S
  <2>1. \A m \in 0 .. N : m \in S
    BY <1>1, <1>2, <1>3, StepInduction
  <2> QED
    BY <1>1, <2>1
<1> QED
  BY <1>4 DEF Offsets, N

\* Where the elements of four sequences are in their concatenation.
InFour(b, h, s, d, z) ==
    /\ b \in Seq(Octets) /\ Len(b) = Len(h) + Len(s) + Len(d) + Len(z)
    /\ \A i \in 1 .. Len(h) : b[i] = h[i]
    /\ \A i \in 1 .. Len(s) : b[Len(h) + i] = s[i]
    /\ \A i \in 1 .. Len(d) : b[Len(h) + Len(s) + i] = d[i]
    /\ \A i \in 1 .. Len(z) : b[Len(h) + Len(s) + Len(d) + i] = z[i]

LEMMA FourParts ==
    ASSUME NEW h \in Seq(Octets), NEW s \in Seq(Octets), NEW d \in Seq(Octets), NEW z \in Seq(Octets)
    PROVE  InFour(((h \o s) \o d) \o z, h, s, d, z)
<1> DEFINE x == h \o s
           y == x \o d
           b == y \o z
           i1 == Len(h)
           i2 == Len(s)
           i3 == Len(d)
           i4 == Len(z)
<1>1. x \in Seq(Octets) /\ Len(x) = i1 + i2 /\ (\A i \in 1 .. i1 : x[i] = h[i])
      /\ (\A i \in 1 .. i2 : x[i1 + i] = s[i])
  BY TwoParts DEF InTwo
<1> HIDE DEF x
<1>2. y \in Seq(Octets) /\ Len(y) = Len(x) + i3 /\ (\A i \in 1 .. Len(x) : y[i] = x[i])
      /\ (\A i \in 1 .. i3 : y[Len(x) + i] = d[i])
  BY <1>1, TwoParts DEF InTwo
<1> HIDE DEF y
<1>3. b \in Seq(Octets) /\ Len(b) = Len(y) + i4 /\ (\A i \in 1 .. Len(y) : b[i] = y[i])
      /\ (\A i \in 1 .. i4 : b[Len(y) + i] = z[i])
  BY <1>2, TwoParts DEF InTwo
<1>4. i1 \in Nat /\ i2 \in Nat /\ i3 \in Nat /\ i4 \in Nat
  OBVIOUS
<1> HIDE DEF b, i1, i2, i3, i4
<1>5. Len(x) = i1 + i2 /\ Len(y) = i1 + i2 + i3 /\ Len(b) = i1 + i2 + i3 + i4
  BY <1>1, <1>2, <1>3, <1>4
<1>6. ASSUME NEW i \in 1 .. i1 PROVE b[i] = h[i]
  <2>1. i \in 1 .. i1 + i2 /\ i \in 1 .. i1 + i2 + i3
    BY <1>4
  <2> QED
    BY <1>1, <1>2, <1>3, <1>5, <2>1
<1>7. ASSUME NEW i \in 1 .. i2 PROVE b[i1 + i] = s[i]
  <2>1. i1 + i \in 1 .. i1 + i2 /\ i1 + i \in 1 .. i1 + i2 + i3
    BY <1>4
  <2> QED
    BY <1>1, <1>2, <1>3, <1>5, <2>1
<1>8. ASSUME NEW i \in 1 .. i3 PROVE b[i1 + i2 + i] = d[i]
  <2>1. i1 + i2 + i \in 1 .. i1 + i2 + i3
    BY <1>4
  <2> QED
    BY <1>2, <1>3, <1>5, <2>1
<1>9. ASSUME NEW i \in 1 .. i4 PROVE b[i1 + i2 + i3 + i] = z[i]
  BY <1>3, <1>5
<1> QED
  BY <1>3, <1>5, <1>6, <1>7, <1>8, <1>9 DEF InFour, b, y, x, i1, i2, i3, i4

\* What an image is between two steps.
ImageInv ==
    /\ sections \in Seq(Kinds)
    /\ scan \in Seq(DOMAIN Element)
    /\ ending \in {"none"} \cup DOMAIN Endings
    /\ ending # "none" => scan # <<>>

LEMMA Flattened ==
    ASSUME NEW s \in Seq(Seq(Octets))
    PROVE  \E off : Offsets(off, s) /\ Placed(FlattenSeq(s), off, s, Octets)
<1>1. PICK off : Offsets(off, s)
  BY OffsetsExist
<1>2. Placed(FlattenSeq(s), off, s, Octets)
  BY <1>1, FlattenAt
<1> QED
  BY <1>1, <1>2

\* The sections are one behind the other in Headers, behind the SOI marker.
HeadersAt(off) ==
    LET n == Len(sections) IN
      /\ Headers \in Seq(Octets) /\ Len(Headers) = 2 + off[n]
      /\ Headers[1] = 255 /\ Headers[2] = Marker["SOI"]
      /\ off \in [0 .. n -> Nat] /\ off[0] = 0
      /\ \A k \in 1 .. n : /\ off[k] = off[k - 1] + Size(sections[k])
                           /\ \A i \in 1 .. 4 : /\ off[k - 1] + i \in 1 .. off[n]
                                                /\ Headers[2 + (off[k - 1] + i)] = Section(sections[k])[i]

LEMMA HeadersAre ==
    ASSUME ImageInv
    PROVE  \E off : HeadersAt(off) /\ \A k \in 1 .. Len(sections) : TableAt(k) = off[k - 1] + 8
<1> DEFINE n == Len(sections)
           s == [k \in 1 .. n |-> Section(sections[k])]
           soi == <<255, Marker["SOI"]>>
           F == FlattenSeq(s)
<1>1. n \in Nat /\ DOMAIN sections = 1 .. n /\ \A k \in 1 .. n : sections[k] \in Kinds
  BY DEF ImageInv
<1> HIDE DEF n
<1>2. ASSUME NEW k \in 1 .. n
      PROVE  /\ s[k] = Section(sections[k]) /\ s[k] \in Seq(Octets) /\ Len(s[k]) = Size(sections[k])
             /\ Size(sections[k]) \in 5 .. 7
  BY <1>1, SectionIs
<1>3. s \in Seq(Seq(Octets)) /\ Len(s) = n
  BY <1>1, <1>2
<1>4. soi \in Seq(Octets) /\ Len(soi) = 2 /\ soi[1] = 255 /\ soi[2] = Marker["SOI"]
  BY DEF Octets, Marker
<1>5. Headers = soi \o F
  BY <1>1 DEF Headers
<1> HIDE DEF s, soi
<1>6. PICK off : Offsets(off, s) /\ Placed(F, off, s, Octets)
  BY <1>3, Flattened
<1>7. /\ off \in [0 .. n -> Nat] /\ off[0] = 0
      /\ \A k \in 1 .. n : off[k] = off[k - 1] + Size(sections[k])
  BY <1>2, <1>3, <1>6 DEF Offsets
<1>8. /\ F \in Seq(Octets) /\ Len(F) = off[n]
      /\ \A k \in 1 .. n : \A i \in 1 .. Len(s[k]) :
            off[k - 1] + i \in 1 .. off[n] /\ F[off[k - 1] + i] = s[k][i]
  BY <1>3, <1>6 DEF Placed
<1> HIDE DEF F
<1>9. /\ Headers \in Seq(Octets) /\ Len(Headers) = 2 + off[n]
      /\ Headers[1] = 255 /\ Headers[2] = Marker["SOI"]
      /\ \A i \in 1 .. off[n] : Headers[2 + i] = F[i]
  <2>1. /\ soi \o F \in Seq(Octets) /\ Len(soi \o F) = Len(soi) + Len(F)
        /\ \A i \in 1 .. Len(soi) : (soi \o F)[i] = soi[i]
        /\ \A i \in 1 .. Len(F) : (soi \o F)[Len(soi) + i] = F[i]
    <3>1. InTwo(soi \o F, soi, F)
      BY <1>4, <1>8, TwoParts
    <3> QED
      BY <3>1 DEF InTwo
  <2> QED
    BY <1>4, <1>5, <1>8, <2>1
<1>10. ASSUME NEW k \in 1 .. n, NEW i \in 1 .. 4
       PROVE  /\ off[k - 1] + i \in 1 .. off[n]
              /\ Headers[2 + (off[k - 1] + i)] = Section(sections[k])[i]
  <2>1. i \in 1 .. Len(s[k])
    <3> DEFINE l == Len(s[k])
    <3>1. l \in 5 .. 7
      BY <1>2
    <3> HIDE DEF l
    <3>2. i \in 1 .. l
      BY <3>1
    <3> QED
      BY <3>2 DEF l
  <2>2. off[k - 1] + i \in 1 .. off[n] /\ F[off[k - 1] + i] = s[k][i]
    BY <1>8, <2>1
  <2> QED
    BY <1>2, <1>9, <2>2
<1>11. HeadersAt(off)
  BY <1>7, <1>9, <1>10 DEF HeadersAt, n
<1>12. ASSUME NEW k \in 1 .. n PROVE TableAt(k) = off[k - 1] + 8
  <2> DEFINE t == [i \in 1 .. k - 1 |-> Section(sections[i])]
             toff == [i \in 0 .. k - 1 |-> off[i]]
             G == FlattenSeq(t)
  <2>1. k \in Nat /\ k >= 1 /\ k <= n /\ n \in Nat /\ k - 1 \in 0 .. k - 1 /\ k - 1 \in Nat
    BY <1>1
  <2>2. ASSUME NEW i \in 1 .. k - 1
        PROVE  t[i] = Section(sections[i]) /\ t[i] \in Seq(Octets) /\ Len(t[i]) = Size(sections[i])
    <3>1. i \in 1 .. n
      BY <2>1
    <3> QED
      BY <1>2, <3>1
  <2>3. t \in Seq(Seq(Octets)) /\ Len(t) = k - 1
    BY <2>1, <2>2
  <2> HIDE DEF t
  <2>4. toff \in [0 .. k - 1 -> Nat] /\ toff[0] = 0 /\ toff[k - 1] = off[k - 1]
    <3>1. \A i \in 0 .. k - 1 : i \in 0 .. n
      BY <2>1
    <3> QED
      BY <1>7, <2>1, <3>1
  <2>5. ASSUME NEW i \in 1 .. k - 1 PROVE toff[i] = toff[i - 1] + Len(t[i])
    <3>1. i \in 1 .. n /\ i \in 0 .. k - 1 /\ i - 1 \in 0 .. k - 1
      BY <2>1
    <3> QED
      BY <1>7, <2>2, <3>1
  <2> HIDE DEF toff
  <2>6. Offsets(toff, t)
    BY <2>3, <2>4, <2>5 DEF Offsets
  <2>7. Placed(G, toff, t, Octets)
    BY <2>3, <2>6, FlattenAt
  <2>8. G \in Seq(Octets) /\ Len(G) = off[k - 1]
    BY <2>3, <2>4, <2>7 DEF Placed
  <2>9. TableAt(k) = Len(soi \o G) + 6
    BY DEF TableAt, soi, t
  <2> HIDE DEF G
  <2>10. Len(soi \o G) = 2 + off[k - 1]
    <3>1. InTwo(soi \o G, soi, G)
      BY <1>4, <2>8, TwoParts
    <3> QED
      BY <1>4, <2>8, <3>1 DEF InTwo
  <2>11. off[k - 1] \in Nat
    <3>1. k - 1 \in 0 .. n
      BY <2>1
    <3> QED
      BY <1>7, <3>1
  <2> QED
    BY <2>9, <2>10, <2>11
<1> QED
  BY <1>11, <1>12 DEF n

\* And so are the elements in the scan data.
ScanDataAt(off) ==
    LET m == Len(scan) IN
      /\ ScanData \in Seq(Octets) /\ Len(ScanData) = off[m]
      /\ off \in [0 .. m -> Nat] /\ off[0] = 0
      /\ \A j \in 1 .. m : /\ off[j] = off[j - 1] + Len(Element[scan[j]])
                           /\ \A i \in 1 .. Len(Element[scan[j]]) :
                                 /\ off[j - 1] + i \in 1 .. off[m]
                                 /\ ScanData[off[j - 1] + i] = Element[scan[j]][i]

LEMMA ScanDataIs ==
    ASSUME ImageInv
    PROVE  \E off : ScanDataAt(off)
<1> DEFINE m == Len(scan)
           s == [j \in 1 .. m |-> Element[scan[j]]]
<1>1. m \in Nat /\ DOMAIN scan = 1 .. m /\ \A j \in 1 .. m : scan[j] \in DOMAIN Element
  BY DEF ImageInv
<1> HIDE DEF m
<1>2. \A j \in 1 .. m : s[j] = Element[scan[j]] /\ s[j] \in Seq(Octets)
  BY <1>1, ElementIs
<1>3. s \in Seq(Seq(Octets)) /\ Len(s) = m
  BY <1>1, <1>2
<1>4. ScanData = FlattenSeq(s)
  BY <1>1 DEF ScanData
<1> HIDE DEF s
<1>5. PICK off : Offsets(off, s) /\ Placed(ScanData, off, s, Octets)
  BY <1>3, <1>4, Flattened
<1>6. /\ off \in [0 .. m -> Nat] /\ off[0] = 0
      /\ \A j \in 1 .. m : off[j] = off[j - 1] + Len(s[j])
  BY <1>3, <1>5 DEF Offsets
<1>7. /\ ScanData \in Seq(Octets) /\ Len(ScanData) = off[m]
      /\ \A j \in 1 .. m : \A i \in 1 .. Len(s[j]) :
            off[j - 1] + i \in 1 .. off[m] /\ ScanData[off[j - 1] + i] = s[j][i]
  BY <1>3, <1>5 DEF Placed
<1>8. ScanDataAt(off)
  BY <1>2, <1>6, <1>7 DEF ScanDataAt, m
<1> QED
  BY <1>8

(***************************************************************************)
(* Where everything is in the buffer b: section k begins at P[k], element  *)
(* j of the scan at Q[j], and what ends the image behind the last one.     *)
(***************************************************************************)
SectionAt(b, p, name) ==
    b[p] = 255 /\ b[p + 1] = Marker[name] /\ b[p + 2] = 0 /\ b[p + 3] = Size(name) - 2

PartAt(b, p, part) == \A i \in 1 .. Len(part) : b[p + i - 1] = part[i]

SectionsAt(b, P, n) ==
    /\ P \in [1 .. n + 1 -> Nat] /\ P[1] = 3 /\ b[1] = 255 /\ b[2] = Marker["SOI"]
    /\ \A k \in 1 .. n : P[k + 1] = P[k] + Size(sections[k]) /\ SectionAt(b, P[k], sections[k])
    /\ SectionAt(b, P[n + 1], "SOS")

ElementsAt(b, Q, m) ==
    /\ Q \in [1 .. m + 1 -> Nat]
    /\ \A j \in 1 .. m : /\ Q[j + 1] = Q[j] + Len(Element[scan[j]])
                         /\ PartAt(b, Q[j], Element[scan[j]])

Layout(b, P, Q, n, m) ==
    /\ b \in Seq(Octets) /\ SectionsAt(b, P, n) /\ Q[1] = P[n + 1] + 6 /\ ElementsAt(b, Q, m)
    /\ PartAt(b, Q[m + 1], Endings[ending])
    /\ Len(b) = Q[m + 1] + Len(Endings[ending]) - 1

\* The places of the property.
Places(P, Q, n, m) ==
    /\ \A k \in 1 .. n : TableAt(k) = P[k] + 5
    /\ Len(Headers \o Section("SOS")) = Q[1] - 1
    /\ Len(ScanData) = Q[m + 1] - Q[1]

\* Places counted from 1, from offsets counted from 0.
LEMMA Shifted ==
    ASSUME NEW N \in Nat, NEW o \in [0 .. N -> Nat], o[0] = 0, NEW c \in Nat,
           NEW f, f = [k \in 1 .. N + 1 |-> c + o[k - 1]]
    PROVE  /\ f \in [1 .. N + 1 -> Nat] /\ f[1] = c /\ f[N + 1] = c + o[N]
           /\ \A k \in 1 .. N : f[k] = c + o[k - 1] /\ f[k + 1] = c + o[k]
<1>1. ASSUME NEW k \in 1 .. N + 1 PROVE f[k] = c + o[k - 1] /\ o[k - 1] \in Nat
  <2>1. k - 1 \in 0 .. N
    OBVIOUS
  <2> QED
    BY <2>1
<1>2. f \in [1 .. N + 1 -> Nat]
  <2>1. \A k \in 1 .. N + 1 : c + o[k - 1] \in Nat
    BY <1>1
  <2> QED
    BY <2>1
<1>3. f[1] = c
  <2>1. 1 \in 1 .. N + 1 /\ 1 - 1 = 0
    OBVIOUS
  <2>2. f[1] = c + o[0]
    BY <1>1, <2>1
  <2> QED
    BY <2>2
<1>4. f[N + 1] = c + o[N]
  <2>1. N + 1 \in 1 .. N + 1 /\ (N + 1) - 1 = N
    OBVIOUS
  <2> QED
    BY <1>1, <2>1
<1>5. ASSUME NEW k \in 1 .. N PROVE f[k] = c + o[k - 1] /\ f[k + 1] = c + o[k]
  <2>1. k \in 1 .. N + 1 /\ k + 1 \in 1 .. N + 1 /\ (k + 1) - 1 = k
    OBVIOUS
  <2> QED
    BY <1>1, <2>1
<1> QED
  BY <1>2, <1>3, <1>4, <1>5

LEMMA BufferIs ==
    ASSUME ImageInv, ending # "none"
    PROVE  \E P, Q : Layout(Buffer, P, Q, Len(sections), Len(scan)) /\ Places(P, Q, Len(sections), Len(scan))
<1> DEFINE n == Len(sections)
           m == Len(scan)
           H == Headers
           G == Section("SOS")
           D == ScanData
           Z == Endings[ending]
           b == Buffer
<1>1. n \in Nat /\ m \in Nat
  BY DEF ImageInv
<1>2. PICK off : HeadersAt(off) /\ \A k \in 1 .. n : TableAt(k) = off[k - 1] + 8
  BY HeadersAre
<1>3. PICK soff : ScanDataAt(soff)
  BY ScanDataIs
<1>4. /\ H \in Seq(Octets) /\ Len(H) = 2 + off[n] /\ H[1] = 255 /\ H[2] = Marker["SOI"]
      /\ off \in [0 .. n -> Nat] /\ off[0] = 0
      /\ \A k \in 1 .. n : /\ off[k] = off[k - 1] + Size(sections[k])
                           /\ \A i \in 1 .. 4 : /\ off[k - 1] + i \in 1 .. off[n]
                                                /\ H[2 + (off[k - 1] + i)] = Section(sections[k])[i]
  BY <1>2 DEF HeadersAt
<1>5. /\ D \in Seq(Octets) /\ Len(D) = soff[m] /\ soff \in [0 .. m -> Nat] /\ soff[0] = 0
      /\ \A j \in 1 .. m : /\ soff[j] = soff[j - 1] + Len(Element[scan[j]])
                           /\ \A i \in 1 .. Len(Element[scan[j]]) :
                                 /\ soff[j - 1] + i \in 1 .. soff[m]
                                 /\ D[soff[j - 1] + i] = Element[scan[j]][i]
  BY <1>3 DEF ScanDataAt
<1>6. /\ G \in Seq(Octets) /\ Len(G) = 6
      /\ G[1] = 255 /\ G[2] = Marker["SOS"] /\ G[3] = 0 /\ G[4] = Size("SOS") - 2
  <2>1. "SOS" \in Kinds \cup {"SOS"} /\ "SOS" \in {"DQT", "SOS"}
    OBVIOUS
  <2> DEFINE name == "SOS"
  <2> HIDE DEF name
  <2>2. name = "SOS"
    BY DEF name
  <2>3. /\ Section(name) \in Seq(Octets) /\ Len(Section(name)) = Size(name)
        /\ Section(name)[1] = 255 /\ Section(name)[2] = Marker[name]
        /\ Section(name)[3] = 0 /\ Section(name)[4] = Size(name) - 2 /\ Size(name) = 6
    BY <2>1, <2>2, SectionIs
  <2> QED
    BY <2>3 DEF name
<1>7. Z \in Seq(Octets) /\ Len(Z) \in 2 .. 4
  BY EndingIs DEF ImageInv
<1>8. b = ((H \o G) \o D) \o Z
  BY DEF Buffer
<1> HIDE DEF n, m, H, G, D, Z, b
<1> DEFINE P == [k \in 1 .. n + 1 |-> 3 + off[k - 1]]
           Q == [j \in 1 .. m + 1 |-> 9 + off[n] + soff[j - 1]]
           E == off[n]
           S == soff[m]
<1>9. E \in Nat /\ S \in Nat
  BY <1>1, <1>4, <1>5
<1>10. /\ b \in Seq(Octets) /\ Len(b) = 8 + E + S + Len(Z)
       /\ \A i \in 1 .. 2 + E : b[i] = H[i]
       /\ \A i \in 1 .. 6 : b[2 + E + i] = G[i]
       /\ \A i \in 1 .. S : b[8 + E + i] = D[i]
       /\ \A i \in 1 .. Len(Z) : b[8 + E + S + i] = Z[i]
  <2>1. InFour(b, H, G, D, Z)
    BY <1>4, <1>5, <1>6, <1>7, <1>8, FourParts
  <2> DEFINE l == Len(Z)
  <2>2. Len(H) = 2 + E /\ Len(G) = 6 /\ Len(D) = S /\ l \in Nat
    BY <1>4, <1>5, <1>6, <1>7
  <2>3. Len(b) = (2 + E) + 6 + S + l
    BY <2>1, <2>2 DEF InFour
  <2> HIDE DEF E, S, l
  <2>4. Len(b) = 8 + E + S + l /\ (2 + E) + 6 = 8 + E /\ (2 + E) + 6 + S = 8 + E + S
    BY <1>9, <2>2, <2>3
  <2> QED
    BY <2>1, <2>2, <2>4 DEF InFour, l
<1>11. /\ P \in [1 .. n + 1 -> Nat] /\ P[1] = 3 /\ P[n + 1] = 3 + E
       /\ \A k \in 1 .. n : P[k] = 3 + off[k - 1] /\ P[k + 1] = 3 + off[k]
  <2>1. off \in [0 .. n -> Nat] /\ off[0] = 0
    BY <1>4
  <2>2. P = [k \in 1 .. n + 1 |-> 3 + off[k - 1]]
    OBVIOUS
  <2> HIDE DEF P, E
  <2>3. /\ P \in [1 .. n + 1 -> Nat] /\ P[1] = 3 /\ P[n + 1] = 3 + off[n]
        /\ \A k \in 1 .. n : P[k] = 3 + off[k - 1] /\ P[k + 1] = 3 + off[k]
    BY <1>1, <2>1, <2>2, Shifted
  <2> QED
    BY <2>3 DEF E
<1>12. /\ Q \in [1 .. m + 1 -> Nat] /\ Q[1] = 9 + E /\ Q[m + 1] = 9 + E + S
       /\ \A j \in 1 .. m : Q[j] = 9 + E + soff[j - 1] /\ Q[j + 1] = 9 + E + soff[j]
  <2>1. soff \in [0 .. m -> Nat] /\ soff[0] = 0
    BY <1>5
  <2> DEFINE c == 9 + E
  <2>2. c \in Nat /\ Q = [j \in 1 .. m + 1 |-> c + soff[j - 1]]
    BY <1>9
  <2> HIDE DEF Q, c, S
  <2>3. /\ Q \in [1 .. m + 1 -> Nat] /\ Q[1] = c /\ Q[m + 1] = c + soff[m]
        /\ \A j \in 1 .. m : Q[j] = c + soff[j - 1] /\ Q[j + 1] = c + soff[j]
    BY <1>1, <2>1, <2>2, Shifted
  <2> QED
    BY <2>3 DEF c, S
<1> HIDE DEF P, Q, E, S
<1>13. SectionsAt(b, P, n)
  <2>1. b[1] = 255 /\ b[2] = Marker["SOI"]
    <3>1. 1 \in 1 .. 2 + E /\ 2 \in 1 .. 2 + E
      BY <1>9
    <3> QED
      BY <1>4, <1>10, <3>1
  <2>2. ASSUME NEW k \in 1 .. n
        PROVE  P[k + 1] = P[k] + Size(sections[k]) /\ SectionAt(b, P[k], sections[k])
    <3> DEFINE o == off[k - 1]
               name == sections[k]
    <3>1. o \in Nat /\ name \in Kinds /\ off[k] = o + Size(name)
      <4>1. k - 1 \in 0 .. n
        BY <1>1
      <4>2. sections[k] \in Kinds
        BY DEF ImageInv, n
      <4> QED
        BY <1>4, <4>1, <4>2
    <3>2. \A i \in 1 .. 4 : o + i \in 1 .. E /\ H[2 + (o + i)] = Section(name)[i]
      BY <1>4 DEF E
    <3>3. P[k] = 3 + o /\ P[k + 1] = 3 + off[k]
      BY <1>11
    <3>4. /\ Section(name)[1] = 255 /\ Section(name)[2] = Marker[name] /\ Section(name)[3] = 0
          /\ Section(name)[4] = Size(name) - 2 /\ Size(name) \in Nat
      BY <3>1, SectionIs
    <3> HIDE DEF o, name
    <3>5. ASSUME NEW i \in 1 .. 4 PROVE b[2 + (o + i)] = Section(name)[i]
      <4>1. o + i \in 1 .. E
        BY <3>2
      <4>2. 2 + (o + i) \in 1 .. 2 + E
        BY <1>9, <3>1, <4>1
      <4> QED
        BY <1>10, <3>2, <4>2
    <3>6. /\ 2 + (o + 1) = P[k] /\ 2 + (o + 2) = P[k] + 1 /\ 2 + (o + 3) = P[k] + 2
          /\ 2 + (o + 4) = P[k] + 3 /\ P[k + 1] = P[k] + Size(name)
      BY <3>1, <3>3, <3>4
    <3>7. b[P[k]] = 255 /\ b[P[k] + 1] = Marker[name] /\ b[P[k] + 2] = 0 /\ b[P[k] + 3] = Size(name) - 2
      BY <3>4, <3>5, <3>6
    <3> QED
      BY <3>6, <3>7 DEF SectionAt, name
  <2>3. SectionAt(b, P[n + 1], "SOS")
    <3>1. /\ 2 + E + 1 = P[n + 1] /\ 2 + E + 2 = P[n + 1] + 1 /\ 2 + E + 3 = P[n + 1] + 2
          /\ 2 + E + 4 = P[n + 1] + 3
      BY <1>9, <1>11
    <3> QED
      BY <1>6, <1>10, <3>1 DEF SectionAt
  <2> QED
    BY <1>11, <2>1, <2>2, <2>3 DEF SectionsAt
<1>14. ElementsAt(b, Q, m)
  <2>1. ASSUME NEW j \in 1 .. m
        PROVE  Q[j + 1] = Q[j] + Len(Element[scan[j]]) /\ PartAt(b, Q[j], Element[scan[j]])
    <3> DEFINE o == soff[j - 1]
               x == Element[scan[j]]
               l == Len(x)
    <3>1. o \in Nat /\ soff[j] = o + l
      <4>1. j - 1 \in 0 .. m
        BY <1>1
      <4> QED
        BY <1>5, <4>1
    <3>2. l \in Nat
      <4>1. scan[j] \in DOMAIN Element
        BY DEF ImageInv, m
      <4> QED
        BY <4>1, ElementIs
    <3>3. \A i \in 1 .. l : o + i \in 1 .. S /\ D[o + i] = x[i]
      BY <1>5 DEF S
    <3>4. Q[j] = 9 + E + o /\ Q[j + 1] = 9 + E + soff[j]
      BY <1>12
    <3> HIDE DEF o, x, l
    <3>5. ASSUME NEW i \in 1 .. l PROVE b[Q[j] + i - 1] = x[i]
      <4>1. Q[j] + i - 1 = 8 + E + (o + i)
        BY <1>9, <3>1, <3>2, <3>4
      <4> QED
        BY <1>10, <3>3, <4>1
    <3>6. Q[j + 1] = Q[j] + l
      BY <1>9, <3>1, <3>2, <3>4
    <3> QED
      BY <3>5, <3>6 DEF PartAt, l, x
  <2> QED
    BY <1>12, <2>1 DEF ElementsAt
<1>15. /\ PartAt(b, Q[m + 1], Z) /\ Len(b) = Q[m + 1] + Len(Z) - 1 /\ Q[1] = P[n + 1] + 6
       /\ Q[1] - 1 = 8 + E /\ Q[m + 1] - Q[1] = S
  <2> DEFINE l == Len(Z)
  <2>1. l \in Nat /\ Len(b) = 8 + E + S + l
    BY <1>7, <1>10
  <2>2. \A i \in 1 .. l : b[8 + E + S + i] = Z[i]
    BY <1>10
  <2> HIDE DEF l
  <2>3. Len(b) = Q[m + 1] + l - 1 /\ Q[1] = P[n + 1] + 6 /\ Q[1] - 1 = 8 + E /\ Q[m + 1] - Q[1] = S
    BY <1>9, <1>11, <1>12, <2>1
  <2>4. \A i \in 1 .. l : Q[m + 1] + i - 1 = 8 + E + S + i
    BY <1>9, <1>12, <2>1
  <2> QED
    BY <2>2, <2>3, <2>4 DEF PartAt, l
<1>16. Layout(b, P, Q, n, m)
  BY <1>10, <1>13, <1>14, <1>15 DEF Layout, Z
<1>17. Places(P, Q, n, m)
  <2>1. ASSUME NEW k \in 1 .. n PROVE TableAt(k) = P[k] + 5
    <3>1. k - 1 \in 0 .. n
      BY <1>1
    <3> DEFINE o == off[k - 1]
    <3>2. o \in Nat /\ P[k] = 3 + o /\ TableAt(k) = o + 8
      BY <1>2, <1>4, <1>11, <3>1
    <3> HIDE DEF o
    <3> QED
      BY <3>2
  <2>2. Len(H \o G) = 8 + E
    <3>1. InTwo(H \o G, H, G)
      BY <1>4, <1>6, TwoParts
    <3>2. Len(H) = 2 + E
      BY <1>4 DEF E
    <3> QED
      BY <1>6, <1>9, <3>1, <3>2 DEF InTwo
  <2>3. Len(D) = S
    BY <1>5 DEF S
  <2> QED
    BY <1>15, <2>1, <2>2, <2>3 DEF Places, H, G, D
<1> QED
  BY <1>16, <1>17 DEF b, n, m

\* What does not fall lies between its ends.
LEMMA Rising ==
    ASSUME NEW N \in Nat, NEW f \in [1 .. N + 1 -> Nat], \A k \in 1 .. N : f[k] <= f[k + 1]
    PROVE  \A k \in 1 .. N + 1 : f[1] <= f[k] /\ f[k] <= f[N + 1]
<1> DEFINE Up == {i \in Nat : f[1] <= f[i + 1]}
           Down == {i \in Nat : f[N + 1 - i] <= f[N + 1]}
<1>1. \A k \in 1 .. N + 1 : f[k] \in Nat
  OBVIOUS
<1>2. 0 \in Up /\ 0 \in Down
  <2>1. 0 + 1 = 1 /\ N + 1 - 0 = N + 1 /\ 1 \in 1 .. N + 1 /\ N + 1 \in 1 .. N + 1
    OBVIOUS
  <2> QED
    BY <1>1, <2>1
<1>3. ASSUME NEW i \in 1 .. N, i - 1 \in Up PROVE i \in Up
  <2>1. i \in Nat /\ (i - 1) + 1 = i /\ i \in 1 .. N + 1 /\ i + 1 \in 1 .. N + 1 /\ 1 \in 1 .. N + 1
    OBVIOUS
  <2>2. f[1] <= f[i] /\ f[i] <= f[i + 1]
    BY <1>3, <2>1
  <2>3. f[1] \in Nat /\ f[i] \in Nat /\ f[i + 1] \in Nat
    BY <1>1, <2>1
  <2> QED
    BY <2>1, <2>2, <2>3
<1>4. ASSUME NEW i \in 1 .. N, i - 1 \in Down PROVE i \in Down
  <2> DEFINE k == N + 1 - i
  <2>1. i \in Nat /\ k \in 1 .. N /\ N + 1 - (i - 1) = k + 1
    OBVIOUS
  <2> HIDE DEF k
  <2>2. f[k] <= f[k + 1] /\ f[k + 1] <= f[N + 1]
    BY <1>4, <2>1
  <2>3. f[k] \in Nat /\ f[k + 1] \in Nat /\ f[N + 1] \in Nat
    <3>1. k \in 1 .. N + 1 /\ k + 1 \in 1 .. N + 1 /\ N + 1 \in 1 .. N + 1
      BY <2>1
    <3> QED
      BY <1>1, <3>1
  <2>4. f[k] <= f[N + 1]
    BY <2>2, <2>3
  <2> QED
    BY <2>1, <2>4 DEF k
<1>5. ASSUME NEW k \in 1 .. N + 1 PROVE f[1] <= f[k] /\ f[k] <= f[N + 1]
  <2>1. k - 1 \in 0 .. N /\ N + 1 - k \in 0 .. N
    OBVIOUS
  <2>2. k - 1 \in Up /\ N + 1 - k \in Down
    <3> HIDE DEF Up, Down
    <3>1. (\A i \in 0 .. N : i \in Up) /\ (\A i \in 0 .. N : i \in Down)
      BY <1>2, <1>3, <1>4, StepInduction
    <3> QED
      BY <2>1, <3>1
  <2>3. (k - 1) + 1 = k /\ N + 1 - (N + 1 - k) = k
    OBVIOUS
  <2> QED
    BY <2>2, <2>3
<1> QED
  BY <1>5

\* From what holds behind the last to what holds from the first on.
LEMMA BackwardInduction ==
    ASSUME NEW N \in Nat, NEW S, N + 1 \in S, \A k \in 1 .. N : k + 1 \in S => k \in S
    PROVE  \A k \in 1 .. N + 1 : k \in S
<1> DEFINE T == {i \in Nat : N + 1 - i \in S}
<1>1. 0 \in T
  <2>1. N + 1 - 0 = N + 1
    OBVIOUS
  <2> QED
    BY <2>1
<1>2. ASSUME NEW i \in 1 .. N, i - 1 \in T PROVE i \in T
  <2> DEFINE k == N + 1 - i
  <2>1. i \in Nat /\ k \in 1 .. N /\ N + 1 - (i - 1) = k + 1
    OBVIOUS
  <2>2. k + 1 \in S
    BY <1>2, <2>1
  <2> HIDE DEF k
  <2>3. k \in S
    BY <2>1, <2>2
  <2> QED
    BY <2>1, <2>3 DEF k
<1>3. ASSUME NEW k \in 1 .. N + 1 PROVE k \in S
  <2>1. N + 1 - k \in 0 .. N /\ N + 1 - (N + 1 - k) = k
    OBVIOUS
  <2>2. N + 1 - k \in T
    <3> HIDE DEF T
    <3>1. \A i \in 0 .. N : i \in T
      BY <1>1, <1>2, StepInduction
    <3> QED
      BY <2>1, <3>1
  <2> QED
    BY <2>1, <2>2
<1> QED
  BY <1>3

\* The order of the places.
Ordered(b, P, Q, n, m) ==
    /\ n \in Nat /\ m \in Nat /\ b \in Seq(Octets) /\ Len(b) \in Nat
    /\ \A k \in 1 .. n + 1 : P[k] \in Nat /\ 3 <= P[k] /\ P[k] <= P[n + 1]
    /\ \A j \in 1 .. m + 1 : Q[j] \in Nat /\ Q[1] <= Q[j] /\ Q[j] <= Q[m + 1]
    /\ Q[1] = P[n + 1] + 6 /\ P[n + 1] \in Nat
    /\ Q[m + 1] \in Nat /\ Q[1] < Q[m + 1] /\ Q[m + 1] < Len(b)

LEMMA PlacesRise ==
    ASSUME ImageInv, ending # "none", NEW b, NEW P, NEW Q, NEW n, NEW m,
           n = Len(sections), m = Len(scan), Layout(b, P, Q, n, m)
    PROVE  Ordered(b, P, Q, n, m)
<1>1. n \in Nat /\ m \in Nat /\ m > 0 /\ (\A k \in 1 .. n : sections[k] \in Kinds)
      /\ (\A j \in 1 .. m : scan[j] \in DOMAIN Element)
  <2>1. scan \in Seq(DOMAIN Element) /\ scan # <<>>
    BY DEF ImageInv
  <2>2. m \in Nat /\ m # 0
    BY <2>1
  <2> QED
    BY <2>2 DEF ImageInv
<1>2. /\ P \in [1 .. n + 1 -> Nat] /\ P[1] = 3
      /\ \A k \in 1 .. n : P[k + 1] = P[k] + Size(sections[k])
  BY DEF Layout, SectionsAt
<1>3. /\ Q \in [1 .. m + 1 -> Nat] /\ Q[1] = P[n + 1] + 6
      /\ \A j \in 1 .. m : Q[j + 1] = Q[j] + Len(Element[scan[j]])
  BY DEF Layout, ElementsAt
<1>4. ASSUME NEW k \in 1 .. n PROVE P[k] <= P[k + 1]
  <2> DEFINE s == Size(sections[k])
  <2>1. s \in 5 .. 7
    BY <1>1, SectionIs
  <2>2. P[k] \in Nat /\ P[k + 1] = P[k] + s
    <3>1. k \in 1 .. n + 1
      BY <1>1
    <3> QED
      BY <1>2, <3>1
  <2> HIDE DEF s
  <2> QED
    BY <2>1, <2>2
<1>5. ASSUME NEW j \in 1 .. m PROVE Q[j] \in Nat /\ Q[j] < Q[j + 1] /\ Q[j + 1] \in Nat
  <2> DEFINE s == Len(Element[scan[j]])
  <2>1. s \in 1 .. 3
    BY <1>1, ElementIs
  <2>2. Q[j] \in Nat /\ Q[j + 1] = Q[j] + s
    <3>1. j \in 1 .. m + 1
      BY <1>1
    <3> QED
      BY <1>3, <3>1
  <2> HIDE DEF s
  <2> QED
    BY <2>1, <2>2
<1>6. \A k \in 1 .. n + 1 : P[1] <= P[k] /\ P[k] <= P[n + 1]
  BY <1>1, <1>2, <1>4, Rising
<1>7. \A j \in 1 .. m + 1 : Q[1] <= Q[j] /\ Q[j] <= Q[m + 1]
  <2>1. \A j \in 1 .. m : Q[j] <= Q[j + 1]
    BY <1>5
  <2> QED
    BY <1>1, <1>3, <2>1, Rising
<1>8. Q[1] < Q[m + 1] /\ Q[m + 1] \in Nat
  <2>1. 1 \in 1 .. m /\ 1 + 1 \in 1 .. m + 1 /\ m + 1 \in 1 .. m + 1
    BY <1>1
  <2>2. Q[1] < Q[1 + 1] /\ Q[1 + 1] <= Q[m + 1] /\ Q[1] \in Nat /\ Q[1 + 1] \in Nat
    BY <1>5, <1>7, <2>1
  <2>3. Q[m + 1] \in Nat
    BY <1>3, <2>1
  <2> QED
    BY <2>2, <2>3
<1>9. b \in Seq(Octets) /\ Len(b) = Q[m + 1] + Len(Endings[ending]) - 1
  BY DEF Layout
<1>10. Q[m + 1] < Len(b) /\ Len(b) \in Nat
  <2> DEFINE z == Len(Endings[ending])
             E == Q[m + 1]
  <2>1. z \in 2 .. 4
    BY EndingIs DEF ImageInv
  <2>2. E \in Nat /\ Len(b) = E + z - 1
    BY <1>8, <1>9
  <2> HIDE DEF z, E
  <2>3. E < Len(b) /\ Len(b) \in Nat
    BY <2>1, <2>2
  <2> QED
    BY <2>3 DEF E
<1>11. P[n + 1] \in Nat
  <2>1. n + 1 \in 1 .. n + 1
    BY <1>1
  <2> QED
    BY <1>2, <2>1
<1> QED
  BY <1>1, <1>2, <1>3, <1>6, <1>7, <1>8, <1>9, <1>10, <1>11 DEF Ordered

LEMMA MarkerIs ==
    ASSUME NEW name \in Kinds \cup {"SOS"}, NEW target \in {"DQT", "SOS"}
    PROVE  /\ Marker[name] = Marker[target] => name = target
           /\ Marker[name] \in Skipped <=> name # "DRI"
<1>1. \/ name = "APP0" \/ name = "DQT" \/ name = "DHT" \/ name = "SOF0" \/ name = "DRI" \/ name = "SOS"
  BY DEF Kinds
<1>2. /\ Marker["APP0"] = 224 /\ Marker["DQT"] = 219 /\ Marker["DHT"] = 196
      /\ Marker["SOF0"] = 192 /\ Marker["SOS"] = 218 /\ Marker["DRI"] = 221
  BY DEF Marker
<1>3. Skipped = {224, 219, 196, 192, 218}
  <2>1. Skipped = {Marker["APP0"], Marker["DQT"], Marker["DHT"], Marker["SOF0"], Marker["SOS"]}
    BY DEF Skipped
  <2> QED
    BY <1>2, <2>1
<1>4. target = "DQT" \/ target = "SOS"
  OBVIOUS
<1>5. CASE name = "APP0"
  BY <1>2, <1>3, <1>4, <1>5
<1>6. CASE name = "DQT"
  BY <1>2, <1>3, <1>4, <1>6
<1>7. CASE name = "DHT"
  BY <1>2, <1>3, <1>4, <1>7
<1>8. CASE name = "SOF0"
  BY <1>2, <1>3, <1>4, <1>8
<1>9. CASE name = "DRI"
  BY <1>2, <1>3, <1>4, <1>9
<1>10. CASE name = "SOS"
  BY <1>2, <1>3, <1>4, <1>10
<1> QED
  BY <1>1, <1>5, <1>6, <1>7, <1>8, <1>9, <1>10

LEMMA OtherMarkers ==
    /\ Marker["SOI"] = 216 /\ Marker["DQT"] = 219 /\ Marker["SOS"] = 218 /\ Marker["EOI"] = 217
    /\ 0 \notin Skipped /\ 208 \notin Skipped /\ 216 \notin Skipped /\ 217 \notin Skipped /\ 255 \notin Skipped
<1>1. /\ Marker["SOI"] = 216 /\ Marker["DQT"] = 219 /\ Marker["SOS"] = 218 /\ Marker["EOI"] = 217
      /\ Marker["APP0"] = 224 /\ Marker["DHT"] = 196 /\ Marker["SOF0"] = 192
  BY DEF Marker
<1>2. Skipped = {Marker["APP0"], Marker["DQT"], Marker["DHT"], Marker["SOF0"], Marker["SOS"]}
  BY DEF Skipped
<1> QED
  BY <1>1, <1>2

\* A search that goes on at a byte other than 255, or behind the buffer, finds nothing.
LEMMA FindsNothing ==
    ASSUME NEW f, NEW b \in Seq(Octets), NEW start \in Nat, NEW len \in Int, NEW marker,
           Finds(f, b, start, len, marker), NEW p \in Nat, p >= Len(b) \/ b[p] # 255
    PROVE  f[p] \in {NotFound, BeyondBuffer}
<1>1. f[p] = NotFound \/ f[p] = BeyondBuffer
  BY DEF Finds
<1> QED
  BY <1>1

\* One that meets an unknown marker, or the end, finds nothing or goes on behind it.
LEMMA FindsUnknown ==
    ASSUME NEW f, NEW b \in Seq(Octets), NEW start \in Nat, NEW len \in Int, NEW marker,
           Finds(f, b, start, len, marker), NEW p \in Nat,
           b[p + 1] # marker, b[p + 1] \notin Skipped, f[p + 2] \in {NotFound, BeyondBuffer}
    PROVE  f[p] \in {NotFound, BeyondBuffer}
<1>1. f[p] = NotFound \/ f[p] = BeyondBuffer \/ f[p] = f[p + 2]
  BY DEF Finds
<1> QED
  BY <1>1

LEMMA FindsIt ==
    ASSUME NEW f, NEW b \in Seq(Octets), NEW start \in Nat, NEW len \in Int, NEW marker,
           Finds(f, b, start, len, marker), NEW p \in Nat, p - start < len, p < Len(b),
           b[p] = 255, b[p + 1] = marker
    PROVE  f[p] = p + 2
<1>1. ~ (p - start >= len) /\ ~ (p >= Len(b))
  <2> DEFINE L == Len(b)
  <2>1. L \in Nat
    OBVIOUS
  <2> HIDE DEF L
  <2>2. ~ (p - start >= len) /\ ~ (p >= L)
    BY <2>1 DEF L
  <2> QED
    BY <2>2 DEF L
<1> QED
  BY <1>1 DEF Finds

LEMMA FindsBehind ==
    ASSUME NEW f, NEW b \in Seq(Octets), NEW start \in Nat, NEW len \in Int, NEW marker,
           Finds(f, b, start, len, marker), NEW p \in Nat, p - start < len, p + 3 <= Len(b),
           b[p] = 255, b[p + 1] # marker
    PROVE  f[p] = IF b[p + 1] \in Skipped THEN f[NextBlock(b, p + 2)] ELSE f[p + 2]
<1>1. ~ (p - start >= len) /\ ~ (p >= Len(b)) /\ ~ (p + 3 > Len(b))
  <2> DEFINE L == Len(b)
  <2>1. L \in Nat
    OBVIOUS
  <2> HIDE DEF L
  <2>2. ~ (p - start >= len) /\ ~ (p >= L) /\ ~ (p + 3 > L)
    BY <2>1 DEF L
  <2> QED
    BY <2>2 DEF L
<1> QED
  BY <1>1 DEF Finds

LEMMA NextSection ==
    ASSUME NEW b, NEW p \in Nat, NEW name \in Kinds \cup {"SOS"}, SectionAt(b, p, name)
    PROVE  NextBlock(b, p + 2) = p + Size(name)
<1> DEFINE s == Size(name)
<1>1. s \in Nat
  BY SectionIs
<1>2. b[p + 2] = 0 /\ b[p + 3] = s - 2 /\ (p + 2) + 1 = p + 3
  BY DEF SectionAt
<1> HIDE DEF s
<1>3. NextBlock(b, p + 2) = (p + 2) + (0 * 256 + (s - 2))
  BY <1>2 DEF NextBlock, BlockLength
<1>4. (p + 2) + (0 * 256 + (s - 2)) = p + s
  BY <1>1
<1> QED
  BY <1>3, <1>4 DEF s

\* A search comes to a section.
LEMMA SectionStep ==
    ASSUME NEW f, NEW b \in Seq(Octets), NEW start \in Nat, NEW len \in Int, NEW target \in {"DQT", "SOS"},
           Finds(f, b, start, len, Marker[target]), NEW p \in Nat, NEW name \in Kinds \cup {"SOS"},
           SectionAt(b, p, name), p - start < len, p + 3 <= Len(b)
    PROVE  /\ name = target => f[p] = p + 2
           /\ name \notin {target, "DRI"} => f[p] = f[p + Size(name)]
           /\ name = "DRI" => f[p] \in {NotFound, BeyondBuffer}
<1>1. b[p] = 255 /\ b[p + 1] = Marker[name] /\ b[p + 2] = 0
  BY DEF SectionAt
<1>2. CASE name = target
  <2>1. p < Len(b)
    <3> DEFINE L == Len(b)
    <3>1. L \in Nat /\ p + 3 <= L
      OBVIOUS
    <3> HIDE DEF L
    <3>2. p < L
      BY <3>1
    <3> QED
      BY <3>2 DEF L
  <2>2. f[p] = p + 2
    BY <1>1, <1>2, <2>1, FindsIt
  <2>3. name # "DRI"
    BY <1>2
  <2> QED
    BY <1>2, <2>2, <2>3
<1>3. CASE name # target
  <2>1. b[p + 1] # Marker[target]
    BY <1>1, <1>3, MarkerIs
  <2>2. f[p] = IF b[p + 1] \in Skipped THEN f[NextBlock(b, p + 2)] ELSE f[p + 2]
    BY <1>1, <2>1, FindsBehind
  <2>3. CASE name = "DRI"
    <3>1. b[p + 1] \notin Skipped
      BY <1>1, <2>3, MarkerIs
    <3>2. f[p + 2] \in {NotFound, BeyondBuffer}
      <4>1. p + 2 \in Nat /\ b[p + 2] # 255
        BY <1>1
      <4> QED
        BY <4>1, FindsNothing
    <3> QED
      BY <1>3, <2>2, <2>3, <3>1, <3>2
  <2>4. CASE name # "DRI"
    <3>1. b[p + 1] \in Skipped
      BY <1>1, <2>4, MarkerIs
    <3>2. NextBlock(b, p + 2) = p + Size(name)
      BY NextSection
    <3> QED
      BY <1>3, <2>2, <2>4, <3>1, <3>2
  <2> QED
    BY <2>3, <2>4
<1> QED
  BY <1>2, <1>3

\* The bytes of an element of the scan.
LEMMA ElementAt ==
    ASSUME NEW b, NEW p \in Nat, NEW e \in DOMAIN Element, PartAt(b, p, Element[e])
    PROVE  \/ e = "plain" /\ b[p] = 7 /\ Len(Element[e]) = 1
           \/ e = "zero" /\ b[p] = 0 /\ Len(Element[e]) = 1
           \/ e = "stuffed" /\ b[p] = 255 /\ b[p + 1] = 0 /\ Len(Element[e]) = 2
           \/ e = "restart" /\ b[p] = 255 /\ b[p + 1] = 208 /\ b[p + 2] = 7
<1> DEFINE x == Element[e]
<1>1. p + 1 - 1 = p /\ p + 2 - 1 = p + 1 /\ p + 3 - 1 = p + 2
  OBVIOUS
<1>2. \A i \in 1 .. Len(x) : b[p + i - 1] = x[i]
  BY DEF PartAt
<1>3. e = "plain" \/ e = "zero" \/ e = "stuffed" \/ e = "restart"
  BY DEF Element
<1>4. CASE e = "plain"
  <2>1. x = <<7>>
    BY <1>4 DEF Element
  <2> HIDE DEF x
  <2>2. Len(x) = 1 /\ x[1] = 7 /\ 1 \in 1 .. Len(x)
    BY <2>1
  <2>3. b[p + 1 - 1] = x[1]
    BY <1>2, <2>2
  <2> QED
    BY <1>1, <1>4, <2>2, <2>3 DEF x
<1>5. CASE e = "zero"
  <2>1. x = <<0>>
    BY <1>5 DEF Element
  <2> HIDE DEF x
  <2>2. Len(x) = 1 /\ x[1] = 0 /\ 1 \in 1 .. Len(x)
    BY <2>1
  <2>3. b[p + 1 - 1] = x[1]
    BY <1>2, <2>2
  <2> QED
    BY <1>1, <1>5, <2>2, <2>3 DEF x
<1>6. CASE e = "stuffed"
  <2>1. x = <<255, 0>>
    BY <1>6 DEF Element
  <2> HIDE DEF x
  <2>2. Len(x) = 2 /\ x[1] = 255 /\ x[2] = 0 /\ 1 \in 1 .. Len(x) /\ 2 \in 1 .. Len(x)
    BY <2>1
  <2>3. b[p + 1 - 1] = x[1] /\ b[p + 2 - 1] = x[2]
    BY <1>2, <2>2
  <2> QED
    BY <1>1, <1>6, <2>2, <2>3 DEF x
<1>7. CASE e = "restart"
  <2>1. x = <<255, 208, 7>>
    BY <1>7 DEF Element
  <2> HIDE DEF x
  <2>2. /\ x[1] = 255 /\ x[2] = 208 /\ x[3] = 7
        /\ 1 \in 1 .. Len(x) /\ 2 \in 1 .. Len(x) /\ 3 \in 1 .. Len(x)
    BY <2>1
  <2>3. b[p + 1 - 1] = x[1] /\ b[p + 2 - 1] = x[2] /\ b[p + 3 - 1] = x[3]
    BY <1>2, <2>2
  <2> QED
    BY <1>1, <1>7, <2>2, <2>3
<1> QED
  BY <1>3, <1>4, <1>5, <1>6, <1>7

\* The bytes of an ending.
LEMMA EndingAt ==
    ASSUME NEW b, NEW p \in Nat, NEW e \in DOMAIN Endings, PartAt(b, p, Endings[e])
    PROVE  /\ b[p] = 255
           /\ \/ e = "exact" /\ b[p + 1] = 217 /\ Len(Endings[e]) = 2
              \/ e = "padded" /\ b[p + 1] = 217 /\ b[p + 2] = 0 /\ Len(Endings[e]) = 4
              \/ e = "filled" /\ b[p + 1] = 255 /\ Len(Endings[e]) = 3
<1> DEFINE x == Endings[e]
<1>1. p + 1 - 1 = p /\ p + 2 - 1 = p + 1 /\ p + 3 - 1 = p + 2
  OBVIOUS
<1>2. \A i \in 1 .. Len(x) : b[p + i - 1] = x[i]
  BY DEF PartAt
<1>3. e = "exact" \/ e = "padded" \/ e = "filled"
  BY DEF Endings
<1>4. CASE e = "exact"
  <2>1. x = <<255, 217>>
    BY <1>4 DEF Endings
  <2> HIDE DEF x
  <2>2. Len(x) = 2 /\ x[1] = 255 /\ x[2] = 217 /\ 1 \in 1 .. Len(x) /\ 2 \in 1 .. Len(x)
    BY <2>1
  <2>3. b[p + 1 - 1] = x[1] /\ b[p + 2 - 1] = x[2]
    BY <1>2, <2>2
  <2> QED
    BY <1>1, <1>4, <2>2, <2>3 DEF x
<1>5. CASE e = "padded"
  <2>1. x = <<255, 217, 0, 0>>
    BY <1>5 DEF Endings
  <2> HIDE DEF x
  <2>2. /\ Len(x) = 4 /\ x[1] = 255 /\ x[2] = 217 /\ x[3] = 0
        /\ 1 \in 1 .. Len(x) /\ 2 \in 1 .. Len(x) /\ 3 \in 1 .. Len(x)
    BY <2>1
  <2>3. b[p + 1 - 1] = x[1] /\ b[p + 2 - 1] = x[2] /\ b[p + 3 - 1] = x[3]
    BY <1>2, <2>2
  <2> QED
    BY <1>1, <1>5, <2>2, <2>3 DEF x
<1>6. CASE e = "filled"
  <2>1. x = <<255, 255, 217>>
    BY <1>6 DEF Endings
  <2> HIDE DEF x
  <2>2. Len(x) = 3 /\ x[1] = 255 /\ x[2] = 255 /\ 1 \in 1 .. Len(x) /\ 2 \in 1 .. Len(x)
    BY <2>1
  <2>3. b[p + 1 - 1] = x[1] /\ b[p + 2 - 1] = x[2]
    BY <1>2, <2>2
  <2> QED
    BY <1>1, <1>6, <2>2, <2>3 DEF x
<1> QED
  BY <1>3, <1>4, <1>5, <1>6

(***************************************************************************)
(* What is found in an image.  Behind the sections, a search for a table   *)
(* finds nothing, from no element of the scan and from no ending.          *)
(***************************************************************************)
LEMMA NoTableBehind ==
    ASSUME ImageInv, ending # "none", NEW b, NEW P, NEW Q, NEW n, NEW m,
           n = Len(sections), m = Len(scan), Layout(b, P, Q, n, m),
           NEW f, NEW start \in Nat, NEW len \in Int, Finds(f, b, start, len, Marker["DQT"])
    PROVE  \A j \in 1 .. m + 1 : f[Q[j]] \in {NotFound, BeyondBuffer}
<1> DEFINE S == {j \in Nat : f[Q[j]] \in {NotFound, BeyondBuffer}}
           mark == Marker["DQT"]
           E == Q[m + 1]
<1>1. Ordered(b, P, Q, n, m)
  BY PlacesRise
<1>2. /\ m \in Nat /\ b \in Seq(Octets) /\ E \in Nat
      /\ \A j \in 1 .. m + 1 : Q[j] \in Nat
  BY <1>1 DEF Ordered
<1>3. /\ PartAt(b, E, Endings[ending]) /\ Len(b) = E + Len(Endings[ending]) - 1
      /\ \A j \in 1 .. m : Q[j + 1] = Q[j] + Len(Element[scan[j]]) /\ PartAt(b, Q[j], Element[scan[j]])
  BY DEF Layout, ElementsAt
<1>4. mark = 219 /\ 0 \notin Skipped /\ 208 \notin Skipped /\ 217 \notin Skipped /\ 255 \notin Skipped
  BY OtherMarkers
<1> HIDE DEF mark
<1>5. Finds(f, b, start, len, mark)
  BY DEF mark
<1>6. m + 1 \in S
  <2> HIDE DEF E
  <2>1. ending \in DOMAIN Endings
    BY DEF ImageInv
  <2> DEFINE z == Len(Endings[ending])
  <2>2. /\ b[E] = 255
        /\ \/ ending = "exact" /\ b[E + 1] = 217 /\ z = 2
           \/ ending = "padded" /\ b[E + 1] = 217 /\ b[E + 2] = 0 /\ z = 4
           \/ ending = "filled" /\ b[E + 1] = 255 /\ z = 3
    BY <1>2, <1>3, <2>1, EndingAt
  <2>3. Len(b) = E + z - 1
    BY <1>3
  <2> HIDE DEF z
  <2>4. E + 2 \in Nat /\ (E + 2 >= Len(b) \/ b[E + 2] # 255)
    BY <1>2, <2>2, <2>3
  <2>5. f[E + 2] \in {NotFound, BeyondBuffer}
    BY <1>2, <1>5, <2>4, FindsNothing
  <2>6. b[E + 1] # mark /\ b[E + 1] \notin Skipped
    BY <1>4, <2>2
  <2>7. f[E] \in {NotFound, BeyondBuffer}
    BY <1>2, <1>5, <2>5, <2>6, FindsUnknown
  <2> QED
    BY <1>2, <2>7 DEF E
<1>7. ASSUME NEW j \in 1 .. m, j + 1 \in S PROVE j \in S
  <2> DEFINE p == Q[j]
             e == scan[j]
  <2>1. p \in Nat /\ j \in Nat /\ e \in DOMAIN Element
    <3>1. j \in 1 .. m + 1 /\ j \in Nat
      BY <1>2
    <3>2. scan[j] \in DOMAIN Element
      BY DEF ImageInv
    <3> QED
      BY <1>2, <3>1, <3>2
  <2>2. PartAt(b, p, Element[e]) /\ Q[j + 1] = p + Len(Element[e])
    BY <1>3
  <2>3. f[Q[j + 1]] \in {NotFound, BeyondBuffer}
    BY <1>7
  <2> HIDE DEF p, e
  <2>4. \/ e = "plain" /\ b[p] = 7 /\ Len(Element[e]) = 1
        \/ e = "zero" /\ b[p] = 0 /\ Len(Element[e]) = 1
        \/ e = "stuffed" /\ b[p] = 255 /\ b[p + 1] = 0 /\ Len(Element[e]) = 2
        \/ e = "restart" /\ b[p] = 255 /\ b[p + 1] = 208 /\ b[p + 2] = 7
    BY <2>1, <2>2, ElementAt
  <2>5. CASE b[p] # 255
    <3>1. f[p] \in {NotFound, BeyondBuffer}
      BY <1>2, <1>5, <2>1, <2>5, FindsNothing
    <3> QED
      BY <2>1, <3>1 DEF p
  <2>6. CASE b[p + 1] = 0 /\ Len(Element[e]) = 2
    <3>1. f[p + 2] \in {NotFound, BeyondBuffer} /\ b[p + 1] # mark /\ b[p + 1] \notin Skipped
      BY <1>4, <2>2, <2>3, <2>6
    <3>2. f[p] \in {NotFound, BeyondBuffer}
      BY <1>2, <1>5, <2>1, <3>1, FindsUnknown
    <3> QED
      BY <2>1, <3>2 DEF p
  <2>7. CASE b[p + 1] = 208 /\ b[p + 2] = 7
    <3>1. f[p + 2] \in {NotFound, BeyondBuffer}
      <4>1. p + 2 \in Nat /\ b[p + 2] # 255
        BY <2>1, <2>7
      <4> QED
        BY <1>2, <1>5, <4>1, FindsNothing
    <3>2. b[p + 1] # mark /\ b[p + 1] \notin Skipped
      BY <1>4, <2>7
    <3>3. f[p] \in {NotFound, BeyondBuffer}
      BY <1>2, <1>5, <2>1, <3>1, <3>2, FindsUnknown
    <3> QED
      BY <2>1, <3>3 DEF p
  <2> QED
    BY <2>4, <2>5, <2>6, <2>7
<1> HIDE DEF S
<1>8. \A j \in 1 .. m + 1 : j \in S
  BY <1>2, <1>6, <1>7, BackwardInduction
<1> QED
  BY <1>8 DEF S

\* Where f goes from section k: to the next table, or nowhere.
TableFrom(f, P, n, k) ==
    /\ (\A i \in k .. n : sections[i] # "DQT") => f[P[k]] \in {NotFound, BeyondBuffer}
    /\ \A l \in k .. n :
          sections[l] = "DQT" /\ (\A i \in k .. l - 1 : sections[i] # "DQT") => f[P[k]] = P[l] + 2

\* To the scan, unless there is a section in between that is not known.
ScanFrom(f, P, n, k) ==
    /\ (\A i \in k .. n : sections[i] # "DRI") => f[P[k]] = P[n + 1] + 2
    /\ \A i \in k .. n : sections[i] = "DRI" => f[P[k]] \in {NotFound, BeyondBuffer}

\* Before a search ends there are all sections.
LEMMA SectionsNear ==
    ASSUME NEW b, NEW P, NEW Q, NEW n, NEW m, Ordered(b, P, Q, n, m),
           NEW start \in Nat, NEW len \in Int, P[n + 1] - start < len, NEW k \in 1 .. n + 1
    PROVE  P[k] \in Nat /\ P[k] - start < len /\ P[k] + 3 <= Len(b)
<1> DEFINE p == P[k]
           last == P[n + 1]
           L == Len(b)
<1>1. /\ p \in Nat /\ p <= last /\ last \in Nat /\ L \in Nat
      /\ last + 6 < Q[m + 1] /\ Q[m + 1] < L /\ Q[m + 1] \in Nat /\ last - start < len
  BY DEF Ordered
<1> HIDE DEF p, last, L
<1>2. p - start < len /\ p + 3 <= L
  BY <1>1
<1> QED
  BY <1>1, <1>2 DEF p, L

LEMMA TablesFound ==
    ASSUME ImageInv, ending # "none", NEW b, NEW P, NEW Q, NEW n, NEW m,
           n = Len(sections), m = Len(scan), Layout(b, P, Q, n, m),
           \A i \in 1 .. n : sections[i] # "DRI",
           NEW f, NEW start \in Nat, NEW len \in Int, Finds(f, b, start, len, Marker["DQT"]),
           P[n + 1] - start < len
    PROVE  \A k \in 1 .. n + 1 : TableFrom(f, P, n, k)
<1> DEFINE S == {k \in Nat : TableFrom(f, P, n, k)}
<1>1. Ordered(b, P, Q, n, m)
  BY PlacesRise
<1>2. n \in Nat /\ m \in Nat /\ b \in Seq(Octets) /\ Q[1] = P[n + 1] + 6
  BY <1>1 DEF Ordered
<1>3. /\ SectionAt(b, P[n + 1], "SOS")
      /\ \A k \in 1 .. n : P[k + 1] = P[k] + Size(sections[k]) /\ SectionAt(b, P[k], sections[k])
  BY DEF Layout, SectionsAt
<1>4. ASSUME NEW k \in 1 .. n + 1 PROVE P[k] \in Nat /\ P[k] - start < len /\ P[k] + 3 <= Len(b)
  BY <1>1, SectionsNear
<1>5. n + 1 \in S
  <2> DEFINE p == P[n + 1]
  <2>1. n + 1 \in 1 .. n + 1 /\ 1 \in 1 .. m + 1
    BY <1>2
  <2>2. p \in Nat /\ p - start < len /\ p + 3 <= Len(b) /\ SectionAt(b, p, "SOS") /\ Q[1] = p + 6
    BY <1>2, <1>3, <1>4, <2>1
  <2> HIDE DEF p
  <2>3. f[p] = f[p + Size("SOS")]
    <3> DEFINE name == "SOS"
               target == "DQT"
    <3>1. name \in Kinds \cup {"SOS"} /\ target \in {"DQT", "SOS"} /\ name \notin {target, "DRI"}
      OBVIOUS
    <3>2. Finds(f, b, start, len, Marker[target]) /\ SectionAt(b, p, name)
      BY <2>2
    <3> HIDE DEF name, target
    <3>3. name \notin {target, "DRI"} => f[p] = f[p + Size(name)]
      BY <1>2, <2>2, <3>1, <3>2, SectionStep
    <3> QED
      BY <3>1, <3>3 DEF name
  <2>4. Size("SOS") = 6
    BY SectionIs
  <2>5. f[Q[1]] \in {NotFound, BeyondBuffer}
    BY <2>1, NoTableBehind
  <2>6. f[p] \in {NotFound, BeyondBuffer}
    BY <2>2, <2>3, <2>4, <2>5
  <2>7. \A l \in n + 1 .. n : FALSE
    BY <1>2
  <2> QED
    BY <1>2, <2>6, <2>7 DEF TableFrom, p
<1>6. ASSUME NEW k \in 1 .. n, k + 1 \in S PROVE k \in S
  <2> DEFINE p == P[k]
             name == sections[k]
  <2>1. k \in 1 .. n + 1 /\ k \in Nat
    BY <1>2
  <2>2. name \in Kinds \cup {"SOS"} /\ name \in Kinds /\ name # "DRI"
    BY DEF ImageInv
  <2>3. /\ p \in Nat /\ p - start < len /\ p + 3 <= Len(b) /\ SectionAt(b, p, name)
        /\ P[k + 1] = p + Size(name)
    BY <1>3, <1>4, <2>1
  <2>4. TableFrom(f, P, n, k + 1)
    BY <1>6
  <2> HIDE DEF p, name
  <2>5. /\ name = "DQT" => f[p] = p + 2
        /\ name # "DQT" => f[p] = f[P[k + 1]]
    <3> DEFINE target == "DQT"
    <3>1. target \in {"DQT", "SOS"} /\ Finds(f, b, start, len, Marker[target])
      OBVIOUS
    <3> HIDE DEF target
    <3>2. /\ name = target => f[p] = p + 2
          /\ name \notin {target, "DRI"} => f[p] = f[p + Size(name)]
      BY <1>2, <2>2, <2>3, <3>1, SectionStep
    <3> QED
      BY <2>2, <2>3, <3>2 DEF target
  <2>6. CASE name = "DQT"
    <3>1. f[P[k]] = P[k] + 2
      BY <2>5, <2>6 DEF p
    <3>2. k \in k .. n /\ sections[k] = "DQT"
      BY <1>2, <2>6 DEF name
    <3>3. ASSUME NEW l \in k .. n, \A i \in k .. l - 1 : sections[i] # "DQT" PROVE l = k
      <4>1. ~ (k \in k .. l - 1)
        BY <3>2, <3>3
      <4> QED
        BY <1>2, <4>1
    <3> QED
      BY <2>1, <3>1, <3>2, <3>3 DEF TableFrom
  <2>7. CASE name # "DQT"
    <3>1. f[P[k]] = f[P[k + 1]] /\ sections[k] # "DQT"
      BY <2>5, <2>7 DEF p, name
    <3>2. ASSUME \A i \in k .. n : sections[i] # "DQT"
          PROVE  f[P[k]] \in {NotFound, BeyondBuffer}
      <4>1. \A i \in k + 1 .. n : i \in k .. n
        BY <1>2
      <4> QED
        BY <2>4, <3>1, <3>2, <4>1 DEF TableFrom
    <3>3. ASSUME NEW l \in k .. n, sections[l] = "DQT", \A i \in k .. l - 1 : sections[i] # "DQT"
          PROVE  f[P[k]] = P[l] + 2
      <4>1. l # k
        BY <3>1, <3>3
      <4>2. l \in k + 1 .. n /\ \A i \in k + 1 .. l - 1 : i \in k .. l - 1
        BY <1>2, <4>1
      <4>3. \A i \in k + 1 .. l - 1 : sections[i] # "DQT"
        BY <3>3, <4>2
      <4> QED
        BY <2>4, <3>1, <3>3, <4>2, <4>3 DEF TableFrom
    <3> QED
      BY <2>1, <3>2, <3>3 DEF TableFrom
  <2> QED
    BY <2>6, <2>7
<1> HIDE DEF S
<1>7. \A k \in 1 .. n + 1 : k \in S
  BY <1>2, <1>5, <1>6, BackwardInduction
<1> QED
  BY <1>7 DEF S

LEMMA ScanSectionFound ==
    ASSUME ImageInv, ending # "none", NEW b, NEW P, NEW Q, NEW n, NEW m,
           n = Len(sections), m = Len(scan), Layout(b, P, Q, n, m),
           NEW f, NEW start \in Nat, NEW len \in Int, Finds(f, b, start, len, Marker["SOS"]),
           P[n + 1] - start < len
    PROVE  \A k \in 1 .. n + 1 : ScanFrom(f, P, n, k)
<1> DEFINE S == {k \in Nat : ScanFrom(f, P, n, k)}
           target == "SOS"
<1>1. Ordered(b, P, Q, n, m)
  BY PlacesRise
<1>2. n \in Nat /\ b \in Seq(Octets)
  BY <1>1 DEF Ordered
<1>3. /\ SectionAt(b, P[n + 1], "SOS")
      /\ \A k \in 1 .. n : P[k + 1] = P[k] + Size(sections[k]) /\ SectionAt(b, P[k], sections[k])
  BY DEF Layout, SectionsAt
<1>4. ASSUME NEW k \in 1 .. n + 1 PROVE P[k] \in Nat /\ P[k] - start < len /\ P[k] + 3 <= Len(b)
  BY <1>1, SectionsNear
<1>5. /\ target \in {"DQT", "SOS"} /\ target \in Kinds \cup {"SOS"} /\ target # "DRI"
      /\ Finds(f, b, start, len, Marker[target]) /\ SectionAt(b, P[n + 1], target)
  BY <1>3
<1> HIDE DEF target
<1>6. n + 1 \in S
  <2>1. n + 1 \in 1 .. n + 1
    BY <1>2
  <2>2. f[P[n + 1]] = P[n + 1] + 2
    <3> DEFINE p == P[n + 1]
    <3>1. p \in Nat /\ p - start < len /\ p + 3 <= Len(b) /\ SectionAt(b, p, target)
      BY <1>4, <1>5, <2>1
    <3> HIDE DEF p
    <3>2. f[p] = p + 2
      BY <1>2, <1>5, <3>1, SectionStep
    <3> QED
      BY <3>2 DEF p
  <2>3. \A l \in n + 1 .. n : FALSE
    BY <1>2
  <2> QED
    BY <1>2, <2>2, <2>3 DEF ScanFrom
<1>7. ASSUME NEW k \in 1 .. n, k + 1 \in S PROVE k \in S
  <2> DEFINE p == P[k]
             name == sections[k]
  <2>1. k \in 1 .. n + 1 /\ k \in Nat
    BY <1>2
  <2>2. name \in Kinds \cup {"SOS"} /\ name # target
    BY DEF ImageInv, Kinds, target
  <2>3. /\ p \in Nat /\ p - start < len /\ p + 3 <= Len(b) /\ SectionAt(b, p, name)
        /\ P[k + 1] = p + Size(name)
    BY <1>3, <1>4, <2>1
  <2>4. ScanFrom(f, P, n, k + 1)
    BY <1>7
  <2> HIDE DEF p, name
  <2>5. /\ name = "DRI" => f[p] \in {NotFound, BeyondBuffer}
        /\ name # "DRI" => f[p] = f[P[k + 1]]
    <3>1. /\ name \notin {target, "DRI"} => f[p] = f[p + Size(name)]
          /\ name = "DRI" => f[p] \in {NotFound, BeyondBuffer}
      BY <1>2, <1>5, <2>2, <2>3, SectionStep
    <3> QED
      BY <2>2, <2>3, <3>1
  <2>6. CASE name = "DRI"
    <3>1. f[P[k]] \in {NotFound, BeyondBuffer}
      BY <2>5, <2>6 DEF p
    <3>2. k \in k .. n /\ sections[k] = "DRI"
      BY <1>2, <2>6 DEF name
    <3> QED
      BY <2>1, <3>1, <3>2 DEF ScanFrom
  <2>7. CASE name # "DRI"
    <3>1. f[P[k]] = f[P[k + 1]] /\ sections[k] # "DRI"
      BY <2>5, <2>7 DEF p, name
    <3>2. ASSUME \A i \in k .. n : sections[i] # "DRI" PROVE f[P[k]] = P[n + 1] + 2
      <4>1. \A i \in k + 1 .. n : i \in k .. n
        BY <1>2
      <4> QED
        BY <2>4, <3>1, <3>2, <4>1 DEF ScanFrom
    <3>3. ASSUME NEW i \in k .. n, sections[i] = "DRI" PROVE f[P[k]] \in {NotFound, BeyondBuffer}
      <4>1. i \in k + 1 .. n
        <5>1. i # k
          BY <3>1, <3>3
        <5> QED
          BY <1>2, <5>1
      <4> QED
        BY <2>4, <3>1, <3>3, <4>1 DEF ScanFrom
    <3> QED
      BY <2>1, <3>2, <3>3 DEF ScanFrom
  <2> QED
    BY <2>6, <2>7
<1> HIDE DEF S
<1>8. \A k \in 1 .. n + 1 : k \in S
  BY <1>2, <1>6, <1>7, BackwardInduction
<1> QED
  BY <1>8 DEF S

\* The scan data is skipped up to its end, or up to a restart marker in it.
EndFrom(g, Q, m, j) ==
    /\ (\A i \in j .. m : scan[i] # "restart") => g[Q[j]] = Q[m + 1]
    /\ (\E i \in j .. m : scan[i] = "restart") =>
          \E i \in 1 .. m : scan[i] = "restart" /\ g[Q[j]] = Q[i]

LEMMA EndFound ==
    ASSUME ImageInv, ending # "none", NEW b, NEW P, NEW Q, NEW n, NEW m,
           n = Len(sections), m = Len(scan), Layout(b, P, Q, n, m), NEW g, Skips(g, b)
    PROVE  \A j \in 1 .. m + 1 : EndFrom(g, Q, m, j)
<1> DEFINE S == {j \in Nat : EndFrom(g, Q, m, j)}
           E == Q[m + 1]
<1>1. Ordered(b, P, Q, n, m)
  BY PlacesRise
<1>2. /\ m \in Nat /\ b \in Seq(Octets) /\ E \in Nat /\ E < Len(b) /\ Len(b) \in Nat
      /\ \A j \in 1 .. m + 1 : Q[j] \in Nat /\ Q[j] <= E
  BY <1>1 DEF Ordered
<1>3. /\ PartAt(b, E, Endings[ending])
      /\ \A j \in 1 .. m : Q[j + 1] = Q[j] + Len(Element[scan[j]]) /\ PartAt(b, Q[j], Element[scan[j]])
  BY DEF Layout, ElementsAt
<1>4. m + 1 \in S
  <2> HIDE DEF E
  <2>1. ending \in DOMAIN Endings
    BY DEF ImageInv
  <2>2. b[E] = 255 /\ b[E + 1] # 0
    <3> DEFINE z == Len(Endings[ending])
    <3>1. /\ b[E] = 255
          /\ \/ ending = "exact" /\ b[E + 1] = 217 /\ z = 2
             \/ ending = "padded" /\ b[E + 1] = 217 /\ b[E + 2] = 0 /\ z = 4
             \/ ending = "filled" /\ b[E + 1] = 255 /\ z = 3
      BY <1>2, <1>3, <2>1, EndingAt
    <3> HIDE DEF z
    <3> QED
      BY <3>1
  <2>3. ~ (E >= Len(b))
    BY <1>2
  <2>4. g[E] = E
    BY <1>2, <2>2, <2>3 DEF Skips
  <2>5. \A i \in m + 1 .. m : FALSE
    BY <1>2
  <2> QED
    BY <1>2, <2>4, <2>5 DEF EndFrom, E
<1>5. ASSUME NEW j \in 1 .. m, j + 1 \in S PROVE j \in S
  <2> DEFINE p == Q[j]
             e == scan[j]
  <2>1. p \in Nat /\ p <= E /\ j \in Nat /\ e \in DOMAIN Element
    <3>1. j \in 1 .. m + 1 /\ j \in Nat
      BY <1>2
    <3>2. scan[j] \in DOMAIN Element
      BY DEF ImageInv
    <3> QED
      BY <1>2, <3>1, <3>2
  <2>2. PartAt(b, p, Element[e]) /\ Q[j + 1] = p + Len(Element[e])
    BY <1>3
  <2>3. EndFrom(g, Q, m, j + 1)
    BY <1>5
  <2> HIDE DEF p, e, E
  <2>4. \/ e = "plain" /\ b[p] = 7 /\ Len(Element[e]) = 1
        \/ e = "zero" /\ b[p] = 0 /\ Len(Element[e]) = 1
        \/ e = "stuffed" /\ b[p] = 255 /\ b[p + 1] = 0 /\ Len(Element[e]) = 2
        \/ e = "restart" /\ b[p] = 255 /\ b[p + 1] = 208 /\ b[p + 2] = 7
    BY <2>1, <2>2, ElementAt
  <2>5. ~ (p >= Len(b))
    BY <1>2, <2>1
  <2>6. CASE e = "restart"
    <3>1. b[p] = 255 /\ b[p + 1] # 0
      BY <2>4, <2>6
    <3>2. g[p] = p
      BY <2>1, <2>5, <3>1 DEF Skips
    <3>3. j \in j .. m /\ scan[j] = "restart" /\ g[Q[j]] = Q[j]
      BY <1>2, <2>6, <3>2 DEF e, p
    <3> QED
      BY <2>1, <3>3 DEF EndFrom
  <2>7. CASE e # "restart"
    <3>1. g[p] = g[Q[j + 1]]
      <4>1. CASE b[p] # 255 /\ Len(Element[e]) = 1
        BY <2>1, <2>2, <2>5, <4>1 DEF Skips
      <4>2. CASE b[p] = 255 /\ b[p + 1] = 0 /\ Len(Element[e]) = 2
        BY <2>1, <2>2, <2>5, <4>2 DEF Skips
      <4> QED
        BY <2>4, <2>7, <4>1, <4>2
    <3>2. g[Q[j]] = g[Q[j + 1]] /\ scan[j] # "restart"
      BY <2>7, <3>1 DEF p, e
    <3>3. ASSUME \A i \in j .. m : scan[i] # "restart" PROVE g[Q[j]] = Q[m + 1]
      <4>1. \A i \in j + 1 .. m : i \in j .. m
        BY <1>2
      <4> QED
        BY <2>3, <3>2, <3>3, <4>1 DEF EndFrom
    <3>4. ASSUME NEW i \in j .. m, scan[i] = "restart"
          PROVE  \E h \in 1 .. m : scan[h] = "restart" /\ g[Q[j]] = Q[h]
      <4>1. i \in j + 1 .. m
        <5>1. i # j
          BY <3>2, <3>4
        <5> QED
          BY <1>2, <5>1
      <4> QED
        BY <2>3, <3>2, <3>4, <4>1 DEF EndFrom
    <3> QED
      BY <2>1, <3>3, <3>4 DEF EndFrom
  <2> QED
    BY <2>6, <2>7
<1> HIDE DEF S
<1>6. \A j \in 1 .. m + 1 : j \in S
  BY <1>2, <1>4, <1>5, BackwardInduction
<1> QED
  BY <1>6 DEF S

\* The numbers of the buffer that bound the searches.
Spacious(b, P, Q, n, m) ==
    /\ n \in Nat /\ m \in Nat /\ b \in Seq(Octets) /\ Len(b) \in Nat
    /\ P[n + 1] \in Nat /\ P[n + 1] - 1 < Len(b) - 2 /\ 11 <= Len(b)
    /\ P[1] = 3 /\ b[1] = 255 /\ b[2] = 216
    /\ Q[1] \in Nat /\ Q[m + 1] \in Nat

LEMMA BufferIsSpacious ==
    ASSUME ImageInv, ending # "none", NEW b, NEW P, NEW Q, NEW n, NEW m,
           n = Len(sections), m = Len(scan), Layout(b, P, Q, n, m)
    PROVE  Spacious(b, P, Q, n, m)
<1> DEFINE L == Len(b)
           last == P[n + 1]
           E == Q[m + 1]
           q == Q[1]
<1>1. Ordered(b, P, Q, n, m)
  BY PlacesRise
<1>2. n \in Nat /\ m \in Nat /\ b \in Seq(Octets)
  BY <1>1 DEF Ordered
<1>3. P[1] = 3 /\ b[1] = 255 /\ b[2] = 216
  BY OtherMarkers DEF Layout, SectionsAt
<1>4. /\ L \in Nat /\ last \in Nat /\ E \in Nat /\ q = last + 6 /\ q < E /\ E < L
  BY <1>1 DEF Ordered
<1>5. 3 <= last
  <2>1. n + 1 \in 1 .. n + 1
    BY <1>2
  <2> QED
    BY <1>1, <2>1 DEF Ordered
<1> HIDE DEF L, last, E, q
<1>6. last - 1 < L - 2 /\ 11 <= L /\ q \in Nat
  BY <1>4, <1>5
<1> QED
  BY <1>2, <1>3, <1>4, <1>6 DEF Spacious, L, last, E, q

\* The image begins with its SOI marker.
LEMMA StartIs ==
    ASSUME NEW b, NEW P, NEW Q, NEW n, NEW m, Spacious(b, P, Q, n, m)
    PROVE  FindHeader(b, 1, Len(b), Marker["SOI"]) = 3
<1> DEFINE L == Len(b)
           mark == Marker["SOI"]
<1>1. /\ b \in Seq(Octets) /\ L \in Nat /\ 11 <= L /\ b[1] = 255 /\ b[1 + 1] = 216 /\ mark = 216
  BY OtherMarkers DEF Spacious
<1>2. 1 \in Nat /\ L \in Int
  BY <1>1
<1> HIDE DEF mark
<1>3. PICK f : Finds(f, b, 1, L, mark) /\ FindHeader(b, 1, L, mark) = f[1]
  BY <1>1, <1>2, FindHeaderIs
<1> HIDE DEF L
<1>4. 1 - 1 < L /\ 1 < L /\ b[1 + 1] = mark
  BY <1>1
<1>5. f[1] = 1 + 2
  <2>1. 1 < Len(b)
    BY <1>4 DEF L
  <2> QED
    BY <1>1, <1>2, <1>3, <1>4, <2>1, FindsIt
<1>6. FindHeader(b, 1, L, mark) = 3
  BY <1>3, <1>5
<1> QED
  BY <1>6 DEF L, mark

\* A search from the first byte goes on at the first section.
LEMMA FromTheStart ==
    ASSUME NEW b, NEW P, NEW Q, NEW n, NEW m, Spacious(b, P, Q, n, m),
           NEW target \in {"DQT", "SOS"}, NEW len, len = Len(b) - 2
    PROVE  \E f : /\ Finds(f, b, 1, len, Marker[target])
                  /\ FindHeader(b, 1, len, Marker[target]) = f[P[1]]
<1> DEFINE L == Len(b)
           mark == Marker[target]
<1>1. /\ b \in Seq(Octets) /\ L \in Nat /\ 11 <= L /\ b[1] = 255 /\ b[1 + 1] = 216 /\ P[1] = 3
      /\ mark # 216 /\ 216 \notin Skipped
  BY OtherMarkers DEF Spacious
<1>2. 1 \in Nat /\ len \in Int
  BY <1>1
<1> HIDE DEF mark
<1>3. PICK f : FindHeader(b, 1, len, mark) = f[1] /\ Finds(f, b, 1, len, mark)
  <2>1. b \in Seq(Octets)
    BY <1>1
  <2> QED
    BY <1>2, <2>1, FindHeaderIs
<1>4. 1 - 1 < len /\ 1 + 3 <= Len(b) /\ b[1 + 1] # mark
  <2>1. len = L - 2
    OBVIOUS
  <2> HIDE DEF L
  <2>2. 1 - 1 < len /\ 1 + 3 <= L
    BY <1>1, <2>1
  <2> QED
    BY <1>1, <2>2 DEF L
<1>5. f[1] = IF b[1 + 1] \in Skipped THEN f[NextBlock(b, 1 + 2)] ELSE f[1 + 2]
  BY <1>1, <1>2, <1>3, <1>4, FindsBehind
<1>6. f[1] = f[P[1]]
  BY <1>1, <1>5
<1> QED
  BY <1>3, <1>6 DEF mark

\* The scan is found if every section before it is known, and no scan otherwise.
LEMMA ScanHeaderIs ==
    ASSUME ImageInv, ending # "none", NEW b, NEW P, NEW Q, NEW n, NEW m,
           n = Len(sections), m = Len(scan), Layout(b, P, Q, n, m)
    PROVE  /\ (\A i \in 1 .. n : sections[i] # "DRI") =>
                 FindHeader(b, 1, Len(b) - 2, Marker["SOS"]) = P[n + 1] + 2
           /\ \A i \in 1 .. n : sections[i] = "DRI" =>
                 FindHeader(b, 1, Len(b) - 2, Marker["SOS"]) \in {NotFound, BeyondBuffer}
<1> DEFINE target == "SOS"
           len == Len(b) - 2
<1>1. Spacious(b, P, Q, n, m)
  BY BufferIsSpacious
<1>2. 1 \in Nat /\ len \in Int /\ P[n + 1] - 1 < len /\ n \in Nat
  BY <1>1 DEF Spacious
<1>3. target \in {"DQT", "SOS"}
  OBVIOUS
<1> HIDE DEF target
<1>4. PICK f : Finds(f, b, 1, len, Marker[target]) /\ FindHeader(b, 1, len, Marker[target]) = f[P[1]]
  BY <1>1, <1>3, FromTheStart
<1> HIDE DEF len
<1>5. \A k \in 1 .. n + 1 : ScanFrom(f, P, n, k)
  <2>1. Finds(f, b, 1, len, Marker["SOS"])
    BY <1>4 DEF target
  <2> QED
    BY <1>2, <2>1, ScanSectionFound
<1>6. ScanFrom(f, P, n, 1)
  <2>1. 1 \in 1 .. n + 1
    BY <1>2
  <2> QED
    BY <1>5, <2>1
<1> QED
  BY <1>4, <1>6 DEF ScanFrom, target, len

\* A search from section k comes to the first table from there on.
FromTable(P, n, k, table) ==
    \A l \in k .. n :
       sections[l] = "DQT" /\ (\A i \in k .. l - 1 : sections[i] # "DQT") => table = P[l] + 2

\* The first table, and behind a table the next one.
LEMMA FirstTableIs ==
    ASSUME ImageInv, ending # "none", NEW b, NEW P, NEW Q, NEW n, NEW m,
           n = Len(sections), m = Len(scan), Layout(b, P, Q, n, m),
           \A i \in 1 .. n : sections[i] # "DRI", NEW table0,
           table0 = FindHeader(b, 1, Len(b) - 2, Marker["DQT"])
    PROVE  /\ (\A i \in 1 .. n : sections[i] # "DQT") => table0 \in {NotFound, BeyondBuffer}
           /\ FromTable(P, n, 1, table0)
<1> DEFINE target == "DQT"
           len == Len(b) - 2
<1>1. Spacious(b, P, Q, n, m)
  BY BufferIsSpacious
<1>2. 1 \in Nat /\ len \in Int /\ P[n + 1] - 1 < len /\ n \in Nat
  BY <1>1 DEF Spacious
<1>3. target \in {"DQT", "SOS"}
  OBVIOUS
<1> HIDE DEF target
<1>4. PICK f : Finds(f, b, 1, len, Marker[target]) /\ FindHeader(b, 1, len, Marker[target]) = f[P[1]]
  BY <1>1, <1>3, FromTheStart
<1> HIDE DEF len
<1>5. \A k \in 1 .. n + 1 : TableFrom(f, P, n, k)
  <2>1. Finds(f, b, 1, len, Marker["DQT"])
    BY <1>4 DEF target
  <2> QED
    BY <1>2, <2>1, TablesFound
<1>6. TableFrom(f, P, n, 1)
  <2>1. 1 \in 1 .. n + 1
    BY <1>2
  <2> QED
    BY <1>5, <2>1
<1> QED
  BY <1>4, <1>6 DEF TableFrom, FromTable, target, len

LEMMA NextTableIs ==
    ASSUME ImageInv, ending # "none", NEW b, NEW P, NEW Q, NEW n, NEW m,
           n = Len(sections), m = Len(scan), Layout(b, P, Q, n, m),
           \A i \in 1 .. n : sections[i] # "DRI", NEW k \in 1 .. n, sections[k] = "DQT",
           NEW table0, table0 = P[k] + 2, NEW after0, after0 = NextBlock(b, table0)
    PROVE  FromTable(P, n, k + 1, FindHeader(b, after0, (Len(b) - 2) - (table0 - 1), Marker["DQT"]))
<1> DEFINE p == P[k]
           len == (Len(b) - 2) - (table0 - 1)
           name == "DQT"
           L == Len(b)
           last == P[n + 1]
<1>1. Spacious(b, P, Q, n, m) /\ Ordered(b, P, Q, n, m)
  BY BufferIsSpacious, PlacesRise
<1>2. /\ n \in Nat /\ b \in Seq(Octets) /\ L \in Nat /\ last \in Nat /\ last - 1 < L - 2 /\ k \in 1 .. n + 1
      /\ k + 1 \in 1 .. n + 1
  BY <1>1 DEF Spacious
<1>3. p \in Nat
  BY <1>1, <1>2 DEF Ordered
<1>4. after0 = P[k + 1] /\ P[k + 1] = p + 6
  <2>1. /\ P[k + 1] = p + Size(sections[k]) /\ SectionAt(b, p, sections[k])
    BY DEF Layout, SectionsAt
  <2>2. /\ SectionAt(b, p, name) /\ P[k + 1] = p + Size(name)
        /\ name \in Kinds \cup {"SOS"} /\ name \in {"DQT", "SOS"}
    BY <2>1 DEF Kinds
  <2> HIDE DEF name, p
  <2>3. Size(name) = 6
    BY <2>2, SectionIs
  <2>4. NextBlock(b, p + 2) = p + Size(name)
    BY <1>3, <2>2, NextSection
  <2> QED
    BY <2>2, <2>3, <2>4 DEF p
<1>5. after0 \in Nat /\ len \in Int /\ last - after0 < len
  <2>1. len = (L - 2) - (table0 - 1) /\ table0 = p + 2
    OBVIOUS
  <2>2. after0 = p + 6
    BY <1>4
  <2>3. L \in Nat /\ last \in Nat /\ last - 1 < L - 2
    BY <1>2
  <2> HIDE DEF len, L, last, p
  <2> QED
    BY <1>3, <2>1, <2>2, <2>3
<1> HIDE DEF len, L, last
<1>6. PICK f : FindHeader(b, after0, len, Marker["DQT"]) = f[after0] /\ Finds(f, b, after0, len, Marker["DQT"])
  BY <1>2, <1>5, FindHeaderIs
<1>7. \A i \in 1 .. n + 1 : TableFrom(f, P, n, i)
  <2>1. P[n + 1] - after0 < len
    BY <1>5 DEF last
  <2> QED
    BY <1>5, <1>6, <2>1, TablesFound
<1>8. TableFrom(f, P, n, k + 1)
  BY <1>2, <1>7
<1> QED
  BY <1>4, <1>6, <1>8 DEF TableFrom, FromTable, len

\* The scan data and what ends it.
LEMMA EndIs ==
    ASSUME ImageInv, ending # "none", NEW b, NEW P, NEW Q, NEW n, NEW m,
           n = Len(sections), m = Len(scan), Layout(b, P, Q, n, m),
           NEW start, start = Q[1], NEW mark, mark = SkipScanBytes(b, start),
           NEW end, end = FindHeader(b, mark, (Len(b) - 2) - (start - 1), Marker["EOI"])
    PROVE  /\ (\A j \in 1 .. m : scan[j] # "restart") /\ ending \in {"exact", "padded"} =>
                 mark = Q[m + 1] /\ end = Q[m + 1] + 2
           /\ (\E j \in 1 .. m : scan[j] = "restart") \/ ending = "filled" =>
                 end \in {NotFound, BeyondBuffer}
<1> DEFINE E == Q[m + 1]
           L == Len(b)
           len == (Len(b) - 2) - (start - 1)
           eoi == Marker["EOI"]
           z == Len(Endings[ending])
<1>1. Ordered(b, P, Q, n, m)
  BY PlacesRise
<1>2. /\ m \in Nat /\ b \in Seq(Octets) /\ L \in Nat /\ E \in Nat /\ E < L /\ start < E
      /\ \A j \in 1 .. m + 1 : Q[j] \in Nat
  BY <1>1 DEF Ordered
<1>3. start \in Nat /\ 1 \in 1 .. m + 1
  BY <1>2
<1>4. PICK g : SkipScanBytes(b, start) = g[start] /\ Skips(g, b)
  BY <1>2, <1>3, SkipScanBytesIs
<1>5. EndFrom(g, Q, m, 1)
  BY <1>3, <1>4, EndFound
<1>6. eoi = 217 /\ 208 \notin Skipped /\ 255 \notin Skipped
  BY OtherMarkers
<1>7. /\ b[E] = 255
      /\ \/ ending = "exact" /\ b[E + 1] = 217 /\ z = 2
         \/ ending = "padded" /\ b[E + 1] = 217 /\ b[E + 2] = 0 /\ z = 4
         \/ ending = "filled" /\ b[E + 1] = 255 /\ z = 3
  <2>1. PartAt(b, E, Endings[ending]) /\ ending \in DOMAIN Endings
    BY DEF Layout, ImageInv
  <2> HIDE DEF E, z
  <2>2. /\ b[E] = 255
        /\ \/ ending = "exact" /\ b[E + 1] = 217 /\ Len(Endings[ending]) = 2
           \/ ending = "padded" /\ b[E + 1] = 217 /\ b[E + 2] = 0 /\ Len(Endings[ending]) = 4
           \/ ending = "filled" /\ b[E + 1] = 255 /\ Len(Endings[ending]) = 3
    BY <1>2, <2>1, EndingAt
  <2> QED
    BY <2>2 DEF z
<1>8. L = E + z - 1
  BY DEF Layout
<1>9. len \in Int /\ (z \in 2 .. 4 => 0 < len)
  <2>1. len = (L - 2) - (start - 1)
    OBVIOUS
  <2>2. L \in Nat /\ E \in Nat /\ start < E
    BY <1>2
  <2> HIDE DEF len, L, E, z
  <2>3. len \in Int
    BY <1>3, <2>1, <2>2
  <2>4. ASSUME z \in 2 .. 4 PROVE 0 < len
    BY <1>3, <1>8, <2>1, <2>2, <2>4
  <2> QED
    BY <2>3, <2>4
<1>10. end = FindHeader(b, mark, len, eoi) /\ mark = g[Q[1]]
  BY <1>4
<1> HIDE DEF len, eoi, z
<1>11. CASE \A j \in 1 .. m : scan[j] # "restart"
  <2>1. mark = E
    BY <1>5, <1>10, <1>11 DEF EndFrom
  <2> HIDE DEF E
  <2>2. PICK f : FindHeader(b, mark, len, eoi) = f[mark] /\ Finds(f, b, mark, len, eoi)
    BY <1>2, <1>9, <2>1, FindHeaderIs
  <2>3. CASE ending \in {"exact", "padded"}
    <3>1. b[E] = 255 /\ b[E + 1] = eoi /\ 0 < len
      BY <1>6, <1>7, <1>9, <2>3
    <3>2. mark - mark < len /\ mark < Len(b) /\ mark \in Nat
      BY <1>2, <2>1, <3>1
    <3>3. f[mark] = mark + 2
      BY <1>2, <1>9, <2>1, <2>2, <3>1, <3>2, FindsIt
    <3>4. end = E + 2
      BY <1>10, <2>1, <2>2, <3>3
    <3>5. ending # "filled"
      BY <2>3
    <3> QED
      BY <1>11, <2>1, <3>4, <3>5 DEF E
  <2>4. CASE ending = "filled"
    <3>1. b[E + 1] = 255 /\ L = E + 3 - 1
      BY <1>7, <1>8, <2>4
    <3>2. E + 2 \in Nat /\ E + 2 >= Len(b)
      BY <1>2, <3>1
    <3>3. f[E + 2] \in {NotFound, BeyondBuffer}
      BY <1>2, <1>9, <2>1, <2>2, <3>2, FindsNothing
    <3>4. b[E + 1] # eoi /\ b[E + 1] \notin Skipped
      BY <1>6, <3>1
    <3>5. f[E] \in {NotFound, BeyondBuffer}
      BY <1>2, <1>9, <2>1, <2>2, <3>3, <3>4, FindsUnknown
    <3>6. end \in {NotFound, BeyondBuffer}
      BY <1>10, <2>1, <2>2, <3>5
    <3>7. ending \notin {"exact", "padded"}
      BY <2>4
    <3> QED
      BY <3>6, <3>7
  <2> QED
    BY <1>7, <2>3, <2>4
<1>12. CASE \E j \in 1 .. m : scan[j] = "restart"
  <2>1. PICK i \in 1 .. m : scan[i] = "restart" /\ mark = Q[i]
    BY <1>5, <1>10, <1>12 DEF EndFrom
  <2> DEFINE p == Q[i]
  <2>2. p \in Nat
    <3>1. i \in 1 .. m + 1
      BY <1>2
    <3> QED
      BY <1>2, <3>1
  <2>3. b[p + 1] = 208 /\ b[p + 2] = 7
    <3>1. PartAt(b, p, Element[scan[i]]) /\ scan[i] \in DOMAIN Element
      BY DEF Layout, ElementsAt, ImageInv
    <3> DEFINE e == scan[i]
    <3> HIDE DEF p
    <3>2. e = "restart" /\ PartAt(b, p, Element[e]) /\ e \in DOMAIN Element
      BY <2>1, <3>1
    <3> HIDE DEF e
    <3>3. \/ e = "plain" /\ b[p] = 7 /\ Len(Element[e]) = 1
          \/ e = "zero" /\ b[p] = 0 /\ Len(Element[e]) = 1
          \/ e = "stuffed" /\ b[p] = 255 /\ b[p + 1] = 0 /\ Len(Element[e]) = 2
          \/ e = "restart" /\ b[p] = 255 /\ b[p + 1] = 208 /\ b[p + 2] = 7
      BY <2>2, <3>2, ElementAt
    <3> QED
      BY <3>2, <3>3
  <2> HIDE DEF p
  <2>4. mark = p
    BY <2>1 DEF p
  <2>5. PICK f : FindHeader(b, mark, len, eoi) = f[mark] /\ Finds(f, b, mark, len, eoi)
    BY <1>2, <1>9, <2>2, <2>4, FindHeaderIs
  <2>6. f[p + 2] \in {NotFound, BeyondBuffer}
    <3>1. p + 2 \in Nat /\ b[p + 2] # 255
      BY <2>2, <2>3
    <3> QED
      BY <1>2, <1>9, <2>2, <2>4, <2>5, <3>1, FindsNothing
  <2>7. b[p + 1] # eoi /\ b[p + 1] \notin Skipped
    BY <1>6, <2>3
  <2>8. f[p] \in {NotFound, BeyondBuffer}
    BY <1>2, <1>9, <2>2, <2>4, <2>5, <2>6, <2>7, FindsUnknown
  <2> QED
    BY <1>10, <1>12, <2>4, <2>5, <2>8
<1> QED
  BY <1>11, <1>12

\* An image grows by known sections and elements, and ends with its scan.
LEMMA ImageInvariant == ImageSpec => []ImageInv
<1>1. ImageInit => ImageInv
  BY DEF ImageInit, ImageInv
<1>2. ImageInv /\ [ImageNext]_imageVars => ImageInv'
  <2> SUFFICES ASSUME ImageInv, [ImageNext]_imageVars PROVE ImageInv'
    OBVIOUS
  <2>1. CASE AddSection
    BY <2>1 DEF AddSection, ImageInv
  <2>2. CASE AddScan
    BY <2>2 DEF AddScan, ImageInv
  <2>3. CASE EndImage
    BY <2>3 DEF EndImage, ImageInv
  <2>4. CASE NextImage
    BY <2>4 DEF NextImage, ImageInv
  <2>5. CASE UNCHANGED imageVars
    BY <2>5 DEF imageVars, ImageInv
  <2> QED
    BY <2>1, <2>2, <2>3, <2>4, <2>5 DEF ImageNext
<1> QED
  BY <1>1, <1>2, PTL DEF ImageSpec

\* What Baseline says, element by element.
LEMMA BaselineIs ==
    ASSUME ImageInv, ending # "none"
    PROVE  /\ Baseline <=> /\ \A i \in 1 .. Len(sections) : sections[i] # "DRI"
                           /\ \A j \in 1 .. Len(scan) : scan[j] # "restart"
                           /\ ending \in {"exact", "padded"}
           /\ ending \in {"exact", "padded", "filled"}
<1>1. "DRI" \in ToSet(sections) <=> \E i \in 1 .. Len(sections) : sections[i] = "DRI"
  <2>1. DOMAIN sections = 1 .. Len(sections)
    BY DEF ImageInv
  <2> QED
    BY <2>1 DEF ToSet
<1>2. "restart" \in ToSet(scan) <=> \E j \in 1 .. Len(scan) : scan[j] = "restart"
  <2>1. DOMAIN scan = 1 .. Len(scan)
    BY DEF ImageInv
  <2> QED
    BY <2>1 DEF ToSet
<1>3. ending \in {"exact", "padded", "filled"}
  BY DEF ImageInv, Endings
<1> QED
  BY <1>1, <1>2, <1>3 DEF Baseline

\* The tables of an image that is decoded: both, or none.
TablesOf(P, n, table0, after0, table1) ==
    /\ Tables = {} => ~Found(table0)
    /\ \A k \in Tables : (\A i \in Tables : k <= i) => Found(table0) /\ table0 = P[k] + 2
    /\ \A k \in Tables : \A l \in Tables :
          {i \in Tables : i < l} = {k} => Found(table0) /\ Found(table1) /\ table1 = P[l] + 2

LEMMA TablesAre ==
    ASSUME ImageInv, ending # "none", NEW b, NEW P, NEW Q, NEW n, NEW m,
           n = Len(sections), m = Len(scan), Layout(b, P, Q, n, m),
           \A i \in 1 .. n : sections[i] # "DRI",
           NEW table0, table0 = FindHeader(b, 1, Len(b) - 2, Marker["DQT"]),
           NEW after0, after0 = NextBlock(b, table0), NEW table1,
           table1 = FindHeader(b, after0, (Len(b) - 2) - (table0 - 1), Marker["DQT"])
    PROVE  TablesOf(P, n, table0, after0, table1)
<1>1. n \in Nat /\ \A k \in 1 .. n + 1 : P[k] \in Nat
  BY PlacesRise DEF Ordered
<1>2. Tables = {k \in 1 .. n : sections[k] = "DQT"}
  BY DEF Tables, ImageInv
<1>3. \A p \in Nat : Found(p + 2)
  BY DEF Found
<1>4. \A k \in 1 .. n : P[k] \in Nat
  <2>1. \A k \in 1 .. n : k \in 1 .. n + 1
    BY <1>1
  <2> QED
    BY <1>1, <2>1
<1>5. /\ (\A i \in 1 .. n : sections[i] # "DQT") => table0 \in {NotFound, BeyondBuffer}
      /\ FromTable(P, n, 1, table0)
  BY FirstTableIs
<1>6. ASSUME Tables = {} PROVE ~Found(table0)
  <2>1. table0 \in {NotFound, BeyondBuffer}
    BY <1>2, <1>5, <1>6
  <2> QED
    BY <2>1 DEF NotFound, BeyondBuffer, Found
<1>7. ASSUME NEW k \in Tables, \A i \in Tables : k <= i
      PROVE  Found(table0) /\ table0 = P[k] + 2
  <2>1. k \in 1 .. n /\ sections[k] = "DQT"
    BY <1>2
  <2>2. \A i \in 1 .. k - 1 : sections[i] # "DQT"
    <3> SUFFICES ASSUME NEW i \in 1 .. k - 1, sections[i] = "DQT" PROVE FALSE
      OBVIOUS
    <3>1. i \in 1 .. n /\ ~ (k <= i)
      BY <1>1, <2>1
    <3> QED
      BY <1>2, <1>7, <3>1
  <2>3. table0 = P[k] + 2
    BY <1>5, <2>1, <2>2 DEF FromTable
  <2> QED
    BY <1>3, <1>4, <2>1, <2>3
<1>8. ASSUME NEW k \in Tables, NEW l \in Tables, {i \in Tables : i < l} = {k}
      PROVE  Found(table0) /\ Found(table1) /\ table1 = P[l] + 2
  <2>1. k \in 1 .. n /\ sections[k] = "DQT" /\ l \in 1 .. n /\ sections[l] = "DQT"
    BY <1>2
  <2>2. k < l
    BY <1>8
  <2>3. \A i \in Tables : i < l => i = k
    BY <1>8
  <2>4. \A i \in Tables : k <= i
    <3> SUFFICES ASSUME NEW i \in Tables PROVE k <= i
      OBVIOUS
    <3>1. i \in 1 .. n
      BY <1>2
    <3>2. CASE i < l
      BY <1>1, <2>1, <2>3, <3>2
    <3>3. CASE l <= i
      BY <1>1, <2>1, <2>2, <3>1, <3>3
    <3> QED
      BY <1>1, <2>1, <3>1, <3>2, <3>3
  <2>5. Found(table0) /\ table0 = P[k] + 2
    BY <1>7, <2>4
  <2>6. l \in k + 1 .. n
    BY <1>1, <2>1, <2>2
  <2>7. \A i \in k + 1 .. l - 1 : sections[i] # "DQT"
    <3> SUFFICES ASSUME NEW i \in k + 1 .. l - 1, sections[i] = "DQT" PROVE FALSE
      OBVIOUS
    <3>1. i \in 1 .. n /\ i < l /\ i # k
      BY <1>1, <2>1
    <3> QED
      BY <1>2, <2>3, <3>1
  <2>8. table1 = P[l] + 2
    <3>1. FromTable(P, n, k + 1, table1)
      BY <2>1, <2>5, NextTableIs
    <3> QED
      BY <2>1, <2>6, <2>7, <3>1 DEF FromTable
  <2> QED
    BY <1>3, <1>4, <2>1, <2>5, <2>8
<1> QED
  BY <1>6, <1>7, <1>8 DEF TablesOf

LEMMA ImageIsDecoded ==
    ASSUME ImageInv
    PROVE  ScanIsFound
<1> SUFFICES ASSUME ending # "none" PROVE ScanIsFound
  BY DEF ScanIsFound
<1> DEFINE b == Buffer
           n == Len(sections)
           m == Len(scan)
           soi == FindHeader(b, 1, Len(b), Marker["SOI"])
           table0 == FindHeader(b, 1, Len(b) - 2, Marker["DQT"])
           after0 == NextBlock(b, table0)
           table1 == FindHeader(b, after0, (Len(b) - 2) - (table0 - 1), Marker["DQT"])
           sos == FindHeader(b, 1, Len(b) - 2, Marker["SOS"])
           start == NextBlock(b, sos)
           mark == SkipScanBytes(b, start)
           end == FindHeader(b, mark, (Len(b) - 2) - (start - 1), Marker["EOI"])
           full == [ok |-> "yes", start |-> start, len |-> end - start,
                    qtable0 |-> IF Found(table0) THEN table0 + 3 ELSE 0,
                    qtable1 |-> IF ~Found(table0) THEN 0
                                ELSE IF Found(table1) THEN table1 + 3 ELSE after0 + 3]
           result == IF ~Found(soi) \/ ~Found(sos) \/ ~Found(mark) \/ ~Found(end) THEN Undecoded ELSE full
           Unknown == \E i \in 1 .. n : sections[i] = "DRI"
           Restart == \E j \in 1 .. m : scan[j] = "restart"
<1>1. DecodeJPEGfile(Buffer) = result
  BY DEF DecodeJPEGfile
<1>2. PICK P, Q : Layout(b, P, Q, n, m) /\ Places(P, Q, n, m)
  BY BufferIs
<1>3. /\ Baseline <=> ~Unknown /\ ~Restart /\ ending \in {"exact", "padded"}
      /\ ending \in {"exact", "padded", "filled"}
  BY BaselineIs
<1> HIDE DEF b, n, m
<1>4. n = Len(sections) /\ m = Len(scan)
  BY DEF n, m
<1>5. Spacious(b, P, Q, n, m) /\ Ordered(b, P, Q, n, m)
  BY <1>2, <1>4, BufferIsSpacious, PlacesRise
<1>6. soi = 3
  BY <1>5, StartIs
<1>7. /\ ~Unknown => sos = P[n + 1] + 2
      /\ Unknown => sos \in {NotFound, BeyondBuffer}
  BY <1>2, <1>4, ScanHeaderIs
<1>8. ~Unknown => TablesOf(P, n, table0, after0, table1)
  <2> HIDE DEF table0, after0, table1
  <2>1. /\ table0 = FindHeader(b, 1, Len(b) - 2, Marker["DQT"])
        /\ after0 = NextBlock(b, table0)
        /\ table1 = FindHeader(b, after0, (Len(b) - 2) - (table0 - 1), Marker["DQT"])
    BY DEF table0, after0, table1
  <2> QED
    BY <1>2, <1>4, <2>1, TablesAre
<1>9. ~Unknown => start = Q[1]
  <2> SUFFICES ASSUME ~Unknown PROVE start = Q[1]
    OBVIOUS
  <2> DEFINE name == "SOS"
             p == P[n + 1]
  <2>1. SectionAt(b, p, name) /\ Q[1] = p + 6 /\ p \in Nat
    BY <1>2, <1>5 DEF Layout, SectionsAt, Spacious
  <2>2. name \in Kinds \cup {"SOS"} /\ Size(name) = 6
    BY SectionIs
  <2>3. sos = p + 2
    BY <1>7
  <2> HIDE DEF name, p, sos
  <2>4. NextBlock(b, p + 2) = p + Size(name)
    BY <2>1, <2>2, NextSection
  <2> QED
    BY <2>1, <2>2, <2>3, <2>4
<1>10. ~Unknown => /\ ~Restart /\ ending \in {"exact", "padded"} => mark = Q[m + 1] /\ end = Q[m + 1] + 2
                   /\ Restart \/ ending = "filled" => end \in {NotFound, BeyondBuffer}
  <2> SUFFICES ASSUME ~Unknown
               PROVE  /\ ~Restart /\ ending \in {"exact", "padded"} => mark = Q[m + 1] /\ end = Q[m + 1] + 2
                      /\ Restart \/ ending = "filled" => end \in {NotFound, BeyondBuffer}
    OBVIOUS
  <2> HIDE DEF start, mark, end
  <2>1. /\ start = Q[1] /\ mark = SkipScanBytes(b, start)
        /\ end = FindHeader(b, mark, (Len(b) - 2) - (start - 1), Marker["EOI"])
    BY <1>9 DEF mark, end
  <2> QED
    BY <1>2, <1>4, <2>1, EndIs
<1>11. /\ Len(Headers \o Section("SOS")) = Q[1] - 1 /\ Len(ScanData) = Q[m + 1] - Q[1]
       /\ \A k \in Tables : TableAt(k) = P[k] + 5
  <2>1. Tables \subseteq 1 .. n
    BY DEF Tables, ImageInv, n
  <2> QED
    BY <1>2, <2>1 DEF Places
<1>12. /\ Q[1] \in Nat /\ Q[m + 1] \in Nat /\ P[n + 1] \in Nat /\ Q[1] <= Q[m + 1] /\ Q[1] = P[n + 1] + 6
       /\ \A k \in Tables : P[k] \in Nat
  <2>1. \A k \in Tables : k \in 1 .. n + 1
    BY <1>5 DEF Tables, ImageInv, n, Ordered
  <2>2. 1 \in 1 .. m + 1
    BY <1>5 DEF Ordered
  <2> QED
    BY <1>5, <2>1, <2>2 DEF Ordered
<1>13. ~Found(NotFound) /\ ~Found(BeyondBuffer) /\ \A p \in Nat : p > 0 => Found(p)
  BY DEF NotFound, BeyondBuffer, Found
<1> HIDE DEF soi, table0, after0, table1, sos, start, mark, end, Unknown, Restart
<1>14. CASE Baseline
  <2>1. ~Unknown /\ ~Restart /\ ending \in {"exact", "padded"}
    BY <1>3, <1>14
  <2>2. sos = P[n + 1] + 2 /\ start = Q[1] /\ mark = Q[m + 1] /\ end = Q[m + 1] + 2
    BY <1>7, <1>9, <1>10, <2>1
  <2>3. Found(soi) /\ Found(sos) /\ Found(mark) /\ Found(end)
    BY <1>6, <1>12, <1>13, <2>2
  <2>4. result = full
    BY <2>3
  <2>5. TablesOf(P, n, table0, after0, table1)
    BY <1>8, <2>1
  <2>6. /\ result.ok = "yes" /\ result.start = start /\ result.len = end - start
        /\ result.qtable0 = (IF Found(table0) THEN table0 + 3 ELSE 0)
        /\ result.qtable1 = (IF ~Found(table0) THEN 0 ELSE IF Found(table1) THEN table1 + 3 ELSE after0 + 3)
    BY <2>4
  <2> HIDE DEF result
  <2>7. /\ result.start = Len(Headers \o Section("SOS")) + 1
        /\ result.len = Len(ScanData) + 2
    <3> DEFINE h == Len(Headers \o Section("SOS"))
               d == Len(ScanData)
               q == Q[1]
               E == Q[m + 1]
    <3>1. h = q - 1 /\ d = E - q /\ q \in Nat /\ E \in Nat
      BY <1>11, <1>12
    <3>2. result.start = q /\ result.len = (E + 2) - q
      BY <2>2, <2>6
    <3> HIDE DEF h, d, q, E
    <3>3. result.start = h + 1 /\ result.len = d + 2
      BY <3>1, <3>2
    <3> QED
      BY <3>3 DEF h, d
  <2>8. Tables = {} => result.qtable0 = 0 /\ result.qtable1 = 0
    BY <2>5, <2>6 DEF TablesOf
  <2>9. ASSUME NEW k \in Tables, \A i \in Tables : k <= i
        PROVE  result.qtable0 = TableAt(k)
    <3>1. Found(table0) /\ table0 = P[k] + 2
      BY <2>5, <2>9 DEF TablesOf
    <3>2. result.qtable0 = table0 + 3
      BY <2>6, <3>1
    <3> QED
      BY <1>11, <1>12, <3>1, <3>2
  <2>10. ASSUME NEW k \in Tables, NEW l \in Tables, {i \in Tables : i < l} = {k}
         PROVE  result.qtable1 = TableAt(l)
    <3>1. Found(table0) /\ Found(table1) /\ table1 = P[l] + 2
      BY <2>5, <2>10 DEF TablesOf
    <3>2. result.qtable1 = table1 + 3
      BY <2>6, <3>1
    <3> QED
      BY <1>11, <1>12, <3>1, <3>2
  <2> QED
    BY <1>1, <1>14, <2>6, <2>7, <2>8, <2>9, <2>10 DEF ScanIsFound
<1>15. CASE ~Baseline
  <2>1. ~Found(sos) \/ ~Found(end)
    BY <1>3, <1>7, <1>10, <1>13, <1>15
  <2>2. result = Undecoded
    BY <2>1
  <2> HIDE DEF result
  <2>3. result.ok = "no"
    BY <2>2 DEF Undecoded
  <2> QED
    BY <1>1, <1>15, <2>3 DEF ScanIsFound
<1> QED
  BY <1>14, <1>15

(***************************************************************************)
(* For every number of sections and every length of the scan: of an image  *)
(* with known sections, no restart marker and the EOI marker right behind  *)
(* the scan decodeJPEGfile finds the scan data, all of it and no more, and *)
(* the tables before it; and it refuses every other image.                 *)
(***************************************************************************)
THEOREM ScanIsFoundCorrect == ImageSpec => []ScanIsFound
<1>1. ImageInv => ScanIsFound
  BY ImageIsDecoded
<1> QED
  BY <1>1, ImageInvariant, PTL
=============================================================================

---------------------------- MODULE RtcCalendar ----------------------------
(***************************************************************************)
(* The dates and times of RTC8563_Class: setDateTime(), with the weekday   *)
(* left to it, and getDateTime(), on every day of the years it is for.     *)
(* The calendar goes from day to day; the registers hold what setDateTime  *)
(* writes on that day.  It writes the date and then the time, in two       *)
(* transactions that are one step here: a midnight of the chip between     *)
(* them is not covered.                                                    *)
(***************************************************************************)
EXTENDS Integers

CONSTANTS FirstYear, LastYear,  \* the years walked through
          FirstWeekDay          \* of January 1st of FirstYear

\* The two centuries of the header.  A year begins one weekday later than the one
\* before it, and two if that was a leap year.
ASSUME YearsAssumption ==
    /\ FirstYear \in 1900 .. 2099 /\ LastYear \in FirstYear .. 2099
    /\ LET y == FirstYear - 1 IN
         FirstWeekDay = (FirstYear + y \div 4 - y \div 100 + y \div 400) % 7

VARIABLES
    date,       \* rtc_date_t: the present day, as the calendar has it
    time,       \* rtc_time_t: a time of that day
    registers   \* 0x02 to 0x08 of the chip

dateVars == <<date, time, registers>>

Byte(n) == n % 256

\* Mutant: the tens are not moved up.
MutByteToBcd2(value) == Byte((value \div 10) * 10 + (value % 10))

ByteToBcd2(value) == Byte((value \div 10) * 16 + (value % 10))

Bcd2ToByte(value) == Byte((value \div 16) * 10 + (value % 16))

\* weekDay == 255, the -1 of rtc_date_t: "weekDay auto adjust".
WeekDay(d) ==
    LET year  == IF d.month < 3 THEN d.year - 1 ELSE d.year
        month == IF d.month < 3 THEN d.month + 12 ELSE d.month
        ydiv100 == year \div 100
    IN (year + year \div 4 - ydiv100 + ydiv100 \div 4 + (13 * month + 8) \div 5 + d.date) % 7

AutoAdjust == 255

SetDateTime(d, t) ==
    [seconds |-> ByteToBcd2(t.seconds), minutes |-> ByteToBcd2(t.minutes),
     hours |-> ByteToBcd2(t.hours), date |-> ByteToBcd2(d.date),
     weekDay |-> IF d.weekDay > 6 /\ d.year >= 1900 /\ d.month \in 1 .. 12
                 THEN WeekDay(d) ELSE d.weekDay,
     month |-> Byte(ByteToBcd2(d.month) + (IF d.year < 2000 THEN 128 ELSE 0)),
     year |-> ByteToBcd2(d.year % 100)]

\* The masks of getTime and getDate.
GetTime(r) == [hours |-> Bcd2ToByte(r.hours % 64), minutes |-> Bcd2ToByte(r.minutes % 128),
               seconds |-> Bcd2ToByte(r.seconds % 128)]

GetDate(r) == [year |-> Bcd2ToByte(r.year) + (IF r.month >= 128 THEN 1900 ELSE 2000),
               month |-> Bcd2ToByte(r.month % 32), date |-> Bcd2ToByte(r.date % 64),
               weekDay |-> Bcd2ToByte(r.weekDay % 8)]
-----------------------------------------------------------------------------
(***************************************************************************)
(* The calendar (external), to compare with.                               *)
(***************************************************************************)
IsLeap(year) == year % 4 = 0 /\ (year % 100 # 0 \/ year % 400 = 0)

DaysIn(year, month) ==
    CASE month \in {4, 6, 9, 11} -> 30
      [] month = 2 -> IF IsLeap(year) THEN 29 ELSE 28
      [] OTHER -> 31

Tomorrow ==
    LET weekDay == (date.weekDay + 1) % 7 IN
    IF date.date < DaysIn(date.year, date.month)
    THEN [date EXCEPT !.date = @ + 1, !.weekDay = weekDay]
    ELSE IF date.month < 12
    THEN [date EXCEPT !.date = 1, !.month = @ + 1, !.weekDay = weekDay]
    ELSE [year |-> date.year + 1, month |-> 1, date |-> 1, weekDay |-> weekDay]

Later == [hours |-> (time.hours + 5) % 24, minutes |-> (time.minutes + 7) % 60,
          seconds |-> (time.seconds + 1) % 60]

FirstDay == [year |-> FirstYear, month |-> 1, date |-> 1, weekDay |-> FirstWeekDay]

SetOn(d, t) == /\ date' = d /\ time' = t
               /\ registers' = SetDateTime([d EXCEPT !.weekDay = AutoAdjust], t)

CalendarInit ==
    /\ date = FirstDay
    /\ time = [hours |-> 0, minutes |-> 0, seconds |-> 0]
    /\ registers = SetDateTime([FirstDay EXCEPT !.weekDay = AutoAdjust], time)

NextDay == Tomorrow.year <= LastYear /\ SetOn(Tomorrow, Later)

\* Once through the years is enough: the walk begins anew.
StartAgain == Tomorrow.year > LastYear
                /\ SetOn(FirstDay, [hours |-> 0, minutes |-> 0, seconds |-> 0])

CalendarNext == NextDay \/ StartAgain

CalendarSpec == CalendarInit /\ [][CalendarNext]_dateVars
-----------------------------------------------------------------------------
(***************************************************************************)
(* What was set is read back, across the turn of the century that the      *)
(* century bit stands for, and the weekday worked out from a date is the   *)
(* one a calendar has for it.                                              *)
(***************************************************************************)
DatesAreKept == GetDate(registers) = date /\ GetTime(registers) = time
=============================================================================

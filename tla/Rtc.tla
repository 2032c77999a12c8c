-------------------------------- MODULE Rtc --------------------------------
(***************************************************************************)
(* RTC8563_Class, I2C_Class and Power_Class: a sketch that arms the clock  *)
(* chip and powers itself off, and the chip, whose interrupt powers it on. *)
(* Every operation is a sequence of I2C transactions with the registers of *)
(* the chip, which go on changing between any two of them.                 *)
(***************************************************************************)
EXTENDS Integers, Sequences, SequencesExt, FiniteSetsExt

CONSTANTS
    MaxCount,   \* 255, the largest value of the timer's register
    SwitchAt,   \* 270: from here on the timer counts minutes
    Minute,     \* 60
    Clocks,     \* the values of each field of the clock: a function on Fields
    Seconds,    \* what sketches pass to setAlarmIRQ(int) (bound)
    Alarms,     \* what they pass to the other two (bound)
    Outcomes    \* of a transaction: "done", and "failed" if the bus may fail

\* What is counted in minutes lasts a minute at least.
ASSUME RtcAssumption ==
    /\ MaxCount \in Nat \ {0} /\ Minute \in Nat \ {0}
    /\ SwitchAt \in Nat /\ Minute <= SwitchAt
    /\ Seconds \subseteq Int /\ Outcomes \subseteq {"done", "failed"}

Fields == {"minutes", "hours", "date", "weekDay"}
Bits == {"AIE", "TIE", "AF", "TF"}      \* of the control register 0x01
Flags == {"AF", "TF"}

VARIABLES
    power,      \* "on", or "off" once the sketch has let go of the power pin
    todo,       \* the transactions of the running operation
    temp,       \* what the operation has read from 0x01
    ctl,        \* 0x01: the bits that are set
    timer,      \* 0x0E and 0x0F, and what is left of the countdown
    alarm,      \* 0x09 to 0x0C: a value of the clock, or -1 for disabled
    second,     \* the chip's seconds
    now,        \* its other fields
    asked,      \* history: what the sketch was last to be woken by
    elapsed,    \* history: seconds from loading the timer to the interrupt
    matched,    \* history: has the clock come to the alarm asked for, since it was written?
    disturbed   \* history: has a transaction failed, or a flag been set between
                \* reading 0x01 and writing it?

chip == <<ctl, timer, alarm, second, now>>
history == <<asked, elapsed, matched, disturbed>>
rtcVars == <<power, todo, temp, chip, history>>

Never == [f \in Fields |-> -1]
Longest == MaxCount * Minute
-----------------------------------------------------------------------------
(***************************************************************************)
(* Transactions.  0x01 is always written as what was read without some     *)
(* bits and with others.                                                   *)
(***************************************************************************)
Read == [reg |-> "read"]
Control(off, on) == [reg |-> "control", off |-> off, on |-> on]
TimerMode(enabled, unit) == [reg |-> "mode", enabled |-> enabled, unit |-> unit]
TimerCount(n) == [reg |-> "count", n |-> n]
AlarmAt(a) == [reg |-> "alarm", at |-> a]

Begin == <<TimerMode("no", Minute)>>

\* Mutant: the flags and the enable bits stay as they are.
MutDisableIRQ == <<AlarmAt(Never), TimerMode("no", 1)>>

DisableIRQ == <<AlarmAt(Never), TimerMode("no", 1), Control(Bits, {})>>

ClearIRQ == <<Read, Control(Flags, {})>>

\* setAlarmIRQ(int): the count, in seconds below SwitchAt and in minutes from there.
InSeconds(n) == n < SwitchAt
Unit(n) == IF InSeconds(n) THEN 1 ELSE Minute

Count(n) == Min({MaxCount, IF InSeconds(n) THEN n ELSE (n + Minute \div 2) \div Minute})

\* Its result, "the set number of seconds".
SetSeconds(n) == Count(n) * Unit(n)

SetTimer(n) ==
    IF n < 0
    THEN <<Read, Control(Flags \cup {"TIE"}, {}), TimerMode("no", Minute)>>
    ELSE <<Read, TimerMode("yes", Unit(n)), TimerCount(Count(n)), Control(Flags, {"TIE"})>>

\* The other two: a field that is -1 stays disabled, and all of them nothing.
\* Mutant: the interrupt is enabled whatever is asked.
MutSetAlarm(a) == <<AlarmAt(a), Read, Control({}, {"TIE"})>>

SetAlarm(a) ==
    <<AlarmAt(a), Read, IF a = Never THEN Control({"AIE"}, {}) ELSE Control({}, {"AIE"})>>
-----------------------------------------------------------------------------
Nothing == [kind |-> "nothing"]

RtcInit ==
    /\ power = "on"
    /\ todo = Begin
    /\ temp = {}
    /\ ctl \in {{}, {"AIE", "AF"}, {"TIE", "TF"}}
    /\ timer = [enabled |-> "no", unit |-> Minute, count |-> 0, left |-> 0]
    /\ alarm = Never
    /\ second = 0
    /\ now = [f \in Fields |-> Min(Clocks[f])]
    /\ asked = Nothing /\ elapsed = 0 /\ matched = "no" /\ disturbed = "no"

Idle == power = "on" /\ todo = <<>>

Starts(transactions) ==
    /\ Idle
    /\ todo' = transactions
    /\ temp' = {}
    /\ UNCHANGED <<power, chip>>

PowerOff == [reg |-> "off"]

\* Power_Class::timerSleep, for seconds, for a time, and for a date with a time.
SleepFor(n) ==
    /\ Starts(DisableIRQ \o SetTimer(n) \o <<PowerOff>>)
    /\ asked' = [kind |-> "timer", n |-> n]
    /\ elapsed' = 0 /\ matched' = "no" /\ disturbed' = "no"

SleepUntil(a) ==
    /\ Starts(DisableIRQ \o SetAlarm(a) \o <<PowerOff>>)
    /\ asked' = [kind |-> "alarm", at |-> a]
    /\ elapsed' = 0 /\ matched' = "no" /\ disturbed' = "no"

\* A sketch may also arm the chip and stay awake, or look after the flags.
StayAwake ==
    /\ \/ \E n \in Seconds : Starts(SetTimer(n))
       \/ \E a \in Alarms : Starts(SetAlarm(a))
       \/ Starts(ClearIRQ)
       \/ Starts(DisableIRQ)
    /\ UNCHANGED history

(***************************************************************************)
(* One transaction.  Results are not looked at: a write that fails changes *)
(* nothing, a readByte that fails returns 0.  One of an operation fails at *)
(* most.  On the chip (external) a flag is cleared by writing 0 and kept   *)
(* by writing 1, and writing the count starts the countdown.               *)
(***************************************************************************)
Transact(regs, outcome) ==
    /\ todo # <<>> /\ Head(todo).reg \in regs
    /\ todo' = Tail(todo)
    /\ outcome = "failed" => disturbed = "no"

Disturbs(outcome) == disturbed' = IF outcome = "failed" THEN "yes" ELSE disturbed

ReadControl(outcome) ==
    /\ Transact({"read"}, outcome)
    /\ temp' = IF outcome = "done" THEN ctl ELSE {}
    /\ Disturbs(outcome)
    /\ UNCHANGED <<power, chip, asked, elapsed, matched>>

\* Enabling an interrupt may clear the flag it was enabled for.
WriteControl(outcome) ==
    /\ Transact({"control"}, outcome)
    /\ LET written == (temp \ Head(todo).off) \cup Head(todo).on IN
         IF outcome = "done"
         THEN /\ ctl' = (written \ Flags) \cup (written \cap ctl)
              /\ disturbed' = IF Head(todo).on = {} \/ Flags \cap ctl \subseteq written
                              THEN disturbed ELSE "yes"
         ELSE UNCHANGED ctl /\ Disturbs(outcome)
    /\ UNCHANGED <<power, temp, timer, alarm, second, now, asked, elapsed, matched>>

WriteTimer(outcome) ==
    /\ Transact({"mode", "count"}, outcome)
    /\ LET t == Head(todo) IN
         /\ timer' = IF outcome = "failed" THEN timer
                     ELSE IF t.reg = "mode"
                     THEN [timer EXCEPT !.enabled = t.enabled, !.unit = t.unit]
                     ELSE [timer EXCEPT !.count = t.n, !.left = t.n]
         /\ elapsed' = IF t.reg = "count" THEN 0 ELSE elapsed
    /\ Disturbs(outcome)
    /\ UNCHANGED <<power, temp, ctl, alarm, second, now, asked, matched>>

WriteAlarm(outcome) ==
    /\ Transact({"alarm"}, outcome)
    /\ alarm' = IF outcome = "done" THEN Head(todo).at ELSE alarm
    /\ matched' = "no"
    /\ Disturbs(outcome)
    /\ UNCHANGED <<power, temp, ctl, timer, second, now, asked, elapsed>>

\* Power_Class::powerOff.
LetGo ==
    /\ todo # <<>> /\ Head(todo) = PowerOff /\ todo' = Tail(todo)
    /\ power' = "off"
    /\ temp' = {}
    /\ UNCHANGED <<chip, history>>
-----------------------------------------------------------------------------
(***************************************************************************)
(* The chip (external).  Its seconds carry into the other fields; a timer  *)
(* counts ticks of its own unit and starts anew when it has ended; flags   *)
(* are set when a countdown ends and when the clock comes to the alarm.    *)
(***************************************************************************)
Interrupt == {"AIE", "AF"} \subseteq ctl \/ {"TIE", "TF"} \subseteq ctl

After(f) == IF now[f] = Max(Clocks[f]) THEN Min(Clocks[f]) ELSE now[f] + 1

Wraps(f) == now[f] = Max(Clocks[f])

NewMinute == second + 1 = Minute

NewClock ==
    IF ~NewMinute THEN now
    ELSE [f \in Fields |->
            IF \/ f = "minutes"
               \/ f = "hours" /\ Wraps("minutes")
               \/ f \in {"date", "weekDay"} /\ Wraps("minutes") /\ Wraps("hours")
            THEN After(f) ELSE now[f]]

Agrees(a, c) == a # Never /\ \A f \in Fields : a[f] \in {-1, c[f]}

\* The alarm is reached: it agrees now and did not before.
Reaches(a) == Agrees(a, NewClock) /\ ~Agrees(a, now)

Counts == timer.enabled = "yes" /\ timer.left > 0 /\ (timer.unit = 1 \/ NewMinute)

Ends == Counts /\ timer.left = 1

ChipTick ==
    /\ ~(power = "off" /\ Interrupt)
    /\ second' = (second + 1) % Minute
    /\ now' = NewClock
    /\ timer' = IF Ends THEN [timer EXCEPT !.left = timer.count]
                ELSE IF Counts THEN [timer EXCEPT !.left = @ - 1] ELSE timer
    /\ ctl' = ctl \cup (IF Ends THEN {"TF"} ELSE {})
                  \cup (IF Reaches(alarm) THEN {"AF"} ELSE {})
    /\ elapsed' = IF Interrupt \/ asked.kind # "timer" THEN elapsed ELSE Min({elapsed + 1, Longest + 1})
    /\ matched' = IF asked.kind = "alarm" /\ alarm = asked.at /\ Reaches(alarm) THEN "yes" ELSE matched
    /\ UNCHANGED <<power, todo, temp, alarm, asked, disturbed>>

\* The interrupt powers the board on, and setup() calls TimerCAM.begin.
Wake ==
    /\ power = "off" /\ Interrupt
    /\ power' = "on"
    /\ todo' = Begin /\ temp' = {}
    /\ asked' = Nothing /\ elapsed' = 0 /\ matched' = "no" /\ disturbed' = "no"
    /\ UNCHANGED <<chip>>

Sketch == \/ \E n \in Seconds : SleepFor(n)
          \/ \E a \in Alarms : SleepUntil(a)
          \/ StayAwake
          \/ \E outcome \in Outcomes :
                \/ ReadControl(outcome) \/ WriteControl(outcome)
                \/ WriteTimer(outcome) \/ WriteAlarm(outcome)
          \/ LetGo

RtcNext == Sketch \/ ChipTick \/ Wake

RtcSpec == RtcInit /\ [][RtcNext]_rtcVars
-----------------------------------------------------------------------------
Asleep == power = "off" /\ disturbed = "no"

(***************************************************************************)
(* The seconds that a timer may be set to for the n that were asked for:   *)
(* those themselves as long as they fit into the register, its largest     *)
(* value in the gap from there to SwitchAt, then minutes, half a minute    *)
(* off at most, and the longest countdown for all beyond it.               *)
(***************************************************************************)
SetFor(n, set) ==
    \/ n <= MaxCount /\ n < SwitchAt /\ set = n
    \/ n \in MaxCount + 1 .. SwitchAt - 1 /\ set = MaxCount
    \/ n \in SwitchAt .. Longest /\ 2 * (set - n) <= Minute /\ 2 * (n - set) <= Minute
    \/ n >= SwitchAt /\ n > Longest /\ set = Longest

(***************************************************************************)
(* Nothing but what timerSleep asked for powers the board on, at the time  *)
(* asked for: no flag or countdown of an earlier operation, and the timer  *)
(* ends within a tick of the seconds that setAlarmIRQ reports, which are   *)
(* those it may set for the seconds asked for.  It is about operations     *)
(* none of whose transactions failed, and that lost no flag.               *)
(***************************************************************************)
WakesForWhatWasAsked ==
    (Asleep /\ Interrupt) =>
        \/ asked.kind = "alarm" /\ matched = "yes"
        \/ /\ asked.kind = "timer" /\ asked.n > 0
           /\ LET set == SetSeconds(asked.n) IN
                elapsed > set - Unit(asked.n) /\ elapsed <= set /\ SetFor(asked.n, set)

(***************************************************************************)
(* A board that sleeps longer than it was asked to has lost an interrupt:  *)
(* it cannot, unless a flag was set between the reading and the writing of *)
(* 0x01, which clears it.                                                  *)
(***************************************************************************)
NoWakeIsMissed ==
    (Asleep /\ ~Interrupt) =>
        /\ matched = "no"
        /\ (asked.kind = "timer" /\ asked.n > 0) =>
               elapsed < SetSeconds(asked.n)

(***************************************************************************)
(* "If 256 or more, 1-minute cycle" (RTC8563_Class.h:115): a board that    *)
(* asked for more seconds than the register holds sleeps by minutes.  The  *)
(* code goes over to minutes at SwitchAt only, and cuts off what is asked  *)
(* for in between.                                                         *)
(***************************************************************************)
LongCountsInMinutes ==
    (Asleep /\ asked.kind = "timer" /\ asked.n > MaxCount) => timer.unit = Minute
=============================================================================

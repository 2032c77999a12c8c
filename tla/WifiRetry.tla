----------------------------- MODULE WifiRetry ------------------------------
(***************************************************************************)
(* maintainWiFi() of m5cam_stream_server.ino, lines 242-253: the timer     *)
(* that spaces the calls to WiFi.reconnect() while the link is down.  It   *)
(* compares two readings of millis(), a 32-bit counter that wraps every    *)
(* 49.7 days, with "<": this module says exactly when that comparison is   *)
(* the intended one.                                                       *)
(*                                                                         *)
(* Time is counted in clock ticks.  age, era, gap and owed are history     *)
(* variables that the program does not have.                               *)
(***************************************************************************)
EXTENDS Integers

CONSTANTS
    ClockMod,   \* millis() counts modulo ClockMod (2^32 in the program)
    RetryMs,    \* spacing of the attempts (5000 in the program)
    MaxBusy,    \* longest time loop() takes from one call to the next
    MaxAge      \* age is exact up to MaxAge and stays there (bound)

ASSUME ClockAssumption == /\ ClockMod \in Nat /\ RetryMs \in Nat
                          /\ MaxBusy \in Nat /\ MaxAge \in Nat
                          /\ 0 < RetryMs /\ RetryMs < ClockMod
                          /\ RetryMs < MaxAge

VARIABLES
    wifi,       \* WiFi.status(): "up" is WL_CONNECTED, "down" anything else
    clock,      \* millis()
    nextTry,    \* the static local of maintainWiFi
    pc,         \* "loop": between two calls; "arm": after WiFi.reconnect()
    age,        \* ticks since the last attempt set nextTry
    era,        \* "wrapped" if millis() or millis() + 5000 wrapped since then
    gap,        \* ticks since the last call of maintainWiFi
    owed        \* ticks for which the link has been down and a retry due

vars == <<wifi, clock, nextTry, pc, age, era, gap, owed>>

\* Addition of the program's unsigned counter, for a sum below 2 * ClockMod.
Wrap(t) == IF t >= ClockMod THEN t - ClockMod ELSE t

TypeOK == /\ wifi \in {"up", "down"}
          /\ clock \in 0 .. ClockMod - 1
          /\ nextTry \in 0 .. ClockMod - 1
          /\ pc \in {"loop", "arm"}
          /\ age \in 0 .. MaxAge
          /\ era \in {"same", "wrapped"}
          /\ gap \in 0 .. MaxBusy
          /\ owed \in Nat

\* nextTry starts at 0, as if an attempt had been made RetryMs before reset.
Init == /\ wifi \in {"up", "down"}
        /\ clock = 0
        /\ nextTry = 0
        /\ pc = "loop"
        /\ age = RetryMs
        /\ era = "same"
        /\ gap = 0
        /\ owed = 0

-----------------------------------------------------------------------------
\* The early return of lines 247-249 is not taken.
Due == ~(clock < nextTry)

\* Mutant: a call that is not due postpones the attempt.
MutCallReturns == /\ pc = "loop"
                  /\ wifi = "up" \/ ~Due
                  /\ nextTry' = Wrap(clock + RetryMs)
                  /\ gap' = 0
                  /\ UNCHANGED <<wifi, clock, pc, age, era, owed>>

(***************************************************************************)
(* One call from loop().  It returns at once while the link is up or no    *)
(* attempt is due; otherwise it calls WiFi.reconnect(), whose duration     *)
(* separates the first reading of millis() from the second.                *)
(***************************************************************************)
CallReturns == /\ pc = "loop"
               /\ wifi = "up" \/ ~Due
               /\ gap' = 0
               /\ UNCHANGED <<wifi, clock, nextTry, pc, age, era, owed>>

Reconnect == /\ pc = "loop"
             /\ wifi = "down"
             /\ Due
             /\ pc' = "arm"
             /\ gap' = 0
             /\ owed' = 0
             /\ UNCHANGED <<wifi, clock, nextTry, age, era>>

\* Mutant: the attempt does not set the time of the next one.
MutArm == /\ pc = "arm"
          /\ pc' = "loop"
          /\ age' = 0
          /\ UNCHANGED <<wifi, clock, nextTry, era, gap, owed>>

Arm == /\ pc = "arm"
       /\ nextTry' = Wrap(clock + RetryMs)
       /\ age' = 0
       /\ era' = IF clock + RetryMs >= ClockMod THEN "wrapped" ELSE "same"
       /\ pc' = "loop"
       /\ UNCHANGED <<wifi, clock, gap, owed>>

MaintainWiFi == CallReturns \/ Reconnect \/ Arm

(***************************************************************************)
(* Time passes, also while loop() is busy elsewhere, but loop() comes back *)
(* to maintainWiFi within MaxBusy.                                         *)
(***************************************************************************)
Tick == /\ gap < MaxBusy
        /\ gap' = gap + 1
        /\ clock' = Wrap(clock + 1)
        /\ age' = IF age < MaxAge THEN age + 1 ELSE age
        /\ era' = IF clock + 1 >= ClockMod THEN "wrapped" ELSE era
        /\ owed' = IF /\ wifi = "down" /\ pc = "loop"
                      /\ era' = "same" /\ age >= RetryMs
                   THEN owed + 1
                   ELSE 0
        /\ UNCHANGED <<wifi, nextTry, pc>>

LinkChanges == /\ wifi' = IF wifi = "up" THEN "down" ELSE "up"
               /\ owed' = 0
               /\ UNCHANGED <<clock, nextTry, pc, age, era, gap>>

Next == MaintainWiFi \/ Tick \/ LinkChanges

Spec == Init /\ [][Next]_vars

-----------------------------------------------------------------------------
(***************************************************************************)
(* Unless the counter wrapped since the last attempt, the early return of  *)
(* line 247 is taken exactly while less than RetryMs have really passed:   *)
(* attempts are neither rushed nor skipped.                                *)
(***************************************************************************)
DueIsElapsed == era = "same" => (Due <=> age >= RetryMs)

(***************************************************************************)
(* Two attempts are at least RetryMs apart unless a wrap lies between them *)
(* (a sum that wraps at line 252 leaves a small nextTry, and every call    *)
(* retries until the counter wraps too).                                   *)
(***************************************************************************)
AttemptsSpaced ==
    [][(pc = "loop" /\ pc' = "arm" /\ era = "same") => age >= RetryMs]_vars

(***************************************************************************)
(* While the counter does not wrap, a lost link never waits longer for its *)
(* due attempt than loop() takes to come round: the early returns of lines *)
(* 244 and 247 do not swallow it.                                          *)
(***************************************************************************)
RetryPrompt == owed <= MaxBusy
=============================================================================

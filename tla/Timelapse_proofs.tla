--------------------------- MODULE Timelapse_proofs --------------------------
(***************************************************************************)
(* The timelapse sketch uploads only frames it holds, loses none, and      *)
(* captures no minute twice, for every length of the minute, every number  *)
(* of warm-up captures and every step of the clock.                        *)
(***************************************************************************)
EXTENDS Timelapse, TLAPS

\* From a successful get() to its free().
BorrowPoints == {"warm", "size", "name", "post", "redirect", "report", "free"}

\* From the frame's size check to the end of the upload.
UploadPoints == {"name", "post", "redirect", "report", "free"}

CapturePoints == BorrowPoints \cup {"get", "schedule"}

TaskTypeOK ==
    /\ pc \in TaskPoints
    /\ fb \in Buffers \cup {NoBuffer}
    /\ held \subseteq Buffers
    /\ content \in [Buffers -> {"good", "short", "refill"}]

(***************************************************************************)
(* While a frame is in use it is the one borrowed buffer, and while it is  *)
(* uploaded it is still what was captured.                                 *)
(***************************************************************************)
LeaseShape ==
    IF pc \in BorrowPoints
    THEN /\ fb \in Buffers /\ held = {fb}
         /\ pc \in UploadPoints => content[fb] = "good"
    ELSE held = {}

LeaseInv == TaskTypeOK /\ LeaseShape

(***************************************************************************)
(* The next capture is due in the minute after the last one started: at    *)
(* once if the image is done, and as soon as line 122 is reached if not,   *)
(* because currentTime is what it was when the capture was found due.      *)
(***************************************************************************)
Scheduled ==
    /\ lastStart \in Int
    /\ currentTime \in Nat /\ now \in Nat
    /\ pc \in {"connect", "sync"} => lastStart = -1
    /\ pc \in CapturePoints => lastStart = currentTime
    /\ (pc \notin CapturePoints /\ lastStart # -1) =>
          lastStart \in Nat /\ nextCaptureTime = NextMinute(lastStart)

IInv == LeaseInv /\ Scheduled

-----------------------------------------------------------------------------
\* A time not before the start of the minute after s lies in a later minute.
LEMMA LaterMinute ==
    ASSUME NEW s \in Nat, NEW t \in Nat, t >= NextMinute(s)
    PROVE  t \div Minute > s \div Minute
<1>1. Minute \in Nat /\ Minute > 0
  BY TimeAssumption DEF TimeAssumption
<1> DEFINE p == s \div Minute
           q == t \div Minute
<1>2. p \in Nat /\ q \in Nat
  BY <1>1
<1>3. t < (q + 1) * Minute
  BY <1>1
<1>4. (p + 1) * Minute < (q + 1) * Minute
  BY <1>3, <1>2, <1>1 DEF NextMinute
<1>5. CASE q <= p
  <2>1. (q + 1) * Minute <= (p + 1) * Minute
    BY <1>1, <1>2, <1>5
  <2>2. QED
    BY <2>1, <1>4, <1>1, <1>2
<1>6. QED
  BY <1>2, <1>5

LEMMA GetBorrows ==
    ASSUME LeaseInv, held = {}, CameraGet
    PROVE  /\ fb' \in Buffers /\ held' = {fb'} /\ Lease!Borrow
           /\ content' \in [Buffers -> {"good", "short", "refill"}]
BY DEF CameraGet, LeaseInv, TaskTypeOK, Lease!Borrow

LEMMA FreeGivesBack ==
    ASSUME LeaseInv, pc \in BorrowPoints, CameraFree
    PROVE  /\ held' = {} /\ fb' = fb /\ Lease!GiveBack
           /\ content' \in [Buffers -> {"good", "short", "refill"}]
BY DEF CameraFree, LeaseInv, LeaseShape, TaskTypeOK, Lease!GiveBack

LEMMA InitIInv == Init => IInv
BY DEF Init, IInv, LeaseInv, LeaseShape, TaskTypeOK, TaskPoints, BorrowPoints,
       Scheduled, CapturePoints

LEMMA StepLeaseInv == LeaseInv /\ [Next]_vars => LeaseInv' /\ [Lease!Next]_held
<1> SUFFICES ASSUME LeaseInv, [Next]_vars
             PROVE  LeaseInv' /\ [Lease!Next]_held
  OBVIOUS
<1> USE DEF LeaseInv, LeaseShape, TaskTypeOK, TaskPoints, BorrowPoints, UploadPoints, Lease!Next
<1>1. CASE Setup
  BY <1>1 DEF Setup, ConnectToWiFi, InitializeTime, InitializeCamera, camVars
<1>2. CASE Loop
  BY <1>2 DEF Loop, MaintainWiFi, CheckScheduledCapture, Schedule, Wait, camVars
<1>3. CASE CaptureFails
  BY <1>3 DEF CaptureFails, CameraGetFails
<1>4. CASE Capture
  BY <1>4, GetBorrows DEF Capture
<1>5. CASE WarmupFree
  BY <1>5, FreeGivesBack DEF WarmupFree
<1>6. CASE TooSmall
  BY <1>6, FreeGivesBack DEF TooSmall
<1>7. CASE BigEnough
  BY <1>7 DEF BigEnough, camVars
<1>8. CASE TimestampFilename \/ FallbackFilename \/ Post \/ FollowRedirect \/ Report
  BY <1>8 DEF TimestampFilename, FallbackFilename, Post, FollowRedirect, Report, camVars
<1>9. CASE FreeFrame
  BY <1>9, FreeGivesBack DEF FreeFrame
<1>10. CASE Tick \/ ClockStep \/ LinkChanges
  BY <1>10 DEF Tick, ClockStep, LinkChanges, camVars
<1>11. CASE UNCHANGED vars
  BY <1>11 DEF vars, camVars
<1>12. QED
  BY <1>1, <1>2, <1>3, <1>4, <1>5, <1>6, <1>7, <1>8, <1>9, <1>10, <1>11
     DEF Next, Task, CaptureAndUpload

LEMMA StepScheduled == IInv /\ [Next]_vars => Scheduled'
<1> SUFFICES ASSUME IInv, [Next]_vars PROVE Scheduled'
  OBVIOUS
<1>1. /\ pc \in TaskPoints /\ Scheduled
  BY DEF IInv, LeaseInv, TaskTypeOK
<1> USE <1>1 DEF Scheduled, TaskPoints, CapturePoints, BorrowPoints
<1>2. CASE Setup
  BY <1>2 DEF Setup, ConnectToWiFi, InitializeTime, InitializeCamera, schedVars, history
<1>3. CASE MaintainWiFi \/ Wait
  BY <1>3 DEF MaintainWiFi, Wait, schedVars, history
<1>4. CASE CheckScheduledCapture
  BY <1>4 DEF CheckScheduledCapture, history
<1>5. CASE Schedule
  BY <1>5 DEF Schedule, history
<1>6. CASE CaptureAndUpload
  <2>1. CASE CaptureFails \/ Capture \/ WarmupFree \/ TooSmall \/ BigEnough
    BY <2>1 DEF CaptureFails, Capture, WarmupFree, TooSmall, BigEnough, schedVars, history
  <2>2. CASE TimestampFilename \/ FallbackFilename \/ Post \/ FollowRedirect \/ Report \/ FreeFrame
    BY <2>2 DEF TimestampFilename, FallbackFilename, Post, FollowRedirect, Report, FreeFrame,
                schedVars, history
  <2>3. QED
    BY <1>6, <2>1, <2>2 DEF CaptureAndUpload
<1>7. CASE Tick \/ ClockStep \/ LinkChanges
  BY <1>7 DEF Tick, ClockStep, LinkChanges, Seconds, schedVars, history
<1>8. CASE UNCHANGED vars
  BY <1>8 DEF vars, schedVars, history
<1>9. QED
  BY <1>2, <1>3, <1>4, <1>5, <1>6, <1>7, <1>8 DEF Next, Task, Loop

LEMMA IInvAlways == Spec => []IInv
<1>1. IInv /\ [Next]_vars => IInv'
  BY StepLeaseInv, StepScheduled DEF IInv
<1>2. QED
  BY <1>1, InitIInv, PTL DEF Spec

(***************************************************************************)
(* No path of captureAndUploadImage keeps a camera frame.                  *)
(***************************************************************************)
THEOREM NoFrameLeakCorrect == Spec => []NoFrameLeak
<1>1. IInv => NoFrameLeak
  BY DEF IInv, LeaseInv, LeaseShape, BorrowPoints, NoFrameLeak
<1>2. QED
  BY <1>1, IInvAlways, PTL

(***************************************************************************)
(* What is uploaded is the frame that was captured, still borrowed.        *)
(***************************************************************************)
THEOREM UploadsCapturedFrameCorrect == Spec => []UploadsCapturedFrame
<1>1. IInv => UploadsCapturedFrame
  BY DEF IInv, LeaseInv, LeaseShape, BorrowPoints, UploadPoints, UploadsCapturedFrame
<1>2. QED
  BY <1>1, IInvAlways, PTL

(***************************************************************************)
(* The sketch implements the safety part of the camera driver's frame      *)
(* lease: one buffer at a time, and that very buffer given back.           *)
(***************************************************************************)
THEOREM ImplementsFrameLease == Spec => Lease!Spec
<1>1. Init => Lease!Init
  BY DEF Init, Lease!Init
<1>2. IInv => LeaseInv
  BY DEF IInv
<1>3. QED
  BY <1>1, <1>2, IInvAlways, StepLeaseInv, PTL DEF Spec, Lease!Spec

(***************************************************************************)
(* Successive captures start in different, later minutes, however long an  *)
(* upload takes and however SNTP steps the clock.                          *)
(***************************************************************************)
THEOREM OncePerMinuteCorrect == Spec => OncePerMinute
<1> DEFINE Capturing == (pc = "check" /\ pc' = "get" /\ lastStart # -1) =>
                           lastStart' \div Minute > lastStart \div Minute
<1>1. IInv /\ [Next]_vars => [Capturing]_vars
  <2> SUFFICES ASSUME IInv, Next, pc = "check", pc' = "get", lastStart # -1
               PROVE  lastStart' \div Minute > lastStart \div Minute
    BY DEF Capturing
  <2>1. CheckScheduledCapture
    BY DEF Next, Task, Setup, Loop, CaptureAndUpload, ConnectToWiFi, InitializeTime,
           InitializeCamera, MaintainWiFi, Schedule, Wait, CaptureFails, Capture, WarmupFree,
           TooSmall, BigEnough, TimestampFilename, FallbackFilename, Post, FollowRedirect, Report,
           FreeFrame, Tick, ClockStep, LinkChanges
  <2>2. now >= nextCaptureTime /\ lastStart' = now
    BY <2>1 DEF CheckScheduledCapture
  <2>3. /\ lastStart \in Nat /\ now \in Nat
        /\ nextCaptureTime = NextMinute(lastStart)
    BY DEF IInv, Scheduled, CapturePoints, BorrowPoints
  <2>4. QED
    BY <2>2, <2>3, LaterMinute
<1>2. QED
  BY <1>1, IInvAlways, PTL DEF Spec, OncePerMinute

-----------------------------------------------------------------------------
(***************************************************************************)
(* The type invariant; the loop variable keeps its range because a frame   *)
(* is given back as a warm-up only while there is a capture to come.       *)
(***************************************************************************)
TypeInv == TypeOK /\ (pc = "warm" => i < Warmups - 1)

LEMMA NextMinuteNat == ASSUME NEW t \in Nat PROVE NextMinute(t) \in Nat
<1>1. Minute \in Nat /\ Minute > 0
  BY TimeAssumption DEF TimeAssumption
<1> DEFINE q == t \div Minute
<1>2. q \in Nat
  BY <1>1
<1>3. (q + 1) * Minute \in Nat
  BY <1>1, <1>2
<1>4. QED
  BY <1>3 DEF NextMinute

LEMMA InitTypeInv == Init => TypeInv
BY TimeAssumption DEF TimeAssumption, Init, TypeInv, TypeOK, TaskPoints, Seconds, HttpCodes

LEMMA StepTypeInv == TypeInv /\ [Next]_vars => TypeInv'
<1> SUFFICES ASSUME TypeInv, [Next]_vars PROVE TypeInv'
  OBVIOUS
<1>0. Seconds \subseteq Nat /\ Warmups \in Nat /\ Warmups > 0
  BY TimeAssumption DEF TimeAssumption, Seconds
<1>a. 0 \in 0 .. Warmups - 1
  BY <1>0
<1>b. WarmupFree => i' \in 0 .. Warmups - 1
  <2>1. i \in 0 .. Warmups - 1 /\ (pc = "warm" => i < Warmups - 1)
    BY DEF TypeInv, TypeOK
  <2>2. QED
    BY <2>1, <1>0 DEF WarmupFree
<1>c. Tick => now' \in Seconds
  <2>1. now \in Seconds
    BY DEF TypeInv, TypeOK
  <2>2. QED
    BY <2>1, TimeAssumption DEF TimeAssumption, Tick, Seconds
<1> USE <1>0 DEF TypeInv, TypeOK, TaskPoints
<1>1. CASE ConnectToWiFi \/ InitializeCamera \/ MaintainWiFi \/ Wait
  BY <1>1 DEF ConnectToWiFi, InitializeCamera, MaintainWiFi, Wait,
              camVars, schedVars, httpVars, history
<1>2. CASE InitializeTime
  <2>1. NextMinute(now) \in Nat
    BY <1>0, NextMinuteNat
  <2>2. QED
    BY <1>2, <2>1 DEF InitializeTime, camVars, httpVars, history
<1>3. CASE Schedule
  <2>1. NextMinute(currentTime) \in Nat
    BY <1>0, NextMinuteNat
  <2>2. QED
    BY <1>3, <2>1 DEF Schedule, camVars, httpVars, history
<1>4. CASE CheckScheduledCapture
  <2>2. CASE now >= nextCaptureTime
    BY <1>4, <1>a, <2>2 DEF CheckScheduledCapture, camVars
  <2>3. CASE ~(now >= nextCaptureTime)
    BY <1>4, <2>3 DEF CheckScheduledCapture, camVars, httpVars
  <2>4. QED
    BY <2>2, <2>3
<1>5. CASE CaptureFails
  BY <1>5 DEF CaptureFails, CameraGetFails, schedVars, httpVars, history
<1>6. CASE Capture
  BY <1>6, <1>0 DEF Capture, CameraGet, schedVars, httpVars, history
<1>7. CASE WarmupFree
  <2>1. i' \in 0 .. Warmups - 1
    BY <1>7, <1>b
  <2>2. held' \subseteq Buffers /\ fb' = fb /\ content' \in [Buffers -> {"good", "short", "refill"}]
    BY <1>7 DEF WarmupFree, CameraFree
  <2>3. QED
    BY <1>7, <2>1, <2>2 DEF WarmupFree, schedVars, httpVars, history
<1>8. CASE TooSmall \/ FreeFrame
  BY <1>8 DEF TooSmall, FreeFrame, CameraFree, schedVars, httpVars, history
<1>9. CASE BigEnough \/ TimestampFilename \/ FallbackFilename
  BY <1>9 DEF BigEnough, TimestampFilename, FallbackFilename, camVars, schedVars, httpVars, history
<1>10. CASE Post \/ FollowRedirect \/ Report
  BY <1>10 DEF Post, FollowRedirect, Report, camVars, schedVars, history
<1>11. CASE Tick
  <2>1. now' \in Seconds
    BY <1>11, <1>c
  <2>2. QED
    BY <1>11, <2>1 DEF Tick, camVars, schedVars, httpVars, history
<1>12. CASE ClockStep \/ LinkChanges
  BY <1>12 DEF ClockStep, LinkChanges, camVars, schedVars, httpVars, history
<1>13. CASE UNCHANGED vars
  BY <1>13 DEF vars, camVars, schedVars, httpVars, history
<1>14. QED
  BY <1>1, <1>2, <1>3, <1>4, <1>5, <1>6, <1>7, <1>8, <1>9, <1>10, <1>11, <1>12, <1>13
     DEF Next, Task, Setup, Loop, CaptureAndUpload

LEMMA TypeInvAlways == Spec => []TypeInv
BY InitTypeInv, StepTypeInv, PTL DEF Spec

(***************************************************************************)
(* The sketch's state keeps its type for every length of the minute and    *)
(* every number of warm-up captures: i stays below it.                     *)
(***************************************************************************)
THEOREM TypeCorrect == Spec => []TypeOK
<1>1. TypeInv => TypeOK
  BY DEF TypeInv
<1>2. QED
  BY <1>1, TypeInvAlways, PTL

-----------------------------------------------------------------------------
(***************************************************************************)
(* Unless the clock was set back, no name in use lies in the future, and   *)
(* all of them are older than the capture that is under way and has not    *)
(* been named yet.                                                         *)
(***************************************************************************)
UnnamedPoints == {"get", "warm", "size", "name"}

NamesArePast ==
    setBack = "no" =>
       /\ \A n \in fileNames : n <= now
       /\ pc \in UnnamedPoints =>
             currentTime <= now /\ \A n \in fileNames : n <= currentTime

LEMMA NumbersOf ==
    ASSUME TypeInv
    PROVE  /\ pc \in TaskPoints /\ setBack \in {"no", "yes"}
           /\ now \in Nat /\ currentTime \in Nat /\ fileNames \subseteq Nat
<1>1. /\ pc \in TaskPoints /\ setBack \in {"no", "yes"}
      /\ now \in Seconds /\ currentTime \in Seconds /\ fileNames \subseteq Seconds
  BY DEF TypeInv, TypeOK
<1>2. Seconds \subseteq Nat
  BY TimeAssumption DEF TimeAssumption, Seconds
<1>3. QED
  BY <1>1, <1>2

LEMMA StepNames == TypeInv /\ NamesArePast /\ [Next]_vars => NamesArePast'
<1> SUFFICES ASSUME TypeInv, NamesArePast, [Next]_vars PROVE NamesArePast'
  OBVIOUS
<1>0. /\ pc \in TaskPoints /\ setBack \in {"no", "yes"}
      /\ now \in Nat /\ currentTime \in Nat /\ fileNames \subseteq Nat
  BY NumbersOf
<1> USE <1>0 DEF NamesArePast, UnnamedPoints, TaskPoints
<1>1. CASE ConnectToWiFi \/ InitializeTime \/ InitializeCamera
  BY <1>1 DEF ConnectToWiFi, InitializeTime, InitializeCamera, schedVars, history
<1>2. CASE CheckScheduledCapture
  BY <1>2 DEF CheckScheduledCapture
<1>3. CASE MaintainWiFi \/ Schedule \/ Wait
  BY <1>3 DEF MaintainWiFi, Schedule, Wait, schedVars, history
<1>4. CASE CaptureFails \/ Capture \/ WarmupFree \/ TooSmall \/ BigEnough
  BY <1>4 DEF CaptureFails, Capture, WarmupFree, TooSmall, BigEnough, schedVars, history
<1>5. CASE TimestampFilename
  BY <1>5 DEF TimestampFilename, schedVars
<1>6. CASE FallbackFilename \/ Post \/ FollowRedirect \/ Report \/ FreeFrame
  BY <1>6 DEF FallbackFilename, Post, FollowRedirect, Report, FreeFrame, schedVars, history
<1>7. CASE Tick
  BY <1>7 DEF Tick, schedVars, history
<1>8. CASE ClockStep
  <2>1. now' \in Nat
    BY <1>8, TimeAssumption DEF TimeAssumption, ClockStep, Seconds
  <2>2. CASE now' < now
    BY <1>8, <2>2 DEF ClockStep
  <2>3. CASE now' >= now
    BY <1>8, <2>1, <2>3 DEF ClockStep, schedVars
  <2>4. QED
    BY <2>1, <2>2, <2>3
<1>9. CASE LinkChanges
  BY <1>9 DEF LinkChanges, schedVars, history
<1>10. CASE UNCHANGED vars
  BY <1>10 DEF vars, schedVars, history
<1>11. QED
  BY <1>1, <1>2, <1>3, <1>4, <1>5, <1>6, <1>7, <1>8, <1>9, <1>10
     DEF Next, Task, Setup, Loop, CaptureAndUpload

LEMMA NamesArePastAlways == Spec => []NamesArePast
<1>1. Init => NamesArePast
  BY DEF Init, NamesArePast, UnnamedPoints
<1>2. QED
  BY <1>1, StepNames, TypeInvAlways, PTL DEF Spec

(***************************************************************************)
(* Two images never get the same name unless the clock is set back, for    *)
(* every length of the minute and however long captures and uploads take.  *)
(***************************************************************************)
THEOREM NamesUniqueCorrect == Spec => NamesUnique
<1> DEFINE Naming == (TimestampFilename /\ setBack = "no") => now \notin fileNames
<1>1. TypeInv /\ NamesArePast /\ [Next]_vars => [Naming]_vars
  <2> SUFFICES ASSUME TypeInv, NamesArePast, TimestampFilename, setBack = "no"
               PROVE  now \notin fileNames
    BY DEF Naming
  <2>1. pc = "name"
    BY DEF TimestampFilename
  <2>2. now # currentTime
    BY DEF TimestampFilename
  <2>3. now \in Nat /\ currentTime \in Nat /\ fileNames \subseteq Nat
    BY NumbersOf
  <2>4. currentTime <= now /\ \A n \in fileNames : n <= currentTime
    BY <2>1 DEF NamesArePast, UnnamedPoints
  <2>5. QED
    BY <2>2, <2>3, <2>4
<1>2. QED
  BY <1>1, TypeInvAlways, NamesArePastAlways, PTL DEF Spec, NamesUnique
=============================================================================

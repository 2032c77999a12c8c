----------------------------- MODULE Timelapse ------------------------------
(***************************************************************************)
(* old/m5cam_timelapse_v9_end_final.ino: one task that captures an image   *)
(* at the start of every minute and uploads it to Google Drive.            *)
(*                                                                         *)
(* Time is wall-clock time in seconds, as time(nullptr) returns it.  It    *)
(* passes between any two steps of the task (captures, uploads and delays  *)
(* take time) and SNTP may step it.                                        *)
(***************************************************************************)
EXTENDS Integers, FiniteSets

CONSTANTS
    Buffers,    \* the camera driver's frame buffers
    NoBuffer,   \* a null camera_fb_t pointer
    Warmups,    \* captures per image (10 in the program, the last is used)
    Minute,     \* seconds per minute (60 in the program)
    StepBack,   \* how far SNTP may set the clock back
    MaxTime     \* the clock stops here (bound)

ASSUME NoBufferAssumption == NoBuffer \notin Buffers
ASSUME TimeAssumption == /\ Warmups \in Nat \ {0} /\ Minute \in Nat \ {0}
                         /\ StepBack \in Nat /\ MaxTime \in Nat

VARIABLES
    pc,             \* where the task is
    now,            \* time(nullptr)
    wifi,           \* WiFi.status(): "up" is WL_CONNECTED
    camera,         \* "ready" once esp_camera_init succeeded, else "failed"
    fb,             \* Camera_Class::fb, possibly stale
    held,           \* buffers borrowed from the driver
    content,        \* per buffer: "good", "short" (len < 1024) or "refill"
    i,              \* loop variable of captureAndUploadImage
    currentTime,    \* local of checkScheduledCapture
    nextCaptureTime,
    httpCode,       \* result of the last POST of this image, 0 before it
    printed,        \* "Upload Success" lines printed for this image
    lastStart,      \* history: currentTime of the last capture, -1 before it
    fileNames,      \* history: names of the images uploaded so far
    setBack         \* history: whether SNTP has set the clock back

camVars  == <<fb, held, content>>
schedVars == <<currentTime, nextCaptureTime>>
httpVars == <<httpCode, printed>>
history  == <<lastStart, fileNames, setBack>>
vars == <<pc, now, wifi, camera, camVars, i, schedVars, httpVars, history>>

TaskPoints == {"connect", "sync", "initCamera", "maintain", "check", "get", "warm",
               "size", "name", "post", "redirect", "report", "free", "schedule", "wait"}

Seconds == 0 .. MaxTime
HttpCodes == {200, 302, -1}     \* done, moved, and any failure

\* Mutant: the start of t's own minute.
MutNextMinute(t) == (t \div Minute) * Minute

\* The start of the minute after t (lines 76 and 122).
NextMinute(t) == ((t \div Minute) + 1) * Minute

TypeOK ==
    /\ pc \in TaskPoints
    /\ now \in Seconds
    /\ wifi \in {"up", "down"}
    /\ camera \in {"ready", "failed"}
    /\ fb \in Buffers \cup {NoBuffer}
    /\ held \subseteq Buffers
    /\ content \in [Buffers -> {"good", "short", "refill"}]
    /\ i \in 0 .. Warmups - 1
    /\ currentTime \in Seconds
    /\ nextCaptureTime \in Nat
    /\ httpCode \in HttpCodes \cup {0}
    /\ printed \subseteq {"on redirect", "on result"}
    /\ lastStart \in Seconds \cup {-1}
    /\ fileNames \subseteq Seconds
    /\ setBack \in {"no", "yes"}

Init ==
    /\ pc = "connect"
    /\ now = 0
    /\ wifi = "down"
    /\ camera = "failed"
    /\ fb = NoBuffer
    /\ held = {}
    /\ content = [b \in Buffers |-> "refill"]
    /\ i = 0
    /\ currentTime = 0
    /\ nextCaptureTime = 0
    /\ httpCode = 0
    /\ printed = {}
    /\ lastStart = -1
    /\ fileNames = {}
    /\ setBack = "no"

-----------------------------------------------------------------------------
(***************************************************************************)
(* Camera_Class over the driver: see the same operators of StreamServer.   *)
(***************************************************************************)
CameraGet ==
    /\ camera = "ready"
    /\ \E b \in Buffers \ held : \E quality \in {"good", "short"} :
          /\ fb' = b
          /\ held' = held \cup {b}
          /\ content' = [content EXCEPT ![b] = quality]

CameraGetFails == fb' = NoBuffer /\ UNCHANGED <<held, content>>

CameraFree ==
    /\ held' = held \ {fb}
    /\ content' = [b \in Buffers |-> IF b = fb THEN "refill" ELSE content[b]]
    /\ UNCHANGED fb

-----------------------------------------------------------------------------
(***************************************************************************)
(* setup(): the wait for Wi-Fi ends after 30 s at the latest; the wait for *)
(* the time has no limit.                                                  *)
(***************************************************************************)
ConnectToWiFi ==
    /\ pc = "connect"
    /\ pc' = "sync"
    /\ UNCHANGED <<now, wifi, camera, camVars, i, schedVars, httpVars, history>>

InitializeTime ==
    /\ pc = "sync"
    /\ now > 0                      \* time(nullptr) >= 100000: the clock was set
    /\ nextCaptureTime' = NextMinute(now)
    /\ pc' = "initCamera"
    /\ UNCHANGED <<now, wifi, camera, camVars, i, currentTime, httpVars, history>>

InitializeCamera ==
    /\ pc = "initCamera"
    /\ camera' \in {"ready", "failed"}
    /\ pc' = "maintain"
    /\ UNCHANGED <<now, wifi, camVars, i, schedVars, httpVars, history>>

\* loop(): maintainWiFi calls WiFi.reconnect() and sleeps 5 s, or does nothing.
MaintainWiFi ==
    /\ pc = "maintain"
    /\ pc' = "check"
    /\ UNCHANGED <<now, wifi, camera, camVars, i, schedVars, httpVars, history>>

CheckScheduledCapture ==
    /\ pc = "check"
    /\ currentTime' = now
    /\ IF now >= nextCaptureTime
       THEN /\ pc' = "get"
            /\ i' = 0
            /\ lastStart' = now
            /\ httpCode' = 0
            /\ printed' = {}
       ELSE pc' = "wait" /\ UNCHANGED <<i, lastStart, httpVars>>
    /\ UNCHANGED <<now, wifi, camera, camVars, nextCaptureTime, fileNames, setBack>>

\* currentTime was read before the capture and the upload.
Schedule ==
    /\ pc = "schedule"
    /\ nextCaptureTime' = NextMinute(currentTime)
    /\ pc' = "wait"
    /\ UNCHANGED <<now, wifi, camera, camVars, i, currentTime, httpVars, history>>

\* The delay (100 ms, 1 s or none) after either branch.
Wait ==
    /\ pc = "wait"
    /\ pc' = "maintain"
    /\ UNCHANGED <<now, wifi, camera, camVars, i, schedVars, httpVars, history>>

-----------------------------------------------------------------------------
(***************************************************************************)
(* captureAndUploadImage: Warmups captures, all but the last given back at *)
(* once.                                                                   *)
(***************************************************************************)
\* Mutant: a failed capture is tried again without limit.
MutCaptureFails ==
    /\ pc = "get"
    /\ CameraGetFails
    /\ UNCHANGED <<pc, now, wifi, camera, i, schedVars, httpVars, history>>

CaptureFails ==
    /\ pc = "get"
    /\ CameraGetFails
    /\ pc' = "schedule"
    /\ UNCHANGED <<now, wifi, camera, i, schedVars, httpVars, history>>

Capture ==
    /\ pc = "get"
    /\ CameraGet
    /\ pc' = IF i < Warmups - 1 THEN "warm" ELSE "size"
    /\ UNCHANGED <<now, wifi, camera, i, schedVars, httpVars, history>>

WarmupFree ==
    /\ pc = "warm"
    /\ CameraFree
    /\ i' = i + 1
    /\ pc' = "get"
    /\ UNCHANGED <<now, wifi, camera, schedVars, httpVars, history>>

\* Mutant: the early return forgets the frame.
MutTooSmall ==
    /\ pc = "size"
    /\ content[fb] # "good"
    /\ pc' = "schedule"
    /\ UNCHANGED <<now, wifi, camera, camVars, i, schedVars, httpVars, history>>

TooSmall ==
    /\ pc = "size"
    /\ content[fb] # "good"
    /\ CameraFree
    /\ pc' = "schedule"
    /\ UNCHANGED <<now, wifi, camera, i, schedVars, httpVars, history>>

\* Mutant: the frame is given back before it is uploaded.
MutBigEnough ==
    /\ pc = "size"
    /\ content[fb] = "good"
    /\ CameraFree
    /\ pc' = "name"
    /\ UNCHANGED <<now, wifi, camera, i, schedVars, httpVars, history>>

BigEnough ==
    /\ pc = "size"
    /\ content[fb] = "good"
    /\ pc' = "name"
    /\ UNCHANGED <<now, wifi, camera, camVars, i, schedVars, httpVars, history>>

\* Mutant: no warm-up delays before the name is made.
MutTimestampFilename ==
    /\ pc = "name"
    /\ fileNames' = fileNames \cup {now}
    /\ pc' = "post"
    /\ UNCHANGED <<now, wifi, camera, camVars, i, schedVars, httpVars, lastStart, setBack>>

\* The name is the second it is made in; the nine delays of 200 ms before it
\* separate it from the second the capture was found due in.
TimestampFilename ==
    /\ pc = "name"
    /\ now # currentTime
    /\ fileNames' = fileNames \cup {now}
    /\ pc' = "post"
    /\ UNCHANGED <<now, wifi, camera, camVars, i, schedVars, httpVars, lastStart, setBack>>

\* getLocalTime fails: the name is image_<millis>, which no other image has.  Where the
\* modelled clock stops, at MaxTime, this is the only way on.
FallbackFilename ==
    /\ pc = "name"
    /\ pc' = "post"
    /\ UNCHANGED <<now, wifi, camera, camVars, i, schedVars, httpVars, history>>

(***************************************************************************)
(* uploadToGoogleDrive: one POST, and the same POST again to the address   *)
(* of a 302 answer.  The frame stays borrowed until it has returned.       *)
(***************************************************************************)
Post ==
    /\ pc = "post"
    /\ httpCode' \in HttpCodes
    /\ pc' = IF httpCode' = 302 THEN "redirect" ELSE "report"
    /\ UNCHANGED <<now, wifi, camera, camVars, i, schedVars, printed, history>>

\* Mutant: a second redirect starts the upload over.
MutFollowRedirect ==
    /\ pc = "redirect"
    /\ httpCode' \in HttpCodes
    /\ printed' = printed \cup {"on redirect"}
    /\ pc' = IF httpCode' = 302 THEN "post" ELSE "report"
    /\ UNCHANGED <<now, wifi, camera, camVars, i, schedVars, history>>

FollowRedirect ==
    /\ pc = "redirect"
    /\ httpCode' \in HttpCodes
    /\ printed' = printed \cup {"on redirect"}
    /\ pc' = "report"
    /\ UNCHANGED <<now, wifi, camera, camVars, i, schedVars, history>>

\* The caller prints "Upload Success" if the function returns true.
Report ==
    /\ pc = "report"
    /\ printed' = IF httpCode = 200 THEN printed \cup {"on result"} ELSE printed
    /\ pc' = "free"
    /\ UNCHANGED <<now, wifi, camera, camVars, i, schedVars, httpCode, history>>

FreeFrame ==
    /\ pc = "free"
    /\ CameraFree
    /\ pc' = "schedule"
    /\ UNCHANGED <<now, wifi, camera, i, schedVars, httpVars, history>>

Setup == ConnectToWiFi \/ InitializeTime \/ InitializeCamera

Loop == MaintainWiFi \/ CheckScheduledCapture \/ Schedule \/ Wait

CaptureAndUpload == \/ CaptureFails \/ Capture \/ WarmupFree \/ TooSmall \/ BigEnough
                    \/ TimestampFilename \/ FallbackFilename
                    \/ Post \/ FollowRedirect \/ Report \/ FreeFrame

Task == Setup \/ Loop \/ CaptureAndUpload

(***************************************************************************)
(* The environment: the clock ticks, SNTP steps it (forward by any amount, *)
(* and once, a bound, back by at most StepBack), and the link comes and    *)
(* goes.                                                                   *)
(***************************************************************************)
Tick == /\ now < MaxTime
        /\ now' = now + 1
        /\ UNCHANGED <<pc, wifi, camera, camVars, i, schedVars, httpVars, history>>

ClockStep == /\ pc # "connect"
             /\ now' \in {t \in Seconds : t >= now - StepBack}
             /\ now' < now => setBack = "no"
             /\ setBack' = IF now' < now THEN "yes" ELSE setBack
             /\ UNCHANGED <<pc, wifi, camera, camVars, i, schedVars, httpVars, lastStart, fileNames>>

LinkChanges == /\ wifi' = IF wifi = "up" THEN "down" ELSE "up"
               /\ UNCHANGED <<pc, now, camera, camVars, i, schedVars, httpVars, history>>

Next == Task \/ Tick \/ ClockStep \/ LinkChanges

Spec == Init /\ [][Next]_vars

\* The task is never blocked for ever once the clock is set, and time passes.
FairSpec == Spec /\ WF_vars(Task) /\ WF_vars(Tick)

-----------------------------------------------------------------------------
(***************************************************************************)
(* Every path of captureAndUploadImage gives the frame back.               *)
(***************************************************************************)
NoFrameLeak ==
    pc \notin {"warm", "size", "name", "post", "redirect", "report", "free"} => held = {}

(***************************************************************************)
(* The image being uploaded is the one that was captured: it stays         *)
(* borrowed, so the driver cannot refill it, while POSTs are retried.      *)
(***************************************************************************)
UploadsCapturedFrame ==
    pc \in {"name", "post", "redirect"} => fb \in held /\ content[fb] = "good"

(***************************************************************************)
(* No minute is captured twice, however long an upload takes and however   *)
(* SNTP steps the clock: the minutes of successive captures increase.      *)
(***************************************************************************)
OncePerMinute ==
    [][(pc = "check" /\ pc' = "get" /\ lastStart # -1) =>
          lastStart' \div Minute > lastStart \div Minute]_vars

(***************************************************************************)
(* Two images never get the same timestamp for a name (Drive would show    *)
(* two files of that name), as long as the clock is never set back.        *)
(***************************************************************************)
NamesUnique ==
    [][(TimestampFilename /\ setBack = "no") => now \notin fileNames]_vars

(***************************************************************************)
(* The series of captures goes on: after a capture started in any second,  *)
(* another one starts later, whatever failed in between (unless it is due  *)
(* only after the modelled time).                                          *)
(***************************************************************************)
SeriesGoesOn ==
    \A t \in 0 .. MaxTime - 1 :
        lastStart = t ~> (lastStart # t \/ nextCaptureTime > MaxTime)

(***************************************************************************)
(* The sketch keeps the contract with the camera driver, and every frame   *)
(* it borrows comes back in the end: no answer of the server, redirects    *)
(* included, keeps captureAndUploadImage from its free().                  *)
(***************************************************************************)
Lease == INSTANCE FrameLease WITH out <- held

LeaseSpec == Lease!FairSpec

-----------------------------------------------------------------------------
(***************************************************************************)
(* What line 121 says of the schedule: the next capture is at the start of *)
(* the next minute, so it lies ahead, at most a minute away.  It is false: *)
(* line 122 uses the currentTime read before the capture and the upload.   *)
(***************************************************************************)
SchedulesNextMinute ==
    [][(pc = "schedule" /\ pc' = "wait") => nextCaptureTime' = NextMinute(now)]_vars
=============================================================================

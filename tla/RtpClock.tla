------------------------------- MODULE RtpClock ------------------------------
(***************************************************************************)
(* When the RTSP example sends an image and what timestamp it gets: the    *)
(* frame rate test of rtsp_stream.ino's loop() and the time part of        *)
(* CStreamer::streamFrame.  millis() and m_Timestamp are unsigned 32-bit   *)
(* counters that roll over; here they roll over at U32.                    *)
(*                                                                         *)
(* The packets of an image are the subject of module RtpPackets, the       *)
(* sessions that of module Rtsp: here there are some, or none.             *)
(***************************************************************************)
EXTENDS Integers

CONSTANTS
    U32,            \* where the unsigned 32-bit counters roll over
    MsPerFrame,     \* msecPerFrame, also streamFrame's delta after a rollover
    Units,          \* RTP clock units per second
    MsPerSec,       \* milliseconds per second
    MaxDelay        \* milliseconds one step may take (bound)

ASSUME CountersAssumption == U32 \in Nat \ {0} /\ MsPerFrame \in 1 .. U32 - 1
\* 90000 units per second: a whole number for each of the 1000 milliseconds.
ASSUME RatesAssumption ==
    MsPerSec \in Nat \ {0} /\ MaxDelay \in Nat /\ \E k \in 0 .. Units : Units = k * MsPerSec

VARIABLES
    place,      \* where loop() is
    clock,      \* millis()
    clients,    \* m_Clients: "none" or "some"
    lastimage,  \* loop()'s time of the last image
    prevMsec,   \* m_prevMsec
    deltams,    \* streamFrame's deltams
    mTimestamp, \* m_Timestamp, that of the next image
    first       \* history: m_prevMsec of the first frame, or Lost

clockVars == <<clock, lastimage>>
stampVars == <<prevMsec, deltams, mTimestamp, first>>
rtpVars == <<place, clients, clockVars, stampVars>>

Ticks == 0 .. U32 - 1

\* first, once the deltas no longer add up.
Lost == U32

ClockTypeOK ==
    /\ place \in {"pass", "get", "send", "end"}
    /\ clients \in {"none", "some"}
    /\ {clock, lastimage, prevMsec, deltams, mTimestamp} \subseteq Ticks
    /\ first \in Ticks \cup {Lost}

ClockInit ==
    /\ place = "pass"
    /\ clients = "none"
    /\ clock \in Ticks
    /\ lastimage = clock
    /\ prevMsec = 0 /\ deltams = 0 /\ mTimestamp = 0
    /\ first = 0

Elapse == \E d \in 0 .. MaxDelay : clock' = (clock + d) % U32

-----------------------------------------------------------------------------
\* Mutant: a clock that has rolled over is not handled.
MutDue == clock > (lastimage + MsPerFrame) % U32

\* loop()'s test; the sum rolls over like the clock.
Due == clock > (lastimage + MsPerFrame) % U32 \/ clock < lastimage

\* handleRequests and accept: sessions come and go between two images.
ServeClients ==
    /\ place = "pass"
    /\ clients' \in {"none", "some"}
    /\ Elapse
    /\ UNCHANGED <<place, lastimage, stampVars>>

\* lastimage is set to the time read before the image was taken.
StartImage ==
    /\ place = "pass"
    /\ clients = "some"
    /\ Due
    /\ lastimage' = clock
    /\ place' = "get"
    /\ Elapse
    /\ UNCHANGED <<clients, stampVars>>

GetFails ==
    /\ place = "get"
    /\ place' = "pass"
    /\ UNCHANGED <<clients, clockVars, stampVars>>

\* "first frame init our timestamp"
Previous == IF prevMsec = 0 THEN clock ELSE prevMsec

\* The time since the last frame, "with a little lie" after a rollover.
Delta == IF clock >= Previous THEN clock - Previous ELSE MsPerFrame

First == IF prevMsec = 0 /\ first # Lost THEN clock ELSE first

\* The frame's time is taken before it turns out not to be a JPEG: it is lost.
CannotDecode ==
    /\ place = "get"
    /\ deltams' = Delta
    /\ prevMsec' = clock
    /\ first' = IF Delta = 0 THEN First ELSE Lost
    /\ place' = "pass"
    /\ Elapse
    /\ UNCHANGED <<clients, lastimage, mTimestamp>>

\* Mutant: m_prevMsec is only set by the first frame.
MutDecodeFrame ==
    /\ place = "get"
    /\ deltams' = Delta
    /\ prevMsec' = Previous
    /\ first' = IF clock < Previous \/ Units * Delta >= U32 THEN Lost ELSE First
    /\ place' = "send"
    /\ UNCHANGED <<clients, clockVars, mTimestamp>>

\* The deltas add up unless the clock rolls over or units * deltams does.
DecodeFrame ==
    /\ place = "get"
    /\ deltams' = Delta
    /\ prevMsec' = clock
    /\ first' = IF clock < Previous \/ Units * Delta >= U32 THEN Lost ELSE First
    /\ place' = "send"
    /\ UNCHANGED <<clients, clockVars, mTimestamp>>

\* All the packets of the image, see RtpPackets.
SendFrame ==
    /\ place = "send"
    /\ place' = "end"
    /\ Elapse
    /\ UNCHANGED <<clients, lastimage, stampVars>>

\* units * deltams / 1000, in 32 bits.
Advance == ((Units * deltams) % U32) \div MsPerSec

\* "Increment ONLY after a full frame".
CountFrame ==
    /\ place = "end"
    /\ mTimestamp' = (mTimestamp + Advance) % U32
    /\ place' = "pass"
    /\ UNCHANGED <<clients, clockVars, prevMsec, deltams, first>>

ClockNext == ServeClients \/ StartImage \/ GetFails \/ CannotDecode \/ DecodeFrame
          \/ SendFrame \/ CountFrame

ClockSpec == ClockInit /\ [][ClockNext]_rtpVars

(***************************************************************************)
(* loop() runs for ever and sends an image whenever its test says so; time *)
(* goes on while it runs; the camera does not always fail.                 *)
(***************************************************************************)
ClockFairness ==
    /\ WF_rtpVars(ClockNext)
    /\ WF_rtpVars(ClockNext /\ clock' # clock)
    /\ SF_rtpVars(StartImage)
    /\ SF_rtpVars(DecodeFrame)
-----------------------------------------------------------------------------
(***************************************************************************)
(* m_Timestamp is the time from the first frame to the last one, in RTP    *)
(* units: the deltas of the frames add up, whatever each step took and     *)
(* however often the camera failed.  It no longer is after a frame that    *)
(* could not be decoded (its delta is lost), a rollover of millis() or a   *)
(* pause so long that streamFrame's product overflows (47.7 s on the       *)
(* device).                                                                *)
(***************************************************************************)
TimestampTracks ==
    (first # Lost /\ place \in {"pass", "get"}) =>
       mTimestamp = ((Units * (prevMsec - first)) \div MsPerSec) % U32

(***************************************************************************)
(* Images keep being sent as long as there are sessions, also when         *)
(* millis() rolls over.                                                    *)
(***************************************************************************)
ImagesGoOn == []<>(clients = "none") \/ []<>(place = "end")
=============================================================================

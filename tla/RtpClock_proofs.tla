-------------------------- MODULE RtpClock_proofs ---------------------------
(***************************************************************************)
(* The RTP timestamp is the time of the frames sent so far, for every      *)
(* width of the counters, frame rate and spacing of the frames.            *)
(***************************************************************************)
EXTENDS RtpClock, TLAPS

-----------------------------------------------------------------------------
(***************************************************************************)
(* Division and remainder by a number that is not known.                   *)
(***************************************************************************)
LEMMA QuotientIsUnique ==
    ASSUME NEW m \in Nat, m > 0, NEW p \in Int, NEW q \in Int,
           NEW r \in 0 .. m - 1, NEW s \in 0 .. m - 1, p * m + r = q * m + s
    PROVE  p = q /\ r = s
<1>1. CASE p < q
  <2>1. (p + 1) * m <= q * m
    BY <1>1
  <2>2. p * m + m <= q * m
    BY <2>1
  <2>3. QED
    BY <2>2
<1>2. CASE q < p
  <2>1. (q + 1) * m <= p * m
    BY <1>2
  <2>2. q * m + m <= p * m
    BY <2>1
  <2>3. QED
    BY <2>2
<1>3. CASE p = q
  BY <1>3
<1>4. QED
  BY <1>1, <1>2, <1>3

LEMMA DivisionLaw ==
    ASSUME NEW a \in Nat, NEW m \in Nat, m > 0
    PROVE  /\ a \div m \in Nat /\ a % m \in 0 .. m - 1
           /\ a = (a \div m) * m + (a % m)
OBVIOUS

LEMMA DivisionIs ==
    ASSUME NEW m \in Nat, m > 0, NEW q \in Nat, NEW r \in 0 .. m - 1
    PROVE  (q * m + r) \div m = q /\ (q * m + r) % m = r
<1> DEFINE a == q * m + r
           x == a \div m
           y == a % m
<1>1. q * m \in Nat
  OBVIOUS
<1>2. a \in Nat
  BY <1>1
<1>3. x \in Nat /\ y \in 0 .. m - 1 /\ q * m + r = x * m + y
  BY <1>2, DivisionLaw
<1> HIDE DEF x, y
<1>4. q = x /\ r = y
  BY <1>3, QuotientIsUnique
<1>5. QED
  BY <1>4 DEF x, y

\* Adding after taking the remainder.
LEMMA RemainderOfSum ==
    ASSUME NEW a \in Nat, NEW b \in Nat, NEW m \in Nat, m > 0
    PROVE  ((a % m) + b) % m = (a + b) % m
<1> DEFINE p == a \div m
           r == a % m
           q == (r + b) \div m
           s == (r + b) % m
<1>1. p \in Nat /\ r \in 0 .. m - 1 /\ a = p * m + r
  BY DivisionLaw
<1>2. r + b \in Nat
  BY <1>1
<1>3. q \in Nat /\ s \in 0 .. m - 1 /\ r + b = q * m + s
  BY <1>2, DivisionLaw
<1> HIDE DEF p, q, r, s
<1>4. a + b = (p * m) + (q * m) + s
  BY <1>1, <1>3
<1>5. (p * m) + (q * m) = (p + q) * m
  BY <1>1, <1>3
<1>6. a + b = (p + q) * m + s /\ p + q \in Nat
  BY <1>1, <1>3, <1>4, <1>5
<1>7. (a + b) % m = s
  BY <1>3, <1>6, DivisionIs
<1>8. QED
  BY <1>7 DEF r, s

-----------------------------------------------------------------------------
(***************************************************************************)
(* Between two images the timestamp is the time from the first frame to    *)
(* the last; while an image is sent, the time to the frame before it.      *)
(***************************************************************************)
PerMs == CHOOSE k \in 0 .. Units : Units = k * MsPerSec

StampShape ==
    first # Lost =>
       /\ first <= prevMsec
       /\ place \in {"pass", "get"} => mTimestamp = (PerMs * (prevMsec - first)) % U32
       /\ place \in {"send", "end"} =>
            /\ deltams <= prevMsec - first
            /\ Units * deltams < U32
            /\ mTimestamp = (PerMs * (prevMsec - deltams - first)) % U32

Numbers ==
    /\ clock \in Ticks /\ lastimage \in Ticks /\ prevMsec \in Ticks
    /\ deltams \in Ticks /\ mTimestamp \in Ticks
    /\ first \in Ticks \cup {Lost}

Points == place \in {"pass", "get", "send", "end"} /\ clients \in {"none", "some"}

IInv == Points /\ Numbers /\ StampShape

LEMMA Constants ==
    /\ U32 \in Nat /\ U32 > 0 /\ MsPerFrame \in Ticks /\ MsPerFrame > 0
    /\ MsPerSec \in Nat /\ MsPerSec > 0 /\ MaxDelay \in Nat
    /\ PerMs \in Nat /\ Units = PerMs * MsPerSec /\ Units \in Nat
    /\ Ticks \subseteq Nat /\ Lost \notin Ticks /\ 0 \in Ticks
<1>1. /\ U32 \in Nat /\ U32 > 0 /\ MsPerFrame \in Ticks /\ MsPerFrame > 0
      /\ Ticks \subseteq Nat /\ Lost \notin Ticks /\ 0 \in Ticks
  BY CountersAssumption DEF CountersAssumption, Ticks, Lost
<1>2. MsPerSec \in Nat /\ MsPerSec > 0 /\ MaxDelay \in Nat
  BY RatesAssumption DEF RatesAssumption
<1>3. PerMs \in 0 .. Units /\ Units = PerMs * MsPerSec
  BY RatesAssumption DEF RatesAssumption, PerMs
<1>4. PerMs \in Nat
  BY <1>3
<1>5. Units \in Nat
  BY <1>2, <1>3, <1>4
<1>6. QED
  BY <1>1, <1>2, <1>3, <1>4, <1>5

LEMMA RemainderIsTick == ASSUME NEW a \in Nat PROVE a % U32 \in Ticks
<1>1. a % U32 \in 0 .. U32 - 1
  BY Constants, DivisionLaw
<1>2. QED
  BY <1>1 DEF Ticks

LEMMA ElapseIsTick == ASSUME clock \in Ticks, Elapse PROVE clock' \in Ticks
<1>1. PICK d \in 0 .. MaxDelay : clock' = (clock + d) % U32
  BY DEF Elapse
<1>2. clock + d \in Nat
  BY Constants
<1>3. QED
  BY <1>1, <1>2, RemainderIsTick

\* The delta of the first frame is 0, that of the others the time since.
LEMMA DeltaIs ==
    ASSUME Numbers
    PROVE  /\ Delta \in Ticks
           /\ prevMsec = 0 => Delta = 0
           /\ (prevMsec # 0 /\ clock >= prevMsec) => Delta = clock - prevMsec
           /\ clock < Previous => Delta # 0
<1>1. clock \in Nat /\ clock < U32 /\ prevMsec \in Nat /\ prevMsec < U32
  BY Constants DEF Numbers, Ticks
<1>2. CASE prevMsec = 0
  BY <1>1, <1>2, Constants DEF Delta, Previous
<1>3. CASE prevMsec # 0 /\ clock >= prevMsec
  <2>1. Delta = clock - prevMsec
    BY <1>1, <1>3 DEF Delta, Previous
  <2>2. Delta \in Ticks
    BY <1>1, <1>3, <2>1, Constants DEF Ticks
  <2>3. QED
    BY <1>1, <1>3, <2>1, <2>2 DEF Previous
<1>4. CASE prevMsec # 0 /\ clock < prevMsec
  BY <1>1, <1>4, Constants DEF Delta, Previous
<1>5. QED
  BY <1>1, <1>2, <1>3, <1>4

LEMMA InitIInv == ClockInit => IInv
<1> SUFFICES ASSUME ClockInit PROVE IInv
  OBVIOUS
<1>1. Points /\ Numbers
  BY Constants DEF ClockInit, Points, Numbers
<1>2. (PerMs * (0 - 0)) % U32 = 0
  <2>1. (0 * U32 + 0) % U32 = 0
    BY Constants, DivisionIs
  <2>2. PerMs * (0 - 0) = 0 * U32 + 0
    BY Constants
  <2>3. QED
    BY <2>1, <2>2
<1>3. StampShape
  BY <1>2 DEF ClockInit, StampShape
<1>4. QED
  BY <1>1, <1>3 DEF IInv

\* The times of the frames, when a frame is taken.
LEMMA DecodeStamp == IInv /\ DecodeFrame => Numbers' /\ StampShape'
<1> SUFFICES ASSUME IInv, DecodeFrame PROVE Numbers' /\ StampShape'
  OBVIOUS
<1>0. Numbers /\ StampShape /\ place = "get"
  BY DEF IInv, DecodeFrame
<1>1. /\ deltams' = Delta /\ prevMsec' = clock /\ clock' = clock /\ lastimage' = lastimage
      /\ mTimestamp' = mTimestamp /\ place' = "send"
      /\ first' = IF clock < Previous \/ Units * Delta >= U32 THEN Lost ELSE First
  BY DEF DecodeFrame, clockVars
<1>2. First \in Ticks \cup {Lost}
  BY <1>0 DEF First, Numbers
<1>3. Numbers'
  BY <1>0, <1>1, <1>2, DeltaIs DEF Numbers
<1>4. SUFFICES ASSUME first' # Lost PROVE StampShape'
  BY <1>3 DEF StampShape
<1>5. /\ first' = First /\ clock >= Previous /\ ~(Units * Delta >= U32) /\ first # Lost
  BY <1>1, <1>4, <1>0, Constants DEF Numbers, Ticks, Previous, First
<1>6. Units * Delta < U32
  <2>1. Delta \in Nat /\ Units \in Nat /\ U32 \in Nat
    BY <1>0, DeltaIs, Constants
  <2>2. Units * Delta \in Nat
    BY <2>1
  <2>3. QED
    BY <1>5, <2>1, <2>2
<1>7. /\ clock \in Nat /\ prevMsec \in Nat /\ first \in Nat /\ first <= prevMsec
      /\ mTimestamp = (PerMs * (prevMsec - first)) % U32
  BY <1>0, <1>5, Constants DEF Numbers, StampShape
<1>8. CASE prevMsec = 0
  <2>1. Delta = 0 /\ first = 0 /\ first' = clock
    BY <1>0, <1>5, <1>7, <1>8, DeltaIs DEF First
  <2>2. clock - 0 - clock = prevMsec - first
    BY <2>1, <1>7, <1>8
  <2>3. mTimestamp' = (PerMs * (prevMsec' - deltams' - first')) % U32
    BY <2>1, <2>2, <1>1, <1>7
  <2>4. deltams' <= prevMsec' - first' /\ first' <= prevMsec'
    BY <2>1, <1>1, <1>7
  <2>5. QED
    BY <2>3, <2>4, <1>1, <1>6 DEF StampShape
<1>9. CASE prevMsec # 0
  <2>1. Delta = clock - prevMsec /\ first' = first /\ clock >= prevMsec
    BY <1>0, <1>5, <1>9, DeltaIs DEF First, Previous
  <2>2. clock - Delta - first = prevMsec - first
    BY <2>1, <1>7
  <2>3. mTimestamp' = (PerMs * (prevMsec' - deltams' - first')) % U32
    BY <2>1, <2>2, <1>1, <1>7
  <2>4. deltams' <= prevMsec' - first' /\ first' <= prevMsec'
    BY <2>1, <1>1, <1>7
  <2>5. QED
    BY <2>3, <2>4, <1>1, <1>6 DEF StampShape
<1>10. QED
  BY <1>3, <1>8, <1>9

\* A frame that is lost: only that of the first time may leave no trace.
LEMMA LostStamp == IInv /\ CannotDecode => Numbers' /\ StampShape'
<1> SUFFICES ASSUME IInv, CannotDecode PROVE Numbers' /\ StampShape'
  OBVIOUS
<1>0. Numbers /\ StampShape /\ place = "get"
  BY DEF IInv, CannotDecode
<1>1. /\ deltams' = Delta /\ prevMsec' = clock /\ lastimage' = lastimage
      /\ mTimestamp' = mTimestamp /\ place' = "pass" /\ Elapse
      /\ first' = IF Delta = 0 THEN First ELSE Lost
  BY DEF CannotDecode
<1>2. First \in Ticks \cup {Lost} /\ clock' \in Ticks
  BY <1>0, <1>1, ElapseIsTick DEF First, Numbers
<1>3. Numbers'
  BY <1>0, <1>1, <1>2, DeltaIs DEF Numbers
<1>4. SUFFICES ASSUME first' # Lost PROVE StampShape'
  BY <1>3 DEF StampShape
<1>5. first' = First /\ Delta = 0 /\ first # Lost /\ ~(clock < Previous)
  BY <1>0, <1>1, <1>4, DeltaIs DEF First
<1>6. /\ clock \in Nat /\ prevMsec \in Nat /\ first \in Nat /\ first <= prevMsec
      /\ mTimestamp = (PerMs * (prevMsec - first)) % U32
  BY <1>0, <1>5, Constants DEF Numbers, StampShape
<1>7. first' <= prevMsec' /\ prevMsec' - first' = prevMsec - first
  <2>1. CASE prevMsec = 0
    BY <2>1, <1>1, <1>5, <1>6 DEF First
  <2>2. CASE prevMsec # 0
    <3>1. clock >= prevMsec
      BY <2>2, <1>5, <1>6 DEF Previous
    <3>2. clock = prevMsec
      BY <2>2, <3>1, <1>0, <1>5, <1>6, DeltaIs
    <3>3. QED
      BY <2>2, <3>2, <1>1, <1>5, <1>6 DEF First
  <2>3. QED
    BY <2>1, <2>2
<1>8. QED
  BY <1>1, <1>3, <1>6, <1>7 DEF StampShape

\* The timestamp catches up with the frame that was sent.
LEMMA EndStamp == IInv /\ CountFrame => Numbers' /\ StampShape'
<1> SUFFICES ASSUME IInv, CountFrame PROVE Numbers' /\ StampShape'
  OBVIOUS
<1>0. Numbers /\ StampShape /\ place = "end"
  BY DEF IInv, CountFrame
<1>1. /\ mTimestamp' = (mTimestamp + Advance) % U32 /\ place' = "pass"
      /\ UNCHANGED <<clock, lastimage, prevMsec, deltams, first>>
  BY DEF CountFrame, clockVars
<1>2. mTimestamp \in Nat /\ deltams \in Nat /\ prevMsec \in Nat
  BY <1>0, Constants DEF Numbers
<1>3. Units * deltams \in Nat
  BY <1>2, Constants
<1>4. (Units * deltams) % U32 \in Nat
  BY <1>3, RemainderIsTick, Constants
<1>5. Advance \in Nat
  BY <1>4, Constants, DivisionLaw DEF Advance
<1>6. mTimestamp + Advance \in Nat
  BY <1>2, <1>5
<1>7. mTimestamp' \in Ticks
  BY <1>1, <1>6, RemainderIsTick
<1>8. Numbers'
  BY <1>0, <1>1, <1>7 DEF Numbers
<1>9. SUFFICES ASSUME first # Lost PROVE StampShape'
  BY <1>1, <1>8 DEF StampShape
<1>10. /\ first \in Nat /\ first <= prevMsec /\ deltams <= prevMsec - first
       /\ Units * deltams < U32
       /\ mTimestamp = (PerMs * (prevMsec - deltams - first)) % U32
  BY <1>0, <1>9, Constants DEF Numbers, StampShape
<1> DEFINE before == prevMsec - deltams - first
<1>11. before \in Nat
  BY <1>2, <1>10
<1>12. Advance = PerMs * deltams
  <2>1. (Units * deltams) % U32 = Units * deltams
    <3>1. (0 * U32 + Units * deltams) % U32 = Units * deltams
      BY <1>3, <1>10, Constants, DivisionIs
    <3>2. 0 * U32 + Units * deltams = Units * deltams
      BY <1>3, Constants
    <3>3. QED
      BY <3>1, <3>2
  <2>2. Units * deltams = (PerMs * deltams) * MsPerSec + 0
    BY <1>2, Constants
  <2>3. PerMs * deltams \in Nat
    BY <1>2, Constants
  <2>4. ((PerMs * deltams) * MsPerSec + 0) \div MsPerSec = PerMs * deltams
    BY <2>3, Constants, DivisionIs
  <2>5. QED
    BY <2>1, <2>2, <2>4 DEF Advance
<1>13. PerMs * before \in Nat /\ PerMs * deltams \in Nat
  BY <1>2, <1>11, Constants
<1>14. mTimestamp' = (PerMs * before + PerMs * deltams) % U32
  <2> DEFINE a == PerMs * before
             b == PerMs * deltams
  <2>1. a \in Nat /\ b \in Nat /\ mTimestamp = a % U32 /\ Advance = b
    BY <1>10, <1>12, <1>13
  <2> HIDE DEF a, b
  <2>2. ((a % U32) + b) % U32 = (a + b) % U32
    <3>1. U32 \in Nat /\ U32 > 0 /\ a \in Nat /\ b \in Nat
      BY <2>1, Constants
    <3>2. QED
      BY ONLY <3>1, RemainderOfSum, Zenon
  <2>3. mTimestamp' = (a + b) % U32
    BY <2>1, <2>2, <1>1
  <2>4. QED
    BY <2>3 DEF a, b
<1>15. PerMs * before + PerMs * deltams = PerMs * (before + deltams)
  BY <1>2, <1>11, Constants
<1>16. before + deltams = prevMsec - first
  BY <1>2, <1>10
<1>17. mTimestamp' = (PerMs * (prevMsec - first)) % U32
  BY <1>14, <1>15, <1>16
<1>18. QED
  BY <1>1, <1>10, <1>17 DEF StampShape

LEMMA StepIInv == IInv /\ [ClockNext]_rtpVars => IInv'
<1> SUFFICES ASSUME IInv, [ClockNext]_rtpVars PROVE IInv'
  OBVIOUS
<1>0. Points /\ Numbers /\ StampShape
  BY DEF IInv
<1>1. CASE ServeClients
  <2>1. /\ place = "pass" /\ Elapse /\ clients' \in {"none", "some"}
        /\ UNCHANGED <<place, lastimage, prevMsec, deltams, mTimestamp, first>>
    BY <1>1 DEF ServeClients, stampVars
  <2>2. clock' \in Ticks
    BY <2>1, <1>0, ElapseIsTick DEF Numbers
  <2>3. QED
    BY <2>1, <2>2, <1>0 DEF IInv, Points, Numbers, StampShape
<1>2. CASE StartImage
  <2>1. /\ place = "pass" /\ place' = "get" /\ Elapse /\ lastimage' = clock
        /\ UNCHANGED <<clients, prevMsec, deltams, mTimestamp, first>>
    BY <1>2 DEF StartImage, stampVars
  <2>2. clock' \in Ticks
    BY <2>1, <1>0, ElapseIsTick DEF Numbers
  <2>3. QED
    BY <2>1, <2>2, <1>0 DEF IInv, Points, Numbers, StampShape
<1>3. CASE GetFails
  <2>1. /\ place = "get" /\ place' = "pass"
        /\ UNCHANGED <<clients, clock, lastimage, prevMsec, deltams, mTimestamp, first>>
    BY <1>3 DEF GetFails, stampVars, clockVars
  <2>2. QED
    BY <2>1, <1>0 DEF IInv, Points, Numbers, StampShape
<1>4. CASE CannotDecode
  BY <1>4, <1>0, LostStamp DEF CannotDecode, IInv, Points
<1>5. CASE DecodeFrame
  BY <1>5, <1>0, DecodeStamp DEF DecodeFrame, IInv, Points
<1>6. CASE SendFrame
  <2>1. /\ place = "send" /\ place' = "end" /\ Elapse
        /\ UNCHANGED <<clients, lastimage, prevMsec, deltams, mTimestamp, first>>
    BY <1>6 DEF SendFrame, stampVars
  <2>2. clock' \in Ticks
    BY <2>1, <1>0, ElapseIsTick DEF Numbers
  <2>3. QED
    BY <2>1, <2>2, <1>0 DEF IInv, Points, Numbers, StampShape
<1>7. CASE CountFrame
  BY <1>7, <1>0, EndStamp DEF CountFrame, IInv, Points
<1>8. CASE UNCHANGED rtpVars
  <2>1. UNCHANGED <<place, clients, clock, lastimage, prevMsec, deltams, mTimestamp, first>>
    BY <1>8 DEF rtpVars, stampVars, clockVars
  <2>2. QED
    BY <2>1, <1>0 DEF IInv, Points, Numbers, StampShape
<1>9. QED
  BY <1>1, <1>2, <1>3, <1>4, <1>5, <1>6, <1>7, <1>8 DEF ClockNext

LEMMA IInvAlways == ClockSpec => []IInv
BY InitIInv, StepIInv, PTL DEF ClockSpec

(***************************************************************************)
(* All times and timestamps stay in the range of the 32-bit counters: no   *)
(* delta is negative, whatever the clock did.                              *)
(***************************************************************************)
THEOREM TypeCorrect == ClockSpec => []ClockTypeOK
<1>1. IInv => ClockTypeOK
  BY DEF IInv, Points, Numbers, ClockTypeOK
<1>2. QED
  BY <1>1, IInvAlways, PTL

(***************************************************************************)
(* m_Timestamp is the time from the first frame to the last one, for every *)
(* frame rate and spacing of the frames and wherever the counters roll     *)
(* over, provided a millisecond is a whole number of RTP units.            *)
(***************************************************************************)
THEOREM TimestampTracksCorrect == ClockSpec => []TimestampTracks
<1>1. IInv => TimestampTracks
  <2> SUFFICES ASSUME IInv, first # Lost, place \in {"pass", "get"}
               PROVE  mTimestamp = ((Units * (prevMsec - first)) \div MsPerSec) % U32
    BY DEF TimestampTracks
  <2> DEFINE since == prevMsec - first
  <2>1. since \in Nat /\ mTimestamp = (PerMs * since) % U32
    BY Constants DEF IInv, Numbers, StampShape
  <2> HIDE DEF since
  <2>2. PerMs * since \in Nat
    BY <2>1, Constants
  <2>3. Units * since = (PerMs * since) * MsPerSec + 0
    BY <2>1, Constants
  <2>4. ((PerMs * since) * MsPerSec + 0) \div MsPerSec = PerMs * since
    BY <2>2, Constants, DivisionIs
  <2>5. QED
    BY <2>1, <2>3, <2>4 DEF since
<1>2. QED
  BY <1>1, IInvAlways, PTL
=============================================================================

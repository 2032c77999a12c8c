------------------------------ MODULE RtpPackets -----------------------------
(***************************************************************************)
(* How CStreamer::streamFrame and SendRtpPacket cut the scan data of a     *)
(* camera image into RTP packets.  When images are taken and which         *)
(* timestamps they get is the subject of module RtpClock, who receives     *)
(* the packets that of module Rtsp: here an image comes at any time there  *)
(* are sessions, and timestamps change in any way between two images.      *)
(***************************************************************************)
EXTENDS Integers, Sequences

CONSTANTS
    Stamps,         \* values of m_Timestamp
    SeqLimit,       \* where the 16-bit sequence number rolls over
    MaxFragment,    \* MAX_FRAGMENT_SIZE
    Lengths         \* bytes of scan data an image may have

ASSUME SizesAssumption ==
    /\ SeqLimit \in Nat \ {0}
    /\ MaxFragment \in Nat \ {0}
    /\ Lengths \subseteq Nat \ {0}

VARIABLES
    pc,         \* "idle", "send" in streamFrame's loop, "end" after it
    sessions,   \* m_Clients: "none" or "some"
    timestamp,  \* m_Timestamp
    seqNumber,  \* m_SequenceNumber
    len,        \* bytes of scan data of the present image
    offset,     \* streamFrame's offset
    packets     \* history: packets of the last image sent

vars == <<pc, sessions, timestamp, seqNumber, len, offset, packets>>

SeqNumbers == 0 .. SeqLimit - 1

Packets == [seq : SeqNumbers, stamp : Stamps, offset : Nat, size : Int,
            marker : {"no", "yes"}]

TypeOK ==
    /\ pc \in {"idle", "send", "end"}
    /\ sessions \in {"none", "some"}
    /\ timestamp \in Stamps
    /\ seqNumber \in SeqNumbers
    /\ len \in Lengths \cup {0}
    /\ offset \in Nat /\ offset <= len
    /\ packets \in Seq(Packets)

Init ==
    /\ pc = "idle"
    /\ sessions = "none"
    /\ timestamp \in Stamps
    /\ seqNumber = 0
    /\ len = 0
    /\ offset = 0
    /\ packets = <<>>

-----------------------------------------------------------------------------
\* Mutant: sessions end in the middle of an image.
MutSessionsChange ==
    /\ sessions' \in {"none", "some"}
    /\ UNCHANGED <<pc, timestamp, seqNumber, len, offset, packets>>

\* handleRequests and accept: sessions come and go between two images.
SessionsChange ==
    /\ pc = "idle"
    /\ sessions' \in {"none", "some"}
    /\ UNCHANGED <<pc, timestamp, seqNumber, len, offset, packets>>

\* loop() has seen a session; the image is taken and decoded.
StreamFrame ==
    /\ pc = "idle"
    /\ sessions = "some"
    /\ \E n \in Lengths : len' = n
    /\ offset' = 0
    /\ pc' = "send"
    /\ UNCHANGED <<sessions, timestamp, seqNumber, packets>>

\* "Shrink last fragment if needed".
Fragment == IF MaxFragment + offset > len THEN len - offset ELSE MaxFragment

IsLastFragment == offset + Fragment = len

\* Mutant: no marker on a last fragment of full size.
MutPacket == [seq |-> seqNumber, stamp |-> timestamp, offset |-> offset, size |-> Fragment,
              marker |-> IF MaxFragment + offset > len THEN "yes" ELSE "no"]

\* Its headers and its part of the scan data.
Packet == [seq |-> seqNumber, stamp |-> timestamp, offset |-> offset, size |-> Fragment,
           marker |-> IF IsLastFragment THEN "yes" ELSE "no"]

Successor(n) == IF n + 1 = SeqLimit THEN 0 ELSE n + 1

(***************************************************************************)
(* SendRtpPacket, once round streamFrame's loop, which ends when it        *)
(* returns 0.  Without a session it neither sends nor advances.            *)
(***************************************************************************)
SendRtpPacket ==
    /\ pc = "send"
    /\ IF sessions = "none"
       THEN UNCHANGED <<seqNumber, packets>>
       ELSE /\ seqNumber' = Successor(seqNumber)
            /\ packets' = IF offset = 0 THEN <<Packet>> ELSE Append(packets, Packet)
    /\ offset' = IF IsLastFragment THEN 0
                 ELSE IF sessions = "none" THEN offset ELSE offset + Fragment
    /\ pc' = IF offset' = 0 THEN "end" ELSE "send"
    /\ UNCHANGED <<sessions, timestamp, len>>

EndFrame ==
    /\ pc = "end"
    /\ timestamp' \in Stamps
    /\ pc' = "idle"
    /\ UNCHANGED <<sessions, seqNumber, len, offset, packets>>

Next == SessionsChange \/ StreamFrame \/ SendRtpPacket \/ EndFrame

Spec == Init /\ [][Next]_vars

\* The loop of streamFrame waits for nothing.
FairSpec == Spec /\ WF_vars(SendRtpPacket) /\ WF_vars(EndFrame)
-----------------------------------------------------------------------------
(***************************************************************************)
(* An image that is sent is sent whole: its packets carry contiguous       *)
(* fragments of at most MAX_FRAGMENT_SIZE bytes, from the first byte to    *)
(* the last, consecutive sequence numbers, one timestamp, and the marker   *)
(* bit on the last one only.                                               *)
(***************************************************************************)
FrameIsWhole ==
    pc = "end" =>
      LET n == Len(packets) IN
        /\ n > 0
        /\ packets[1].offset = 0
        /\ packets[n].offset + packets[n].size = len
        /\ \A k \in 1 .. n : /\ packets[k].size \in 1 .. MaxFragment
                             /\ packets[k].stamp = timestamp
                             /\ (packets[k].marker = "yes") <=> (k = n)
        /\ \A k \in 1 .. n - 1 :
              /\ packets[k + 1].offset = packets[k].offset + packets[k].size
              /\ packets[k + 1].seq = Successor(packets[k].seq)

(***************************************************************************)
(* streamFrame's loop ends, for every size of image: it always advances or *)
(* has sent the last fragment.                                             *)
(***************************************************************************)
LoopEnds == pc = "send" ~> pc = "end"
=============================================================================

------------------------------ MODULE RtpDelivery ----------------------------
(***************************************************************************)
(* RtpPackets and SessionList put together: the images of CStreamer cut    *)
(* into packets, each packet sent to every session that plays on the ring  *)
(* that hangs off m_Clients.  Sessions are linked in and out by loop()     *)
(* between two images, and begin to play there; within an image the ring   *)
(* stays what it is.  What else a session is asked is the subject of       *)
(* module Rtsp.                                                            *)
(***************************************************************************)
EXTENDS RtpPackets, FiniteSets, SequencesExt

CONSTANTS Clients, ListHead, Dangling       \* as in SessionList

ASSUME ElementsAssumption ==
    IsFiniteSet(Clients) /\ {ListHead, Dangling} \cap Clients = {} /\ ListHead # Dangling

VARIABLES
    next, prev, element, order, toVisit,    \* as in SessionList
    playing,                                \* sessions with m_streaming and not m_stopped
    received                                \* per session: packets of the last image sent to it

List == INSTANCE SessionList

listVars == <<next, prev, element, order, toVisit>>
deliveryVars == <<vars, listVars, playing, received>>

DeliveryTypeOK == /\ TypeOK
                  /\ List!TypeOK
                  /\ playing \subseteq Clients
                  /\ received \in [Clients -> Seq(Packets)]

DeliveryInit == /\ Init
                /\ List!Init
                /\ playing = {}
                /\ received = [c \in Clients |-> <<>>]

\* CStreamer::anySessions.
NotEmpty(links) == links[ListHead] # ListHead

\* loop() serves and accepts sessions.  A session that has stopped is deleted in the same
\* turn of the walk; a new one does not play.
Serve == /\ SessionsChange
         /\ List!Next
         /\ sessions' = IF NotEmpty(next') THEN "some" ELSE "none"
         /\ playing' = playing \cap ToSet(order')
         /\ received' = [c \in Clients |-> IF c \in ToSet(order') THEN received[c] ELSE <<>>]

\* PLAY is read from the session that is visited.
ServePlay == /\ SessionsChange
             /\ List!VisitAndKeep
             /\ playing' = playing \cup {element}
             /\ UNCHANGED <<sessions, received>>

\* Only after the walk over the sessions.
TakeImage == /\ element = ListHead
             /\ StreamFrame
             /\ UNCHANGED <<listVars, playing, received>>

\* Mutant: the loop stops before the last session.
MutReached == LET at[k \in 0 .. Cardinality(Clients)] ==
                      IF k = 0 THEN next[ListHead]
                      ELSE IF at[k - 1] = ListHead THEN ListHead ELSE next[at[k - 1]]
              IN  {at[k] : k \in DOMAIN at} \ {ListHead, prev[ListHead]}

\* The elements SendRtpPacket's loop meets: it follows m_Next up to the head.
Reached == LET at[k \in 0 .. Cardinality(Clients)] ==
                   IF k = 0 THEN next[ListHead]
                   ELSE IF at[k - 1] = ListHead THEN ListHead ELSE next[at[k - 1]]
           IN  {at[k] : k \in DOMAIN at} \ {ListHead}

Receivers == Reached \cap playing

Deliver == /\ SendRtpPacket
           /\ received' = [c \in Clients |-> IF c \notin Receivers THEN received[c]
                                             ELSE IF offset = 0 THEN <<Packet>>
                                             ELSE Append(received[c], Packet)]
           /\ UNCHANGED <<listVars, playing>>

FinishImage == EndFrame /\ UNCHANGED <<listVars, playing, received>>

DeliveryNext == Serve \/ ServePlay \/ TakeImage \/ Deliver \/ FinishImage

\* The loop of streamFrame waits for nothing.
DeliveryFairness == WF_deliveryVars(Deliver) /\ WF_deliveryVars(FinishImage)

DeliverySpec == DeliveryInit /\ [][DeliveryNext]_deliveryVars /\ DeliveryFairness
-----------------------------------------------------------------------------
(***************************************************************************)
(* Every session that played when an image was taken has been sent all its *)
(* packets, in order, when the image is done, whatever sessions were       *)
(* linked in and out before; a session that has not been asked to play has *)
(* been sent nothing.                                                      *)
(***************************************************************************)
EverySessionGetsAll ==
    pc = "end" => \A c \in ToSet(order) : received[c] = IF c \in playing THEN packets ELSE <<>>

(***************************************************************************)
(* The links form the ring of the live sessions after any sequence of      *)
(* additions and of deletions within a walk (see SessionList).             *)
(***************************************************************************)
LinksFormRing == List!LinksFormRing

(***************************************************************************)
(* handleRequests' walk visits every session once, deleting as it goes     *)
(* (see SessionList).                                                      *)
(***************************************************************************)
WalkVisitsAll == List!WalkVisitsAll
=============================================================================

-------------------------------- MODULE MCRtp --------------------------------
(* TLC instance of the two halves of CStreamer's frames, which share no     *)
(* state: RtpDelivery, with three sessions and images shorter than, as long *)
(* as and longer than one and two packets, and RtpClock.  A behaviour has   *)
(* one of them as its part, and the other stays as it is.                   *)
EXTENDS RtpDelivery, RtpClock

CONSTANTS c1, c2, c3

ClientSet == {c1, c2, c3}
ShortAndLong == 1 .. 5
TwoStamps == {0, 1}

VARIABLE part

RtpInit ==
    /\ part \in {"delivery", "clock"}
    /\ DeliveryInit /\ (part # "delivery" => timestamp = 0)
    /\ ClockInit /\ (part # "clock" => clock = 0)

RtpNext ==
    \/ part = "delivery" /\ DeliveryNext /\ UNCHANGED <<part, rtpVars>>
    \/ part = "clock" /\ ClockNext /\ UNCHANGED <<part, deliveryVars>>

RtpSpec ==
    /\ RtpInit /\ [][RtpNext]_<<part, deliveryVars, rtpVars>>
    /\ DeliveryFairness
    /\ part = "clock" => ClockFairness
=============================================================================

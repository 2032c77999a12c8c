----------------------------- MODULE FrameLease -----------------------------
(***************************************************************************)
(* What every sketch of the repository promises the camera driver: the     *)
(* application borrows at most one of the driver's frame buffers at a time *)
(* (Camera_Class::get), and gives that very buffer back                    *)
(* (Camera_Class::free) before it borrows another.  A buffer that is never *)
(* given back is lost for good: the driver owns only fb_count = 2 of them, *)
(* so two losses stop the camera until the next reset.                     *)
(*                                                                         *)
(* The sketches are shown to implement this specification with             *)
(* out <- held, the set of buffers the driver has handed out.              *)
(***************************************************************************)
CONSTANT Buffers            \* the driver's frame buffers

VARIABLE out                \* the buffers the application has borrowed

TypeOK == out \subseteq Buffers

Init == out = {}

Borrow == out = {} /\ \E b \in Buffers : out' = {b}

GiveBack == out # {} /\ out' = {}

Next == Borrow \/ GiveBack

Spec == Init /\ [][Next]_out

FairSpec == Spec /\ WF_out(GiveBack)
=============================================================================

---------------------------- MODULE MCTimelapse -----------------------------
(* TLC instances of Timelapse: a "minute" of a few seconds, some of them,   *)
(* and two captures per image.                                              *)
EXTENDS Timelapse

CONSTANTS b1, b2

BufferSet == {b1, b2}
=============================================================================

--------------------------- MODULE MCStreamServer ---------------------------
(* TLC instance of StreamServer: two browsers and the driver's two buffers. *)
EXTENDS StreamServer

CONSTANTS c1, c2, b1, b2

ClientSet == {c1, c2}
BufferSet == {b1, b2}
=============================================================================

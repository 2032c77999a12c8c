------------------------------- MODULE MCRtsp -------------------------------
(* TLC instances of Rtsp: two players and one driver buffer.  Polite players *)
(* connect more often, the others send more than one SETUP and meet a pair   *)
(* of UDP ports that cannot be bound.                                        *)
EXTENDS Rtsp

CONSTANTS c1, c2, b1

ClientSet == {c1, c2}
BufferSet == {b1}

BothManners == {"polite", "any"}
Outcomes == [polite |-> {"open"}, any |-> {"open", "null", "freed"}]
Connects == [polite |-> 5, any |-> 2]
Setups == [polite |-> 1, any |-> 1]

\* For the run that shows the disagreement: every bind succeeds.
AnyManners == {"any"}
AlwaysBound == [any |-> {"open"}]
ThreeConnects == [any |-> 3]
OneSetup == [any |-> 1]
=============================================================================

---------------------------- MODULE UdpTransport ----------------------------
(***************************************************************************)
(* What CStreamer::InitUdpTransport and ReleaseUdpTransport are meant to   *)
(* give the RTSP sessions: one pair of UDP sockets shared by the sessions  *)
(* that asked for UDP transport, open exactly while there is one.          *)
(***************************************************************************)
CONSTANT Clients

VARIABLES
    users,      \* sessions that were set up over UDP and still exist
    socket      \* the RTP socket: "open" or "null"

vars == <<users, socket>>

TypeOK == users \subseteq Clients /\ socket \in {"open", "null"}

Init == users = {} /\ socket = "null"

Join(c) == /\ c \notin users
           /\ users' = users \cup {c}
           /\ socket' = "open"

Quit(c) == /\ c \in users
           /\ users' = users \ {c}
           /\ socket' = IF users' = {} THEN "null" ELSE "open"

Next == \E c \in Clients : Join(c) \/ Quit(c)

Spec == Init /\ [][Next]_vars
=============================================================================

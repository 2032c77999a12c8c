-------------------------------- MODULE Rtsp --------------------------------
(***************************************************************************)
(* The RTSP example of the Timer-CAM library: rtsp_stream.ino's loop(),    *)
(* CStreamer's sessions and its shared UDP sockets, CRtspSession's request *)
(* handling, and the players that connect to it.                           *)
(*                                                                         *)
(* One task does everything: it services every session, sends a frame to   *)
(* the streaming ones, accepts one connection, and starts over.  Players   *)
(* send requests and leave between any two of its steps.  A request is its *)
(* command, its transport and whether the parser finds everything it wants *)
(* (a URL before RTSP/ and a CSeq).                                        *)
(*                                                                         *)
(* The order in which a pass visits the sessions is left open here; the    *)
(* linked list that fixes it is the subject of module SessionList.         *)
(***************************************************************************)
EXTENDS Integers, Sequences, FiniteSets

CONSTANTS
    Clients,        \* TCP connections of players (reused, one at a time each)
    NoClient,       \* no session is being serviced
    Buffers,        \* the camera driver's frame buffers
    Manners,        \* "polite" players (see Polite), players that do "any"thing
    UdpOutcomes,    \* per manners: what binding a pair of UDP ports may end in
    MaxInbox,       \* requests waiting in a socket (bound)
    MaxConnects,    \* per manners: connections opened in a run (bound)
    MaxSetups       \* per manners: SETUPs of one connection (bound)

ASSUME ClientsAssumption == IsFiniteSet(Clients) /\ NoClient \notin Clients
ASSUME MannersAssumption == Manners \subseteq {"polite", "any"}
ASSUME OutcomesAssumption ==
    \A m \in Manners : UdpOutcomes[m] \subseteq {"open", "null", "freed"}
\* Polite players are given sockets that can be bound, and send one SETUP.
ASSUME PoliteAssumption ==
    "polite" \in Manners => UdpOutcomes["polite"] = {"open"} /\ MaxSetups["polite"] = 1
ASSUME BoundsAssumption ==
    /\ MaxInbox \in Nat
    /\ \A m \in Manners : MaxConnects[m] \in Nat /\ MaxSetups[m] \in Nat

VARIABLES
    pc,         \* where loop() is; "panic" after a fault, until the reset
    todo,       \* sessions the pass of handleRequests has still to visit
    current,    \* the session being serviced
    live,       \* sessions in m_Clients
    session,    \* per connection: m_TcpTransport, m_streaming, m_stopped
    ref,        \* m_udpRefCount
    socket,     \* m_RtpSocket: "null", "open", or "freed" but not null
    held,       \* camera buffers borrowed by streamImage
    conn,       \* per player: its TCP connection
    inbox,      \* per player: requests received and not yet read
    manners,    \* what the players of this run do
    opened,     \* history: connections opened so far
    setups      \* history: UDP SETUPs of the present session of each player

loopVars == <<todo, current>>
udpVars  == <<ref, socket>>
netVars  == <<conn, inbox, manners, opened>>
vars == <<pc, loopVars, live, session, udpVars, held, netVars, setups>>

\* "other" is OPTIONS, DESCRIBE, PAUSE or noise.
Commands == {"SETUP", "PLAY", "TEARDOWN", "other"}
Requests == [cmd : Commands, over : {"udp", "tcp"}, parse : {"ok", "incomplete"}]
Sessions == [over : {"udp", "tcp"}, streaming : {"no", "yes"}, stopped : {"no", "yes"}]

NewSession == [over |-> "udp", streaming |-> "no", stopped |-> "no"]

TypeOK ==
    /\ pc \in {"requests", "sweep", "frame", "send", "free", "accept", "panic"}
    /\ live \subseteq Clients
    /\ todo \subseteq live
    /\ current \in live \cup {NoClient}    \* only sessions that exist are used
    /\ session \in [Clients -> Sessions]
    /\ ref \in Int
    /\ socket \in {"null", "open", "freed"}
    /\ held \subseteq Buffers
    /\ conn \in [Clients -> {"off", "pending", "open", "closed"}]
    /\ inbox \in [Clients -> Seq(Requests)]
    /\ manners \in Manners
    /\ opened \in Nat
    /\ setups \in [Clients -> Nat]

Init ==
    /\ pc = "requests"
    /\ todo = {}
    /\ current = NoClient
    /\ live = {}
    /\ session = [c \in Clients |-> NewSession]
    /\ ref = 0
    /\ socket = "null"
    /\ held = {}
    /\ conn = [c \in Clients |-> "off"]
    /\ inbox = [c \in Clients |-> <<>>]
    /\ manners \in Manners
    /\ opened = 0
    /\ setups = [c \in Clients |-> 0]

-----------------------------------------------------------------------------
\* Mutant: every caller binds the sockets, only the first is counted.
MutInitUdpTransport ==
    /\ ref' = IF ref = 0 THEN 1 ELSE ref
    /\ socket' \in UdpOutcomes[manners]

(***************************************************************************)
(* CStreamer::InitUdpTransport: only the first user binds sockets.  If no  *)
(* pair of ports can be bound, m_RtpSocket is left null (the first bind    *)
(* failed) or pointing to a deleted socket (the second one failed), and    *)
(* the reference is counted and success returned all the same.             *)
(***************************************************************************)
InitUdpTransport ==
    /\ ref' = ref + 1
    /\ IF ref # 0 THEN UNCHANGED socket ELSE socket' \in UdpOutcomes[manners]

\* Mutant: the sockets are closed one user too early.
MutReleaseUdpTransport ==
    /\ ref' = ref - 1
    /\ socket' = IF ref' <= 1 THEN "null" ELSE socket

(***************************************************************************)
(* CStreamer::ReleaseUdpTransport: closing a socket that is already freed  *)
(* frees it twice.                                                         *)
(***************************************************************************)
ReleaseUdpTransport ==
    /\ ref' = ref - 1
    /\ socket' = IF ref' = 0 THEN "null" ELSE socket

-----------------------------------------------------------------------------
(***************************************************************************)
(* CRtspSession::handleRequests, for one session of the pass.  socketread  *)
(* takes everything that has arrived, and only the first request of it is  *)
(* looked at; the rest is lost.                                            *)
(***************************************************************************)
Visit(c) ==
    /\ pc = "requests"
    /\ c \in todo
    /\ todo' = todo \ {c}
    /\ current' = c
    /\ pc' = "sweep"
    /\ UNCHANGED <<live, held, conn, manners, opened>>

SessionBecomes(c, s) == session' = [session EXCEPT ![c] = s]

Read(c, cmd) ==
    /\ Visit(c)
    /\ conn[c] \in {"open", "closed"}
    /\ inbox[c] # <<>>
    /\ Head(inbox[c]).cmd = cmd
    /\ inbox' = [inbox EXCEPT ![c] = <<>>]

\* Answered, or skipped by the filter or the default case: no effect.
ReadOther(c) ==
    /\ Read(c, "other")
    /\ UNCHANGED <<session, udpVars, setups>>

\* The transport is noted while parsing, the sockets only if parsing succeeds.
ReadSetup(c) ==
    /\ Read(c, "SETUP")
    /\ LET r == Head(inbox[c]) IN
         /\ SessionBecomes(c, [session[c] EXCEPT !.over = r.over])
         /\ IF r.parse = "ok" /\ r.over = "udp"
            THEN InitUdpTransport /\ setups' = [setups EXCEPT ![c] = @ + 1]
            ELSE UNCHANGED <<udpVars, setups>>

\* m_RtspCmdType is returned even if parsing failed.
ReadPlay(c) ==
    /\ Read(c, "PLAY")
    /\ SessionBecomes(c, [session[c] EXCEPT !.streaming = "yes"])
    /\ UNCHANGED <<udpVars, setups>>

ReadTeardown(c) ==
    /\ Read(c, "TEARDOWN")
    /\ SessionBecomes(c, [session[c] EXCEPT !.stopped = "yes"])
    /\ UNCHANGED <<udpVars, setups>>

ReadNothing(c) ==
    /\ Visit(c)
    /\ conn[c] = "open"
    /\ inbox[c] = <<>>
    /\ UNCHANGED <<session, udpVars, inbox, setups>>

\* Mutant: the closed connection is not noticed as the end of the session.
MutReadClosed(c) ==
    /\ Visit(c)
    /\ conn[c] = "closed"
    /\ UNCHANGED <<session, udpVars, inbox, setups>>

\* socketread finds the connection closed.
ReadClosed(c) ==
    /\ Visit(c)
    /\ conn[c] = "closed"
    /\ SessionBecomes(c, [session[c] EXCEPT !.stopped = "yes"])
    /\ UNCHANGED <<udpVars, inbox, setups>>

(***************************************************************************)
(* CStreamer::handleRequests deletes the session if it has stopped; its    *)
(* destructor releases the UDP transport whether or not it had asked for   *)
(* it, and closes the connection.                                          *)
(***************************************************************************)
DeleteSession ==
    /\ pc = "sweep"
    /\ session[current].stopped = "yes"
    /\ live' = live \ {current}
    /\ ReleaseUdpTransport
    /\ setups' = [setups EXCEPT ![current] = 0]
    /\ conn' = [conn EXCEPT ![current] = "off"]
    /\ inbox' = [inbox EXCEPT ![current] = <<>>]
    /\ current' = NoClient
    /\ pc' = IF ref' = 0 /\ socket = "freed" THEN "panic" ELSE "requests"
    /\ UNCHANGED <<todo, session, held, manners, opened>>

\* Mutant: a session that has stopped is kept for one more pass.
MutKeepSession ==
    /\ pc = "sweep"
    /\ current' = NoClient
    /\ pc' = "requests"
    /\ UNCHANGED <<todo, live, session, udpVars, held, netVars, setups>>

KeepSession ==
    /\ pc = "sweep"
    /\ session[current].stopped = "no"
    /\ current' = NoClient
    /\ pc' = "requests"
    /\ UNCHANGED <<todo, live, session, udpVars, held, netVars, setups>>

EndOfPass ==
    /\ pc = "requests"
    /\ todo = {}
    /\ pc' = "frame"
    /\ UNCHANGED <<loopVars, live, session, udpVars, held, netVars, setups>>

-----------------------------------------------------------------------------
(***************************************************************************)
(* loop() sends an image when there are sessions and a frame time has      *)
(* passed (the timing is left open).  A session over UDP is sent to        *)
(* through m_RtpSocket, which must then be open.                           *)
(***************************************************************************)
NoImage ==
    /\ pc = "frame"
    /\ pc' = "accept"               \* no session, not yet time, or get() failed
    /\ UNCHANGED <<loopVars, live, session, udpVars, held, netVars, setups>>

StreamImage ==
    /\ pc = "frame"
    /\ live # {}
    /\ \E b \in Buffers \ held : held' = held \cup {b}
    /\ pc' = "send"
    /\ UNCHANGED <<loopVars, live, session, udpVars, netVars, setups>>

SentTo(c) == c \in live /\ session[c].streaming = "yes" /\ session[c].stopped = "no"

UdpReceivers == {c \in Clients : SentTo(c) /\ session[c].over = "udp"}

\* Mutant: an image that cannot be decoded is not given back.
MutStreamFrame ==
    /\ pc = "send"
    /\ \/ pc' = IF UdpReceivers # {} /\ socket # "open" THEN "panic" ELSE "free"
       \/ pc' = "accept"
    /\ UNCHANGED <<loopVars, live, session, udpVars, held, netVars, setups>>

StreamFrame ==
    /\ pc = "send"
    /\ \/ pc' = IF UdpReceivers # {} /\ socket # "open" THEN "panic" ELSE "free"
       \/ pc' = "free"              \* the image cannot be decoded
    /\ UNCHANGED <<loopVars, live, session, udpVars, held, netVars, setups>>

FreeImage ==
    /\ pc = "free"
    /\ held' = {}
    /\ pc' = "accept"
    /\ UNCHANGED <<loopVars, live, session, udpVars, netVars, setups>>

\* Mutant: the list keeps only the newest session.
MutAddSession(c) ==
    /\ pc = "accept"
    /\ conn[c] = "pending"
    /\ conn' = [conn EXCEPT ![c] = "open"]
    /\ live' = {c}
    /\ SessionBecomes(c, NewSession)
    /\ todo' = live'
    /\ pc' = "requests"
    /\ UNCHANGED <<current, udpVars, held, inbox, manners, opened, setups>>

AddSession(c) ==
    /\ pc = "accept"
    /\ conn[c] = "pending"
    /\ conn' = [conn EXCEPT ![c] = "open"]
    /\ live' = live \cup {c}
    /\ SessionBecomes(c, NewSession)
    /\ todo' = live'
    /\ pc' = "requests"
    /\ UNCHANGED <<current, udpVars, held, inbox, manners, opened, setups>>

AcceptNobody ==
    /\ pc = "accept"
    /\ \A c \in Clients : conn[c] # "pending"
    /\ todo' = live
    /\ pc' = "requests"
    /\ UNCHANGED <<current, live, session, udpVars, held, netVars, setups>>

\* The fault resets the chip: all sessions and connections are gone.
Reset ==
    /\ pc = "panic"
    /\ pc' = "requests"
    /\ todo' = {}
    /\ current' = NoClient
    /\ live' = {}
    /\ session' = [c \in Clients |-> NewSession]
    /\ ref' = 0
    /\ socket' = "null"
    /\ held' = {}
    /\ conn' = [c \in Clients |-> "off"]
    /\ inbox' = [c \in Clients |-> <<>>]
    /\ setups' = [c \in Clients |-> 0]
    /\ UNCHANGED <<manners, opened>>

HandleRequests(c) == \/ ReadOther(c) \/ ReadSetup(c) \/ ReadPlay(c) \/ ReadTeardown(c)
                     \/ ReadNothing(c) \/ ReadClosed(c)

Task == \/ \E c \in Clients : HandleRequests(c) \/ AddSession(c)
        \/ DeleteSession \/ KeepSession \/ EndOfPass
        \/ NoImage \/ StreamImage \/ StreamFrame \/ FreeImage
        \/ AcceptNobody \/ Reset

-----------------------------------------------------------------------------
(***************************************************************************)
(* The players.  A polite one uses UDP, sends complete requests one at a   *)
(* time, exactly one SETUP and PLAY only after it, and does not leave      *)
(* before its SETUP was handled.                                           *)
(***************************************************************************)
Polite(c, r) ==
    /\ inbox[c] = <<>>
    /\ r.over = "udp" /\ r.parse = "ok"
    /\ r.cmd \in IF setups[c] = 0 THEN {"other", "SETUP"} ELSE {"PLAY", "TEARDOWN"}

Connect(c) ==
    /\ conn[c] = "off"
    /\ opened < MaxConnects[manners]
    /\ conn' = [conn EXCEPT ![c] = "pending"]
    /\ opened' = opened + 1
    /\ UNCHANGED <<pc, loopVars, live, session, udpVars, held, inbox, manners, setups>>

\* Only SETUP has a transport, and only it has less effect when incomplete.
Send(c) ==
    /\ conn[c] = "open"
    /\ Len(inbox[c]) < MaxInbox
    /\ \E r \in Requests :
          /\ IF r.cmd = "SETUP" THEN setups[c] < MaxSetups[manners]
                                ELSE r.over = "udp" /\ r.parse = "ok"
          /\ manners = "polite" => Polite(c, r)
          /\ inbox' = [inbox EXCEPT ![c] = Append(@, r)]
    /\ UNCHANGED <<pc, loopVars, live, session, udpVars, held, conn, manners, opened, setups>>

Leave(c) ==
    /\ conn[c] = "open"
    /\ manners = "polite" => setups[c] > 0
    /\ conn' = [conn EXCEPT ![c] = "closed"]
    /\ UNCHANGED <<pc, loopVars, live, session, udpVars, held, inbox, manners, opened, setups>>

Player(c) == Connect(c) \/ Send(c) \/ Leave(c)

Next == Task \/ \E c \in Clients : Player(c)

Spec == Init /\ [][Next]_vars

\* loop() runs for ever: reads do not wait, sends and the camera time out.
FairSpec == Spec /\ WF_vars(Task)
-----------------------------------------------------------------------------
(***************************************************************************)
(* A frame is never sent to a session that has ended: whatever ended it    *)
(* (TEARDOWN or a closed connection), the pass that noticed it removes it  *)
(* from m_Clients before the next frame.                                   *)
(***************************************************************************)
StoppedAreGone ==
    pc \in {"frame", "send", "free", "accept"} =>
       \A c \in live : session[c].stopped = "no"

(***************************************************************************)
(* A request of a connected player is read sooner or later: neither the    *)
(* other sessions, the frames nor new connections starve it.               *)
(***************************************************************************)
RequestsAreRead ==
    \A c \in Clients : (conn[c] = "open" /\ inbox[c] # <<>>) ~> inbox[c] = <<>>

(***************************************************************************)
(* The session of a player that has left is deleted in the end, so that    *)
(* sessions do not pile up and their sockets are closed.                   *)
(***************************************************************************)
ClosedAreReclaimed ==
    \A c \in Clients : conn[c] = "closed" ~> conn[c] = "off"

(***************************************************************************)
(* streamImage gives every frame back, also one that cannot be decoded, so *)
(* the driver never runs out of buffers: none is held while the task       *)
(* serves its sessions or accepts a connection.                            *)
(***************************************************************************)
NoFrameLeak == pc \in {"requests", "sweep", "frame", "accept"} => held = {}

-----------------------------------------------------------------------------
(***************************************************************************)
(* The sessions that were set up over UDP, and what m_udpRefCount counts   *)
(* while every player is polite: exactly these, so the sockets are shared  *)
(* by all of them and closed with the last.                                *)
(***************************************************************************)
UdpUsers == {c \in live : setups[c] > 0}

RefCountsUsers == manners = "polite" => ref = Cardinality(UdpUsers)

(***************************************************************************)
(* While every player is polite, no frame is sent through an RTP socket    *)
(* that is not open.                                                       *)
(***************************************************************************)
UdpSocketOpen == manners = "polite" /\ UdpReceivers # {} => socket = "open"

(***************************************************************************)
(* With polite players the reference count implements the shared transport *)
(* of UdpTransport; the runs of other players are mapped to one without    *)
(* users.                                                                  *)
(***************************************************************************)
Transport == INSTANCE UdpTransport WITH
    users  <- IF manners = "polite" THEN UdpUsers ELSE {},
    socket <- IF manners = "polite" THEN socket ELSE "null"

TransportSpec == Transport!Spec

(***************************************************************************)
(* What the comment at CRtspSession.cpp:309 says of a SETUP over UDP: port *)
(* pairs are allocated for it.  It is false for players that are not       *)
(* polite: the session of one that left before its SETUP, or used TCP, is  *)
(* released without having been counted, and the count no longer says      *)
(* whether the sockets are open.                                           *)
(***************************************************************************)
UdpUsersHaveSocket == UdpUsers # {} => socket = "open"
=============================================================================

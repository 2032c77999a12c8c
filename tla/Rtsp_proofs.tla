---------------------------- MODULE Rtsp_proofs -----------------------------
(***************************************************************************)
(* The RTSP example, for any number of players and buffers: sessions that  *)
(* have ended are gone before the next frame, every frame is given back,   *)
(* and with polite players the reference count implements UdpTransport.    *)
(***************************************************************************)
EXTENDS Rtsp, FiniteSetTheorems, SequenceTheorems, TLAPS

(***************************************************************************)
(* The session being swept still exists and will not be visited again; at  *)
(* every other point none is being serviced.                               *)
(***************************************************************************)
SweepShape ==
    /\ pc = "sweep" => current \in live \ todo
    /\ pc # "sweep" => current = NoClient

\* A session has stopped only if this very sweep deletes it.
StoppedShape ==
    \A c \in live : session[c].stopped = "yes" => pc = "sweep" /\ c = current

\* A frame is held from streamImage's get() to its free(), or lost by a fault.
HeldShape == pc \notin {"send", "free", "panic"} => held = {}

CoreInv == TypeOK /\ SweepShape /\ StoppedShape /\ HeldShape

\* The program counter and the loop's variables.
LoopTypeOK ==
    /\ pc \in {"requests", "sweep", "frame", "send", "free", "accept", "panic"}
    /\ live \subseteq Clients
    /\ todo \subseteq live
    /\ current \in live \cup {NoClient}
    /\ held \subseteq Buffers

\* The sockets, the players and the history.
NetTypeOK ==
    /\ ref \in Int
    /\ socket \in {"null", "open", "freed"}
    /\ conn \in [Clients -> {"off", "pending", "open", "closed"}]
    /\ inbox \in [Clients -> Seq(Requests)]
    /\ manners \in Manners
    /\ opened \in Nat
    /\ setups \in [Clients -> Nat]

SessionTypeOK == session \in [Clients -> Sessions]

LEMMA TypeParts == TypeOK <=> LoopTypeOK /\ NetTypeOK /\ SessionTypeOK
BY DEF TypeOK, LoopTypeOK, NetTypeOK, SessionTypeOK

LEMMA TypePartsNext == LoopTypeOK' /\ NetTypeOK' /\ SessionTypeOK' => TypeOK'
BY DEF TypeOK, LoopTypeOK, NetTypeOK, SessionTypeOK

LEMMA NewSessionType == NewSession \in Sessions /\ NewSession.stopped = "no"
                        /\ NewSession.streaming = "no"
BY DEF NewSession, Sessions

LEMMA EmptyInbox == <<>> \in Seq(Requests)
BY EmptySeq

-----------------------------------------------------------------------------
LEMMA InitCore == Init => CoreInv
<1> SUFFICES ASSUME Init PROVE CoreInv
  OBVIOUS
<1>1. LoopTypeOK
  BY DEF Init, LoopTypeOK
<1>2. NetTypeOK
  BY EmptyInbox DEF Init, NetTypeOK
<1>3. SessionTypeOK
  BY NewSessionType DEF Init, SessionTypeOK
<1>4. QED
  BY <1>1, <1>2, <1>3, TypeParts DEF Init, CoreInv, SweepShape, StoppedShape, HeldShape

\* What reading a request, or finding none, leaves to be shown of the loop.
LEMMA VisitShape ==
    ASSUME CoreInv, NEW c \in Clients, Visit(c),
           \A d \in live \ {c} : session'[d] = session[d]
    PROVE  LoopTypeOK' /\ SweepShape' /\ StoppedShape' /\ HeldShape'
<1>1. pc = "requests" /\ pc' = "sweep" /\ c \in todo /\ todo' = todo \ {c}
      /\ current' = c /\ live' = live /\ held' = held
  BY DEF Visit
<1>2. LoopTypeOK
  BY TypeParts DEF CoreInv
<1>3. LoopTypeOK'
  BY <1>1, <1>2 DEF LoopTypeOK
<1>4. SweepShape'
  BY <1>1, <1>2 DEF LoopTypeOK, SweepShape
<1>5. StoppedShape'
  BY <1>1 DEF CoreInv, StoppedShape
<1>6. HeldShape'
  BY <1>1 DEF CoreInv, HeldShape
<1>7. QED
  BY <1>3, <1>4, <1>5, <1>6

LEMMA ReadCore ==
    ASSUME CoreInv, NEW c \in Clients, HandleRequests(c)
    PROVE  CoreInv'
<1>0. NetTypeOK /\ SessionTypeOK /\ inbox[c] \in Seq(Requests) /\ session[c] \in Sessions
  BY TypeParts DEF CoreInv, NetTypeOK, SessionTypeOK
<1>1. ASSUME NEW cmd, Read(c, cmd)
      PROVE  /\ Visit(c) /\ inbox' = [inbox EXCEPT ![c] = <<>>]
             /\ inbox' \in [Clients -> Seq(Requests)]
             /\ Head(inbox[c]) \in Requests
             /\ conn' = conn /\ opened' = opened /\ manners' = manners
  <2>1. Visit(c) /\ inbox' = [inbox EXCEPT ![c] = <<>>] /\ inbox[c] # <<>>
    BY <1>1 DEF Read
  <2>2. inbox' \in [Clients -> Seq(Requests)]
    BY <2>1, <1>0, EmptyInbox DEF NetTypeOK
  <2>3. Head(inbox[c]) \in Requests
    BY <2>1, <1>0, HeadTailProperties
  <2>4. QED
    BY <2>1, <2>2, <2>3 DEF Visit
<1>2. CASE ReadOther(c)
  <2>1. Read(c, "other") /\ session' = session /\ ref' = ref /\ socket' = socket /\ setups' = setups
    BY <1>2 DEF ReadOther, udpVars
  <2>2. NetTypeOK' /\ SessionTypeOK'
    BY <1>0, <1>1, <2>1 DEF NetTypeOK, SessionTypeOK
  <2>3. QED
    BY <1>1, <2>1, <2>2, VisitShape, TypePartsNext DEF CoreInv
<1>3. CASE ReadSetup(c)
  <2> DEFINE r == Head(inbox[c])
  <2>1. Read(c, "SETUP") /\ session' = [session EXCEPT ![c] = [session[c] EXCEPT !.over = r.over]]
    BY <1>3 DEF ReadSetup, SessionBecomes
  <2>2. \/ InitUdpTransport /\ setups' = [setups EXCEPT ![c] = @ + 1]
        \/ ref' = ref /\ socket' = socket /\ setups' = setups
    BY <1>3 DEF ReadSetup, udpVars
  <2>3. ref' \in Int /\ socket' \in {"null", "open", "freed"}
    BY <2>2, <1>0, OutcomesAssumption DEF OutcomesAssumption, InitUdpTransport, NetTypeOK
  <2>4. setups' \in [Clients -> Nat]
    BY <2>2, <1>0 DEF NetTypeOK
  <2>5. NetTypeOK'
    BY <2>1, <2>3, <2>4, <1>0, <1>1 DEF NetTypeOK
  <2>6. r \in Requests /\ Visit(c)
    BY <2>1, <1>1
  <2>7. [session[c] EXCEPT !.over = r.over] \in Sessions
    BY <2>6, <1>0 DEF Sessions, Requests
  <2>8. SessionTypeOK' /\ \A d \in live \ {c} : session'[d] = session[d]
    BY <2>1, <2>7, <1>0, TypeParts DEF SessionTypeOK, CoreInv, LoopTypeOK
  <2>9. QED
    BY <2>5, <2>6, <2>8, VisitShape, TypePartsNext DEF CoreInv
<1>4. CASE ReadPlay(c) \/ ReadTeardown(c) \/ ReadClosed(c)
  <2>1. PICK s \in Sessions : session' = [session EXCEPT ![c] = s]
    <3>1. /\ [session[c] EXCEPT !.streaming = "yes"] \in Sessions
          /\ [session[c] EXCEPT !.stopped = "yes"] \in Sessions
      BY <1>0 DEF Sessions
    <3>2. QED
      BY <1>4, <3>1 DEF ReadPlay, ReadTeardown, ReadClosed, SessionBecomes
  <2>2. \/ Read(c, "PLAY") \/ Read(c, "TEARDOWN")
        \/ Visit(c) /\ inbox' = inbox
    BY <1>4 DEF ReadPlay, ReadTeardown, ReadClosed
  <2>3. ref' = ref /\ socket' = socket /\ setups' = setups
    BY <1>4 DEF ReadPlay, ReadTeardown, ReadClosed, udpVars
  <2>4. Visit(c) /\ inbox' \in [Clients -> Seq(Requests)]
    BY <2>2, <1>0, <1>1 DEF NetTypeOK
  <2>5. NetTypeOK'
    BY <2>3, <2>4, <1>0 DEF NetTypeOK, Visit
  <2>6. SessionTypeOK' /\ \A d \in live \ {c} : session'[d] = session[d]
    BY <2>1, <1>0, TypeParts DEF SessionTypeOK, CoreInv, LoopTypeOK
  <2>7. QED
    BY <2>4, <2>5, <2>6, VisitShape, TypePartsNext DEF CoreInv
<1>5. CASE ReadNothing(c)
  <2>1. Visit(c) /\ session' = session /\ NetTypeOK' /\ SessionTypeOK'
    BY <1>5, <1>0 DEF ReadNothing, Visit, NetTypeOK, SessionTypeOK, udpVars
  <2>2. QED
    BY <2>1, VisitShape, TypePartsNext DEF CoreInv
<1>6. QED
  BY <1>2, <1>3, <1>4, <1>5 DEF HandleRequests

LEMMA SweepCore == CoreInv /\ (DeleteSession \/ KeepSession) => CoreInv'
<1> SUFFICES ASSUME CoreInv, DeleteSession \/ KeepSession PROVE CoreInv'
  OBVIOUS
<1>0. LoopTypeOK /\ NetTypeOK /\ SessionTypeOK /\ SweepShape /\ StoppedShape /\ HeldShape
  BY TypeParts DEF CoreInv
<1>1. pc = "sweep" /\ current \in live \ todo /\ current \in Clients
  BY <1>0 DEF DeleteSession, KeepSession, SweepShape, LoopTypeOK
<1>2. CASE DeleteSession
  <2>1. /\ live' = live \ {current} /\ todo' = todo /\ current' = NoClient
        /\ session' = session /\ held' = held /\ pc' \in {"requests", "panic"}
    BY <1>2 DEF DeleteSession
  <2>2. LoopTypeOK'
    BY <2>1, <1>0, <1>1 DEF LoopTypeOK
  <2>3. SweepShape' /\ StoppedShape' /\ HeldShape'
    BY <2>1, <1>0, <1>1 DEF SweepShape, StoppedShape, HeldShape
  <2>4. NetTypeOK'
    BY <1>2, <1>0, <1>1, EmptyInbox DEF DeleteSession, ReleaseUdpTransport, NetTypeOK
  <2>5. SessionTypeOK'
    BY <2>1, <1>0 DEF SessionTypeOK
  <2>6. QED
    BY <2>2, <2>3, <2>4, <2>5, TypePartsNext DEF CoreInv
<1>3. CASE KeepSession
  <2>1. /\ UNCHANGED <<live, todo, session, ref, socket, held, conn, inbox, manners, opened, setups>>
        /\ current' = NoClient /\ pc' = "requests" /\ session[current].stopped = "no"
    BY <1>3 DEF KeepSession, udpVars, netVars
  <2>2. LoopTypeOK' /\ NetTypeOK' /\ SessionTypeOK'
    BY <2>1, <1>0 DEF LoopTypeOK, NetTypeOK, SessionTypeOK
  <2>3. SweepShape' /\ StoppedShape' /\ HeldShape'
    BY <2>1, <1>0, <1>1 DEF SweepShape, StoppedShape, HeldShape
  <2>4. QED
    BY <2>2, <2>3, TypePartsNext DEF CoreInv
<1>4. QED
  BY <1>2, <1>3

LEMMA FrameCore ==
    CoreInv /\ (EndOfPass \/ NoImage \/ StreamImage \/ StreamFrame \/ FreeImage) => CoreInv'
<1> SUFFICES ASSUME CoreInv, EndOfPass \/ NoImage \/ StreamImage \/ StreamFrame \/ FreeImage
             PROVE  CoreInv'
  OBVIOUS
<1>0. LoopTypeOK /\ NetTypeOK /\ SessionTypeOK /\ SweepShape /\ StoppedShape /\ HeldShape
  BY TypeParts DEF CoreInv
<1>1. /\ UNCHANGED <<live, todo, current, session, ref, socket, conn, inbox, manners, opened, setups>>
      /\ pc # "sweep" /\ pc' \in {"frame", "send", "free", "accept", "panic"}
  BY DEF EndOfPass, NoImage, StreamImage, StreamFrame, FreeImage, loopVars, udpVars, netVars
<1>2. held' \subseteq Buffers /\ HeldShape'
  BY <1>0 DEF EndOfPass, NoImage, StreamImage, StreamFrame, FreeImage, HeldShape, LoopTypeOK
<1>3. LoopTypeOK' /\ NetTypeOK' /\ SessionTypeOK'
  BY <1>0, <1>1, <1>2 DEF LoopTypeOK, NetTypeOK, SessionTypeOK
<1>4. SweepShape' /\ StoppedShape'
  BY <1>0, <1>1 DEF SweepShape, StoppedShape
<1>5. QED
  BY <1>2, <1>3, <1>4, TypePartsNext DEF CoreInv

LEMMA AcceptCore ==
    CoreInv /\ (AcceptNobody \/ \E c \in Clients : AddSession(c)) => CoreInv'
<1> SUFFICES ASSUME CoreInv, AcceptNobody \/ \E c \in Clients : AddSession(c)
             PROVE  CoreInv'
  OBVIOUS
<1>0. LoopTypeOK /\ NetTypeOK /\ SessionTypeOK /\ SweepShape /\ StoppedShape /\ HeldShape
  BY TypeParts DEF CoreInv
<1>1. CASE AcceptNobody
  <2>1. /\ UNCHANGED <<live, current, session, ref, socket, held, conn, inbox, manners, opened, setups>>
        /\ todo' = live /\ pc = "accept" /\ pc' = "requests"
    BY <1>1 DEF AcceptNobody, udpVars, netVars
  <2>2. LoopTypeOK' /\ NetTypeOK' /\ SessionTypeOK'
    BY <2>1, <1>0 DEF LoopTypeOK, NetTypeOK, SessionTypeOK
  <2>3. QED
    BY <2>1, <2>2, <1>0, TypePartsNext DEF CoreInv, SweepShape, StoppedShape, HeldShape
<1>2. ASSUME NEW c \in Clients, AddSession(c) PROVE CoreInv'
  <2>1. /\ UNCHANGED <<current, ref, socket, held, inbox, manners, opened, setups>>
        /\ session' = [session EXCEPT ![c] = NewSession]
        /\ conn' = [conn EXCEPT ![c] = "open"]
        /\ live' = live \cup {c} /\ todo' = live' /\ pc = "accept" /\ pc' = "requests"
    BY <1>2 DEF AddSession, SessionBecomes, udpVars
  <2>2. LoopTypeOK'
    BY <2>1, <1>0 DEF LoopTypeOK
  <2>3. NetTypeOK' /\ SessionTypeOK'
    BY <2>1, <1>0, NewSessionType DEF NetTypeOK, SessionTypeOK
  <2>4. StoppedShape'
    BY <2>1, <1>0, NewSessionType DEF StoppedShape, SessionTypeOK, LoopTypeOK
  <2>5. SweepShape' /\ HeldShape'
    BY <2>1, <1>0 DEF SweepShape, HeldShape
  <2>6. QED
    BY <2>2, <2>3, <2>4, <2>5, TypePartsNext DEF CoreInv
<1>3. QED
  BY <1>1, <1>2

LEMMA ResetCore == CoreInv /\ Reset => CoreInv'
<1> SUFFICES ASSUME CoreInv, Reset PROVE CoreInv'
  OBVIOUS
<1>1. LoopTypeOK'
  BY DEF Reset, LoopTypeOK
<1>2. NetTypeOK'
  BY EmptyInbox, TypeParts DEF CoreInv, Reset, NetTypeOK
<1>3. SessionTypeOK'
  BY NewSessionType DEF Reset, SessionTypeOK
<1>4. SweepShape' /\ StoppedShape' /\ HeldShape'
  BY DEF Reset, SweepShape, StoppedShape, HeldShape
<1>5. QED
  BY <1>1, <1>2, <1>3, <1>4, TypePartsNext DEF CoreInv

\* The players touch only their own connections.
LEMMA PlayerCore ==
    ASSUME CoreInv, NEW c \in Clients, Player(c)
    PROVE  CoreInv'
<1>0. LoopTypeOK /\ NetTypeOK /\ SessionTypeOK /\ SweepShape /\ StoppedShape /\ HeldShape
  BY TypeParts DEF CoreInv
<1>1. UNCHANGED <<pc, todo, current, live, session, ref, socket, held, manners, setups>>
  BY DEF Player, Connect, Send, Leave, loopVars, udpVars
<1>2. conn' \in [Clients -> {"off", "pending", "open", "closed"}] /\ opened' \in Nat
  <2>1. CASE Connect(c)
    BY <2>1, <1>0 DEF Connect, NetTypeOK
  <2>2. CASE Send(c)
    BY <2>2, <1>0 DEF Send, NetTypeOK
  <2>3. CASE Leave(c)
    BY <2>3, <1>0 DEF Leave, NetTypeOK
  <2>4. QED
    BY <2>1, <2>2, <2>3 DEF Player
<1>3. inbox' \in [Clients -> Seq(Requests)]
  <2>1. CASE Send(c)
    <3>1. PICK r \in Requests : inbox' = [inbox EXCEPT ![c] = Append(@, r)]
      BY <2>1 DEF Send
    <3>2. Append(inbox[c], r) \in Seq(Requests)
      BY <1>0, AppendProperties DEF NetTypeOK
    <3>3. QED
      BY <3>1, <3>2, <1>0 DEF NetTypeOK
  <2>2. CASE Connect(c) \/ Leave(c)
    BY <2>2, <1>0 DEF Connect, Leave, NetTypeOK
  <2>3. QED
    BY <2>1, <2>2 DEF Player
<1>4. LoopTypeOK' /\ SessionTypeOK' /\ SweepShape' /\ StoppedShape' /\ HeldShape'
  BY <1>0, <1>1 DEF LoopTypeOK, SessionTypeOK, SweepShape, StoppedShape, HeldShape
<1>5. NetTypeOK'
  BY <1>0, <1>1, <1>2, <1>3 DEF NetTypeOK
<1>6. QED
  BY <1>4, <1>5, TypePartsNext DEF CoreInv

LEMMA StutterCore == CoreInv /\ UNCHANGED vars => CoreInv'
<1> SUFFICES ASSUME CoreInv, UNCHANGED vars PROVE CoreInv'
  OBVIOUS
<1>0. LoopTypeOK /\ NetTypeOK /\ SessionTypeOK /\ SweepShape /\ StoppedShape /\ HeldShape
  BY TypeParts DEF CoreInv
<1>1. UNCHANGED <<pc, todo, current, live, session, ref, socket, held, conn, inbox,
                  manners, opened, setups>>
  BY DEF vars, loopVars, udpVars, netVars
<1>2. QED
  BY <1>0, <1>1, TypePartsNext DEF CoreInv, LoopTypeOK, NetTypeOK, SessionTypeOK, SweepShape,
     StoppedShape, HeldShape

LEMMA StepCore == CoreInv /\ [Next]_vars => CoreInv'
<1>1. ASSUME CoreInv, NEW c \in Clients, HandleRequests(c) \/ AddSession(c) \/ Player(c)
      PROVE  CoreInv'
  BY <1>1, ReadCore, AcceptCore, PlayerCore
<1>2. QED
  BY <1>1, SweepCore, FrameCore, AcceptCore, ResetCore, StutterCore DEF Next, Task

LEMMA CoreAlways == Spec => []CoreInv
BY InitCore, StepCore, PTL DEF Spec

(***************************************************************************)
(* Only sessions that exist are used, and the example's state keeps its    *)
(* type, whatever the players do and binding the sockets ends in.          *)
(***************************************************************************)
THEOREM TypeCorrect == Spec => []TypeOK
<1>1. CoreInv => TypeOK
  BY DEF CoreInv
<1>2. QED
  BY <1>1, CoreAlways, PTL

(***************************************************************************)
(* No frame is ever sent to a session that has ended.                      *)
(***************************************************************************)
THEOREM StoppedAreGoneCorrect == Spec => []StoppedAreGone
<1>1. CoreInv => StoppedAreGone
  <2> SUFFICES ASSUME CoreInv, pc # "sweep", NEW c \in live PROVE session[c].stopped = "no"
    BY DEF StoppedAreGone
  <2>1. session[c] \in Sessions
    BY DEF CoreInv, TypeOK
  <2>2. QED
    BY <2>1 DEF CoreInv, StoppedShape, Sessions
<1>2. QED
  BY <1>1, CoreAlways, PTL

(***************************************************************************)
(* Every frame is given back, also one that cannot be decoded.             *)
(***************************************************************************)
THEOREM NoFrameLeakCorrect == Spec => []NoFrameLeak
<1>1. CoreInv => NoFrameLeak
  BY DEF CoreInv, HeldShape, NoFrameLeak
<1>2. QED
  BY <1>1, CoreAlways, PTL

-----------------------------------------------------------------------------
(***************************************************************************)
(* With polite players: what each connection has done so far agrees with   *)
(* its session, so that exactly the sessions that were set up are counted. *)
(***************************************************************************)
PoliteConn(c) ==
    /\ c \in live <=> conn[c] \in {"open", "closed"}
    /\ c \notin live => setups[c] = 0 /\ inbox[c] = <<>>
    /\ conn[c] = "closed" => setups[c] > 0
    /\ c \in live /\ session[c].stopped = "yes" => setups[c] > 0
    /\ c \in live /\ session[c].streaming = "yes" => setups[c] > 0

PoliteInbox(c) ==
    inbox[c] # <<>> =>
       LET r == Head(inbox[c]) IN
          /\ r.over = "udp" /\ r.parse = "ok"
          /\ r.cmd \in IF setups[c] = 0 THEN {"other", "SETUP"} ELSE {"PLAY", "TEARDOWN"}

PoliteCount ==
    /\ ref = Cardinality(UdpUsers)
    /\ socket = IF UdpUsers = {} THEN "null" ELSE "open"
    /\ pc # "panic"

PoliteInv == manners = "polite" =>
    PoliteCount /\ \A c \in Clients : PoliteConn(c) /\ PoliteInbox(c)

\* The state of the transport that is mapped to UdpTransport.
Users == IF manners = "polite" THEN UdpUsers ELSE {}
Socket == IF manners = "polite" THEN socket ELSE "null"

LEMMA UsersFinite ==
    ASSUME CoreInv
    PROVE  /\ IsFiniteSet(UdpUsers) /\ Cardinality(UdpUsers) \in Nat
           /\ (Cardinality(UdpUsers) = 0 <=> UdpUsers = {})
<1>1. UdpUsers \in SUBSET Clients
  BY DEF UdpUsers, CoreInv, TypeOK
<1>2. IsFiniteSet(UdpUsers)
  BY <1>1, FS_Subset, ClientsAssumption DEF ClientsAssumption
<1>3. QED
  BY <1>2, FS_CardinalityType, FS_EmptySet

LEMMA InitPolite == Init => PoliteInv
<1> SUFFICES ASSUME Init PROVE PoliteInv
  OBVIOUS
<1>1. UdpUsers = {}
  BY DEF Init, UdpUsers
<1>2. PoliteCount
  BY <1>1, FS_EmptySet DEF Init, PoliteCount
<1>3. ASSUME NEW c \in Clients PROVE PoliteConn(c) /\ PoliteInbox(c)
  BY DEF Init, PoliteConn, PoliteInbox
<1>4. QED
  BY <1>2, <1>3 DEF PoliteInv

\* Nothing the count and the transport depend on changes.
LEMMA SameUsers ==
    ASSUME CoreInv, PoliteCount, ref' = ref, socket' = socket, UdpUsers' = UdpUsers,
           pc' # "panic", manners' = manners
    PROVE  PoliteCount' /\ Users' = Users /\ Socket' = Socket
BY DEF PoliteCount, Users, Socket

\* A session set up over UDP joins the transport.
LEMMA JoinUsers ==
    ASSUME CoreInv, PoliteCount, manners = "polite", manners' = manners,
           NEW c \in Clients, c \notin UdpUsers, UdpUsers' = UdpUsers \cup {c},
           InitUdpTransport, pc' # "panic"
    PROVE  PoliteCount' /\ Transport!Join(c)
<1>1. Cardinality(UdpUsers') = Cardinality(UdpUsers) + 1
  BY UsersFinite, FS_AddElement
<1>2. ref' = Cardinality(UdpUsers')
  BY <1>1, UsersFinite DEF InitUdpTransport, PoliteCount
<1>3. manners \in Manners /\ UdpOutcomes[manners] = {"open"}
  BY PoliteAssumption DEF PoliteAssumption, CoreInv, TypeOK
<1>4. socket' = "open"
  BY <1>3, UsersFinite DEF InitUdpTransport, PoliteCount
<1>5. QED
  BY <1>2, <1>4 DEF PoliteCount, Transport!Join

\* The session of one that was set up quits the transport.
LEMMA QuitUsers ==
    ASSUME CoreInv, PoliteCount, manners = "polite", manners' = manners,
           NEW c \in Clients, c \in UdpUsers, UdpUsers' = UdpUsers \ {c},
           ReleaseUdpTransport, pc' # "panic"
    PROVE  PoliteCount' /\ Transport!Quit(c)
<1>1. /\ Cardinality(UdpUsers') = Cardinality(UdpUsers) - 1
      /\ IsFiniteSet(UdpUsers')
  BY UsersFinite, FS_RemoveElement
<1>2. Cardinality(UdpUsers') = 0 <=> UdpUsers' = {}
  BY <1>1, FS_EmptySet
<1>3. ref' = Cardinality(UdpUsers')
  BY <1>1, UsersFinite DEF ReleaseUdpTransport, PoliteCount
<1>4. socket = "open"
  BY DEF PoliteCount
<1>5. socket' = IF UdpUsers' = {} THEN "null" ELSE "open"
  BY <1>2, <1>3, <1>4 DEF ReleaseUdpTransport
<1>6. QED
  BY <1>3, <1>5 DEF PoliteCount, Transport!Quit

\* A player whose connection and session an action leaves alone.
LEMMA OtherPlayer ==
    ASSUME NEW d \in Clients, PoliteConn(d), PoliteInbox(d), d \in live' <=> d \in live,
           session'[d] = session[d], conn'[d] = conn[d], setups'[d] = setups[d],
           inbox'[d] = inbox[d]
    PROVE  PoliteConn(d)' /\ PoliteInbox(d)'
BY DEF PoliteConn, PoliteInbox

Mapped == (Users' = Users /\ Socket' = Socket) \/ Transport!Next

LEMMA ReadPolite ==
    ASSUME CoreInv, PoliteInv, manners = "polite", NEW c \in Clients, HandleRequests(c)
    PROVE  PoliteInv' /\ Mapped
<1>0. /\ PoliteCount /\ PoliteConn(c) /\ PoliteInbox(c) /\ c \in live
      /\ inbox \in [Clients -> Seq(Requests)] /\ session \in [Clients -> Sessions]
      /\ setups \in [Clients -> Nat] /\ setups[c] \in Nat /\ live \subseteq Clients
      /\ Visit(c)
  BY DEF PoliteInv, CoreInv, TypeOK, HandleRequests, ReadOther, ReadSetup, ReadPlay,
         ReadTeardown, ReadNothing, ReadClosed, Read, Visit
<1>1. /\ live' = live /\ conn' = conn /\ manners' = manners /\ pc' # "panic"
  BY <1>0 DEF Visit
<1>2. /\ \A d \in Clients \ {c} : session'[d] = session[d] /\ setups'[d] = setups[d]
                                /\ inbox'[d] = inbox[d]
      /\ inbox'[c] = <<>> \/ (inbox' = inbox /\ setups' = setups)
  <2>1. CASE ReadSetup(c)
    <3>1. /\ inbox' = [inbox EXCEPT ![c] = <<>>]
          /\ session' = [session EXCEPT ![c] = [session[c] EXCEPT !.over = Head(inbox[c]).over]]
      BY <2>1 DEF ReadSetup, Read, SessionBecomes
    <3>2. setups' = [setups EXCEPT ![c] = @ + 1] \/ setups' = setups
      BY <2>1 DEF ReadSetup
    <3>3. inbox'[c] = <<>>
      BY <3>1, <1>0
    <3>4. \A d \in Clients \ {c} : session'[d] = session[d] /\ inbox'[d] = inbox[d]
      BY <3>1, <1>0
    <3>5. \A d \in Clients \ {c} : setups'[d] = setups[d]
      BY <3>2, <1>0
    <3>6. QED
      BY <3>3, <3>4, <3>5
  <2>2. CASE ReadOther(c) \/ ReadPlay(c) \/ ReadTeardown(c)
    BY <2>2, <1>0 DEF ReadOther, ReadPlay, ReadTeardown, Read, SessionBecomes
  <2>3. CASE ReadNothing(c) \/ ReadClosed(c)
    BY <2>3, <1>0 DEF ReadNothing, ReadClosed, SessionBecomes
  <2>4. QED
    BY <2>1, <2>2, <2>3 DEF HandleRequests
<1>3. \A d \in Clients \ {c} : PoliteConn(d)' /\ PoliteInbox(d)'
  BY <1>1, <1>2, OtherPlayer DEF PoliteInv
<1>4. PoliteInbox(c)'
  BY <1>0, <1>2 DEF PoliteInbox
<1>5. CASE ReadSetup(c)
  <2> DEFINE r == Head(inbox[c])
  <2>1. inbox[c] # <<>> /\ r.cmd = "SETUP"
    BY <1>5 DEF ReadSetup, Read
  <2>2. r.over = "udp" /\ r.parse = "ok" /\ setups[c] = 0
    BY <2>1, <1>0 DEF PoliteInbox
  <2>3. InitUdpTransport /\ setups' = [setups EXCEPT ![c] = @ + 1]
    BY <1>5, <2>2 DEF ReadSetup
  <2>4. setups'[c] = 1
    BY <2>2, <2>3, <1>0
  <2>5. c \notin UdpUsers /\ UdpUsers' = UdpUsers \cup {c}
    BY <2>2, <2>3, <2>4, <1>0, <1>1 DEF UdpUsers
  <2>6. PoliteCount' /\ Transport!Join(c)
    BY <1>0, <1>1, <2>3, <2>5, JoinUsers
  <2>7. PoliteConn(c)'
    BY <1>0, <1>1, <2>4 DEF PoliteConn
  <2>8. QED
    BY <2>6, <2>7, <1>1, <1>3, <1>4 DEF PoliteInv, Mapped, Transport!Next
<1>6. CASE ~ReadSetup(c)
  <2>1. setups' = setups /\ ref' = ref /\ socket' = socket
    BY <1>0, <1>6 DEF HandleRequests, ReadOther, ReadPlay, ReadTeardown, ReadNothing,
                      ReadClosed, udpVars
  <2>2. UdpUsers' = UdpUsers
    BY <2>1, <1>1 DEF UdpUsers
  <2>3. PoliteCount' /\ Users' = Users /\ Socket' = Socket
    BY <1>0, <1>1, <2>1, <2>2, SameUsers
  <2>4. PoliteConn(c)'
    <3>1. CASE session' = session
      BY <3>1, <2>1, <1>0, <1>1 DEF PoliteConn
    <3>2. CASE ReadPlay(c) \/ ReadTeardown(c)
      <4>1. inbox[c] # <<>> /\ Head(inbox[c]).cmd \in {"PLAY", "TEARDOWN"}
        BY <3>2 DEF ReadPlay, ReadTeardown, Read
      <4>2. setups[c] > 0
        BY <4>1, <1>0 DEF PoliteInbox
      <4>3. QED
        BY <4>2, <2>1, <1>0, <1>1 DEF PoliteConn
    <3>3. CASE ReadClosed(c)
      <4>1. setups[c] > 0
        BY <3>3, <1>0 DEF ReadClosed, PoliteConn
      <4>2. QED
        BY <4>1, <2>1, <1>0, <1>1 DEF PoliteConn
    <3>4. QED
      BY <1>6, <3>1, <3>2, <3>3 DEF HandleRequests, ReadOther, ReadNothing
  <2>5. QED
    BY <2>3, <2>4, <1>1, <1>3, <1>4 DEF PoliteInv, Mapped
<1>7. QED
  BY <1>5, <1>6

LEMMA DeletePolite ==
    ASSUME CoreInv, PoliteInv, manners = "polite", DeleteSession, NEW c, c = current
    PROVE  PoliteInv' /\ Mapped
<1>0. /\ PoliteCount /\ c \in Clients /\ c \in live /\ live \subseteq Clients
      /\ session \in [Clients -> Sessions] /\ setups \in [Clients -> Nat]
      /\ conn \in [Clients -> {"off", "pending", "open", "closed"}]
      /\ inbox \in [Clients -> Seq(Requests)]
  BY DEF PoliteInv, CoreInv, TypeOK, SweepShape, DeleteSession
<1>1. PoliteConn(c)
  BY <1>0 DEF PoliteInv
<1>2. /\ live' = live \ {c} /\ ReleaseUdpTransport /\ session' = session
      /\ setups' = [setups EXCEPT ![c] = 0] /\ conn' = [conn EXCEPT ![c] = "off"]
      /\ inbox' = [inbox EXCEPT ![c] = <<>>] /\ manners' = manners
      /\ session[c].stopped = "yes"
  BY DEF DeleteSession
<1>3. setups[c] > 0
  BY <1>0, <1>1, <1>2 DEF PoliteConn
<1>4. c \in UdpUsers /\ UdpUsers' = UdpUsers \ {c}
  BY <1>0, <1>2, <1>3 DEF UdpUsers
<1>5. socket = "open"
  BY <1>0, <1>4 DEF PoliteCount
<1>6. pc' # "panic"
  BY <1>5 DEF DeleteSession
<1>7. PoliteCount' /\ Transport!Quit(c)
  BY <1>0, <1>2, <1>4, <1>6, QuitUsers
<1>8. PoliteConn(c)' /\ PoliteInbox(c)'
  BY <1>0, <1>2 DEF PoliteConn, PoliteInbox
<1>9. ASSUME NEW d \in Clients \ {c} PROVE PoliteConn(d)' /\ PoliteInbox(d)'
  BY <1>0, <1>2, OtherPlayer DEF PoliteInv
<1>10. Mapped
  BY <1>0, <1>7 DEF Mapped, Transport!Next
<1>11. QED
  BY <1>2, <1>7, <1>8, <1>9, <1>10 DEF PoliteInv

\* The task's steps that change no session.
LEMMA FramePolite ==
    ASSUME CoreInv, PoliteInv, manners = "polite",
           KeepSession \/ EndOfPass \/ NoImage \/ StreamImage \/ StreamFrame \/ FreeImage
             \/ AcceptNobody \/ UNCHANGED vars
    PROVE  PoliteInv' /\ Mapped
<1>0. PoliteCount /\ live \subseteq Clients
  BY DEF PoliteInv, CoreInv, TypeOK
<1>1. UNCHANGED <<live, session, ref, socket, conn, inbox, manners, setups>>
  BY DEF KeepSession, EndOfPass, NoImage, StreamImage, StreamFrame, FreeImage, AcceptNobody,
         vars, udpVars, netVars
<1>2. pc' # "panic"
  <2>1. CASE StreamFrame
    <3>1. ASSUME NEW c \in UdpReceivers PROVE c \in UdpUsers
      <4>1. c \in Clients /\ c \in live /\ session[c].streaming = "yes"
        BY DEF UdpReceivers, SentTo
      <4>2. setups[c] > 0
        BY <4>1 DEF PoliteInv, PoliteConn
      <4>3. QED
        BY <4>1, <4>2 DEF UdpUsers
    <3>2. UdpReceivers # {} => socket = "open"
      BY <3>1, <1>0 DEF PoliteCount
    <3>3. QED
      BY <2>1, <3>2 DEF StreamFrame
  <2>2. CASE ~StreamFrame
    BY <2>2, <1>0 DEF PoliteCount, KeepSession, EndOfPass, NoImage, StreamImage, FreeImage,
                      AcceptNobody, vars
  <2>3. QED
    BY <2>1, <2>2
<1>3. UdpUsers' = UdpUsers
  BY <1>1 DEF UdpUsers
<1>4. PoliteCount' /\ Users' = Users /\ Socket' = Socket
  BY <1>0, <1>1, <1>2, <1>3, SameUsers
<1>5. \A d \in Clients : PoliteConn(d)' /\ PoliteInbox(d)'
  BY <1>1, OtherPlayer DEF PoliteInv
<1>6. QED
  BY <1>1, <1>4, <1>5 DEF PoliteInv, Mapped

\* A connection is opened, accepted, used or closed.
LEMMA PlayerPolite ==
    ASSUME CoreInv, PoliteInv, manners = "polite", NEW c \in Clients,
           AddSession(c) \/ Player(c)
    PROVE  PoliteInv' /\ Mapped
<1>0. /\ PoliteCount /\ PoliteConn(c) /\ PoliteInbox(c) /\ live \subseteq Clients
      /\ session \in [Clients -> Sessions] /\ setups \in [Clients -> Nat]
      /\ conn \in [Clients -> {"off", "pending", "open", "closed"}]
      /\ inbox \in [Clients -> Seq(Requests)]
  BY DEF PoliteInv, CoreInv, TypeOK
<1>1. /\ UNCHANGED <<ref, socket, manners, setups>> /\ pc' # "panic"
      /\ \A d \in Clients \ {c} : (d \in live' <=> d \in live) /\ session'[d] = session[d]
            /\ conn'[d] = conn[d] /\ inbox'[d] = inbox[d]
  <2>1. CASE AddSession(c)
    BY <2>1, <1>0 DEF AddSession, SessionBecomes, udpVars
  <2>2. CASE Connect(c)
    BY <2>2, <1>0 DEF Connect, udpVars, PoliteCount
  <2>3. CASE Send(c)
    BY <2>3, <1>0 DEF Send, udpVars, PoliteCount
  <2>4. CASE Leave(c)
    BY <2>4, <1>0 DEF Leave, udpVars, PoliteCount
  <2>5. QED
    BY <2>1, <2>2, <2>3, <2>4 DEF Player
<1>2. UdpUsers' = UdpUsers /\ PoliteConn(c)' /\ PoliteInbox(c)'
  <2>1. CASE AddSession(c)
    <3>1. c \notin live /\ setups[c] = 0
      BY <2>1, <1>0 DEF AddSession, PoliteConn
    <3>2. /\ live' = live \cup {c} /\ session'[c] = NewSession /\ conn'[c] = "open"
          /\ inbox' = inbox
      BY <2>1, <1>0 DEF AddSession, SessionBecomes
    <3>3. UdpUsers' = UdpUsers
      BY <3>1, <3>2, <1>1 DEF UdpUsers
    <3>4. PoliteConn(c)' /\ PoliteInbox(c)'
      BY <3>1, <3>2, <1>0, <1>1, NewSessionType DEF PoliteConn, PoliteInbox
    <3>5. QED
      BY <3>3, <3>4
  <2>2. CASE Connect(c)
    <3>1. live' = live /\ session' = session /\ inbox' = inbox /\ conn'[c] = "pending"
          /\ conn[c] = "off"
      BY <2>2, <1>0 DEF Connect
    <3>2. QED
      BY <3>1, <1>0, <1>1 DEF PoliteConn, PoliteInbox, UdpUsers
  <2>3. CASE Send(c)
    <3>1. PICK r \in Requests : Polite(c, r) /\ inbox' = [inbox EXCEPT ![c] = Append(@, r)]
      BY <2>3 DEF Send
    <3>2. inbox'[c] = Append(<<>>, r)
      BY <3>1, <1>0 DEF Polite
    <3>3. Head(inbox'[c]) = r
      BY <3>2, EmptyInbox, HeadTailAppend
    <3>4. PoliteInbox(c)'
      BY <3>1, <3>3, <1>1 DEF PoliteInbox, Polite
    <3>5. live' = live /\ session' = session /\ conn' = conn /\ conn[c] = "open"
      BY <2>3 DEF Send
    <3>6. QED
      BY <3>4, <3>5, <1>0, <1>1 DEF PoliteConn, UdpUsers
  <2>4. CASE Leave(c)
    <3>1. live' = live /\ session' = session /\ inbox' = inbox /\ conn'[c] = "closed"
          /\ conn[c] = "open" /\ setups[c] > 0
      BY <2>4, <1>0 DEF Leave
    <3>2. QED
      BY <3>1, <1>0, <1>1 DEF PoliteConn, PoliteInbox, UdpUsers
  <2>5. QED
    BY <2>1, <2>2, <2>3, <2>4 DEF Player
<1>3. PoliteCount' /\ Users' = Users /\ Socket' = Socket
  BY <1>0, <1>1, <1>2, SameUsers
<1>4. ASSUME NEW d \in Clients \ {c} PROVE PoliteConn(d)' /\ PoliteInbox(d)'
  BY <1>1, OtherPlayer DEF PoliteInv
<1>5. QED
  BY <1>1, <1>2, <1>3, <1>4 DEF PoliteInv, Mapped

LEMMA MannersKept == [Next]_vars => manners' = manners
<1> SUFFICES ASSUME [Next]_vars PROVE manners' = manners
  OBVIOUS
<1>1. CASE \E c \in Clients : HandleRequests(c)
  BY <1>1 DEF HandleRequests, ReadOther, ReadSetup, ReadPlay, ReadTeardown, ReadNothing,
              ReadClosed, Read, Visit
<1>2. CASE \E c \in Clients : AddSession(c) \/ Player(c)
  BY <1>2 DEF AddSession, Player, Connect, Send, Leave
<1>3. CASE DeleteSession \/ KeepSession \/ EndOfPass \/ NoImage \/ StreamImage
  BY <1>3 DEF DeleteSession, KeepSession, EndOfPass, NoImage, StreamImage, netVars
<1>4. CASE StreamFrame \/ FreeImage \/ AcceptNobody \/ Reset
  BY <1>4 DEF StreamFrame, FreeImage, AcceptNobody, Reset, netVars
<1>5. CASE UNCHANGED vars
  BY <1>5 DEF vars, netVars
<1>6. QED
  BY <1>1, <1>2, <1>3, <1>4, <1>5 DEF Next, Task

LEMMA StepPolite == CoreInv /\ PoliteInv /\ [Next]_vars => PoliteInv' /\ Mapped
<1> SUFFICES ASSUME CoreInv, PoliteInv, [Next]_vars PROVE PoliteInv' /\ Mapped
  OBVIOUS
<1>1. CASE manners # "polite"
  BY <1>1, MannersKept DEF PoliteInv, Mapped, Users, Socket
<1>2. CASE manners = "polite"
  <2>1. ~Reset
    BY <1>2 DEF PoliteInv, PoliteCount, Reset
  <2>2. ASSUME NEW c \in Clients, HandleRequests(c) \/ AddSession(c) \/ Player(c)
        PROVE  PoliteInv' /\ Mapped
    BY <1>2, <2>2, ReadPolite, PlayerPolite
  <2>3. CASE DeleteSession
    BY <1>2, <2>3, DeletePolite
  <2>4. CASE KeepSession \/ EndOfPass \/ NoImage \/ StreamImage \/ StreamFrame \/ FreeImage
               \/ AcceptNobody \/ UNCHANGED vars
    BY <1>2, <2>4, FramePolite
  <2>5. QED
    BY <2>1, <2>2, <2>3, <2>4 DEF Next, Task
<1>3. QED
  BY <1>1, <1>2

LEMMA PoliteAlways == Spec => []PoliteInv
BY InitPolite, StepPolite, CoreAlways, PTL DEF Spec

(***************************************************************************)
(* With any number of polite players m_udpRefCount is the number of        *)
(* sessions that were set up over UDP.                                     *)
(***************************************************************************)
THEOREM RefCountsUsersCorrect == Spec => []RefCountsUsers
<1>1. PoliteInv => RefCountsUsers
  BY DEF PoliteInv, PoliteCount, RefCountsUsers
<1>2. QED
  BY <1>1, PoliteAlways, PTL

(***************************************************************************)
(* ... and their frames only ever go through an open socket.               *)
(***************************************************************************)
THEOREM UdpSocketOpenCorrect == Spec => []UdpSocketOpen
<1>1. PoliteInv => UdpSocketOpen
  <2> SUFFICES ASSUME PoliteInv, manners = "polite", NEW c \in UdpReceivers
               PROVE  socket = "open"
    BY DEF UdpSocketOpen
  <2>1. c \in Clients /\ c \in live /\ session[c].streaming = "yes"
    BY DEF UdpReceivers, SentTo
  <2>2. c \in UdpUsers
    BY <2>1 DEF PoliteInv, PoliteConn, UdpUsers
  <2>3. QED
    BY <2>2 DEF PoliteInv, PoliteCount
<1>2. QED
  BY <1>1, PoliteAlways, PTL

(***************************************************************************)
(* With polite players the reference count and the sockets implement the   *)
(* transport shared by the sessions that were set up over UDP.             *)
(***************************************************************************)
THEOREM ImplementsUdpTransport == Spec => TransportSpec
<1>1. Init => Transport!Init
  BY DEF Init, Transport!Init, UdpUsers
<1>2. Mapped => [Transport!Next]_(Transport!vars)
  BY DEF Mapped, Transport!vars, Users, Socket
<1>3. QED
  BY <1>1, <1>2, StepPolite, CoreAlways, PoliteAlways, PTL
     DEF Spec, TransportSpec, Transport!Spec
=============================================================================

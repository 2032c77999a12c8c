------------------------ MODULE StreamServer_proofs -------------------------
(***************************************************************************)
(* The streaming sketch never loses a camera frame, never returns one      *)
(* twice, implements FrameLease, answers every request once, and sends     *)
(* images only where it may, for any number of browsers and driver         *)
(* buffers.                                                                *)
(***************************************************************************)
EXTENDS StreamServer, TLAPS

BorrowPoints == {"testFree", "check", "send", "free"}

(***************************************************************************)
(* The strengthening: while a frame is in use fb names the one borrowed    *)
(* buffer, at every other point nothing is borrowed.  (fb alone says       *)
(* nothing: free() leaves it stale.)                                       *)
(***************************************************************************)
LeaseShape == IF pc \in BorrowPoints THEN fb \in Buffers /\ held = {fb} ELSE held = {}

TaskTypeOK ==
    /\ pc \in TaskPoints
    /\ fb \in Buffers \cup {NoBuffer}
    /\ held \subseteq Buffers

LeaseInv == TaskTypeOK /\ LeaseShape

LEMMA InitLeaseInv == Init => LeaseInv
BY DEF Init, LeaseInv, LeaseShape, TaskTypeOK, TaskPoints, BorrowPoints

(***************************************************************************)
(* Each step preserves LeaseInv; those that capture or free also take one  *)
(* step of FrameLease, all others leave held alone.                        *)
(***************************************************************************)
LEMMA GetBorrows ==
  ASSUME LeaseInv, held = {}, CameraGet
  PROVE  fb' \in Buffers /\ held' = {fb'} /\ Lease!Borrow
BY DEF CameraGet, LeaseInv, TaskTypeOK, Lease!Borrow

LEMMA FreeGivesBack ==
  ASSUME LeaseInv, pc \in BorrowPoints, CameraFree
  PROVE  held' = {} /\ fb' = fb /\ Lease!GiveBack
BY DEF CameraFree, LeaseInv, LeaseShape, TaskTypeOK, Lease!GiveBack

LEMMA StepLeaseInv == LeaseInv /\ [Next]_vars => LeaseInv' /\ [Lease!Next]_held
<1> SUFFICES ASSUME LeaseInv, [Next]_vars
             PROVE  LeaseInv' /\ [Lease!Next]_held
  OBVIOUS
<1> USE DEF LeaseInv, LeaseShape, TaskTypeOK, TaskPoints, BorrowPoints, Lease!Next
<1>1. CASE TestCapture
  <2>1. CASE CameraGetFails /\ pc' = "routes"
    BY <1>1, <2>1 DEF TestCapture, CameraGetFails
  <2>2. CASE CameraGet /\ pc' = "testFree"
    BY <1>1, <2>2, GetBorrows DEF TestCapture
  <2>3. QED
    BY <1>1, <2>1, <2>2 DEF TestCapture
<1>2. CASE TestFree
  BY <1>2, FreeGivesBack DEF TestFree
<1>3. CASE CaptureFails
  BY <1>3 DEF CaptureFails, CameraGetFails, FailCapture
<1>4. CASE Capture
  BY <1>4, GetBorrows DEF Capture
<1>5. CASE BadFrame
  BY <1>5, FreeGivesBack DEF BadFrame, FailCapture
<1>6. CASE FreeFrame
  BY <1>6, FreeGivesBack DEF FreeFrame
<1>7. CASE ConnectToWiFi \/ InitializeCamera \/ RegisterRoutes
  BY <1>7 DEF ConnectToWiFi, InitializeCamera, RegisterRoutes, camVars
<1>8. CASE Loop
  BY <1>8 DEF Loop, TakeClient, DropClient, NoClientToHandle, MaintainWiFi, camVars
<1>9. CASE HandleNotFound \/ RefuseLogin \/ HandleRoot \/ HandleLive
  BY <1>9 DEF HandleNotFound, RefuseLogin, HandleRoot, HandleLive, Admitted, camVars
<1>10. CASE HandleJpg \/ HandleStream \/ StreamTurn
  BY <1>10 DEF HandleJpg, HandleStream, StreamTurn, Admitted, camVars
<1>11. CASE GoodFrame \/ SendFrame \/ EndRequest
  BY <1>11 DEF GoodFrame, SendFrame, EndRequest, camVars
<1>12. CASE \E c \in Clients : Connect(c) \/ Leave(c)
  BY <1>12 DEF Connect, Leave, camVars
<1>13. CASE LinkChanges
  BY <1>13 DEF LinkChanges, camVars
<1>14. CASE UNCHANGED vars
  BY <1>14 DEF vars, camVars
<1>15. QED
  BY <1>1, <1>2, <1>3, <1>4, <1>5, <1>6, <1>7, <1>8, <1>9, <1>10, <1>11, <1>12, <1>13, <1>14
     DEF Next, Task, Setup, Handler

LEMMA LeaseInvAlways == Spec => []LeaseInv
BY InitLeaseInv, StepLeaseInv, PTL DEF Spec

(***************************************************************************)
(* On every path of setup() and of every handler the frame is given back.  *)
(***************************************************************************)
THEOREM NoFrameLeakCorrect == Spec => []NoFrameLeak
<1>1. LeaseInv => NoFrameLeak
  BY DEF LeaseInv, LeaseShape, BorrowPoints, NoFrameLeak
<1>2. QED
  BY <1>1, LeaseInvAlways, PTL

(***************************************************************************)
(* Every call of Camera_Class::free finds the buffer the last get()        *)
(* borrowed: no buffer is returned twice.                                  *)
(***************************************************************************)
THEOREM FreesWhatItBorrowedCorrect == Spec => []FreesWhatItBorrowed
<1>1. LeaseInv => FreesWhatItBorrowed
  BY DEF LeaseInv, LeaseShape, BorrowPoints, FreesWhatItBorrowed
<1>2. QED
  BY <1>1, LeaseInvAlways, PTL

(***************************************************************************)
(* The sketch implements the frame lease (its safety part; the lease's     *)
(* fairness is checked by TLC).                                            *)
(***************************************************************************)
THEOREM ImplementsFrameLease == Spec => Lease!Spec
<1>1. Init => Lease!Init
  BY DEF Init, Lease!Init
<1>2. QED
  BY <1>1, LeaseInvAlways, StepLeaseInv, PTL DEF Spec, Lease!Spec

-----------------------------------------------------------------------------
(***************************************************************************)
(* The type invariant, and that handlers run only for a client.            *)
(***************************************************************************)
HandlerPoints == {"auth", "stream", "get", "check", "send", "free", "end"}

TypeInv == TypeOK /\ (pc \in HandlerPoints => current \in Clients)

LEMMA InitTypeInv == Init => TypeInv
BY DEF Init, TypeInv, TypeOK, TaskPoints, HandlerPoints, Routes

CameraTypeOK ==
    /\ fb \in Buffers \cup {NoBuffer}
    /\ held \subseteq Buffers
    /\ content \in [Buffers -> {"good", "short", "refill"}]

LEMMA GetType == ASSUME CameraTypeOK, CameraGet PROVE CameraTypeOK'
BY DEF CameraTypeOK, CameraGet

LEMMA FreeType == ASSUME CameraTypeOK, CameraFree PROVE CameraTypeOK'
BY DEF CameraTypeOK, CameraFree

Codes == {200, 401, 404, 500}

LEMMA AnswerType ==
  ASSUME status \in [Clients -> Seq(Codes)], current \in Clients, NEW code \in Codes, Answer(code)
  PROVE  /\ status' \in [Clients -> Seq(Codes)]
         /\ status'[current] = Append(status[current], code)
         /\ \A c \in Clients \ {current} : status'[c] = status[c]
<1>1. Append(status[current], code) \in Seq(Codes)
  OBVIOUS
<1>2. QED
  BY <1>1 DEF Answer

LEMMA StepTypeInv == TypeInv /\ [Next]_vars => TypeInv'
<1> SUFFICES ASSUME TypeInv, [Next]_vars PROVE TypeInv'
  OBVIOUS
<1> USE DEF TypeInv, TypeOK, TaskPoints, HandlerPoints, CameraTypeOK, Codes
<1> USE DEF taskVars, camVars, netVars, outVars
<1>1. CASE ConnectToWiFi \/ InitializeCamera \/ RegisterRoutes
  BY <1>1 DEF ConnectToWiFi, InitializeCamera, RegisterRoutes
<1>2. CASE TestCapture
  BY <1>2, GetType DEF TestCapture, CameraGetFails
<1>3. CASE TestFree
  BY <1>3, FreeType DEF TestFree
<1>4. CASE TakeClient
  BY <1>4 DEF TakeClient
<1>5. CASE DropClient
  BY <1>5 DEF DropClient
<1>6. CASE NoClientToHandle \/ MaintainWiFi
  BY <1>6 DEF NoClientToHandle, MaintainWiFi
<1>7. CASE HandleNotFound \/ RefuseLogin
  BY <1>7, AnswerType DEF HandleNotFound, RefuseLogin
<1>8. CASE HandleRoot \/ HandleLive
  BY <1>8, AnswerType DEF HandleRoot, HandleLive, Admitted
<1>9. CASE HandleJpg \/ HandleStream \/ StreamTurn
  BY <1>9, AnswerType DEF HandleJpg, HandleStream, StreamTurn, Admitted
<1>10. CASE CaptureFails
  BY <1>10, AnswerType DEF CaptureFails, CameraGetFails, FailCapture
<1>11. CASE Capture
  BY <1>11, GetType DEF Capture
<1>12. CASE BadFrame
  BY <1>12, AnswerType, FreeType DEF BadFrame, FailCapture
<1>13. CASE GoodFrame \/ SendFrame
  <2>1. CASE GoodFrame
    BY <2>1 DEF GoodFrame
  <2>2. CASE SendFrame
    <3>1. status' \in [Clients -> Seq(Codes)]
      BY <2>2, AnswerType DEF SendFrame
    <3>2. images' \in [Clients -> {"none", "one", "many"}]
      BY <2>2 DEF SendFrame
    <3>3. QED
      BY <2>2, <3>1, <3>2 DEF SendFrame
  <2>3. QED
    BY <1>13, <2>1, <2>2
<1>14. CASE FreeFrame
  BY <1>14, FreeType DEF FreeFrame
<1>15. CASE EndRequest
  BY <1>15 DEF EndRequest
<1>16. CASE \E c \in Clients : Connect(c) \/ Leave(c)
  <2> PICK c \in Clients : Connect(c) \/ Leave(c)
    BY <1>16
  <2>1. CASE Connect(c)
    <3>1. backlog' \in Seq(Clients)
      BY <2>1 DEF Connect
    <3>2. request' \in [Clients -> [route : Routes, login : {"right", "wrong"}]]
      BY <2>1 DEF Connect
    <3>3. status' \in [Clients -> Seq(Codes)]
      BY <2>1 DEF Connect
    <3>4. QED
      BY <2>1, <3>1, <3>2, <3>3 DEF Connect
  <2>2. CASE Leave(c)
    BY <2>2 DEF Leave
  <2>3. QED
    BY <2>1, <2>2
<1>17. CASE LinkChanges
  BY <1>17 DEF LinkChanges
<1>18. CASE UNCHANGED vars
  BY <1>18 DEF vars
<1>19. QED
  BY <1>1, <1>2, <1>3, <1>4, <1>5, <1>6, <1>7, <1>8, <1>9, <1>10, <1>11, <1>12, <1>13,
     <1>14, <1>15, <1>16, <1>17, <1>18
     DEF Next, Task, Setup, Loop, Handler

LEMMA TypeInvAlways == Spec => []TypeInv
BY InitTypeInv, StepTypeInv, PTL DEF Spec

(***************************************************************************)
(* The whole state keeps its type, from boot on.                           *)
(***************************************************************************)
THEOREM TypeCorrect == Spec => []TypeOK
<1>1. TypeInv => TypeOK
  BY DEF TypeInv
<1>2. QED
  BY <1>1, TypeInvAlways, PTL

-----------------------------------------------------------------------------
(***************************************************************************)
(* Answers.  A waiting client has been sent nothing and is not the one     *)
(* being handled; nobody is queued twice, because connecting needs a       *)
(* connection that is off.                                                 *)
(***************************************************************************)
Fresh(c) == status[c] = <<>> /\ images[c] = "none"

QueueShape ==
    /\ \A k \in 1 .. Len(backlog) : /\ Fresh(backlog[k])
                                    /\ conn[backlog[k]] # "off"
                                    /\ pc \in HandlerPoints => backlog[k] # current
    /\ \A j, k \in 1 .. Len(backlog) : backlog[j] = backlog[k] => j = k
    /\ pc \in HandlerPoints => conn[current] # "off"

(***************************************************************************)
(* What the client being handled has been sent, at each point of a         *)
(* handler; past requireHttpAuth its login is right.                       *)
(***************************************************************************)
OnStream == request[current].route = "/stream"

AnswerShape ==
    /\ pc = "auth" => Fresh(current)
    /\ pc \in {"stream", "get", "check", "send", "free"} => request[current].login = "right"
    /\ pc \in {"get", "check", "send"} =>
          IF OnJpg THEN Fresh(current) ELSE OnStream /\ status[current] = <<200>>
    /\ pc = "stream" => OnStream /\ status[current] = <<200>>
    /\ pc = "free" => /\ status[current] = <<200>>
                      /\ IF OnJpg THEN images[current] = "one" ELSE OnStream
    /\ AnsweredOnce

AnswerInv == TypeInv /\ QueueShape /\ AnswerShape

LEMMA InitAnswerInv == Init => AnswerInv
BY InitTypeInv DEF Init, AnswerInv, QueueShape, AnswerShape, AnsweredOnce, HandlerPoints

\* The queue without its oldest connection.
LEMMA TailOfQueue ==
  ASSUME backlog \in Seq(Clients), backlog # <<>>
  PROVE  /\ Head(backlog) = backlog[1] /\ 1 \in 1 .. Len(backlog)
         /\ \A k \in 1 .. Len(Tail(backlog)) :
               k + 1 \in 1 .. Len(backlog) /\ k + 1 # 1 /\ Tail(backlog)[k] = backlog[k + 1]
OBVIOUS

\* A step of a handler touches only what its own client is sent.
LEMMA HandlerStep ==
  ASSUME AnswerInv, pc \in HandlerPoints, UNCHANGED <<current, backlog, conn>>,
         \A c \in Clients \ {current} : status'[c] = status[c] /\ images'[c] = images[c]
  PROVE  QueueShape'
<1>1. \A k \in 1 .. Len(backlog) : backlog[k] \in Clients \ {current}
  BY DEF AnswerInv, TypeInv, TypeOK, QueueShape
<1>2. QED
  BY <1>1 DEF AnswerInv, QueueShape, Fresh

LEMMA LeaveKeepsQueue ==
  ASSUME AnswerInv, NEW c \in Clients, Leave(c)
  PROVE  QueueShape'
<1>1. UNCHANGED <<pc, current, backlog, status, images>>
  BY DEF Leave, outVars
<1>2. \A d \in Clients : conn[d] # "off" => conn'[d] # "off"
  BY DEF Leave, AnswerInv, TypeInv, TypeOK
<1>3. \A k \in 1 .. Len(backlog) : backlog[k] \in Clients
  BY DEF AnswerInv, TypeInv, TypeOK
<1>4. \A k \in 1 .. Len(backlog) : conn'[backlog[k]] # "off"
  BY <1>2, <1>3 DEF AnswerInv, QueueShape
<1>5. pc \in HandlerPoints => conn'[current] # "off"
  BY <1>2 DEF AnswerInv, QueueShape, TypeInv
<1>6. QED
  BY <1>1, <1>4, <1>5 DEF AnswerInv, QueueShape, Fresh

LEMMA ConnectQueues ==
  ASSUME AnswerInv, NEW c \in Clients, Connect(c)
  PROVE  QueueShape'
<1> DEFINE n == Len(backlog)
<1>1. backlog \in Seq(Clients) /\ n \in Nat /\ \A k \in 1 .. n : backlog[k] \in Clients
  BY DEF AnswerInv, TypeInv, TypeOK
<1>2. backlog' = Append(backlog, c) /\ conn[c] = "off" /\ UNCHANGED <<pc, current>>
  BY DEF Connect
<1>3. /\ \A k \in 1 .. n : backlog[k] # c
      /\ pc \in HandlerPoints => current # c /\ current \in Clients
  BY <1>1, <1>2 DEF AnswerInv, QueueShape, TypeInv
<1>4. /\ Len(backlog') = n + 1 /\ backlog'[n + 1] = c
      /\ \A k \in 1 .. n : backlog'[k] = backlog[k]
      /\ \A k \in 1 .. n + 1 : k = n + 1 \/ k \in 1 .. n
  BY <1>1, <1>2
<1>5. /\ status'[c] = <<>> /\ images'[c] = "none" /\ conn'[c] = "queued"
      /\ \A d \in Clients \ {c} : status'[d] = status[d] /\ images'[d] = images[d] /\ conn'[d] = conn[d]
  BY DEF Connect, AnswerInv, TypeInv, TypeOK
<1>6. ASSUME NEW k \in 1 .. n + 1
      PROVE  Fresh(backlog[k])' /\ conn'[backlog'[k]] # "off"
             /\ (pc \in HandlerPoints => backlog'[k] # current)
  <2>1. CASE k = n + 1
    BY <2>1, <1>3, <1>4, <1>5 DEF Fresh
  <2>2. CASE k \in 1 .. n
    BY <2>2, <1>1, <1>3, <1>4, <1>5 DEF Fresh, AnswerInv, QueueShape
  <2>3. QED
    BY <1>4, <2>1, <2>2
<1>7. \A j, k \in 1 .. n + 1 : backlog'[j] = backlog'[k] => j = k
  BY <1>3, <1>4 DEF AnswerInv, QueueShape
<1>8. pc \in HandlerPoints => conn'[current] # "off"
  BY <1>3, <1>5 DEF AnswerInv, QueueShape
<1>9. QED
  BY <1>2, <1>4, <1>6, <1>7, <1>8 DEF QueueShape

LEMMA StepQueueShape == AnswerInv /\ [Next]_vars => QueueShape'
<1> SUFFICES ASSUME AnswerInv, [Next]_vars PROVE QueueShape'
  OBVIOUS
<1> USE DEF AnswerInv, TypeInv, TypeOK, QueueShape, Fresh, HandlerPoints
<1> USE DEF taskVars, camVars, netVars, outVars
<1>1. CASE Setup
  BY <1>1 DEF Setup, ConnectToWiFi, InitializeCamera, TestCapture, TestFree, RegisterRoutes
<1>2. CASE TakeClient
  BY <1>2, TailOfQueue DEF TakeClient
<1>3. CASE DropClient
  BY <1>3, TailOfQueue DEF DropClient
<1>4. CASE NoClientToHandle \/ MaintainWiFi
  BY <1>4 DEF NoClientToHandle, MaintainWiFi
<1>5. CASE HandleNotFound \/ RefuseLogin \/ HandleRoot \/ HandleLive
  <2>1. \A c \in Clients \ {current} : status'[c] = status[c] /\ images'[c] = images[c]
    BY <1>5, AnswerType DEF Codes, HandleNotFound, RefuseLogin, HandleRoot, HandleLive, Admitted
  <2>2. QED
    BY <1>5, <2>1, HandlerStep DEF HandleNotFound, RefuseLogin, HandleRoot, HandleLive, Admitted
<1>6. CASE HandleJpg \/ HandleStream \/ StreamTurn
  <2>1. \A c \in Clients \ {current} : status'[c] = status[c] /\ images'[c] = images[c]
    BY <1>6, AnswerType DEF Codes, HandleJpg, HandleStream, StreamTurn, Admitted
  <2>2. QED
    BY <1>6, <2>1, HandlerStep DEF HandleJpg, HandleStream, StreamTurn, Admitted
<1>7. CASE CaptureFails \/ BadFrame
  <2>1. \A c \in Clients \ {current} : status'[c] = status[c] /\ images'[c] = images[c]
    BY <1>7, AnswerType DEF Codes, CaptureFails, BadFrame, FailCapture
  <2>2. QED
    BY <1>7, <2>1, HandlerStep DEF CaptureFails, BadFrame
<1>8. CASE Capture \/ GoodFrame \/ FreeFrame
  BY <1>8, HandlerStep DEF Capture, GoodFrame, FreeFrame
<1>9. CASE SendFrame
  <2>1. \A c \in Clients \ {current} : status'[c] = status[c] /\ images'[c] = images[c]
    BY <1>9, AnswerType DEF Codes, SendFrame
  <2>2. QED
    BY <1>9, <2>1, HandlerStep DEF SendFrame
<1>10. CASE EndRequest
  BY <1>10 DEF EndRequest
<1>11. CASE \E c \in Clients : Connect(c) \/ Leave(c)
  BY <1>11, ConnectQueues, LeaveKeepsQueue
<1>12. CASE LinkChanges
  BY <1>12 DEF LinkChanges
<1>13. CASE UNCHANGED vars
  BY <1>13 DEF vars
<1>14. QED
  BY <1>1, <1>2, <1>3, <1>4, <1>5, <1>6, <1>7, <1>8, <1>9, <1>10, <1>11, <1>12, <1>13
     DEF Next, Task, Loop, Handler

\* Other clients connecting and leaving do not change what the current one is sent.
LEMMA OthersAnswerShape ==
  ASSUME AnswerInv, NEW c \in Clients, Connect(c) \/ Leave(c)
  PROVE  AnswerShape'
<1> USE DEF AnswerInv, TypeInv, TypeOK
<1>1. pc' = pc /\ current' = current
  BY DEF Connect, Leave
<1>2. ASSUME pc \in HandlerPoints
      PROVE  /\ status'[current] = status[current] /\ images'[current] = images[current]
             /\ request'[current] = request[current]
             /\ conn[current] = "gone" => conn'[current] = "gone"
  BY <1>2 DEF Connect, Leave, outVars, QueueShape
<1>3. CASE pc \in HandlerPoints
  BY <1>1, <1>2, <1>3 DEF AnswerShape, AnsweredOnce, OnJpg, OnStream, Fresh, HandlerPoints
<1>4. CASE pc \notin HandlerPoints
  BY <1>1, <1>4 DEF AnswerShape, AnsweredOnce, HandlerPoints
<1>5. QED
  BY <1>3, <1>4

LEMMA StepAnswerShape == AnswerInv /\ [Next]_vars => AnswerShape'
<1> SUFFICES ASSUME AnswerInv, [Next]_vars PROVE AnswerShape'
  OBVIOUS
<1>t. /\ status \in [Clients -> Seq(Codes)] /\ images \in [Clients -> {"none", "one", "many"}]
      /\ pc \in HandlerPoints => current \in Clients /\ request[current].route \in Routes
      /\ AnswerShape
  BY DEF AnswerInv, TypeInv, TypeOK, Codes
<1> USE DEF AnswerShape, AnsweredOnce, OnJpg, OnStream, Fresh, HandlerPoints
<1>1. CASE Setup
  BY <1>1 DEF Setup, ConnectToWiFi, InitializeCamera, TestCapture, TestFree, RegisterRoutes
<1>2. CASE TakeClient
  BY <1>2, TailOfQueue DEF TakeClient, outVars, AnswerInv, TypeInv, TypeOK, QueueShape
<1>3. CASE DropClient \/ NoClientToHandle \/ MaintainWiFi
  BY <1>3 DEF DropClient, NoClientToHandle, MaintainWiFi
<1>4. CASE HandleNotFound \/ RefuseLogin \/ HandleRoot \/ HandleLive
  <2>1. PICK code \in Codes : Answer(code) /\ (OnJpg => code # 200)
    BY <1>4 DEF Codes, HandleNotFound, RefuseLogin, HandleRoot, HandleLive, Admitted
  <2>2. pc = "auth" /\ pc' = "end" /\ UNCHANGED <<current, request, images>>
    BY <1>4 DEF HandleNotFound, RefuseLogin, HandleRoot, HandleLive, Admitted, netVars
  <2>3. status'[current] = <<code>>
    BY <1>t, <2>1, <2>2, AnswerType
  <2>4. QED
    BY <1>t, <2>1, <2>2, <2>3
<1>5. CASE HandleJpg \/ HandleStream \/ StreamTurn
  <2>1. CASE HandleJpg
    BY <1>t, <2>1 DEF HandleJpg, Admitted, netVars, outVars
  <2>2. CASE HandleStream
    <3>1. CASE conn[current] = "gone"
      BY <1>t, <2>2, <3>1 DEF HandleStream, Admitted, netVars
    <3>2. CASE conn[current] # "gone"
      BY <1>t, <2>2, <3>2, AnswerType DEF Codes, HandleStream, Admitted, netVars
    <3>3. QED
      BY <3>1, <3>2
  <2>3. CASE StreamTurn
    BY <1>t, <2>3 DEF StreamTurn, netVars, outVars
  <2>4. QED
    BY <1>5, <2>1, <2>2, <2>3
<1>6. CASE CaptureFails \/ BadFrame
  <2>1. /\ pc \in {"get", "check"} /\ pc' = "end" /\ UNCHANGED <<current, request, images>>
        /\ IF OnJpg THEN Answer(500) ELSE UNCHANGED status
    BY <1>6 DEF CaptureFails, BadFrame, FailCapture, netVars
  <2>2. CASE OnJpg
    <3>1. status'[current] = <<500>>
      BY <1>t, <2>1, <2>2, AnswerType DEF Codes
    <3>2. QED
      BY <1>t, <2>1, <2>2, <3>1
  <2>3. CASE ~OnJpg
    <3>1. UNCHANGED status
      BY <2>1, <2>3
    <3>2. status[current] = <<200>> /\ OnStream
      BY <1>t, <2>1, <2>3
    <3>3. status'[current] = <<200>> /\ Len(status'[current]) = 1 /\ OnStream'
      BY <2>1, <3>1, <3>2
    <3>4. QED
      BY <2>1, <3>3
  <2>4. QED
    BY <2>2, <2>3
<1>7. CASE Capture \/ GoodFrame \/ FreeFrame
  <2>1. CASE Capture
    BY <1>t, <2>1 DEF Capture, netVars, outVars
  <2>2. CASE GoodFrame
    BY <1>t, <2>2 DEF GoodFrame, netVars, outVars
  <2>3. CASE FreeFrame
    BY <1>t, <2>3 DEF FreeFrame, netVars, outVars
  <2>4. QED
    BY <1>7, <2>1, <2>2, <2>3
<1>8. CASE SendFrame
  BY <1>8, <1>t, AnswerType DEF Codes, SendFrame, netVars
<1>9. CASE EndRequest
  BY <1>9 DEF EndRequest
<1>10. CASE \E c \in Clients : Connect(c) \/ Leave(c)
  BY <1>10, OthersAnswerShape
<1>11. CASE LinkChanges
  BY <1>11, <1>t DEF LinkChanges, netVars, outVars
<1>12. CASE UNCHANGED vars
  BY <1>12, <1>t DEF vars, netVars, outVars
<1>13. QED
  BY <1>1, <1>2, <1>3, <1>4, <1>5, <1>6, <1>7, <1>8, <1>9, <1>10, <1>11, <1>12
     DEF Next, Task, Loop, Handler

LEMMA AnswerInvAlways == Spec => []AnswerInv
<1>1. AnswerInv /\ [Next]_vars => AnswerInv'
  BY StepTypeInv, StepQueueShape, StepAnswerShape DEF AnswerInv
<1>2. QED
  BY InitAnswerInv, <1>1, PTL DEF Spec

(***************************************************************************)
(* Every request is answered with one status line, and /jpg says 200       *)
(* exactly when one image follows.                                         *)
(***************************************************************************)
THEOREM AnsweredOnceCorrect == Spec => []AnsweredOnce
<1>1. AnswerInv => AnsweredOnce
  BY DEF AnswerInv, AnswerShape
<1>2. QED
  BY <1>1, AnswerInvAlways, PTL

\* GoodFrame's test holds until the frame is sent: a borrowed buffer is not refilled.
FrameInv == pc = "send" => content[fb] = "good"

LEMMA StepFrameInv == FrameInv /\ [Next]_vars => FrameInv'
<1> SUFFICES ASSUME FrameInv, [Next]_vars, pc' = "send" PROVE content'[fb'] = "good"
  BY DEF FrameInv
<1> USE DEF FrameInv, camVars, taskVars
<1>1. CASE Setup \/ Loop
  BY <1>1 DEF Setup, ConnectToWiFi, InitializeCamera, TestCapture, TestFree, RegisterRoutes,
              Loop, TakeClient, DropClient, NoClientToHandle, MaintainWiFi
<1>2. CASE Handler
  BY <1>2 DEF Handler, HandleNotFound, RefuseLogin, HandleRoot, HandleLive, HandleJpg, HandleStream,
              StreamTurn, CaptureFails, Capture, BadFrame, FailCapture, GoodFrame, SendFrame,
              FreeFrame, EndRequest
<1>3. CASE (\E c \in Clients : Connect(c) \/ Leave(c)) \/ LinkChanges
  BY <1>3 DEF Connect, Leave, LinkChanges
<1>4. CASE UNCHANGED vars
  BY <1>4 DEF vars
<1>5. QED
  BY <1>1, <1>2, <1>3, <1>4 DEF Next, Task

(***************************************************************************)
(* Image bytes go only to the client being handled, after its login was    *)
(* found right and its 200, and only from a whole frame still borrowed.    *)
(***************************************************************************)
THEOREM ImagesSentSafelyCorrect == Spec => ImagesSentSafely
<1> DEFINE Sent(c) == images'[c] \notin {images[c], "none"} =>
                         /\ c = current
                         /\ request[c].login = "right"
                         /\ status'[c] = <<200>>
                         /\ fb \in held /\ content[fb] = "good"
<1>1. AnswerInv /\ LeaseInv /\ FrameInv /\ [Next]_vars => [\A c \in Clients : Sent(c)]_vars
  <2> SUFFICES ASSUME AnswerInv, LeaseInv, FrameInv, Next, NEW c \in Clients,
                      images'[c] \notin {images[c], "none"}
               PROVE  Sent(c)
    BY DEF Sent
  <2>1. SendFrame
    <3>1. CASE Setup \/ Loop \/ LinkChanges
      BY <3>1 DEF Setup, ConnectToWiFi, InitializeCamera, TestCapture, TestFree, RegisterRoutes,
                  Loop, TakeClient, DropClient, NoClientToHandle, MaintainWiFi, LinkChanges, outVars
    <3>2. CASE Handler
      BY <3>2 DEF Handler, HandleNotFound, RefuseLogin, HandleRoot, HandleLive, HandleJpg,
                  HandleStream, StreamTurn, CaptureFails, Capture, BadFrame, GoodFrame,
                  FreeFrame, EndRequest, outVars
    <3>3. CASE \E d \in Clients : Connect(d) \/ Leave(d)
      BY <3>3 DEF Connect, Leave, outVars, AnswerInv, TypeInv, TypeOK
    <3>4. QED
      BY <3>1, <3>2, <3>3 DEF Next, Task
  <2>2. c = current
    BY <2>1 DEF SendFrame, AnswerInv, TypeInv, TypeOK
  <2>3. request[c].login = "right" /\ status'[c] = <<200>>
    <3>1. status[c] \in Seq(Codes) /\ status \in [Clients -> Seq(Codes)]
      BY DEF AnswerInv, TypeInv, TypeOK, Codes
    <3>2. request[c].login = "right" /\ (IF OnJpg THEN status[c] = <<>> ELSE status[c] = <<200>>)
      BY <2>1, <2>2 DEF SendFrame, AnswerInv, AnswerShape, Fresh
    <3>3. OnJpg => status'[c] = Append(status[c], 200)
      BY <2>1, <2>2, <3>1, AnswerType DEF SendFrame, Codes
    <3>4. ~OnJpg => status'[c] = status[c]
      BY <2>1 DEF SendFrame
    <3>5. QED
      BY <3>2, <3>3, <3>4
  <2>4. fb \in held /\ content[fb] = "good"
    BY <2>1 DEF SendFrame, LeaseInv, LeaseShape, BorrowPoints, FrameInv
  <2>5. QED
    BY <2>2, <2>3, <2>4
<1>2. Init => FrameInv
  BY DEF Init, FrameInv
<1>3. QED
  BY <1>1, <1>2, StepFrameInv, AnswerInvAlways, LeaseInvAlways, PTL DEF Spec, ImagesSentSafely, Sent
=============================================================================

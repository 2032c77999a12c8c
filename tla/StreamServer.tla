---------------------------- MODULE StreamServer ----------------------------
(***************************************************************************)
(* m5cam_stream_server.ino: the Arduino task that runs setup() and loop()  *)
(* of the Wi-Fi snapshot/MJPEG camera, its use of the camera driver        *)
(* through Camera_Class, and the browsers it serves one at a time.         *)
(*                                                                         *)
(* The task is sequential; between any two of its steps browsers connect   *)
(* and leave, and the Wi-Fi link drops or comes back.  The retry timer of  *)
(* maintainWiFi is the subject of module WifiRetry: here the call has no   *)
(* effect on the state, because the link may come back with or without it. *)
(***************************************************************************)
EXTENDS Naturals, Sequences, FiniteSets

CONSTANTS
    Clients,    \* connections that browsers open (reused, one at a time each)
    Buffers,    \* the camera driver's frame buffers (fb_count = 2)
    NoBuffer,   \* a null camera_fb_t pointer
    NoClient    \* WebServer has no current client

ASSUME NoBufferAssumption == NoBuffer \notin Buffers
ASSUME NoClientAssumption == NoClient \notin Clients

Routes == {"/", "/live", "/jpg", "/stream", "other"}

VARIABLES
    pc,         \* where the Arduino task is
    tries,      \* i of the loop in testSingleCapture
    wifi,       \* WiFi.status(): "up" is WL_CONNECTED
    camera,     \* "ready" once esp_camera_init succeeded, else "failed"
    server,     \* "on" once server.begin() has run
    fb,         \* Camera_Class::fb, possibly stale
    held,       \* buffers handed out by esp_camera_fb_get and not returned
    content,    \* per buffer: "good", "short" (len < 256), or being refilled
    current,    \* the client whose request WebServer is handling
    backlog,    \* connections waiting in the listening socket, in order
    conn,       \* per client: state of its TCP connection
    request,    \* per client: route and whether its credentials are right
    status,     \* per client: status lines sent in answer to its request
    images      \* per client: frames sent to it, "none", "one" or "many"

camVars == <<fb, held, content>>
netVars == <<current, backlog, conn, request>>
outVars == <<status, images>>
vars == <<pc, tries, wifi, camera, server, camVars, netVars, outVars>>

TaskPoints == {"connect", "initCamera", "testGet", "testFree", "routes", "loop",
               "auth", "stream", "get", "check", "send", "free", "end", "maintain"}

TypeOK ==
    /\ pc \in TaskPoints
    /\ tries \in 0 .. 2
    /\ wifi \in {"up", "down"}
    /\ camera \in {"ready", "failed"}
    /\ server \in {"on", "off"}
    /\ fb \in Buffers \cup {NoBuffer}
    /\ held \subseteq Buffers
    /\ content \in [Buffers -> {"good", "short", "refill"}]
    /\ current \in Clients \cup {NoClient}
    /\ backlog \in Seq(Clients)
    /\ conn \in [Clients -> {"off", "queued", "open", "gone"}]
    /\ request \in [Clients -> [route : Routes, login : {"right", "wrong"}]]
    /\ status \in [Clients -> Seq({200, 401, 404, 500})]
    /\ images \in [Clients -> {"none", "one", "many"}]

Init ==
    /\ pc = "connect"
    /\ tries = 0
    /\ wifi = "down"
    /\ camera = "failed"
    /\ server = "off"
    /\ fb = NoBuffer
    /\ held = {}
    /\ content = [b \in Buffers |-> "refill"]
    /\ current = NoClient
    /\ backlog = <<>>
    /\ conn = [c \in Clients |-> "off"]
    /\ request = [c \in Clients |-> [route |-> "/", login |-> "wrong"]]
    /\ status = [c \in Clients |-> <<>>]
    /\ images = [c \in Clients |-> "none"]

-----------------------------------------------------------------------------
(***************************************************************************)
(* Camera_Class over the driver.  A capture may time out at any moment and *)
(* always fails when the driver did not start or has no buffer left; the   *)
(* driver refills every buffer it holds.                                   *)
(***************************************************************************)
CameraGet ==
    /\ camera = "ready"
    /\ \E b \in Buffers \ held : \E quality \in {"good", "short"} :
          /\ fb' = b
          /\ held' = held \cup {b}
          /\ content' = [content EXCEPT ![b] = quality]

CameraGetFails == fb' = NoBuffer /\ UNCHANGED <<held, content>>

\* fb keeps its value: a second call would return the same buffer again.
CameraFree ==
    /\ held' = held \ {fb}
    /\ content' = [b \in Buffers |-> IF b = fb THEN "refill" ELSE content[b]]
    /\ UNCHANGED fb

-----------------------------------------------------------------------------
(***************************************************************************)
(* setup(): connectToWiFi gives up after 30 s, so boot goes on with or     *)
(* without the link; then the camera is started (the status LED shows the  *)
(* outcome), three test captures are made, and the routes are registered   *)
(* and the server started only if the link is up at that moment.           *)
(***************************************************************************)
ConnectToWiFi ==
    /\ pc = "connect"
    /\ pc' = "initCamera"
    /\ UNCHANGED <<tries, wifi, camera, server, camVars, netVars, outVars>>

InitializeCamera ==
    /\ pc = "initCamera"
    /\ camera' \in {"ready", "failed"}
    /\ pc' = "testGet"
    /\ UNCHANGED <<tries, wifi, server, camVars, netVars, outVars>>

\* testSingleCapture: a failed capture ends it; the third frame is freed at 239.
TestCapture ==
    /\ pc = "testGet"
    /\ \/ CameraGetFails /\ pc' = "routes"
       \/ CameraGet /\ pc' = "testFree"
    /\ UNCHANGED <<tries, wifi, camera, server, netVars, outVars>>

TestFree ==
    /\ pc = "testFree"
    /\ CameraFree
    /\ IF tries < 2 THEN tries' = tries + 1 /\ pc' = "testGet"
                    ELSE pc' = "routes" /\ UNCHANGED tries
    /\ UNCHANGED <<wifi, camera, server, netVars, outVars>>

RegisterRoutes ==
    /\ pc = "routes"
    /\ server' = IF wifi = "up" THEN "on" ELSE "off"
    /\ pc' = "loop"
    /\ UNCHANGED <<tries, wifi, camera, camVars, netVars, outVars>>

Setup == ConnectToWiFi \/ InitializeCamera \/ TestCapture \/ TestFree \/ RegisterRoutes

-----------------------------------------------------------------------------
(***************************************************************************)
(* loop(): handleClient is called only while the link is up.  It takes the *)
(* oldest connection; a browser that has left by then may still have its   *)
(* request handled, if the bytes arrived before it left.                   *)
(***************************************************************************)
taskVars == <<tries, wifi, camera, server>>

Answer(code) == status' = [status EXCEPT ![current] = Append(@, code)]

TakeClient ==
    /\ pc = "loop"
    /\ wifi = "up"
    /\ backlog # <<>>
    /\ current' = Head(backlog)
    /\ backlog' = Tail(backlog)
    /\ conn' = [conn EXCEPT ![Head(backlog)] = IF @ = "gone" THEN "gone" ELSE "open"]
    /\ pc' = "auth"
    /\ UNCHANGED <<request, taskVars, camVars, outVars>>

DropClient ==
    /\ pc = "loop"
    /\ wifi = "up"
    /\ backlog # <<>>
    /\ conn[Head(backlog)] = "gone"
    /\ conn' = [conn EXCEPT ![Head(backlog)] = "off"]
    /\ backlog' = Tail(backlog)
    /\ pc' = "maintain"
    /\ UNCHANGED <<current, request, taskVars, camVars, outVars>>

NoClientToHandle ==
    /\ pc = "loop"
    /\ wifi = "down" \/ backlog = <<>>
    /\ pc' = "maintain"
    /\ UNCHANGED <<taskVars, camVars, netVars, outVars>>

MaintainWiFi ==
    /\ pc = "maintain"
    /\ pc' = "loop"
    /\ UNCHANGED <<taskVars, camVars, netVars, outVars>>

\* No handler matches: WebServer answers by itself, without authentication.
HandleNotFound ==
    /\ pc = "auth"
    /\ request[current].route = "other"
    /\ Answer(404)
    /\ pc' = "end"
    /\ UNCHANGED <<taskVars, camVars, netVars, images>>

\* requireHttpAuth fails: every handler then returns at once.
RefuseLogin ==
    /\ pc = "auth"
    /\ request[current].route # "other"
    /\ request[current].login = "wrong"
    /\ Answer(401)
    /\ pc' = "end"
    /\ UNCHANGED <<taskVars, camVars, netVars, images>>

\* requireHttpAuth succeeds in the handler of this route.
Admitted(route) ==
    /\ pc = "auth"
    /\ request[current].route = route
    /\ request[current].login = "right"

HandleRoot ==
    /\ Admitted("/")
    /\ Answer(200)
    /\ pc' = "end"
    /\ UNCHANGED <<taskVars, camVars, netVars, images>>

HandleLive ==
    /\ Admitted("/live")
    /\ Answer(200)
    /\ pc' = "end"
    /\ UNCHANGED <<taskVars, camVars, netVars, images>>

HandleJpg ==
    /\ Admitted("/jpg")
    /\ pc' = "get"
    /\ UNCHANGED <<taskVars, camVars, netVars, outVars>>

\* handleStream: nothing is sent to a browser that has already left.
HandleStream ==
    /\ Admitted("/stream")
    /\ IF conn[current] = "gone"
       THEN pc' = "end" /\ UNCHANGED status
       ELSE pc' = "stream" /\ Answer(200)
    /\ UNCHANGED <<taskVars, camVars, netVars, images>>

\* Mutant: the loop does not ask whether the browser is still there.
MutStreamTurn ==
    /\ pc = "stream"
    /\ pc' = "get"
    /\ UNCHANGED <<taskVars, camVars, netVars, outVars>>

StreamTurn ==
    /\ pc = "stream"
    /\ pc' = IF conn[current] = "open" THEN "get" ELSE "end"
    /\ UNCHANGED <<taskVars, camVars, netVars, outVars>>

-----------------------------------------------------------------------------
(***************************************************************************)
(* The capture shared by /jpg and /stream.  A failure is answered with 500 *)
(* on /jpg and ends the stream on /stream, whose 200 is already out.       *)
(***************************************************************************)
OnJpg == request[current].route = "/jpg"

FailCapture ==
    /\ pc' = "end"
    /\ IF OnJpg THEN Answer(500) ELSE UNCHANGED status

\* Mutant: the failed capture is not answered.
MutCaptureFails ==
    /\ pc = "get"
    /\ CameraGetFails
    /\ pc' = "end"
    /\ UNCHANGED <<taskVars, netVars, outVars>>

CaptureFails ==
    /\ pc = "get"
    /\ CameraGetFails
    /\ FailCapture
    /\ UNCHANGED <<taskVars, netVars, images>>

Capture ==
    /\ pc = "get"
    /\ CameraGet
    /\ pc' = "check"
    /\ UNCHANGED <<taskVars, netVars, outVars>>

\* Mutant: the rejected frame is not freed.
MutBadFrame ==
    /\ pc = "check"
    /\ fb = NoBuffer \/ content[fb] # "good"
    /\ FailCapture
    /\ UNCHANGED <<taskVars, camVars, netVars, images>>

BadFrame ==
    /\ pc = "check"
    /\ fb = NoBuffer \/ content[fb] # "good"
    /\ CameraFree
    /\ FailCapture
    /\ UNCHANGED <<taskVars, netVars, images>>

\* Mutant: the frame is freed before it is sent.
MutGoodFrame ==
    /\ pc = "check"
    /\ fb # NoBuffer /\ content[fb] = "good"
    /\ CameraFree
    /\ pc' = "send"
    /\ UNCHANGED <<taskVars, netVars, outVars>>

GoodFrame ==
    /\ pc = "check"
    /\ fb # NoBuffer /\ content[fb] = "good"
    /\ pc' = "send"
    /\ UNCHANGED <<taskVars, camVars, netVars, outVars>>

\* The writes may be cut short by the browser leaving; the result is ignored.
SendFrame ==
    /\ pc = "send"
    /\ IF OnJpg THEN Answer(200) ELSE UNCHANGED status
    /\ images' = [images EXCEPT ![current] = IF @ = "none" THEN "one" ELSE "many"]
    /\ pc' = "free"
    /\ UNCHANGED <<taskVars, camVars, netVars>>

FreeFrame ==
    /\ pc = "free"
    /\ CameraFree
    /\ pc' = IF OnJpg THEN "end" ELSE "stream"
    /\ UNCHANGED <<taskVars, netVars, outVars>>

\* The handler has returned: WebServer closes the connection.
EndRequest ==
    /\ pc = "end"
    /\ conn' = [conn EXCEPT ![current] = "off"]
    /\ current' = NoClient
    /\ pc' = "maintain"
    /\ UNCHANGED <<backlog, request, taskVars, camVars, outVars>>

Handler == \/ HandleNotFound \/ RefuseLogin
           \/ HandleRoot \/ HandleLive \/ HandleJpg \/ HandleStream \/ StreamTurn
           \/ CaptureFails \/ Capture \/ BadFrame \/ GoodFrame \/ SendFrame \/ FreeFrame
           \/ EndRequest

Loop == TakeClient \/ DropClient \/ NoClientToHandle \/ MaintainWiFi

Task == Setup \/ Loop \/ Handler

-----------------------------------------------------------------------------
(***************************************************************************)
(* The environment: browsers connect while the server listens, send one    *)
(* request each, and may leave at any time, also while they are waiting.   *)
(***************************************************************************)
Connect(c) ==
    /\ server = "on"
    /\ wifi = "up"
    /\ conn[c] = "off"
    /\ conn' = [conn EXCEPT ![c] = "queued"]
    /\ backlog' = Append(backlog, c)
    /\ \E route \in Routes, login \in {"right", "wrong"} :
          request' = [request EXCEPT ![c] = [route |-> route, login |-> login]]
    /\ status' = [status EXCEPT ![c] = <<>>]
    /\ images' = [images EXCEPT ![c] = "none"]
    /\ UNCHANGED <<pc, current, taskVars, camVars>>

Leave(c) ==
    /\ conn[c] \in {"queued", "open"}
    /\ conn' = [conn EXCEPT ![c] = "gone"]
    /\ UNCHANGED <<pc, current, backlog, request, taskVars, camVars, outVars>>

LinkChanges ==
    /\ wifi' = IF wifi = "up" THEN "down" ELSE "up"
    /\ UNCHANGED <<pc, tries, camera, server, camVars, netVars, outVars>>

Next == Task \/ (\E c \in Clients : Connect(c) \/ Leave(c)) \/ LinkChanges

Spec == Init /\ [][Next]_vars

(***************************************************************************)
(* The task never blocks for ever: every wait of the code has a time limit *)
(* (captures, TCP writes, the boot delays).  Viewers of a stream leave     *)
(* sooner or later: this is asked of the users, not promised by the code.  *)
(***************************************************************************)
StreamEnds(c) == Leave(c) /\ request[c].route = "/stream"

FairSpec == Spec /\ WF_vars(Task) /\ \A c \in Clients : WF_vars(StreamEnds(c))

-----------------------------------------------------------------------------
(***************************************************************************)
(* No path through setup() or a handler keeps a frame: whenever the task   *)
(* is between two uses of the camera the driver has all its buffers.  A    *)
(* forgotten free() on one error path would stop the camera for good.      *)
(***************************************************************************)
NoFrameLeak ==
    pc \notin {"testFree", "check", "send", "free"} => held = {}

(***************************************************************************)
(* Camera_Class::free never returns a buffer twice: although it leaves fb  *)
(* stale, each call finds the buffer that the last get() borrowed.         *)
(***************************************************************************)
FreesWhatItBorrowed ==
    pc \in {"testFree", "check", "free"} => fb \in held

(***************************************************************************)
(* Image bytes go only to a client that passed Basic Auth, only after its  *)
(* 200, and only from a whole frame (at least 256 bytes) that is still     *)
(* borrowed, so the driver is not refilling it while it is being sent.     *)
(***************************************************************************)
ImagesSentSafely ==
    [][\A c \in Clients :
          images'[c] \notin {images[c], "none"} =>
             /\ c = current
             /\ request[c].login = "right"
             /\ status'[c] = <<200>>
             /\ fb \in held /\ content[fb] = "good"]_vars

(***************************************************************************)
(* Every handled request is answered with exactly one status line (none if *)
(* a stream's viewer had already left), and /jpg says 200 exactly when one *)
(* image follows, even if the capture fails half-way.                      *)
(***************************************************************************)
AnsweredOnce ==
    pc = "end" =>
       /\ Len(status[current]) = 1
            \/ (status[current] = <<>> /\ request[current].route = "/stream"
                                       /\ conn[current] = "gone")
       /\ OnJpg => (status[current] = <<200>> <=> images[current] = "one")

(***************************************************************************)
(* A waiting browser gets its turn as long as the link stays up and the    *)
(* viewers of streams leave in the end ("close that tab to unstick other   *)
(* routes"): connections are taken in order and every handler ends.        *)
(***************************************************************************)
QueuedGetsItsTurn ==
    \A c \in Clients : conn[c] = "queued" ~> (conn[c] # "queued" \/ wifi = "down")

(***************************************************************************)
(* The sketch keeps the contract with the camera driver, and every frame   *)
(* it borrows is given back.                                               *)
(***************************************************************************)
Lease == INSTANCE FrameLease WITH out <- held

LeaseSpec == Lease!FairSpec
=============================================================================

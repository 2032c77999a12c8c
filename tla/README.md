# Formal models of the TimerCAM firmware

This directory models the programs of this repository in TLA+: the Wi-Fi streaming sketch, the timelapse sketch, the
RTSP example and the clock and power classes of the bundled Timer-CAM library, and the bundled ArduinoHttpClient
library with its WebSocket client and URL parser. TLC checks each model on a
small instance; TLAPS proves the central results for every value of the constants. Comments in the modules name the
functions and lines they translate. `PROJECT.json` lists, machine-readably, the components, the runs, the source lines
behind every definition, the disagreements found, the hazards and the theorems.

## 1. Inventory

### The parts and their state

| Part | Source | State it keeps | Operations | Modelled by |
|---|---|---|---|---|
| Streaming sketch | `m5cam_stream_server/m5cam_stream_server.ino` | `server` (WebServer), camera frame, `nextTry` | `setup`, `loop`, `handleRoot/Live/Stream/Jpg`, `requireHttpAuth`, `testSingleCapture`, `maintainWiFi` | `StreamServer`, `WifiRetry` |
| Camera_Class and esp_camera | `Timer-CAM/src/utility/Camera_Class.cpp`; driver external | `fb`, not reset by `free()`; the driver's two buffers | `begin`, `get`, `free` | contract in `FrameLease`; operations in `StreamServer`, `Timelapse` |
| Timelapse sketch | `old/m5cam_timelapse_v9_end_final.ino` | `nextCaptureTime`, frame, HTTP result | `setup`, `checkScheduledCapture`, `captureAndUploadImage`, `uploadToGoogleDrive`, `maintainWiFi` | `Timelapse` |
| RTSP sessions | `examples/rtsp_stream/CRtspSession.cpp`, `CStreamer.cpp`, `rtsp_stream.ino` | `m_Clients` ring; per session transport, streaming, stopped; `m_udpRefCount` and sockets | every RTSP command, `InitUdpTransport`, `ReleaseUdpTransport`, `handleRequests`, `streamImage` | `Rtsp`, `UdpTransport` (abstract) |
| Session ring | `examples/rtsp_stream/LinkedListElement.h` | `m_Next`, `m_Prev` | construct (link in), destruct (link out), walk | `SessionList` |
| RTP packets | `CStreamer.cpp` `streamFrame`, `SendRtpPacket` | `m_SequenceNumber`, offset, `m_Timestamp` | one packet per turn | `RtpPackets`; with the ring: `RtpDelivery` |
| RTP time | `rtsp_stream.ino` `loop`, `CStreamer.cpp` `streamFrame` | `lastimage`, `m_prevMsec`, `m_Timestamp` | frame rate test, advance of the timestamp | `RtpClock` |
| HTTP client | `ArduinoHttpClient/src/HttpClient.cpp` | `iState` and what was parsed so far | request, status, headers, body, stop | `HttpClient` |
| WebSocket client | `WebSocketClient.cpp`, `SimpleWebSocket.ino` | `iTxBuffer` with `iTxStarted`, `iTxMessageType`; `iRxOpCode`, `iRxSize` | `begin`, `beginMessage`, `write`, `endMessage`, `ping`, `parseMessage`, `read`, `readString`, `flushRx` | `WebSocket` |
| RTC, I2C, power | `RTC8563_Class.cpp`, `I2C_Class.cpp`, `Power_Class.cpp` | registers of the chip, power pin | `begin`, `setAlarmIRQ` (three), `clearIRQ`, `disableIRQ`, `timerSleep` (three), `powerOff`; date and time | `Rtc`, `RtcCalendar` |
| URL parser | `http_parser.c`, `URLParser.h` | none (state inside one call) | `http_parser_parse_url`, `ParsedUrl` | `UrlParser` |
| Base64 | `b64.cpp`, `HttpClient::sendBasicAuth`, the timelapse sketch's own encoder | none | encode whole, by threes, by chunks | `Base64` |
| JPEG header scan | `CStreamer.cpp` `decodeJPEGfile` | none | find headers, tables and scan data | `JpegScan` |
| URL encoder, `web_cam`, other examples | `URLEncoder.cpp`, `examples/` | none of their own | straight-line code | not modelled, see 5 |

### How they interact

Every sketch is one Arduino task: `setup()` and then `loop()` for ever. Nothing of the repository's own code runs in
parallel with it. What happens *between any two of its steps* is the environment: browsers and players connect, send
and leave; the Wi-Fi link drops and returns; the camera driver refills the buffers that were given back; SNTP steps the
clock; bytes of a response arrive, late or never. The models are built around that: the task's steps are actions of
their own wherever it may be waiting, and the environment's actions are enabled throughout.

`Camera_Class` is shared by all sketches. It hides the driver's pointer protocol behind one field `fb`, which `free()`
leaves pointing at a buffer that is no longer the application's.

### What is hard, and what makes each part correct

- **Borrowed buffers on error paths.** The driver owns two frame buffers; a frame forgotten on one early return stops
  the camera. Correct: at most one buffer is out, it is the one freed, and it always comes back (`FrameLease`).
- **Millisecond counters that wrap** after 49.7 days (`maintainWiFi`, the RTSP frame rate test, RTP timestamps).
  Correct: exact until the wrap, and not stuck after it.
- **A time read early and used late** in the timelapse schedule, with SNTP moving the clock. Correct: never two
  captures in a minute, the series goes on, names are unique.
- **One task, many clients.** Correct: nobody waits for ever (given what the sketch itself asks of viewers), each
  request is answered once, images go only where they may.
- **A reference count maintained by destructors** (the shared UDP sockets). Correct: it counts the users.
- **Deleting from a ring while walking it.** Correct: everybody is visited once, nobody after deletion.
- **A parser whose state outlives a request.** Correct: status and body are those of the response to this request.
- **One buffer for two purposes**: the WebSocket client composes its PONGs where the sketch composes its messages.
  Correct: messages and PONGs hold what was written into them.
- **Registers that change between two bus transactions**: the clock chip sets a flag while the sketch writes back what
  it read. Correct: the board wakes for what it was armed for, and is woken.
- **Offsets that are moved twice** (URL parts), lengths that are two short (JPEG scan), input cut into pieces (Base64).
  Correct: nothing lost, doubled or put into the wrong part.

`PROJECT.json` lists these and the others as hazards, each at its line, with the properties that cover it or the
reason why none does.

## 2. Modules

The module comments say which function each action is. Program counters (`pc`) name the place of the task in its code;
an action is the code from one place where the environment may interfere to the next.

- **`FrameLease`** (abstract): what the sketches promise the driver. `Borrow` only when nothing is out, `GiveBack`;
  with fairness, every frame comes back.
- **`StreamServer`**: boot (`ConnectToWiFi`, `InitializeCamera`, `TestCapture`, `TestFree`, `RegisterRoutes`), then
  `loop()`: `TakeClient` is `handleClient()` choosing the oldest connection, `RefuseLogin` and `Handle...` are the
  handlers, `Capture/BadFrame/GoodFrame/SendFrame/FreeFrame` the capture path shared by `/jpg` and `/stream`.
  `status` and `images` record what each client was sent. `maintainWiFi` has no effect there, because the link may
  come back with or without it.
- **`WifiRetry`**: the timer inside `maintainWiFi`, on a counter modulo `ClockMod`. `age`, `era`, `gap`, `owed` are
  history variables: real time since the last attempt, whether the counter wrapped, time since the last call, how long
  a due attempt has been owed.
- **`Timelapse`**: the timelapse sketch with a wall clock that ticks and that SNTP steps between any two steps. One
  action per place of `captureAndUploadImage` and `uploadToGoogleDrive`; an upload may take any time and end in 200,
  302 (then a second POST) or failure. A name is made from the time, or from `millis()` when there is none
  (`FallbackFilename`).
- **`Rtsp`**: `handleRequests` (`Visit`, `Read...`, `DeleteSession`, `KeepSession`), `streamImage`, `accept`. Requests
  are a command, a transport and whether the parser finds what it wants. `Manners` chooses the players: `"any"`, or
  `"polite"` ones that follow the protocol. Binding the UDP ports ends as `UdpOutcomes` allows: opened, failed with
  null pointers, or failed with a freed pointer (the paths of `InitUdpTransport`); the fault that follows a use of the
  latter is `"panic"`, until `Reset`. `PAUSE`, which the server announces (`CRtspSession.cpp:241`) and its parser does
  not know, is among the commands that change nothing.
- **`UdpTransport`** (abstract): sockets open exactly while a session uses them.
- **`SessionList`**: `m_Next`/`m_Prev`, with `Dangling` for the links of a deleted session; `order` and `toVisit`
  are history.
- **`RtpPackets`**: `streamFrame`'s loop and `SendRtpPacket`: offset, fragment, marker bit, sequence number.
- **`RtpDelivery`**: composes `RtpPackets` (EXTENDS) and `SessionList` (INSTANCE): sessions change only between two
  images, and begin to play there (`ServePlay`); each packet goes to those elements that following `m_Next` reaches
  and that play (`CStreamer.cpp:142`). A session that has stopped is deleted in the same turn of the walk.
- **`RtpClock`**: `millis()` and `m_Timestamp` modulo `U32`; `first` is history.
- **`HttpClient`**: the state machine `tHttpState` over tokens instead of characters: a prefix the parser looks for, a
  status code, a digit, CR, LF or another byte. Lengths are written in decimal or hexadecimal digits (`Numeral`), as
  many as it takes. `sketch` is one of three loops: `"simple"` (`http_post.ino`),
  `"headers"` (`beginRequest`/`endRequest`, as `PostWithHeaders.ino`), `"stops"` (with `stop()` at the end). The server
  (external) answers each request with one of `Responses`, byte by byte, may be too late for any timeout, or may close
  at any point.
- **`WebSocket`**: a frame is its header bytes and its payload, whose bytes are tokens that tell who wrote them.
  `Conducts` chooses the sketch (`"example"` as `SimpleWebSocket.ino`, `"free"` to parse and ping while it composes),
  the server (control frames between messages, or also inside fragmented ones) and the network (frames whole or byte by
  byte). `begin()` ends in one of five ways (`answer`): without a connection, upgraded, upgraded with a left-over
  `iIsChunked`, refused with another status on an open connection, or unanswered on an open connection, because of a
  timeout or of something that is not HTTP. The sketch goes on whichever it was, as `SimpleWebSocket.ino:52` does:
  before `eReadingBody` (`iState` `"idle"`) `print()` sends its bytes bare and `available()` is that of the connection;
  the bytes of a refusal are parsed as frames (`Misread`: any type, any size). `Spin` is a loop of the library that
  waits without a limit; `"crash"` the copy with a negative length. `due` is history: the messages and the PONGs that
  the frames sent so far call for.
- **`Rtc`**: every operation as the list of its I2C transactions (`todo`), each of which may fail; between any two the
  chip's `ChipTick` may set a flag. `WriteControl` writes back the register as `ReadControl` found it. `LetGo` is
  `powerOff`; an interrupt then powers the board on (`Wake`). `asked`, `elapsed`, `matched`, `disturbed` are history.
- **`RtcCalendar`**, **`UrlParser`**, **`JpegScan`**, **`Base64`**: pure code as functions (never RECURSIVE operators),
  driven by a small machine that grows the input, with the reference definition beside it. `UrlParser` follows the loop
  of `http_parser_parse_url` character by character, over classes of characters.
  `setDateTime` is one step in `RtcCalendar`, two transactions in the code.
- **`MCLibraries`** extends these five (`Rtc` through its instance `MCRtc`) and `WifiRetry`, **`MCRtp`** extends
  `RtpDelivery` and `RtpClock`; a behaviour has one of them as its subject, and the others stay as they are.
- **`MC...`** modules give TLC its instances; **`..._proofs`** modules hold theorems.

Operators named `Mut...` stand before the definition they would replace: plausible bugs (a dropped guard, a forgotten
free, an off-by-one). Each property has one that TLC shows it to catch; nothing else uses them.

## 3. Runs

| Run | What it shows | Instance, and why it is enough |
|---|---|---|
| `stream_server` | `NoFrameLeak`, `ImagesSentSafely`, `AnsweredOnce`, `QueuedGetsItsTurn`, `LeaseSpec` (= `FrameLease!FairSpec`) | two browsers (one served, one waiting), the driver's two buffers (a stale `fb` and a new one) |
| `timelapse` | `NoFrameLeak`, `UploadsCapturedFrame`, `OncePerMinute`, `NamesUnique`, `SeriesGoesOn`, `LeaseSpec` (= `FrameLease!FairSpec`) | minutes of 3 s, three of them; SNTP steps forward by any amount and once back by up to 2 s; two captures per image instead of ten (one warm-up, one kept) |
| `rtsp` | `StoppedAreGone`, `NoFrameLeak` for any players; `RefCountsUsers`, `TransportSpec` for polite ones; `RequestsAreRead`, `ClosedAreReclaimed` | two players. Polite ones make five connections in all, so that sessions overlap in every order and connections are reused; the others two, with every outcome of binding the ports and the fault and reset that follow. One SETUP each, one request waiting |
| `rtp` | `FrameIsWhole`, `LinksFormRing`, `WalkVisitsAll`, `EverySessionGetsAll` (those that play get all, the others nothing), `LoopEnds`; `TimestampTracks`, `ImagesGoOn` | three sessions (a middle one to unlink), which play or not, images with one of two timestamps, fragments of 2 bytes, images of 1 to 5: shorter than, equal to and longer than one and two packets; sequence numbers roll over at 3. Counters roll over at 12 with steps of up to 2 ms: rollovers of both, pauses that overflow the product, failed and undecodable images |
| `http_client` | `TypeOK` (a chunk never has a length of 0), `StatusIsOfRequest`, `BodyIsOfResponse`, `RoundsEnd` | responses with a length of two digits, in two chunks, and delimited by the close after an interim response; bodies of line ends and digits, so that framing and body can be mistaken for each other; two requests on a connection |
| `websocket` | on upgraded connections `ReceivedIsSent`, `SentIsWritten`, `BufferHolds`, `FramesAreRead` | `begin()` ending in every way, with up to two bytes of an HTTP answer left to read or with one frame of a server that upgraded too late; the example with control frames between messages, inside them, and with split delivery, and a free sketch; two or three frames per connection, of every type, empty, short and with a long header; a buffer larger than `sizeof(iTxSize)`, as in the code |
| `libraries` | `AttemptsSpaced`, `RetryPrompt`; `WakesForWhatWasAsked`, `NoWakeIsMissed`; `DatesAreKept`; `PartsMakeTheUrl`; `ScanIsFound`; `PiecesEncodeTheWhole` | the retry timer with a counter modulo 9, interval 3, loop time up to 2: the counter wraps in every position relative to an attempt. `MaxAge` 20 caps the history variable only; the theorems hold for any value; a chip with minutes of two seconds, a counter up to 3 and minutes from 5 on: timers of 1 (seconds), 4 (the gap that is cut to 3), 5 (minutes), 7 (beyond all minutes) and -1 (none), failing transactions, flags set at every point; every day from 1900 to 2099; URLs of up to nine characters; images of up to three sections and three elements of scan data; up to seven bytes, in chunks of three |

Properties that state a restriction say so in their comment: which conduct of a server or player they are about, and
what happens otherwise. The same run explores the rest: a PING parsed by a free sketch is appended to its message and
ends it; a control frame inside a fragmented message gives its type to the next fragment; a split frame makes
`readString` return bytes that never came, or `flushRx` spin for ever. `write()` wraps its length, and copies beyond the
buffer, once more than eight bytes are in it and the rest does not fit: with a free sketch that gets a PING while it
composes, and with the example if the payload of a PING is late. `BufferHolds` says when that cannot happen, the run
`websocket_buffer` shows that it does. Without the upgrade nothing holds but the types: messages go out bare with an
empty frame behind them, and the answer's bytes are read as messages or waited for.

Five runs end in a violation, and each is a disagreement between a comment and the code:

| Run | Property | Disagreement |
|---|---|---|
| `timelapse_schedule` | `SchedulesNextMinute` | "Schedule next capture at start of next minute", but from the time read before the upload: an upload across a minute boundary is followed by a capture at once |
| `rtsp_socket` | `UdpUsersHaveSocket` | every session's destructor releases the UDP transport, also of sessions that never asked for it: the sockets of another session are closed |
| `http_length` | `NoLengthWithoutHeader` | after `beginRequest` without `stop()`, `contentLength()` returns the earlier response's length |
| `websocket_buffer` | `WritesFit` | "check if the write size, fits in the buffer": what does not fit is cut with the size of `iTxSize` instead of `iTxBuffer`, the difference wraps, and the copy leaves the buffer |
| `rtc_cycle` | `LongCountsInMinutes` | "If 256 or more, 1-minute cycle": the code goes over to minutes at 270 and cuts 256 to 269 seconds to 255 |

A smaller one has no run of its own: `streamFrame` advances the timestamp after a frame by the time that passed
*before* it, 0 for the first, so the first two images of a stream carry the same timestamp, where `CStreamer.cpp:80`
says that each image gets one. `TimestampTracks` states the sum as the code forms it.

### Bounds

`MaxConnects`, `MaxSetups`, `MaxInbox` (Rtsp), `MaxReuse` (HttpClient; the server closes the connection then or
earlier), `MaxFrames`, `MaxLate`, `Sizes` (WebSocket; frames of the server on a connection that is upgraded, or not),
`MaxMessage` (its longest message), `MaxHttp` (bytes left of an HTTP answer), `Seconds`, `Alarms` (Rtc; what
sketches ask for), `MaxLength` (UrlParser), `MaxSections`, `MaxScan` (JpegScan), `MaxBytes`, `Values` (Base64),
`FirstYear`, `LastYear` (RtcCalendar), `MaxAge` (WifiRetry), `MaxTime` and one step back (Timelapse), `MaxDelay`
(RtpClock), `Lengths` (RtpDelivery). All are guards or constants named in the modules. Deadlock is checked in every run.

### Fairness, and why the code justifies it

- `StreamServer`: weak fairness of the task, whose every wait has a time limit (captures, TCP writes, the 30 s of the
  boot); and viewers of a stream leave in the end, which the lesson notes ask of them
  (`teaching/TEACHER_lesson_smoothing_TimerCAM.md:52`, "close that tab to unstick other routes") and no code enforces.
  Without it `QueuedGetsItsTurn` is false: one viewer holds the task.
- `Timelapse`: weak fairness of the task (the HTTP calls have time limits) and of the clock's tick.
- `Rtsp`: weak fairness of the task; reads do not wait, sends time out. Nothing is assumed of the players.
- `RtpClock`: weak fairness of the loop and of time, and strong fairness of `StartImage` and `DecodeFrame`: sessions do
  not vanish each time an image is due, and the camera does not fail for ever.
- `RtpDelivery`: weak fairness of `streamFrame`'s loop, which waits for nothing.
- `HttpClient`: weak fairness of the sketch: each wait ends with a byte or with a timeout (30 s without a byte of the
  header, 1 s of the body). Nothing is assumed of the network; of the server, that each answer is finite: the timeouts
  begin anew with every byte, so that one that never stops sending would hold the sketch for ever.
- `WebSocket`: weak fairness of the task. `Spin` is no part of it: a loop that waits for bytes may wait for ever.

## 4. Proofs

TLAPS checks eight modules (SMT, Zenon, PTL); nothing is taken on trust but the named assumptions on the constants.

- **`Libraries_proofs`** holds the parts that stand alone: what counts time, and what goes through sequences.
  - `WifiRetry`, from `ClockAssumption` (the interval is positive, below the counter's width and `MaxAge`):
    `TypeCorrect`, `DueCorrect`, `AttemptsSpacedCorrect`, `RetryPromptCorrect`. `DueIsElapsed` is not inductive: it does
    not say how `nextTry` relates to real time. `WifiInv` adds that, until a wrap, `clock - nextTry + RetryMs` *is* the
    time since the last attempt (`AgeIsElapsed`), and that an attempt is owed only since the last call
    (`OwedSinceCall`).
  - `RtcCalendar`, from `YearsAssumption` (the years lie in the two centuries the chip has a bit for, and
    `FirstWeekDay` is the weekday of the first of them): `DatesAreKeptCorrect`. `DateIsKept` is about one date;
    `WeekDayGoesOn` is Zeller's congruence: from each day to the next, within a month, across its end and across the
    end of February and of the year, the weekday that the class works out advances by one. `CalendarInv` says that the
    calendar's own weekday agrees with it.
  - `Rtc`, from `RtcAssumption` (what a countdown's unit and width must satisfy for a request to fit):
    `WakesForWhatWasAskedCorrect` and `NoWakeIsMissedCorrect`, for any width of the counter and any requests.
    `SleepInv` follows each request through the list of its transactions: how many of them are done determines which
    registers hold their final value (`OnTimer`, `OnAlarm`), unless a transaction failed or a flag was lost
    (`disturbed`), and after the last one the ticks left in the counter and the time that has passed add up to what was
    asked for. `CountOf` is the arithmetic of `setAlarmIRQ(int)`: seconds, gap, minutes and what is beyond (`SetFor`).
  - The other three are pure functions written with recursion or folds. What a recursive function is has to be proved
    first: that it exists (`FoldExists`, by the number of elements; `ForwardExists`, for a search that only goes
    forward, from the end of the buffer back), and then what it computes, by an induction on sets of numbers
    (`StrongInduction`, `StepInduction`, `BackwardInduction`). `FlattenAt` says which element of which part each element
    of a flattened sequence is: the parts lie one behind the other at known `Offsets`.
  - `UrlParser`, without assumptions: `PartsMakeTheUrlCorrect`, for URLs of any length. `UrlInv` says for each state of
    `http_parser_parse_url` what the fields collected so far make of the URL read so far (`UrlReads`), and which of
    them are still empty (`FieldsFollow`) or cannot be (`FieldsNeed`): without these the delimiters would not tell
    which part is there. `HostIsParts` does the same for the second pass over the server (`HostRead`).
  - `Base64`, from `Base64Assumption` (bytes are bytes, a chunk is a multiple of three, and the array of
    `WebSocketClient.cpp:39` is larger than the longest text): `PiecesEncodeTheWholeCorrect`. All three ways of encoding
    make the same text (`IsText`: group by group), however they cut the input (`ChunkedIsText`, `FileIsText`,
    `SentIsText`), and that text has the bits of the bytes (`TextEncodes`, from the bits of the four sextets of one
    group, `SextetBits`).
  - `JpegScan`, without assumptions: `ScanIsFoundCorrect`, for any number and order of sections and any length of the
    scan. `BufferIs` says where in the buffer each section and each element of the scan lies (`Layout`). A search that
    stands at one section goes on at the next (`SectionStep`), so that by induction from the last section back to the
    first it ends at the scan, at a table, or at the section it does not know (`ScanSectionFound`, `TablesFound`); the
    same for the scan's elements (`EndFound`). That the lengths `decodeJPEGfile` keeps are two short harms no search,
    because what is looked for always begins early enough (`Ordered`, `Spacious`).
- **`StreamServer_proofs`**: `NoFrameLeakCorrect`, `FreesWhatItBorrowedCorrect`, and `ImplementsFrameLease` (the safety
  part), for any number of browsers and buffers. The strengthening `LeaseShape` says at every point of the task which
  buffer is out: `{fb}` between a capture and its free, none elsewhere. `fb` alone says nothing, since `free()` leaves
  it stale. `TypeCorrect` covers the whole state. `AnsweredOnceCorrect` needs to know that the client taken from the
  queue has been sent nothing yet, hence `QueueShape` (waiting clients are fresh, nobody is queued twice, the one being
  handled is not queued), and what it has been sent at every later point of a handler (`AnswerShape`).
  `ImagesSentSafelyCorrect` combines both strands with `FrameInv`: a frame found good stays good until it is sent.
- **`Timelapse_proofs`**: `TypeCorrect`, and `NoFrameLeakCorrect`, `UploadsCapturedFrameCorrect`,
  `ImplementsFrameLease` (the safety part) by the same argument, with the buffer's content while it is uploaded.
  `OncePerMinuteCorrect`: whatever the length of uploads and the steps of the clock, successive captures start in
  later minutes. Its invariant `Scheduled` says that the next capture is due in the minute after the last *started*
  one; that the time is stale when line 122 uses it is exactly why this holds, and why `SchedulesNextMinute` does not.
  `LaterMinute` is the arithmetic. `NamesUniqueCorrect`: as long as the clock is never set back, every name in use is
  in the past when the next one is made (`NamesArePast`).
- **`Rtsp_proofs`**, from `ClientsAssumption`, `OutcomesAssumption` and `PoliteAssumption`, for any set of players.
  `CoreInv`: a session is stopped only between the visit that noticed it and the deletion behind it in the same turn of
  the walk (`StoppedShape`), and a frame is held only inside `streamImage` (`HeldShape`); hence
  `StoppedAreGoneCorrect` and `NoFrameLeakCorrect`. `PoliteInv`: with players that follow the protocol, what each
  connection has sent so far agrees with its session (`PoliteConn`, `PoliteInbox`), so that each deleted session is one
  that was counted, and the count is the cardinality of the users (`PoliteCount`). It gives `RefCountsUsersCorrect`,
  `UdpSocketOpenCorrect` and `ImplementsUdpTransport`: every step is a `Join`, a `Quit` or a stutter of `UdpTransport`.
- **`RtpClock_proofs`**, from `CountersAssumption` and `RatesAssumption` (a whole number of RTP units per millisecond,
  as 90 kHz has): `TypeCorrect` and `TimestampTracksCorrect` for any width of the counters. `StampShape` follows the
  timestamp through a frame, where it lags behind by that frame's delta; the lemmas on `%` and `\div` come first.
- **`RtpDelivery_proofs`** holds the packets and their delivery. `PacketTypeCorrect` and `FrameIsWholeCorrect`, from
  `SizesAssumption`, for every image length, fragment size and counter width: the invariant `IInv` carries the shape
  of the packets sent so far (`Carries`) through the loop; `PacketExtends` is the step. Then the composition, for any
  number of sessions. `ListInv` writes the ring by positions: the links join the neighbours of `order` with the head
  at both ends (`LinksOK`), what is not linked is `Dangling` (`UnlinkedOK`), and the walk stands at some position with
  the rest of the order to visit (`WalkOK`). Hence `LinksFormRingCorrect` and `WalkVisitsAllCorrect`;
  `FrameIsWholeInDelivery` reuses the invariant of the packets. `EverySessionGetsAllCorrect` joins the two: what
  following `m_Next` from the head reaches is what `order` holds (`ReachesAll`, by induction along the order), so that
  each packet reaches all that play and no other (`GotAllSoFar`, `PlayersOnly`). The induction is
  `NatInductionOnSets`, which speaks of sets of numbers instead of predicates and is proved from the least number of a
  set.
- **`WebSocket_proofs`**, from `BufferAssumption` (no payload and no message is larger than the buffer, and the buffer is
  at least as large as `iTxSize` itself): `BufferHoldsCorrect`, `ReceivedIsSentCorrect`, `SentIsWrittenCorrect`, for
  any number and sizes of frames, wherever the connection is lost and however `begin()` ended before. `IInv` has a
  part that always holds (`BaseInv`) and one for upgraded connections (`UpInv`), which `BeginSucceeds` makes true
  whatever the connection before has left behind: `begin()` empties what was received, and a message that was begun is
  always ended before the example begins a connection. None of the three is inductive, since
  neither what has been read nor what is on its way says where in the stream the receiver stands. `WireInv` supplies
  it: there is a `wire`, all the bytes that the server has sent, with the places where its frames end (`Wired`); what
  has arrived and what is on its way are the bytes behind the first *n* of it (`Behind`); and the receiver is in the
  payload of frame *k* with `iRxSize` bytes to go (`At`). `Counts` numbers the messages and PINGs among the frames, so
  that what has been read and answered is the first `messages[k]` and `pings[k]` of what is due (`ReadSoFar`,
  `PongedSoFar`). With frames that arrive whole, what has arrived ends where a frame ends (`Boundary`), so a payload
  is there with its header. A receiver that parsed a length with a byte missing is `Lost`: it waits for more than can
  still come. `SentInv` (what a server sends that puts no control frame inside a message) gives a continuation the
  type of its message, and `TxInv` says what the shared transmit buffer holds at each place of the example's loop.
- **`HttpClient_proofs`**, from `ResponsesAssumption` (a response has a final status, one of three framings, and a
  body of non-empty chunks of any tokens) and `ReuseAssumption`. `TypeCorrect` covers the parser record: counters stay
  natural numbers and a chunk is read only if some of it is left. `StatusIsOfRequestCorrect`: for any responses,
  sketches and reuse of connections. Its invariant says how far the parser has come in the opening of the response
  (`AtToken` with `Left`: what is received or on its way is some beginning of the tokens not yet read, and all of them
  unless the rest was late or lost), which nothing that the network cuts off or delays changes, and that an
  undisturbed round leaves the parser in the body (`Behind`), so that the next request resets it.
  `BodyIsOfResponseCorrect`: the string that `responseBody` returns, for bodies of any tokens and any number of
  chunks. The theorem is about the sketches `"simple"` and `"stops"`; for `"headers"` the claim is false, which is the
  finding of run `http_length`. Its invariant `BInv` says what is `Left` to read at each state of the parser: in the
  headers, the end of a numeral whose digits read so far make `parser.length`, and what follows (`HeaderAt`); in the
  body, what `response` lacks of it (`PlainAt`), or the data left of this chunk and the chunks behind it, with the
  line ends and lengths between them (`ChunkAt`). Of the parser between two rounds it says that it is fresh after
  `stop()` and reset by the next request otherwise (`IdleFresh`), and `Unfinished` that nothing is returned before the
  end. That a numeral reads as its number (`NumeralReads`) and how the chunks follow one another (`FlattenFirst`,
  `ChunkedIs`) are facts about recursive functions: they are proved by well-founded induction stated for sets of
  numbers (`StrongInduction`) instead of predicates, which the provers can instantiate.

Every safety invariant and every action property of the passing runs has a theorem. Only
model-checked are the liveness properties (`QueuedGetsItsTurn`, `SeriesGoesOn`, `RequestsAreRead`, `ClosedAreReclaimed`,
`ImagesGoOn`, `LoopEnds`, `RoundsEnd`, `FramesAreRead` and the fairness part of `LeaseSpec`), since fairness and ENABLED
are beyond the prover.

## 5. What is not modelled, and why

- HTML, serial output, log wording, sensor settings, LED brightness: no property depends on them.
- `Timelapse` abstracts the bytes of the request; the Base64 text in it is that of module `Base64`, without the escapes
  for its three special characters. The same "Upload Success" line printed after the redirect and after the result
  (lines 266 and following) is recorded in `printed`.
- `setup()` of the RTSP example returning with `streamer` null: `loop()` faults on its first statement.
- The bytes of RTSP requests: the static `CurRequest` keeps the tail of earlier requests, which the search for a URL or
  `CSeq` may find. `parse` in `Rtsp` is a free choice and covers the outcomes, not the cause.
- Whether an image can be decoded is a choice in `Rtsp` and `RtpClock`; `JpegScan` covers the scan that decides it, on
  its own. Images whose scan is empty, for which `endlen` would be 0, are left out there.
- `HttpClient`: `headerAvailable` and the header getters, `read(buf, size)`, the request's own bytes, multi-character
  prefixes (the two searched headers and the status prefix are single tokens), overflow of the length. An interim (1xx)
  response is part of the model: the blank line that ends it makes `responseStatusCode` return
  `HTTP_ERROR_INVALID_RESPONSE`, so `StatusIsOfRequest` says only that it is never taken for the response.
- `RtcCalendar`: a midnight of the chip between the two transactions of `setDateTime`.
- `WebSocket`: masks, the upgrade request's bytes, which bytes an HTTP answer has (they make any header), and lengths
  beyond one extra byte of header (one more byte stands for the two or eight).
- `Rtc`: `getVoltLow` and `setSystemTimeFromRtc`, which only read. `Power_Class`: battery voltage and LED. `UrlParser`:
  CONNECT requests (`is_connect` is always false here) and `HTTP_PARSER_STRICT`.
- `URLEncoder.cpp` (one pass over a string, called by nothing in the repository); the `web_cam` examples and the other
  vendored ones (straight-line calls of the modelled parts; the camera is borrowed and returned as in the streaming
  sketch); scripts, the library's tests and the teaching documents. `PROJECT.json` lists each.

## 6. What could follow

1. `headerAvailable` with its loop without a timeout, and `read(buf, size)`, as further actions of `HttpClient`.
2. The `web_cam` examples as further implementations of `FrameLease`.

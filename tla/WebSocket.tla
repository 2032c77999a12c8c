------------------------------ MODULE WebSocket ------------------------------
(***************************************************************************)
(* WebSocketClient.cpp: one transmit buffer for the messages of the sketch *)
(* and for the PONGs of the library, one receive header for data frames    *)
(* and for control frames, on the connection that begin() has upgraded,    *)
(* or has failed to upgrade: the sketch goes on either way.                *)
(*                                                                         *)
(* A frame is its header bytes, the opcode (with FIN) and the length, and  *)
(* its payload.  Payload bytes are tokens that tell who sent them: the     *)
(* number of the server's frame, "w" for the sketch, "p" for ping(), and   *)
(* "-1" for what read() returns when nothing has arrived.  What a server   *)
(* sends that did not upgrade are bytes of HTTP, all alike.  Masks are     *)
(* left out: servers do not mask, and those of the client hide nothing.    *)
(***************************************************************************)
EXTENDS Integers, Sequences, SequencesExt

CONSTANTS
    Conducts,       \* what sketch, server and network do: a set of records, see Conduct
    TxBuffer,       \* sizeof(iTxBuffer)
    SizeOfTxSize,   \* sizeof(iTxSize)
    MaxMessage,     \* the longest message of the sketch (bound)
    PingSize,       \* bytes that ping() sends
    MaxHttp,        \* bytes of HTTP left on a connection that is not upgraded (bound)
    ShortLimit,     \* lengths from here on take more than one byte
    Sizes,          \* payload sizes of the server's frames, per type (bound)
    MaxPayload,     \* the largest of them
    MaxFrames,      \* per conduct: frames of the server on one connection (bound)
    MaxLate         \* per conduct: the same, if begin() has not upgraded it (bound)

(***************************************************************************)
(* The sketch is the "example" SimpleWebSocket.ino, or "free" to parse and *)
(* to ping() while it composes a message.  The server sends control frames *)
(* between messages ("plain") or also "inside" a fragmented one.  Frames   *)
(* arrive "whole", or byte by byte ("split").                              *)
(***************************************************************************)
Conduct == [sketch : {"example", "free"}, server : {"plain", "inside"},
            delivery : {"whole", "split"}]

ASSUME ConductAssumption == Conducts \subseteq Conduct
ASSUME BufferAssumption ==
    /\ TxBuffer \in Nat /\ SizeOfTxSize \in Nat /\ PingSize \in Nat
    /\ ShortLimit \in Nat /\ MaxPayload \in Nat /\ MaxMessage \in Nat /\ MaxHttp \in Nat
    /\ MaxFrames \in [Conducts -> Nat] /\ MaxLate \in [Conducts -> Nat]
    /\ \A c \in Conducts : MaxLate[c] <= MaxFrames[c]
    /\ MaxPayload <= TxBuffer /\ MaxMessage <= TxBuffer /\ SizeOfTxSize <= TxBuffer
    /\ Sizes \in [{"text", "cont", "ping", "pong", "close"} -> SUBSET (0 .. MaxPayload)]

VARIABLES
    pc,         \* where the sketch is in loop() and in the library
    conduct,    \* of sketch, server and network; fixed
    answer,     \* history: how the last begin() ended, see below
    iState,     \* "idle" for all before eReadingBody, "body", "chunk" for chunked bodies
    isChunked,  \* iIsChunked
    tx,         \* iTxStarted, iTxMessageType, iTxBuffer up to iTxSize
    rx,         \* iRxOpCode as type and FIN, iRxSize
    back,       \* where the sketch goes on after parseMessage
    left,       \* readString: bytes still to read
    text,       \* readString: the string so far
    conn,       \* the TCP connection, as the server left it
    net,        \* bytes on their way to the client
    arrived,    \* bytes received and not yet read
    sent,       \* history: frames of the server on this connection
    due,        \* history: the messages and the PONGs that they call for
    got,        \* history: messages the sketch has read on it
    pongs,      \* history: payloads of the PONGs sent on it
    wrote,      \* history: what the sketch wrote into its present message
    last        \* history: the last message the sketch completed

begun   == <<conduct, answer, iState, isChunked>>
rxVars  == <<rx, back, left, text>>
netVars == <<conn, net, arrived, sent, due>>
history == <<got, pongs, wrote, last>>
vars == <<pc, begun, tx, rxVars, netVars, history>>

Types == {"text", "cont", "ping", "pong", "close"}
Control == {"ping", "pong", "close"}
OpCodes == Types \cup {"other"}
Frames == [type : Types, fin : {"yes", "no"}, size : 0 .. MaxPayload]
FrameLimit == MaxFrames[conduct]

\* iRxSize when it is more than all that can still arrive: a length of which a byte was missing.
Huge == (MaxPayload + 3) * FrameLimit + MaxHttp + 1

TypeOK ==
    /\ pc \in {"begin", "loop", "compose", "flush", "header", "discard", "pong", "read", "crash"}
    /\ conduct \in Conducts
    /\ answer \in {"none", "upgraded", "chunked", "refused", "unanswered"}
    /\ iState \in {"idle", "body", "chunk"} /\ isChunked \in {"yes", "no"}
    /\ tx.started \in {"yes", "no"} /\ tx.type \in {"text", "ping", "pong"}
    /\ rx.type \in OpCodes /\ rx.fin \in {"yes", "no"} /\ rx.size \in Nat
    /\ back \in {"loop", "compose"}
    /\ left \in Nat
    /\ conn \in {"open", "closed"}
    /\ sent \in Seq(Frames) /\ Len(sent) <= FrameLimit

Init ==
    /\ pc = "begin"
    /\ conduct \in Conducts
    /\ answer = "none" /\ iState = "idle" /\ isChunked = "no"
    /\ tx = [started |-> "no", type |-> "text", data |-> <<>>]
    /\ rx = [type |-> "cont", fin |-> "no", size |-> 0]
    /\ back = "loop" /\ left = 0 /\ text = <<>>
    /\ conn = "closed" /\ net = <<>> /\ arrived = <<>> /\ sent = <<>>
    /\ due = [messages |-> <<>>, pongs |-> <<>>]
    /\ got = <<>> /\ pongs = <<>> /\ wrote = <<>>
    /\ last = [data |-> <<>>, wrote |-> <<>>]

-----------------------------------------------------------------------------
(***************************************************************************)
(* The transmit side.  endMessage sends whatever the buffer holds, as a    *)
(* single frame of the type that beginMessage noted.                       *)
(***************************************************************************)
NoTx(data) == [started |-> "no", type |-> tx.type, data |-> data]

BeginMessage(type) ==
    IF tx.started = "yes" THEN tx ELSE [started |-> "yes", type |-> type, data |-> <<>>]

\* Mutant: the last byte of the buffer is not used.
MutKept(buffer, n) ==
    IF iState = "idle" \/ buffer.started = "no" THEN 0
    ELSE IF Len(buffer.data) + n < TxBuffer THEN n ELSE SizeOfTxSize - Len(buffer.data)

\* How much write() copies: nothing on a connection that is not upgraded, where the bytes
\* are sent at once; the test is for the buffer, the rest for iTxSize.
Kept(buffer, n) ==
    IF iState = "idle" \/ buffer.started = "no" THEN 0
    ELSE IF Len(buffer.data) + n <= TxBuffer THEN n ELSE SizeOfTxSize - Len(buffer.data)

\* A negative size is a huge unsigned one: the copy leaves the memory of the chip.
Overruns(buffer, n) == Kept(buffer, n) < 0

Write(buffer, bytes) ==
    [buffer EXCEPT !.data = @ \o SubSeq(bytes, 1, Kept(buffer, Len(bytes)))]

\* What endMessage adds to the frames that were sent.
Answered(buffer) ==
    IF buffer.started = "yes" /\ buffer.type = "pong" THEN Append(pongs, buffer.data) ELSE pongs

-----------------------------------------------------------------------------
(***************************************************************************)
(* loop(): begin(), whose result SimpleWebSocket does not look at; then a  *)
(* message is composed and parseMessage called, as long as connected()     *)
(* says so.  begin() ends in one of five ways:                             *)
(*   "none"        there is no connection                                  *)
(*   "upgraded"    101, its headers read to the end                        *)
(*   "chunked"     the same, but iIsChunked is left from an earlier answer *)
(*   "refused"     another status, its headers read to the end             *)
(*   "unanswered"  a timeout, no HTTP, or headers that did not end         *)
(***************************************************************************)
Begin(result) ==
    /\ pc = "begin"
    /\ answer' = result
    /\ rx' = [rx EXCEPT !.size = 0]
    /\ arrived' = <<>> /\ sent' = <<>> /\ due' = [messages |-> <<>>, pongs |-> <<>>]
    /\ got' = <<>> /\ pongs' = <<>> /\ last' = [data |-> <<>>, wrote |-> <<>>]
    /\ UNCHANGED <<conduct, tx, back, left, text, wrote>>

\* The state at the end of the headers: beginRequest keeps startRequest from resetting iIsChunked.
HeadersRead(chunked) == IF chunked = "yes" THEN "chunk" ELSE "body"

HttpBytes == {[i \in 1 .. n |-> <<"http", "-">>] : n \in 0 .. MaxHttp}

BeginSucceeds ==
    /\ Begin(IF isChunked = "yes" THEN "chunked" ELSE "upgraded")
    /\ iState' = HeadersRead(isChunked)
    /\ conn' = "open" /\ net' = <<>>
    /\ pc' = "loop"
    /\ UNCHANGED isChunked

BeginFails ==
    /\ Begin("none")
    /\ iState' = "idle"
    /\ conn' = "closed" /\ net' = <<>>
    /\ UNCHANGED <<pc, isChunked>>

\* The rest of the answer, if there is one, is read as whatever the sketch calls for next.
BeginRefused ==
    /\ Begin("refused")
    /\ isChunked' \in {isChunked, "yes"}
    /\ iState' = HeadersRead(isChunked')
    /\ conn' = "open" /\ net' \in HttpBytes
    /\ pc' = "loop"

BeginUnanswered ==
    /\ Begin("unanswered")
    /\ isChunked' \in {isChunked, "yes"}
    /\ iState' = "idle"
    /\ conn' = "open" /\ net' \in HttpBytes
    /\ pc' = "loop"

Upgraded == answer = "upgraded"

Connected == conn = "open" \/ arrived # <<>>

Disconnected ==
    /\ pc = "loop" /\ ~Connected
    /\ pc' = "begin"
    /\ UNCHANGED <<begun, tx, rxVars, netVars, history>>

StartMessage ==
    /\ pc = "loop" /\ Connected
    /\ tx' = BeginMessage("text")
    /\ last' = [data |-> <<>>, wrote |-> <<>>]
    /\ pc' = "compose"
    /\ UNCHANGED <<begun, rxVars, netVars, got, pongs, wrote>>

\* print() of a message that fits into the buffer.
PrintByte ==
    /\ pc = "compose"
    /\ Len(wrote) < MaxMessage
    /\ IF Overruns(tx, 1) THEN pc' = "crash" /\ UNCHANGED tx
                          ELSE tx' = Write(tx, <<"w">>) /\ UNCHANGED pc
    /\ wrote' = Append(wrote, "w")
    /\ UNCHANGED <<begun, rxVars, netVars, got, pongs, last>>

\* endMessage returns 1 if nothing was begun.  parseMessage is next.
CompleteMessage ==
    /\ pc = "compose"
    /\ wrote # <<>>
    /\ last' = IF tx.started = "yes" THEN [data |-> tx.data, wrote |-> wrote]
                                     ELSE [data |-> <<>>, wrote |-> wrote]
    /\ pongs' = Answered(tx)
    /\ tx' = NoTx(<<>>)
    /\ wrote' = <<>>
    /\ back' = "loop"
    /\ pc' = "flush"
    /\ UNCHANGED <<begun, rx, left, text, netVars, got>>

\* A free sketch looks for messages before it has completed its own.
ParseWhileComposing ==
    /\ pc = "compose" /\ conduct.sketch = "free"
    /\ back' = "compose"
    /\ pc' = "flush"
    /\ UNCHANGED <<begun, tx, rx, left, text, netVars, history>>

\* ping(): the result of its beginMessage is not looked at.
Ping ==
    /\ pc \in {"loop", "compose"} /\ conduct.sketch = "free"
    /\ Connected
    /\ LET message == BeginMessage("ping") IN
         /\ tx' = NoTx(<<>>)
         /\ pc' = IF Overruns(message, PingSize) THEN "crash" ELSE pc
         /\ pongs' = Answered(Write(message, [k \in 1 .. PingSize |-> "p"]))
    /\ UNCHANGED <<begun, rxVars, netVars, got, wrote, last>>

-----------------------------------------------------------------------------
(***************************************************************************)
(* The receive side.  available(); read() of one byte; parseMessage.       *)
(***************************************************************************)
Available == IF iState = "idle" THEN Len(arrived) ELSE rx.size

ByteArrived == arrived # <<>>

TakeByte == arrived' = Tail(arrived) /\ UNCHANGED <<conn, net, sent, due>>

\* Mutant: bytes that were read are not counted.
MutOneLess == rx

\* iRxSize is unsigned, and counted down before there was a frame, too.
OneLess == [rx EXCEPT !.size = IF @ = 0 THEN Huge ELSE @ - 1]

Ended == rx' = [rx EXCEPT !.size = 0]

\* flushRx: what is left of the message before, or the payload of CLOSE and PONG.
Flush ==
    /\ pc \in {"flush", "discard"}
    /\ Available > 0
    /\ ByteArrived
    /\ TakeByte
    /\ rx' = OneLess
    /\ UNCHANGED <<pc, begun, tx, back, left, text, history>>

\* flushRx and the loops of parseMessage spin while bytes are missing.
Spin ==
    /\ pc \in {"flush", "discard"}
    /\ Available > 0
    /\ ~ByteArrived
    /\ UNCHANGED vars

Flushed ==
    /\ pc = "flush"
    /\ Available = 0
    /\ pc' = "header"
    /\ UNCHANGED <<begun, tx, rxVars, netVars, history>>

NoMessage ==
    /\ pc = "header" /\ iState # "chunk"
    /\ Len(arrived) < 2
    /\ pc' = back
    /\ UNCHANGED <<begun, tx, rxVars, netVars, history>>

\* Mutant: a continuation does not get the type of its message.
MutNewOpCode(first) == [type |-> first[2], fin |-> first[3]]

\* "continuation, use previous opcode and update flags": the flags are or-ed.
NewOpCode(first) ==
    IF first[2] = "cont"
    THEN [type |-> rx.type, fin |-> IF rx.fin = "yes" THEN "yes" ELSE first[3]]
    ELSE [type |-> first[2], fin |-> first[3]]

LongHeader == arrived[2][2] >= ShortLimit

HeaderSize == IF LongHeader THEN IF Len(arrived) < 3 THEN 2 ELSE 3 ELSE 2

NewSize == IF ~LongHeader THEN arrived[2][2]
           ELSE IF Len(arrived) < 3 THEN Huge ELSE arrived[3][2]

\* The next bytes are those of a frame's header.
IsHeader ==
    /\ arrived[1][1] = "op" /\ arrived[2][1] = "len"
    /\ (LongHeader /\ Len(arrived) > 2) => arrived[3][1] = "len"

ReadHeader(type) ==
    /\ IsHeader
    /\ NewOpCode(arrived[1]).type = type
    /\ rx' = [type |-> type, fin |-> NewOpCode(arrived[1]).fin, size |-> NewSize]
    /\ arrived' = SubSeq(arrived, HeaderSize + 1, Len(arrived))

\* Other bytes make any header, and take as many more with them as it asks for.  HTTP is
\* text, without the bit that is FIN.
Misread(type) ==
    /\ ~IsHeader
    /\ \E fin \in IF arrived[1][1] = "http" THEN {"no"} ELSE {"yes", "no"},
          size \in (0 .. MaxPayload) \cup {Huge} :
          rx' = [type |-> type, fin |-> fin, size |-> size]
    /\ \E n \in 2 .. Len(arrived) : arrived' = SubSeq(arrived, n + 1, Len(arrived))

Parse(type) ==
    /\ pc = "header" /\ iState # "chunk"
    /\ Len(arrived) >= 2
    /\ ReadHeader(type) \/ Misread(type)
    /\ UNCHANGED <<begun, back, conn, net, sent, due, got, wrote, last>>

\* In a chunked body HttpClient::available takes bytes for chunk lengths, and HttpClient::read
\* asks available() of this class, which is 0: opcode and length are -1.
ParseChunked ==
    /\ pc = "header" /\ iState = "chunk"
    /\ \/ UNCHANGED rx
       \/ Len(arrived) >= 2 /\ rx' = [type |-> "other", fin |-> "yes", size |-> Huge]
    /\ \E n \in 0 .. Len(arrived) : arrived' = SubSeq(arrived, n + 1, Len(arrived))
    /\ pc' = back
    /\ UNCHANGED <<begun, tx, back, left, text, conn, net, sent, due, history>>

\* The size that is returned is an int: a huge one is negative.
ParseData ==
    /\ \E type \in OpCodes \ Control : Parse(type)
    /\ IF rx'.size \in {0, Huge}
       THEN pc' = back /\ UNCHANGED left
       ELSE pc' = "read" /\ left' = Available'
    /\ text' = <<>>
    /\ UNCHANGED <<tx, pongs>>

ParseDiscarded ==
    /\ \E type \in {"pong", "close"} : Parse(type)
    /\ pc' = "discard"
    /\ UNCHANGED <<tx, left, text, pongs>>

\* beginMessage(TYPE_PONG), whose result is not looked at.
ParsePing ==
    /\ Parse("ping")
    /\ tx' = BeginMessage("pong")
    /\ pc' = "pong"
    /\ UNCHANGED <<left, text, pongs>>

\* while (available()) write(read()), which waits for nothing.
CopyByte ==
    /\ pc = "pong"
    /\ Available > 0
    /\ IF Overruns(tx, 1)
       THEN pc' = "crash" /\ UNCHANGED tx
       ELSE /\ tx' = Write(tx, <<IF ByteArrived THEN Head(arrived)[2] ELSE "-1">>)
            /\ UNCHANGED pc
    /\ IF ByteArrived THEN TakeByte /\ rx' = OneLess ELSE UNCHANGED <<netVars, rx>>
    /\ UNCHANGED <<begun, back, left, text, history>>

\* Mutant: the PONG is left for the next endMessage.
MutSendPong ==
    /\ pc = "pong"
    /\ Available = 0
    /\ pc' = back
    /\ UNCHANGED <<begun, tx, rxVars, netVars, history>>

SendPong ==
    /\ pc = "pong"
    /\ Available = 0
    /\ pongs' = Answered(tx)
    /\ tx' = NoTx(<<>>)
    /\ pc' = back
    /\ Ended
    /\ UNCHANGED <<begun, back, left, text, netVars, got, wrote, last>>

PongDiscarded ==
    /\ pc = "discard" /\ rx.type = "pong"
    /\ Available = 0
    /\ Ended
    /\ pc' = back
    /\ UNCHANGED <<begun, tx, back, left, text, netVars, history>>

\* HttpClient::stop.
CloseDiscarded ==
    /\ pc = "discard" /\ rx.type = "close"
    /\ Available = 0
    /\ iState' = "idle" /\ isChunked' = "no"
    /\ conn' = "closed" /\ net' = <<>> /\ arrived' = <<>>
    /\ Ended
    /\ pc' = back
    /\ UNCHANGED <<conduct, answer, tx, back, left, text, sent, due, history>>

\* readString: as many times as available() said, whether a byte has arrived or not.
ReadString ==
    /\ pc = "read"
    /\ left > 0
    /\ left' = left - 1
    /\ text' = Append(text, IF ByteArrived THEN Head(arrived)[2] ELSE "-1")
    /\ IF ByteArrived THEN TakeByte /\ rx' = OneLess ELSE UNCHANGED <<netVars, rx>>
    /\ UNCHANGED <<pc, begun, tx, back, history>>

StringRead ==
    /\ pc = "read"
    /\ left = 0
    /\ got' = Append(got, [type |-> rx.type, fin |-> rx.fin, data |-> text])
    /\ text' = <<>>
    /\ pc' = back
    /\ UNCHANGED <<begun, tx, rx, back, left, netVars, pongs, wrote, last>>

\* The chip resets.
Reset ==
    /\ pc = "crash"
    /\ pc' = "begin"
    /\ answer' = "none" /\ iState' = "idle" /\ isChunked' = "no"
    /\ tx' = [started |-> "no", type |-> "text", data |-> <<>>]
    /\ rx' = [type |-> "cont", fin |-> "no", size |-> 0]
    /\ back' = "loop" /\ left' = 0 /\ text' = <<>>
    /\ conn' = "closed" /\ net' = <<>> /\ arrived' = <<>>
    /\ wrote' = <<>>
    /\ UNCHANGED <<conduct, sent, due, got, pongs, last>>

ParseMessage == Flush \/ Flushed \/ NoMessage \/ ParseChunked \/ ParseData \/ ParseDiscarded \/ ParsePing
                  \/ CopyByte \/ SendPong \/ PongDiscarded \/ CloseDiscarded

Compose == StartMessage \/ PrintByte \/ CompleteMessage \/ ParseWhileComposing \/ Ping

Task == BeginSucceeds \/ BeginFails \/ BeginRefused \/ BeginUnanswered \/ Disconnected \/ Compose \/ ParseMessage
          \/ ReadString \/ StringRead \/ Reset

-----------------------------------------------------------------------------
(***************************************************************************)
(* The server (external) sends frames as the protocol allows, also one     *)
(* that has upgraded the connection too late for begin(); the network      *)
(* delivers them whole or byte by byte, and may lose the connection.       *)
(***************************************************************************)
IsData(f) == f.type \notin Control

\* The last data frame was not the final one of its message.
Midway == \E k \in DOMAIN sent :
              /\ IsData(sent[k]) /\ sent[k].fin = "no"
              /\ \A j \in DOMAIN sent : j > k => ~IsData(sent[j])

Closing == \E k \in DOMAIN sent : sent[k].type = "close"

Legal(f) ==
    /\ ~Closing
    /\ f.type = "cont" => Midway
    /\ f.type = "text" => ~Midway
    /\ f.size \in Sizes[f.type]
    /\ f.type \in Control => f.fin = "yes"
    /\ (f.type \in Control /\ Midway) => conduct.server = "inside"

Header(f) == IF f.size < ShortLimit THEN <<<<"op", f.type, f.fin>>, <<"len", f.size>>>>
             ELSE <<<<"op", f.type, f.fin>>, <<"len", ShortLimit>>, <<"len", f.size>>>>

\* The payload of the n-th frame, and the message parseMessage should return for it.
Payload(f, n) == [i \in 1 .. f.size |-> n]
Message(f, n) == [type |-> "text", fin |-> f.fin, data |-> Payload(f, n)]

IsMessage(f) == IsData(f) /\ f.size > 0

\* The server sends a frame as its n-th.
Sends(f, n) ==
    /\ sent' = Append(sent, f)
    /\ net' = net \o Header(f) \o [i \in 1 .. f.size |-> <<"data", n>>]
    /\ due' = [messages |-> IF IsMessage(f) THEN Append(due.messages, Message(f, n)) ELSE due.messages,
               pongs |-> IF f.type = "ping" THEN Append(due.pongs, Payload(f, n)) ELSE due.pongs]

ServerSends ==
    /\ conn = "open" /\ answer # "refused"
    /\ Len(sent) < IF Upgraded THEN FrameLimit ELSE MaxLate[conduct]
    /\ conduct.delivery = "whole" => net = <<>>
    /\ \E f \in Frames : Legal(f) /\ Sends(f, Len(sent) + 1)
    /\ UNCHANGED <<pc, begun, tx, rxVars, conn, arrived, history>>

Arrive ==
    /\ net # <<>>
    /\ LET n == IF conduct.delivery = "whole" THEN Len(net) ELSE 1 IN
         /\ arrived' = arrived \o SubSeq(net, 1, n)
         /\ net' = SubSeq(net, n + 1, Len(net))
    /\ UNCHANGED <<pc, begun, tx, rxVars, conn, sent, due, history>>

ConnectionLost ==
    /\ conn = "open"
    /\ conn' = "closed"
    /\ net' = <<>>
    /\ UNCHANGED <<pc, begun, tx, rxVars, arrived, sent, due, history>>

Next == Task \/ Spin \/ ServerSends \/ Arrive \/ ConnectionLost

Spec == Init /\ [][Next]_vars

\* loop() runs for ever.
FairSpec == Spec /\ WF_vars(Task)
-----------------------------------------------------------------------------
Whole == conduct.delivery = "whole"
Orderly == Whole /\ conduct.server = "plain"
OfExample == conduct.sketch = "example"

\* Nothing is on its way, or in the middle of being handled.
Settled == conn = "open" /\ net = <<>> /\ arrived = <<>> /\ pc \in {"loop", "compose"}

(***************************************************************************)
(* What the sketch reads on a connection that begin() has upgraded is what *)
(* the server sent: the data frames, each once and in order, with the type *)
(* of the message they belong to and the right final flag, and all of them *)
(* once everything has been handled, whatever control frames come between  *)
(* the messages, and whatever connections failed before.  It needs the     *)
(* payload to arrive with its header, and no control frame inside a        *)
(* fragmented message: the type of a PING would be given to the fragment   *)
(* behind it.  Without the upgrade the example, which goes on all the      *)
(* same, reads the HTTP answer as messages that nobody sent.               *)
(***************************************************************************)
ReceivedIsSent ==
    (Orderly /\ Upgraded) => /\ IsPrefix(got, due.messages)
                             /\ Settled => got = due.messages

(***************************************************************************)
(* The shared transmit buffer: on a connection that begin() has upgraded   *)
(* every message of the example holds what it wrote and nothing else, and  *)
(* every PING is answered, in order, with its own payload.  A free sketch  *)
(* breaks it: a PING that is parsed while it composes is appended to its   *)
(* message and sends it.  Without the upgrade the bytes of print() go out  *)
(* bare, and endMessage sends an empty frame behind them.                  *)
(***************************************************************************)
SentIsWritten ==
    (Whole /\ OfExample /\ Upgraded) =>
        /\ last.data = last.wrote
        /\ conduct.server = "plain" => /\ IsPrefix(pongs, due.pongs)
                                       /\ Settled => pongs = due.pongs

(***************************************************************************)
(* write(), whose length wraps when the buffer is too full for a write and *)
(* holds more than sizeof(iTxSize), is never called so by the example on a *)
(* connection that begin() has upgraded: its messages and the PONGs each   *)
(* find the buffer empty, and a PONG stops where its PING ends.  It needs  *)
(* the payload of a PING to arrive with its header: while it is missing    *)
(* the loop copies what read() returns until the buffer is full.           *)
(***************************************************************************)
BufferHolds == (Whole /\ OfExample /\ Upgraded) => pc # "crash"

(***************************************************************************)
(* Whatever arrives is read sooner or later while the example keeps        *)
(* sending, and a connection that was closed is noticed and begun anew, if *)
(* begin() had upgraded it.  It needs whole frames: flushRx spins for ever *)
(* for the missing bytes of a frame if the connection is lost before they  *)
(* arrive, as it does for the bytes that an HTTP answer, read as a header, *)
(* seems to announce.                                                      *)
(***************************************************************************)
FramesAreRead ==
    (Whole /\ OfExample) =>
        /\ (Upgraded /\ arrived # <<>>) ~> arrived = <<>>
        /\ (Upgraded /\ conn = "closed") ~> pc = "begin"

(***************************************************************************)
(* "check if the write size, fits in the buffer", WebSocketClient.cpp:167, *)
(* is said of every write; the length that is copied otherwise is that of  *)
(* iTxSize instead of iTxBuffer, less what the buffer holds.               *)
(***************************************************************************)
WritesFit == pc # "crash"
=============================================================================

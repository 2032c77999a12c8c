------------------------------ MODULE HttpClient -----------------------------
(***************************************************************************)
(* The ArduinoHttpClient library: the state machine of HttpClient.cpp that *)
(* sends requests and parses responses, driven by a sketch's loop() as in  *)
(* the library's examples and in http_post.ino: request, status, body, and *)
(* again.  Calls wait for bytes that arrive one by one, late, or never.    *)
(*                                                                         *)
(* Bytes are tokens: a prefix the parser looks for, a status code, a digit *)
(* or hex digit, CR, LF or anything else is one token.                     *)
(***************************************************************************)
EXTENDS Integers, Sequences, SequencesExt

CONSTANTS
    Responses,      \* what the server may answer, see Wire
    Sketches,       \* which sketches are considered, see StartRequest and Finish
    MaxReuse        \* requests the server takes on one connection (bound)

ASSUME SketchesAssumption == Sketches \subseteq {"simple", "headers", "stops"}
ASSUME ReuseAssumption == MaxReuse \in Nat \ {0}

VARIABLES
    pc,         \* where the sketch is
    sketch,     \* which one it is
    keepAlive,  \* "yes" after connectionKeepAlive(): iConnectionClose is false
    parser,     \* the library's state, see Parser
    status,     \* result of responseStatusCode(), 0 before it
    bodyLength, \* responseBody's local
    response,   \* responseBody's string
    outcome,    \* its result: "none" yet, the "string", or a "null" String
    conn,       \* the TCP connection
    reused,     \* requests sent on it
    net,        \* bytes on their way to the client
    rx,         \* bytes received and not yet read
    answer,     \* history: the server's response to the last request sent
    clean,      \* history: "no" if a header timed out or old bytes are on their way
    cut         \* history: "yes" if the body was late or lost

callVars == <<status, bodyLength, response, outcome>>
netVars  == <<conn, reused, net, rx>>
history  == <<answer, clean, cut>>
vars == <<pc, sketch, keepAlive, parser, callVars, netVars, history>>

HTTP_ERROR_API == -2
HTTP_ERROR_TIMED_OUT == -3
HTTP_ERROR_INVALID_RESPONSE == -4
kNoContentLengthHeader == -1

Idle == {"eIdle", "eRequestStarted"}        \* iState < eRequestSent
HeaderStates == {"eRequestSent", "eReadingStatusCode", "eStatusCodeRead", "eReadingContentLength",
                 "eSkipToEndOfHeader", "eLineStartingCRFound"}
BodyStates == {"eReadingBody", "eReadingChunkLength", "eReadingBodyChunk"}

\* The values of code and digit tokens.
Code(t) == CASE t = "100" -> 100 [] t = "200" -> 200 [] t = "404" -> 404
Codes == {"100", "200", "404"}
DigitOf(d) ==
    <<"0", "1", "2", "3", "4", "5", "6", "7", "8", "9", "A", "B", "C", "D", "E", "F">>[d + 1]
Digit(t) == CHOOSE d \in 0 .. 15 : DigitOf(d) = t
Digits == {DigitOf(d) : d \in 0 .. 9}
HexDigits == {DigitOf(d) : d \in 0 .. 15}
IsInformational(code) == code < 200 /\ code # 101

Tokens == Codes \cup HexDigits \cup
    {"HTTP/", "Content-Length: ", "Transfer-Encoding: chunked", "CR", "LF", "x"}

-----------------------------------------------------------------------------
(***************************************************************************)
(* The server.  A response is its status code, whether an interim response *)
(* precedes it, how its body is delimited, and the body in chunks.         *)
(***************************************************************************)
Body(r) == FlattenSeq(r.chunks)

\* The digits of n, to the base 10 or 16.
Numeral(n, base) ==
    LET digits[k \in 0 .. n] ==
            IF k < base THEN <<DigitOf(k)>>
            ELSE Append(digits[k \div base], DigitOf(k % base))
    IN digits[n]

Framing(r) ==
    CASE r.framing = "length"  -> <<"Content-Length: ">> \o Numeral(Len(Body(r)), 10) \o <<"CR", "LF">>
      [] r.framing = "chunked" -> <<"Transfer-Encoding: chunked", "CR", "LF">>
      [] r.framing = "close"   -> <<"x", "CR", "LF">>

Chunk(data) == Numeral(Len(data), 16) \o <<"CR", "LF">> \o data \o <<"CR", "LF">>

Chunked(chunks) == FlattenSeq([k \in DOMAIN chunks |-> Chunk(chunks[k])]) \o Chunk(<<>>)

Payload(r) == IF r.framing = "chunked" THEN Chunked(r.chunks) ELSE Body(r)

\* Headers and body.
Rest(r) == Framing(r) \o <<"CR", "LF">> \o Payload(r)

StatusLine(code) == <<"HTTP/", code, "CR", "LF">>

Wire(r) ==
    IF r.interim = "yes"
    THEN StatusLine("100") \o <<"CR", "LF">> \o StatusLine(r.code) \o Rest(r)
    ELSE StatusLine(r.code) \o Rest(r)

ASSUME ResponsesAssumption ==
    \A r \in Responses :
        /\ r.code \in {"200", "404"}
        /\ r.framing \in {"length", "chunked", "close"}
        /\ r.chunks \in Seq(Seq(Tokens) \ {<<>>})

\* Mutant: iIsChunked survives.
MutResetState == [state |-> "eIdle", code |-> 0, length |-> kNoContentLengthHeader,
                  consumed |-> 0, chunked |-> parser.chunked, chunk |-> 0]

ResetState == [state |-> "eIdle", code |-> 0, length |-> kNoContentLengthHeader,
               consumed |-> 0, chunked |-> "no", chunk |-> 0]

Parsers == [state : Idle \cup HeaderStates \cup BodyStates, code : {0, 100, 200, 404},
            length : Nat \cup {kNoContentLengthHeader}, consumed : Nat,
            chunked : {"yes", "no"}, chunk : Nat]

\* A chunk is being read only if some of it is left, a length from 0 on.
ParserOK(p) ==
    /\ p \in Parsers
    /\ p.state \in {"eReadingChunkLength", "eReadingBodyChunk"} => p.chunked = "yes"
    /\ p.state = "eReadingBodyChunk" => p.chunk > 0
    /\ p.state = "eReadingContentLength" => p.length # kNoContentLengthHeader

CallOK ==
    /\ pc \in {"idle", "call", "status", "skip", "body", "stop"}
    /\ sketch \in Sketches /\ keepAlive \in {"yes", "no"}
    /\ status \in {0, 100, 200, 404, HTTP_ERROR_API, HTTP_ERROR_TIMED_OUT, HTTP_ERROR_INVALID_RESPONSE}
    /\ bodyLength \in Nat \cup {kNoContentLengthHeader}
    /\ response \in Seq(Tokens) /\ outcome \in {"none", "string", "null"}

NetOK ==
    /\ conn \in {"open", "closed"} /\ reused \in 0 .. MaxReuse
    /\ net \in Seq(Tokens) /\ rx \in Seq(Tokens)
    /\ answer \in Responses /\ clean \in {"yes", "no"} /\ cut \in {"yes", "no"}

TypeOK == ParserOK(parser) /\ CallOK /\ NetOK

Init ==
    /\ pc = "idle"
    /\ sketch \in Sketches /\ keepAlive \in {"yes", "no"}
    /\ sketch = "stops" => keepAlive = "no"
    /\ parser = [state |-> "eIdle", code |-> 0, length |-> kNoContentLengthHeader,
                 consumed |-> 0, chunked |-> "no", chunk |-> 0]
    /\ status = 0 /\ bodyLength = kNoContentLengthHeader
    /\ response = <<>> /\ outcome = "none"
    /\ conn = "closed" /\ reused = 0 /\ net = <<>> /\ rx = <<>>
    /\ answer \in Responses /\ clean = "no" /\ cut = "no"

-----------------------------------------------------------------------------
(***************************************************************************)
(* startRequest, between beginRequest and endRequest if the sketch adds    *)
(* headers of its own: beginRequest makes the state eRequestStarted,       *)
(* whatever it was, so that flushClientRx and resetState are skipped.      *)
(***************************************************************************)
Begun == IF sketch = "simple" THEN parser ELSE [parser EXCEPT !.state = "eRequestStarted"]

Started == IF Begun.state \in BodyStates THEN ResetState ELSE Begun

Flushed == IF Begun.state \in BodyStates THEN <<>> ELSE rx

\* connected() is true as long as bytes are left to read.
Connected == conn = "open" \/ Flushed # <<>>

\* Every round of the sketch.
StartRound ==
    /\ pc = "idle"
    /\ pc' = "call"
    /\ status' = 0 /\ bodyLength' = kNoContentLengthHeader
    /\ response' = <<>> /\ outcome' = "none"
    /\ UNCHANGED <<sketch, keepAlive>>

\* startRequest returns HTTP_ERROR_API, which the sketches do not look at.
RefuseRequest ==
    /\ StartRound
    /\ Started.state \notin Idle
    /\ UNCHANGED <<parser, netVars, history>>

\* endRequest "finishes the headers" even then.
ConnectFails ==
    /\ StartRound
    /\ Started.state \in Idle
    /\ keepAlive = "no" \/ ~Connected
    /\ parser' = IF sketch = "simple" THEN Started ELSE [Started EXCEPT !.state = "eRequestSent"]
    /\ conn' = "closed" /\ net' = <<>> /\ rx' = <<>> /\ reused' = 0
    /\ clean' = "no"
    /\ UNCHANGED <<answer, cut>>

SendRequest ==
    /\ parser' = [Started EXCEPT !.state = "eRequestSent"]
    /\ answer' \in Responses
    /\ cut' = "no"

RequestOnNewConnection ==
    /\ StartRound
    /\ Started.state \in Idle
    /\ keepAlive = "no" \/ ~Connected
    /\ SendRequest
    /\ conn' = "open" /\ reused' = 1
    /\ rx' = <<>> /\ net' = Wire(answer')
    /\ clean' = "yes"

\* If the server has closed while bytes were left to read, nobody gets it.
RequestOnOpenConnection ==
    /\ StartRound
    /\ Started.state \in Idle
    /\ keepAlive = "yes" /\ Connected
    /\ conn = "open" => reused < MaxReuse
    /\ SendRequest
    /\ rx' = Flushed
    /\ clean' = IF conn = "open" /\ Flushed \o net = <<>> THEN clean ELSE "no"
    /\ IF conn = "open" THEN reused' = reused + 1 /\ net' = net \o Wire(answer')
                        ELSE UNCHANGED <<reused, net>>
    /\ UNCHANGED conn

-----------------------------------------------------------------------------
(***************************************************************************)
(* responseStatusCode.                                                     *)
(***************************************************************************)
Returns(result) == status' = result /\ pc' = "skip" /\ UNCHANGED <<bodyLength, response, outcome>>

Unread == <<sketch, keepAlive, conn, reused, net, answer>>

Take == rx # <<>> /\ rx' = Tail(rx)

CallStatus ==
    /\ pc = "call"
    /\ IF parser.state \in Idle
       THEN Returns(HTTP_ERROR_API) /\ UNCHANGED parser
       ELSE /\ parser' = [parser EXCEPT !.state = "eRequestSent", !.code = 0]
            /\ pc' = "status"
            /\ UNCHANGED callVars
    /\ UNCHANGED <<sketch, keepAlive, netVars, history>>

StatusMismatch ==
    /\ pc = "status"
    /\ parser.state = "eRequestSent"
    /\ Take /\ Head(rx) # "HTTP/"
    /\ Returns(HTTP_ERROR_INVALID_RESPONSE)
    /\ clean' = "no"
    /\ UNCHANGED <<parser, cut, Unread>>

AfterStatus(t) ==
    CASE parser.state = "eRequestSent" -> [parser EXCEPT !.state = "eReadingStatusCode"]
      [] parser.state = "eReadingStatusCode" /\ t \in Codes -> [parser EXCEPT !.code = Code(t)]
      [] parser.state = "eReadingStatusCode" /\ t \notin Codes ->
            [parser EXCEPT !.state = "eStatusCodeRead"]
      [] OTHER -> parser

ReadStatus ==
    /\ pc = "status"
    /\ Take /\ Head(rx) # "LF"
    /\ parser.state = "eRequestSent" => Head(rx) = "HTTP/"
    /\ parser' = AfterStatus(Head(rx))
    /\ UNCHANGED <<pc, callVars, clean, cut, Unread>>

\* Mutant: an interim response is taken for the response.
MutStatusLineEnds ==
    /\ pc = "status"
    /\ parser.state # "eRequestSent"
    /\ Take /\ Head(rx) = "LF"
    /\ parser' = AfterStatus("LF") /\ Returns(parser.code)
    /\ UNCHANGED <<clean, cut, Unread>>

\* An interim response is skipped up to the end of its status line.
StatusLineEnds ==
    /\ pc = "status"
    /\ parser.state # "eRequestSent"
    /\ Take /\ Head(rx) = "LF"
    /\ IF IsInformational(parser.code)
       THEN /\ parser' = [parser EXCEPT !.state = "eRequestSent", !.code = 0]
            /\ UNCHANGED <<pc, callVars>>
       ELSE parser' = AfterStatus("LF") /\ Returns(parser.code)
    /\ UNCHANGED <<clean, cut, Unread>>

\* No byte for iHttpResponseTimeout.
StatusTimeout ==
    /\ pc = "status" /\ rx = <<>>
    /\ IF parser.state = "eStatusCodeRead" /\ IsInformational(parser.code)
       THEN /\ parser' = [parser EXCEPT !.state = "eRequestSent", !.code = 0]
            /\ UNCHANGED <<pc, callVars>>
       ELSE Returns(HTTP_ERROR_TIMED_OUT) /\ UNCHANGED parser
    /\ clean' = "no"
    /\ UNCHANGED <<rx, cut, Unread>>

-----------------------------------------------------------------------------
(***************************************************************************)
(* readHeader, as contentLength calls it through skipResponseHeaders.      *)
(***************************************************************************)
AtLineStart(t) ==
    CASE t = "Content-Length: " ->
            [parser EXCEPT !.state = "eReadingContentLength", !.length = 0, !.consumed = 0]
      [] t = "Transfer-Encoding: chunked" ->
            [parser EXCEPT !.state = "eSkipToEndOfHeader", !.chunked = "yes"]
      [] t = "CR"  -> [parser EXCEPT !.state = "eLineStartingCRFound"]
      [] OTHER -> [parser EXCEPT !.state = "eSkipToEndOfHeader"]

InContentLength(t) ==
    IF t \in Digits THEN [parser EXCEPT !.length = @ * 10 + Digit(t)]
                    ELSE [parser EXCEPT !.state = "eSkipToEndOfHeader"]

AfterHeader(t) ==
    LET q == CASE parser.state = "eStatusCodeRead" -> AtLineStart(t)
               [] parser.state = "eReadingContentLength" -> InContentLength(t)
               [] OTHER -> parser
    IN  IF t # "LF" THEN q
        ELSE IF parser.state # "eLineStartingCRFound" THEN [q EXCEPT !.state = "eStatusCodeRead"]
        ELSE IF parser.chunked = "yes" THEN [q EXCEPT !.state = "eReadingChunkLength", !.chunk = 0]
        ELSE [q EXCEPT !.state = "eReadingBody"]

EndOfHeadersReached == parser.state \in BodyStates

ReadHeader ==
    /\ pc = "skip"
    /\ ~EndOfHeadersReached
    /\ Take
    /\ parser' = AfterHeader(Head(rx))
    /\ UNCHANGED <<pc, callVars, clean, cut, Unread>>

\* Mutant: the wait for headers has no limit.
MutSkipTimeout == pc = "skip" /\ ~EndOfHeadersReached /\ rx = <<>> /\ UNCHANGED vars

SkipTimeout ==
    /\ pc = "skip"
    /\ ~EndOfHeadersReached /\ rx = <<>>
    /\ bodyLength' = parser.length
    /\ pc' = "body"
    /\ clean' = "no"
    /\ UNCHANGED <<parser, status, response, outcome, rx, cut, Unread>>

SkipDone ==
    /\ pc = "skip"
    /\ EndOfHeadersReached
    /\ bodyLength' = parser.length
    /\ pc' = "body"
    /\ UNCHANGED <<parser, status, response, outcome, rx, clean, cut, Unread>>

-----------------------------------------------------------------------------
(***************************************************************************)
(* responseBody: read() until the length is reached or a byte is too late. *)
(* If the headers were not all there, it reads on as if it were the body.  *)
(***************************************************************************)
Reading == pc = "body" /\ parser.consumed # bodyLength

Counted(p) == IF EndOfHeadersReached /\ p.length > 0 THEN [p EXCEPT !.consumed = @ + 1] ELSE p

ReadByte ==
    /\ Reading
    /\ parser.state \notin {"eReadingChunkLength", "eReadingBodyChunk"}
    /\ Take
    /\ response' = Append(response, Head(rx))
    /\ parser' = Counted(parser)
    /\ UNCHANGED <<pc, status, bodyLength, outcome, clean, cut, Unread>>

ReadChunkByte ==
    /\ Reading
    /\ parser.state = "eReadingBodyChunk"
    /\ Take
    /\ response' = Append(response, Head(rx))
    /\ parser' = [Counted(parser) EXCEPT
                    !.chunk = @ - 1,
                    !.state = IF parser.chunk = 1 THEN "eReadingChunkLength" ELSE @]
    /\ UNCHANGED <<pc, status, bodyLength, outcome, clean, cut, Unread>>

\* Mutant: an empty line or the last chunk is taken for a chunk.
MutAfterChunkLength(t) ==
    CASE t \in HexDigits -> [parser EXCEPT !.chunk = @ * 16 + Digit(t)]
      [] t = "LF"        -> [parser EXCEPT !.state = "eReadingBodyChunk"]
      [] OTHER           -> parser

\* available() also reads the CR LF behind a chunk, as the length of no chunk.
AfterChunkLength(t) ==
    CASE t \in HexDigits -> [parser EXCEPT !.chunk = @ * 16 + Digit(t)]
      [] t = "LF" /\ parser.chunk > 0 -> [parser EXCEPT !.state = "eReadingBodyChunk"]
      [] OTHER           -> parser

ReadChunkLength ==
    /\ Reading
    /\ parser.state = "eReadingChunkLength"
    /\ Take
    /\ parser' = AfterChunkLength(Head(rx))
    /\ UNCHANGED <<pc, callVars, clean, cut, Unread>>

Finish ==
    /\ outcome' = IF bodyLength > 0 /\ bodyLength # Len(response) THEN "null" ELSE "string"
    /\ pc' = IF sketch = "stops" THEN "stop" ELSE "idle"
    /\ UNCHANGED <<parser, status, bodyLength, response, rx, clean, Unread>>

BodyDone ==
    /\ pc = "body" /\ parser.consumed = bodyLength
    /\ Finish
    /\ UNCHANGED cut

\* timedRead gives up after a second.
BodyTimeout ==
    /\ Reading /\ rx = <<>>
    /\ Finish
    /\ cut' = IF net # <<>> THEN "yes" ELSE cut

Stop ==
    /\ pc = "stop"
    /\ pc' = "idle"
    /\ parser' = ResetState
    /\ conn' = "closed" /\ reused' = 0 /\ net' = <<>> /\ rx' = <<>>
    /\ UNCHANGED <<sketch, keepAlive, callVars, history>>

-----------------------------------------------------------------------------
Arrive ==
    /\ net # <<>>
    /\ rx' = Append(rx, Head(net))
    /\ net' = Tail(net)
    /\ UNCHANGED <<pc, sketch, keepAlive, parser, callVars, conn, reused, history>>

ServerCloses ==
    /\ conn = "open"
    /\ conn' = "closed"
    /\ net' = <<>>
    /\ cut' = IF net # <<>> THEN "yes" ELSE cut
    /\ UNCHANGED <<pc, sketch, keepAlive, parser, callVars, reused, rx, answer, clean>>

Request == RefuseRequest \/ ConnectFails \/ RequestOnNewConnection \/ RequestOnOpenConnection

ResponseStatusCode == CallStatus \/ StatusMismatch \/ ReadStatus \/ StatusLineEnds \/ StatusTimeout

ContentLength == ReadHeader \/ SkipTimeout \/ SkipDone

ResponseBody == ReadByte \/ ReadChunkByte \/ ReadChunkLength \/ BodyDone \/ BodyTimeout

Sketch == Request \/ ResponseStatusCode \/ ContentLength \/ ResponseBody \/ Stop

Next == Sketch \/ Arrive \/ ServerCloses

Spec == Init /\ [][Next]_vars

\* Every wait of the library ends with a byte or a timeout.
FairSpec == Spec /\ WF_vars(Sketch)
-----------------------------------------------------------------------------
(***************************************************************************)
(* A status code that responseStatusCode returns is the final one of the   *)
(* server's response to the last request sent, never that of an interim or *)
(* of an earlier response.                                                 *)
(***************************************************************************)
StatusIsOfRequest == (clean = "yes" /\ status > 0) => status = Code(answer.code)

(***************************************************************************)
(* A string that responseBody returns holds the bytes of the body of the   *)
(* response, in order, and nothing of its framing; all of them if the      *)
(* length was announced, or if nothing was late or lost.  Otherwise the    *)
(* String is null, or, without a length, the part that was in time.        *)
(***************************************************************************)
BodyIsOfResponse ==
    (clean = "yes" /\ outcome # "none") =>
        /\ IsPrefix(response, Body(answer))
        /\ cut = "no" => outcome = "string" /\ response = Body(answer)
        /\ (answer.framing = "length" /\ outcome = "string") => response = Body(answer)

(***************************************************************************)
(* Every round of the sketch comes to an end, whatever part of its answer  *)
(* the server sends, and when.  It needs answers to be finite, as          *)
(* Responses are: the timeouts count from the last byte, so that a server  *)
(* that never stops sending would hold the sketch for ever.                *)
(***************************************************************************)
RoundsEnd == pc # "idle" ~> pc = "idle"

(***************************************************************************)
(* What HttpClient.h says of contentLength(): it is kNoContentLengthHeader *)
(* if no Content-Length header was returned by the server.  It is false    *)
(* for a sketch that adds headers of its own (beginRequest) and does not   *)
(* call stop(): the length of an earlier response survives.                *)
(***************************************************************************)
NoLengthWithoutHeader ==
    (pc = "body" /\ clean = "yes" /\ answer.framing # "length") =>
        bodyLength = kNoContentLengthHeader
=============================================================================

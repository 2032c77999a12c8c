----------------------------- MODULE MCHttpClient ----------------------------
(* TLC instances of HttpClient.  Bodies hold line ends and digits, so that  *)
(* taking framing for body, or body for framing, shows.                    *)
EXTENDS HttpClient

R(code, interim, framing, chunks) ==
    [code |-> code, interim |-> interim, framing |-> framing, chunks |-> chunks]

AllResponses == {R("200", "no", "length", <<[k \in 1 .. 10 |-> IF k = 1 THEN "LF" ELSE "x"]>>),
                 R("200", "no", "chunked", <<<<"LF">>, <<"2">>>>),
                 R("404", "yes", "close", <<<<"CR">>>>)}

TwoSketches == {"simple", "stops"}
NoStop == {"headers"}
=============================================================================

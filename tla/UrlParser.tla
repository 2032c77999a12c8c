------------------------------ MODULE UrlParser ------------------------------
(***************************************************************************)
(* http_parser.c and ParsedUrl: an URL taken apart character by character. *)
(* The loop of http_parser_parse_url is the state machine; what follows    *)
(* the loop is applied to the URL read so far, as if it ended there.       *)
(*                                                                         *)
(* Characters are classes: "a" for the letters that are hexadecimal        *)
(* digits, "z" for the others, "1" for digits, "+" for what only user      *)
(* names may have, and those that mean something by themselves.            *)
(***************************************************************************)
EXTENDS Integers, Sequences, SequencesExt

CONSTANTS Characters,   \* the classes that URLs are made of
          MaxPort,      \* the digits of a port that is not too large (65535)
          MaxLength     \* characters of an URL, depending on the first (bound)

VARIABLES
    url,        \* the characters read
    state,      \* s of http_parser_parse_url
    foundAt,    \* found_at: "yes" once the server has had an '@'
    old,        \* old_uf, or "max"
    field       \* field_set with field_data: the characters of each field, or <<>>

urlVars == <<url, state, foundAt, old, field>>

UrlFields == {"schema", "host", "port", "path", "query", "fragment", "userinfo"}

-----------------------------------------------------------------------------
Alpha    == {"a", "z"}
AlphaNum == Alpha \cup {"1"}
Hex      == {"a", "1"}
HostChar == AlphaNum \cup {"-", "."}
UserChar == HostChar \cup {"+", "*", ":", "%"}
UrlChar  == Characters \ {"?", "#", " "}

Dead == "dead"

\* parse_url_char.
ParseUrlChar(s, ch) ==
    CASE s = "start" /\ ch \in {"/", "*"} -> "path"
      [] s \in {"start", "schema"} /\ ch \in Alpha -> "schema"
      [] s = "schema" /\ ch = ":" -> "schema_slash"
      [] s = "schema_slash" /\ ch = "/" -> "schema_slash_slash"
      [] s = "schema_slash_slash" /\ ch = "/" -> "server_start"
      [] s \in {"server_start", "server", "server_with_at"} /\ ch = "/" -> "path"
      [] s \in {"server_start", "server", "server_with_at"} /\ ch = "?" -> "query_start"
      [] s \in {"server_start", "server"} /\ ch = "@" -> "server_with_at"
      [] s \in {"server_start", "server", "server_with_at"}
            /\ ch \in UserChar \cup {"[", "]"} -> "server"
      [] s = "path" /\ ch \in UrlChar -> "path"
      [] s = "path" /\ ch = "?" -> "query_start"
      [] s \in {"query_start", "query"} /\ ch \in UrlChar \cup {"?"} -> "query"
      [] s \in {"path", "query_start", "query"} /\ ch = "#" -> "fragment_start"
      [] s = "fragment_start" /\ ch = "#" -> "fragment_start"
      [] s = "fragment_start" /\ ch \in UrlChar \cup {"?"} -> "fragment"
      [] s = "fragment" /\ ch \in UrlChar \cup {"?", "#"} -> "fragment"
      [] OTHER -> Dead

FieldOf(s) == IF s \in {"server", "server_with_at"} THEN "host" ELSE s

Delimiters == {"schema_slash", "schema_slash_slash", "server_start", "query_start",
               "fragment_start"}

-----------------------------------------------------------------------------
(***************************************************************************)
(* http_parse_host: the server part, with found_at, to host, port and user *)
(* information; Dead where it returns 1.                                   *)
(***************************************************************************)
ParseHostChar(s, ch) ==
    CASE s \in {"userinfo_start", "userinfo"} /\ ch = "@" -> "host_start"
      [] s \in {"userinfo_start", "userinfo"} /\ ch \in UserChar -> "userinfo"
      [] s = "host_start" /\ ch = "[" -> "v6_start"
      [] s \in {"host_start", "host"} /\ ch \in HostChar -> "host"
      [] s \in {"host", "v6_end"} /\ ch = ":" -> "port_start"
      [] s \in {"v6", "v6_zone"} /\ ch = "]" -> "v6_end"
      [] s \in {"v6_start", "v6"} /\ ch \in Hex \cup {":", "."} -> "v6"
      [] s = "v6" /\ ch = "%" -> "v6_zone_start"
      [] s \in {"v6_zone_start", "v6_zone"} /\ ch \in HostChar \cup {"%"} -> "v6_zone"
      [] s \in {"port_start", "port"} /\ ch = "1" -> "port"
      [] OTHER -> Dead

HostPart(s) == IF s \in {"v6", "v6_zone_start", "v6_zone"} THEN "host" ELSE s

\* The states the server part must not end in.
Unfinished == {"host_start", "v6_start", "v6", "v6_zone_start", "v6_zone", "port_start",
               "userinfo", "userinfo_start"}

NoServer == [userinfo |-> <<>>, host |-> <<>>, port |-> <<>>]

HostStep(h, ch) ==
    LET new == ParseHostChar(h.state, ch)
        part == HostPart(new)
    IN [state |-> new,
        parts |-> IF part \in DOMAIN NoServer THEN [h.parts EXCEPT ![part] = Append(@, ch)]
                                              ELSE h.parts]

\* Mutant: the length of the host is not reset.
MutParseHost(server, at) ==
    FoldLeft(HostStep,
             [state |-> IF at = "yes" THEN "userinfo_start" ELSE "host_start",
              parts |-> [NoServer EXCEPT !.host = server]],
             server)

ParseHost(server, at) ==
    FoldLeft(HostStep,
             [state |-> IF at = "yes" THEN "userinfo_start" ELSE "host_start", parts |-> NoServer],
             server)

-----------------------------------------------------------------------------
UrlInit ==
    /\ url = <<>>
    /\ state = "start"
    /\ foundAt = "no"
    /\ old = "max"
    /\ field = [f \in UrlFields |-> <<>>]

\* Once round the loop.
ReadCharacter ==
    /\ state # Dead
    /\ \E ch \in Characters :
          /\ Len(url) < MaxLength[IF url = <<>> THEN ch ELSE Head(url)]
          /\ url' = Append(url, ch)
          /\ state' = ParseUrlChar(state, ch)
          /\ foundAt' = IF state' = "server_with_at" THEN "yes" ELSE foundAt
          /\ IF state' \in Delimiters \cup {Dead}
             THEN UNCHANGED <<old, field>>
             ELSE /\ old' = FieldOf(state')
                  /\ field' = [field EXCEPT ![FieldOf(state')] =
                                  IF FieldOf(state') = old THEN Append(@, ch) ELSE <<ch>>]

\* The next URL.
NextUrl ==
    /\ url # <<>>
    /\ url' = <<>> /\ state' = "start" /\ foundAt' = "no" /\ old' = "max"
    /\ field' = [f \in UrlFields |-> <<>>]

UrlNext == ReadCharacter \/ NextUrl

UrlSpec == UrlInit /\ [][UrlNext]_urlVars

\* The rest of http_parser_parse_url.
Server == ParseHost(field["host"], foundAt)

\* Its result: 0 is "ok".
Result ==
    IF \/ state = Dead
       \/ field["schema"] # <<>> /\ field["host"] = <<>>
       \/ field["host"] # <<>> /\ Server.state \in Unfinished \cup {Dead}
       \/ Len(Server.parts.port) > MaxPort
    THEN "error" ELSE "ok"

Authority == IF field["host"] = <<>> THEN NoServer ELSE Server.parts

(***************************************************************************)
(* ParsedUrl, which does not look at the result.  Its port is 0 unless all *)
(* went well, and then, as when none is given, the usual one.              *)
(***************************************************************************)
PortOf == IF Result = "ok" THEN Authority.port ELSE <<>>

PathOf == IF field["path"] = <<>> THEN <<"/">> ELSE field["path"]
-----------------------------------------------------------------------------
\* What the parts stand for, with what may be between them.
Schemas == IF field["schema"] = <<>> THEN {<<>>} ELSE {field["schema"] \o <<":", "/", "/">>}
Users == IF foundAt = "yes" THEN {Authority.userinfo \o <<"@">>} ELSE {<<>>}
Hosts == {Authority.host, <<"[">> \o Authority.host \o <<"]">>}
Ports == IF PortOf = <<>> THEN {<<>>} ELSE {<<":">> \o PortOf}
Queries == IF field["query"] = <<>> THEN {<<>>, <<"?">>} ELSE {<<"?">> \o field["query"]}
Hashes == {[k \in 1 .. n |-> "#"] : n \in 1 .. Len(url)}
Fragments == IF field["fragment"] = <<>> THEN {<<>>} \cup Hashes
             ELSE {h \o field["fragment"] : h \in Hashes}

(***************************************************************************)
(* An URL that is accepted is its parts: put together again, with the      *)
(* delimiters that belong between them, they give the URL, no character    *)
(* lost, taken twice or given to two parts.                                *)
(***************************************************************************)
PartsMakeTheUrl ==
    (Result = "ok" /\ url # <<>>) =>
        \E s \in Schemas, u \in Users, h \in Hosts, p \in Ports,
           path \in {field["path"], PathOf}, q \in Queries, f \in Fragments :
           url = s \o u \o h \o p \o path \o q \o f
=============================================================================

-------------------------- MODULE WebSocket_proofs --------------------------
(***************************************************************************)
(* Proofs about WebSocket, for any sketch, server and network that Conduct *)
(* allows, any sizes of buffers and frames and any number of frames.       *)
(***************************************************************************)
EXTENDS WebSocket, SequenceTheorems, TLAPS

-----------------------------------------------------------------------------
(***************************************************************************)
(* The bytes of a connection.  Wire is every byte the server has sent on   *)
(* it, whether it was delivered or lost; ends says where the frames end.   *)
(***************************************************************************)
Byte == ({"op"} \X Types \X {"yes", "no"}) \cup ({"len"} \X Nat) \cup ({"data"} \X Nat)
AnyByte == Byte \cup {<<"http", "-">>}
Token == {"w", "p", "-", "-1"} \cup Types \cup Nat

Long(f) == f.size >= ShortLimit
HeadLen(f) == IF Long(f) THEN 3 ELSE 2
FrameLen(f) == HeadLen(f) + f.size

\* The i-th byte of f as the n-th frame.
FrameByte(f, n, i) ==
    IF i = 1 THEN <<"op", f.type, f.fin>>
    ELSE IF i = 2 THEN <<"len", IF Long(f) THEN ShortLimit ELSE f.size>>
    ELSE IF i = 3 /\ Long(f) THEN <<"len", f.size>>
    ELSE <<"data", n>>

FrameMax == MaxPayload + 3

Wired(wire, ends) ==
    /\ wire \in Seq(Byte)
    /\ ends \in [0 .. Len(sent) -> Nat] /\ ends[0] = 0 /\ ends[Len(sent)] = Len(wire)
    /\ Len(wire) <= FrameMax * Len(sent)
    /\ \A i, j \in 0 .. Len(sent) : i < j => ends[i] < ends[j]
    /\ \A j \in 1 .. Len(sent) :
          /\ ends[j] = ends[j - 1] + FrameLen(sent[j])
          /\ \A i \in 1 .. FrameLen(sent[j]) : wire[ends[j - 1] + i] = FrameByte(sent[j], j, i)

\* What is left of it once n bytes have been read.
Behind(wire, n) ==
    /\ n \in Nat
    /\ n + Len(arrived) + Len(net) <= Len(wire)
    /\ conn = "open" => n + Len(arrived) + Len(net) = Len(wire)
    /\ \A i \in 1 .. Len(arrived) : arrived[i] = wire[n + i]
    /\ \A i \in 1 .. Len(net) : net[i] = wire[n + Len(arrived) + i]

\* The header of frame k has been parsed, rx.size bytes of its payload have not been read.
At(ends, k, n) == k \in 0 .. Len(sent) /\ ends[k] = n + rx.size

\* With whole frames, what has arrived ends with a frame, k or a later one.
Boundary(ends, k, n) ==
    Whole => \E m \in k .. Len(sent) : n + Len(arrived) = ends[m]

(***************************************************************************)
(* count[j] of the first j of n frames are in the set which, and list is   *)
(* their images, in order.                                                 *)
(***************************************************************************)
Counts(n, count, which, image, list) ==
    /\ count \in [0 .. n -> Nat] /\ count[0] = 0 /\ count[n] = Len(list)
    /\ \A j \in 0 .. n : count[j] <= Len(list)
    /\ \A j \in 1 .. n :
          /\ count[j] = IF j \in which THEN count[j - 1] + 1 ELSE count[j - 1]
          /\ j \in which => list[count[j]] = image[j]

MessageFrames == {j \in 1 .. Len(sent) : IsMessage(sent[j])}
MessageOf == [j \in 1 .. Len(sent) |-> Message(sent[j], j)]
PingFrames == {j \in 1 .. Len(sent) : sent[j].type = "ping"}
PingOf == [j \in 1 .. Len(sent) |-> Payload(sent[j], j)]

\* The type and the final flag that the receiver has for frame k.
HeaderKnown(k) ==
    k > 0 => IF IsData(sent[k]) THEN rx.type = "text" /\ rx.fin = sent[k].fin
                                ELSE rx.type = sent[k].type

\* The messages that have been read, and what has been read of the present one.
ReadSoFar(count, k) ==
    /\ got = SubSeq(due.messages, 1, IF pc = "read" THEN count[k] - 1 ELSE count[k])
    /\ pc = "read" => /\ k > 0 /\ IsMessage(sent[k])
                      /\ rx.size = left /\ left <= sent[k].size
                      /\ text = [i \in 1 .. sent[k].size - left |-> k]

\* The PINGs that have been answered, and what has been copied of the present one.
PongedSoFar(count, k) ==
    /\ pc # "crash"
    /\ pongs = SubSeq(due.pongs, 1, IF pc = "pong" THEN count[k] - 1 ELSE count[k])
    /\ pc = "pong" => /\ k > 0 /\ sent[k].type = "ping"
                      /\ rx.size <= sent[k].size
                      /\ tx.started = "yes" /\ tx.type = "pong"
                      /\ tx.data = [i \in 1 .. sent[k].size - rx.size |-> k]

\* On a connection: some bytes read, some frames parsed.
Framed(wire, ends, k, n) ==
    /\ iState = "body" /\ pc # "begin"
    /\ Wired(wire, ends)
    /\ Behind(wire, n)
    /\ At(ends, k, n)
    /\ Boundary(ends, k, n)

Tallied(messages, pings, k) ==
    /\ Counts(Len(sent), messages, MessageFrames, MessageOf, due.messages)
    /\ Counts(Len(sent), pings, PingFrames, PingOf, due.pongs)
    /\ Orderly => HeaderKnown(k) /\ ReadSoFar(messages, k)
    /\ Orderly /\ OfExample => PongedSoFar(pings, k)

InFrame == \E wire, ends, messages, pings, k, n :
               Framed(wire, ends, k, n) /\ Tallied(messages, pings, k)

\* A byte of a length was missing: the receiver waits for more than will ever come.
Lost ==
    /\ ~Whole
    /\ rx.size > Len(arrived) + Len(net) + FrameMax * (FrameLimit - Len(sent))

\* The connection is over, and nothing of it is left to read.
Over ==
    /\ conn = "closed" /\ arrived = <<>>
    /\ pc \notin {"read", "pong", "discard"}
    /\ Whole /\ OfExample => pc # "compose"

-----------------------------------------------------------------------------
(***************************************************************************)
(* The inductive invariant.  BaseInv holds on every connection, UpInv on   *)
(* one that begin() has upgraded.  The central part of UpInv is WireInv:   *)
(* either the bytes that have been read end inside frame k of the wire,    *)
(* and what has been read and answered is what the first k frames call     *)
(* for; or a byte of a length was missing when the header was parsed, and  *)
(* the receiver waits for more than can come; or the connection is over.   *)
(* The other parts are what the steps need to stay there.                  *)
(***************************************************************************)

Pongs == Seq(Nat)
DueMessages == [type : {"text"}, fin : {"yes", "no"}, data : Seq(Nat)]
TxType == [started : {"yes", "no"}, type : {"text", "ping", "pong"}, data : Seq(Token)]

\* The example has begun no message, and written none, but where it composes.
ExampleInv == OfExample =>
    /\ back = "loop"
    /\ pc \notin {"compose", "crash"} => wrote = <<>>
    /\ pc \notin {"compose", "pong", "crash"} => tx.started = "no"

BaseInv ==
    /\ TypeOK
    /\ tx \in TxType
    /\ rx \in [type : OpCodes, fin : {"yes", "no"}, size : Nat]
    /\ arrived \in Seq(AnyByte) /\ net \in Seq(AnyByte)
    /\ wrote \in Seq({"w"})
    /\ ExampleInv

TypeInv ==
    /\ TypeOK
    /\ tx \in TxType
    /\ rx \in [type : OpCodes, fin : {"yes", "no"}, size : 0 .. Huge]
    /\ arrived \in Seq(Byte) /\ net \in Seq(Byte)
    /\ wrote \in Seq({"w"})
    /\ due \in [messages : Seq(DueMessages), pongs : Seq(Pongs)]

PlaceInv ==
    /\ iState \in {"body", "idle"}
    /\ iState = "idle" => conn = "closed" /\ arrived = <<>> /\ rx.size = 0
    /\ conn = "closed" => net = <<>>
    /\ pc = "begin" => conn = "closed" /\ arrived = <<>>
    /\ pc = "header" => rx.size = 0
    /\ pc = "read" => left <= rx.size

\* What the server sends when no control frame comes inside a message.
SentInv == conduct.server = "plain" =>
    /\ \A j \in 1 .. Len(sent) :
          sent[j].type = "cont" => j > 1 /\ IsData(sent[j - 1]) /\ sent[j - 1].fin = "no"
    /\ Midway => IsData(sent[Len(sent)])

PrefixInv ==
    /\ Orderly => IsPrefix(got, due.messages)
    /\ Orderly /\ OfExample => IsPrefix(pongs, due.pongs)

\* The example has one message at a time in the buffer, and nothing else with it, and what
\* it has still to copy of a PING fits.
TxInv == Whole /\ OfExample =>
    /\ back = "loop" /\ pc # "crash"
    /\ last.data = last.wrote
    /\ pc = "compose" => /\ tx.started = "yes" /\ tx.type = "text" /\ tx.data = wrote
                         /\ Len(wrote) <= MaxMessage
    /\ pc = "pong" => tx.started = "yes" /\ Len(tx.data) + rx.size <= MaxPayload
    /\ pc # "compose" => wrote = <<>>
    /\ pc \notin {"compose", "pong"} => tx.started = "no"

WireInv == InFrame \/ Lost \/ Over

UpInv == TypeInv /\ PlaceInv /\ SentInv /\ PrefixInv /\ TxInv /\ WireInv

IInv == BaseInv /\ (Upgraded => UpInv)

(***************************************************************************)
(* The steps that are taken on such a connection.                          *)
(***************************************************************************)
Receives == Flush \/ Flushed \/ NoMessage \/ ParseData \/ ParseDiscarded \/ ParsePing
              \/ CopyByte \/ SendPong \/ PongDiscarded \/ CloseDiscarded

Goes == Disconnected \/ Compose \/ Receives \/ ReadString \/ StringRead
          \/ Spin \/ ServerSends \/ Arrive \/ ConnectionLost

\* The size of the frame is known, and a header is where one is expected.
Sound ==
    /\ Available = rx.size
    /\ pc = "header" /\ Len(arrived) >= 2 => IsHeader

USE DEF begun

-----------------------------------------------------------------------------
(* Sequences and numbers. *)

LEMMA TailFacts ==
    ASSUME NEW S, NEW s \in Seq(S), s # <<>>
    PROVE  /\ Tail(s) \in Seq(S) /\ Head(s) \in S /\ Head(s) = s[1]
           /\ Len(s) \in Nat /\ Len(s) > 0 /\ Len(Tail(s)) = Len(s) - 1
           /\ \A i \in 1 .. Len(Tail(s)) : Tail(s)[i] = s[i + 1]
BY HeadTailProperties

LEMMA DropFacts ==
    ASSUME NEW S, NEW s \in Seq(S), NEW h \in 0 .. Len(s)
    PROVE  LET rest == SubSeq(s, h + 1, Len(s)) IN
             /\ rest \in Seq(S) /\ Len(rest) = Len(s) - h
             /\ \A i \in 1 .. Len(rest) : rest[i] = s[h + i]
BY SubSeqProperties

LEMMA TakeFacts ==
    ASSUME NEW S, NEW s \in Seq(S), NEW n \in 0 .. Len(s)
    PROVE  /\ SubSeq(s, 1, n) \in Seq(S) /\ Len(SubSeq(s, 1, n)) = n
           /\ \A i \in 1 .. n : SubSeq(s, 1, n)[i] = s[i]
BY SubSeqProperties

LEMMA ConcatFacts ==
    ASSUME NEW S, NEW s \in Seq(S), NEW t \in Seq(S)
    PROVE  /\ s \o t \in Seq(S) /\ Len(s \o t) = Len(s) + Len(t)
           /\ \A i \in 1 .. Len(s) : (s \o t)[i] = s[i]
           /\ \A i \in 1 .. Len(t) : (s \o t)[Len(s) + i] = t[i]
BY ConcatProperties

LEMMA AppendFacts ==
    ASSUME NEW S, NEW s \in Seq(S), NEW x \in S
    PROVE  /\ Append(s, x) \in Seq(S) /\ Len(Append(s, x)) = Len(s) + 1
           /\ \A i \in 1 .. Len(s) : Append(s, x)[i] = s[i]
           /\ Append(s, x)[Len(s) + 1] = x
BY AppendProperties

LEMMA PrefixOfTaken ==
    ASSUME NEW S, NEW s \in Seq(S), NEW n \in 0 .. Len(s)
    PROVE  IsPrefix(SubSeq(s, 1, n), s)
<1>1. /\ SubSeq(s, 1, n) \in Seq(S) /\ Len(SubSeq(s, 1, n)) = n
  BY TakeFacts
<1>2. SubSeq(SubSeq(s, 1, n), 1, n) = SubSeq(s, 1, n)
  BY <1>1, SubSeqFull
<1> QED
  BY <1>1, <1>2 DEF IsPrefix

LEMMA TakenGrows ==
    ASSUME NEW S, NEW s \in Seq(S), NEW n \in 0 .. Len(s) - 1
    PROVE  Append(SubSeq(s, 1, n), s[n + 1]) = SubSeq(s, 1, n + 1)
BY SubSeqRecursiveSecond

LEMMA TakenOfGrown ==
    ASSUME NEW S, NEW s \in Seq(S), NEW x \in S, NEW n \in 0 .. Len(s)
    PROVE  SubSeq(Append(s, x), 1, n) = SubSeq(s, 1, n)
<1>1. /\ SubSeq(Append(s, x), 1, n) \in Seq(S) /\ Len(SubSeq(Append(s, x), 1, n)) = n
      /\ \A i \in 1 .. n : SubSeq(Append(s, x), 1, n)[i] = Append(s, x)[i]
  BY AppendFacts, TakeFacts
<1>2. /\ SubSeq(s, 1, n) \in Seq(S) /\ Len(SubSeq(s, 1, n)) = n
      /\ \A i \in 1 .. n : SubSeq(s, 1, n)[i] = s[i]
  BY TakeFacts
<1>3. \A i \in 1 .. n : Append(s, x)[i] = s[i]
  BY AppendFacts
<1> QED
  BY <1>1, <1>2, <1>3, SeqEqual

\* Counting up: a sequence of copies of k, one longer.
LEMMA CopiesGrow ==
    ASSUME NEW k, NEW n \in Nat
    PROVE  Append([i \in 1 .. n |-> k], k) = [i \in 1 .. n + 1 |-> k]
<1>1. [i \in 1 .. n |-> k] \in Seq({k}) /\ [i \in 1 .. n + 1 |-> k] \in Seq({k})
  BY IsASeq
<1>2. Len([i \in 1 .. n |-> k]) = n /\ Len([i \in 1 .. n + 1 |-> k]) = n + 1
  OBVIOUS
<1> QED
  BY <1>1, <1>2, AppendFacts, SeqEqual

-----------------------------------------------------------------------------
(* Frames and their bytes. *)

LEMMA FrameFacts ==
    ASSUME NEW f \in Frames
    PROVE  /\ f.type \in Types /\ f.fin \in {"yes", "no"} /\ f.size \in 0 .. MaxPayload
           /\ f.size \in Nat /\ HeadLen(f) \in {2, 3} /\ FrameLen(f) = HeadLen(f) + f.size
           /\ FrameLen(f) \in 2 .. FrameMax
BY BufferAssumption DEF Frames, HeadLen, FrameLen, FrameMax

LEMMA HeaderFacts ==
    ASSUME NEW f \in Frames, NEW n \in Nat
    PROVE  /\ Header(f) \in Seq(Byte) /\ Len(Header(f)) = HeadLen(f)
           /\ \A i \in 1 .. HeadLen(f) : Header(f)[i] = FrameByte(f, n, i)
<1>1. /\ f.type \in Types /\ f.fin \in {"yes", "no"} /\ f.size \in Nat /\ ShortLimit \in Nat
  BY FrameFacts, BufferAssumption
<1>2. /\ <<"op", f.type, f.fin>> \in Byte /\ <<"len", f.size>> \in Byte
      /\ <<"len", ShortLimit>> \in Byte
  BY <1>1 DEF Byte
<1>3. CASE Long(f)
  <2>1. Header(f) = <<<<"op", f.type, f.fin>>, <<"len", ShortLimit>>, <<"len", f.size>>>>
    BY <1>1, <1>3 DEF Header, Long
  <2>2. /\ HeadLen(f) = 3 /\ FrameByte(f, n, 1) = <<"op", f.type, f.fin>>
        /\ FrameByte(f, n, 2) = <<"len", ShortLimit>> /\ FrameByte(f, n, 3) = <<"len", f.size>>
    BY <1>3 DEF HeadLen, FrameByte
  <2>3. /\ Header(f)[1] = FrameByte(f, n, 1) /\ Header(f)[2] = FrameByte(f, n, 2)
        /\ Header(f)[3] = FrameByte(f, n, 3) /\ Len(Header(f)) = 3
    BY <2>1, <2>2
  <2>4. Header(f) \in Seq(Byte)
    BY <1>2, <2>1
  <2> QED
    BY <2>2, <2>3, <2>4
<1>4. CASE ~Long(f)
  <2>1. Header(f) = <<<<"op", f.type, f.fin>>, <<"len", f.size>>>>
    BY <1>1, <1>4 DEF Header, Long
  <2>2. /\ HeadLen(f) = 2 /\ FrameByte(f, n, 1) = <<"op", f.type, f.fin>>
        /\ FrameByte(f, n, 2) = <<"len", f.size>>
    BY <1>4 DEF HeadLen, FrameByte
  <2>3. /\ Header(f)[1] = FrameByte(f, n, 1) /\ Header(f)[2] = FrameByte(f, n, 2)
        /\ Len(Header(f)) = 2
    BY <2>1, <2>2
  <2>4. Header(f) \in Seq(Byte)
    BY <1>2, <2>1
  <2> QED
    BY <2>2, <2>3, <2>4
<1> QED
  BY <1>3, <1>4

LEMMA DataFacts ==
    ASSUME NEW size \in Nat, NEW n \in Nat
    PROVE  LET data == [i \in 1 .. size |-> <<"data", n>>] IN
             /\ data \in Seq(Byte) /\ Len(data) = size
             /\ \A i \in 1 .. size : data[i] = <<"data", n>>
<1> DEFINE data == [i \in 1 .. size |-> <<"data", n>>]
<1>1. data \in [1 .. size -> Byte] /\ DOMAIN data = 1 .. size
  BY DEF Byte
<1>2. data \in Seq(Byte)
  BY <1>1, SeqDef
<1>3. Len(data) = size
  BY <1>1, <1>2, LenProperties
<1> QED
  BY <1>2, <1>3

LEMMA ConcatThree ==
    ASSUME NEW S, NEW s \in Seq(S), NEW h \in Seq(S), NEW d \in Seq(S)
    PROVE  /\ s \o h \o d \in Seq(S) /\ Len(s \o h \o d) = Len(s) + Len(h) + Len(d)
           /\ \A i \in 1 .. Len(s) : (s \o h \o d)[i] = s[i]
           /\ \A i \in 1 .. Len(h) : (s \o h \o d)[Len(s) + i] = h[i]
           /\ \A i \in 1 .. Len(d) : (s \o h \o d)[Len(s) + Len(h) + i] = d[i]
<1>1. /\ s \o h \in Seq(S) /\ Len(s \o h) = Len(s) + Len(h)
      /\ \A i \in 1 .. Len(s) : (s \o h)[i] = s[i]
      /\ \A i \in 1 .. Len(h) : (s \o h)[Len(s) + i] = h[i]
  BY ConcatFacts
<1>2. PICK u \in Seq(S) : u = s \o h
  BY <1>1
<1>3. /\ u \o d \in Seq(S) /\ Len(u \o d) = Len(u) + Len(d)
      /\ \A i \in 1 .. Len(u) : (u \o d)[i] = u[i]
      /\ \A i \in 1 .. Len(d) : (u \o d)[Len(u) + i] = d[i]
  BY ConcatFacts
<1>4. Len(s) \in Nat /\ Len(h) \in Nat /\ Len(d) \in Nat
  BY LenProperties
<1> QED
  BY <1>1, <1>2, <1>3, <1>4

LEMMA HeaderThenData ==
    ASSUME NEW f \in Frames, NEW n \in Nat, NEW t, NEW from \in Nat,
           \A i \in 1 .. HeadLen(f) : t[from + i] = FrameByte(f, n, i),
           \A i \in 1 .. f.size : t[from + HeadLen(f) + i] = <<"data", n>>
    PROVE  \A i \in 1 .. FrameLen(f) : t[from + i] = FrameByte(f, n, i)
<1>1. f.size \in Nat /\ HeadLen(f) \in {2, 3} /\ FrameLen(f) = HeadLen(f) + f.size
  BY FrameFacts
<1> TAKE i \in 1 .. FrameLen(f)
<1>2. CASE i <= HeadLen(f)
  BY <1>1, <1>2
<1>3. CASE i > HeadLen(f)
  <2>1. /\ i - HeadLen(f) \in 1 .. f.size
        /\ from + i = from + HeadLen(f) + (i - HeadLen(f))
    BY <1>1, <1>3
  <2>2. t[from + i] = <<"data", n>>
    BY <2>1
  <2>3. FrameByte(f, n, i) = <<"data", n>>
    BY <1>1, <1>3 DEF FrameByte, HeadLen
  <2> QED
    BY <2>2, <2>3
<1> QED
  BY <1>1, <1>2, <1>3

\* What Sends appends to a sequence of bytes.
LEMMA BytesOfFrame ==
    ASSUME NEW f \in Frames, NEW n \in Nat, NEW s \in Seq(Byte)
    PROVE  LET t == s \o Header(f) \o [i \in 1 .. f.size |-> <<"data", n>>] IN
             /\ t \in Seq(Byte) /\ Len(t) = Len(s) + FrameLen(f)
             /\ \A i \in 1 .. Len(s) : t[i] = s[i]
             /\ \A i \in 1 .. FrameLen(f) : t[Len(s) + i] = FrameByte(f, n, i)
<1>1. /\ f.size \in Nat /\ HeadLen(f) \in Nat /\ FrameLen(f) = HeadLen(f) + f.size
      /\ Len(s) \in Nat
  BY FrameFacts, LenProperties
<1>2. SUFFICES ASSUME NEW h \in Seq(Byte), h = Header(f), Len(h) = HeadLen(f),
                      \A i \in 1 .. HeadLen(f) : h[i] = FrameByte(f, n, i),
                      NEW d \in Seq(Byte), d = [i \in 1 .. f.size |-> <<"data", n>>],
                      Len(d) = f.size, \A i \in 1 .. f.size : d[i] = <<"data", n>>
               PROVE  LET t == s \o h \o d IN
                        /\ t \in Seq(Byte) /\ Len(t) = Len(s) + FrameLen(f)
                        /\ \A i \in 1 .. Len(s) : t[i] = s[i]
                        /\ \A i \in 1 .. FrameLen(f) : t[Len(s) + i] = FrameByte(f, n, i)
  BY <1>1, HeaderFacts, DataFacts
<1>3. /\ s \o h \o d \in Seq(Byte) /\ Len(s \o h \o d) = Len(s) + Len(h) + Len(d)
      /\ \A i \in 1 .. Len(s) : (s \o h \o d)[i] = s[i]
      /\ \A i \in 1 .. Len(h) : (s \o h \o d)[Len(s) + i] = h[i]
      /\ \A i \in 1 .. Len(d) : (s \o h \o d)[Len(s) + Len(h) + i] = d[i]
  <2>1. h \in Seq(Byte) /\ d \in Seq(Byte)
    BY <1>2
  <2> QED
    BY <2>1, ConcatThree
<1>4. /\ \A i \in 1 .. HeadLen(f) : (s \o h \o d)[Len(s) + i] = FrameByte(f, n, i)
      /\ \A i \in 1 .. f.size : (s \o h \o d)[Len(s) + HeadLen(f) + i] = <<"data", n>>
  BY <1>2, <1>3
<1>5. \A i \in 1 .. FrameLen(f) : (s \o h \o d)[Len(s) + i] = FrameByte(f, n, i)
  <2> DEFINE t == s \o h \o d
             from == Len(s)
  <2>1. /\ from \in Nat
        /\ \A i \in 1 .. HeadLen(f) : t[from + i] = FrameByte(f, n, i)
        /\ \A i \in 1 .. f.size : t[from + HeadLen(f) + i] = <<"data", n>>
    BY <1>1, <1>4
  <2> HIDE DEF t, from
  <2>2. \A i \in 1 .. FrameLen(f) : t[from + i] = FrameByte(f, n, i)
    BY <2>1, HeaderThenData
  <2> QED
    BY <2>2 DEF t, from
<1>6. Len(h) + Len(d) = FrameLen(f) /\ Len(h) \in Nat /\ Len(d) \in Nat /\ Len(s) \in Nat
  BY <1>1, <1>2
<1>7. Len(s \o h \o d) = Len(s) + FrameLen(f)
  BY <1>3, <1>6
<1>8. (s \o h \o d) \in Seq(Byte) /\ \A i \in 1 .. Len(s) : (s \o h \o d)[i] = s[i]
  BY <1>3
<1> QED
  BY <1>5, <1>7, <1>8

-----------------------------------------------------------------------------
(* Numbers of bytes. *)

LEMMA NumberFacts ==
    ASSUME TypeInv
    PROVE  /\ FrameMax \in Nat /\ FrameMax >= 3 /\ FrameLimit \in Nat
           /\ MaxPayload \in Nat /\ FrameMax = MaxPayload + 3 /\ MaxHttp \in Nat
           /\ Huge = FrameMax * FrameLimit + MaxHttp + 1 /\ Huge \in Nat
           /\ Len(sent) \in Nat /\ Len(sent) <= FrameLimit
           /\ Len(arrived) \in Nat /\ Len(net) \in Nat
           /\ rx.size \in Nat /\ left \in Nat
<1>1. FrameLimit \in Nat /\ MaxPayload \in Nat /\ MaxHttp \in Nat
  BY BufferAssumption DEF TypeInv, TypeOK, FrameLimit
<1>2. Len(sent) \in Nat /\ Len(sent) <= FrameLimit /\ left \in Nat
  BY DEF TypeInv, TypeOK
<1>3. Len(arrived) \in Nat /\ Len(net) \in Nat
  BY LenProperties DEF TypeInv
<1>4. Huge = FrameMax * FrameLimit + MaxHttp + 1 /\ FrameMax = MaxPayload + 3
  BY DEF Huge, FrameMax
<1>5. FrameMax * FrameLimit \in Nat
  BY <1>1, <1>4
<1>6. rx.size \in 0 .. Huge
  BY DEF TypeInv
<1>7. Huge \in Nat
  BY <1>1, <1>4, <1>5
<1> QED
  BY <1>1, <1>2, <1>3, <1>4, <1>6, <1>7

\* With all that may still come, a lost receiver has more to wait for.
LEMMA HugeIsMore ==
    ASSUME NEW a \in Nat, NEW m \in Nat, NEW s \in Nat, NEW l \in Nat, s <= l, a <= m * s
    PROVE  m * l + 1 > a + m * (l - s)
<1>1. m * l = m * s + m * (l - s)
  BY SMT
<1>2. m * s \in Nat /\ m * (l - s) \in Nat /\ m * l \in Nat
  BY SMT
<1> QED
  BY <1>1, <1>2

LEMMA OneFrameMore ==
    ASSUME NEW m \in Nat, NEW s \in Nat, NEW l \in Nat
    PROVE  m * (s + 1) = m * s + m /\ m * (l - s) = m * (l - (s + 1)) + m
BY SMT

LEMMA HugeIsLong ==
    ASSUME TypeInv, Len(sent) > 0
    PROVE  Huge > MaxPayload
<1>1. FrameLimit >= 1 /\ FrameMax \in Nat /\ FrameLimit \in Nat
  BY NumberFacts
<1>2. FrameMax * FrameLimit = FrameMax + FrameMax * (FrameLimit - 1)
  BY <1>1, SMT
<1>3. FrameMax * (FrameLimit - 1) \in Nat
  BY <1>1, SMT
<1>4. /\ Huge = FrameMax * FrameLimit + MaxHttp + 1 /\ FrameMax = MaxPayload + 3
      /\ MaxPayload \in Nat /\ MaxHttp \in Nat
  BY NumberFacts
<1>5. PICK more \in Nat : FrameMax * FrameLimit = FrameMax + more
  BY <1>2, <1>3
<1>6. Huge = MaxPayload + 3 + more + MaxHttp + 1
  BY <1>1, <1>4, <1>5
<1> QED
  BY <1>4, <1>5, <1>6

-----------------------------------------------------------------------------
(* A byte of payload is read. *)

LEMMA WiredKept ==
    ASSUME NEW wire, NEW ends, Wired(wire, ends), UNCHANGED sent
    PROVE  Wired(wire, ends)'
BY DEF Wired

LEMMA ByteRead ==
    ASSUME TypeInv, NEW wire, NEW ends, NEW k, NEW n,
           Wired(wire, ends), Behind(wire, n), At(ends, k, n), Boundary(ends, k, n),
           rx.size > 0, arrived # <<>>, arrived' = Tail(arrived),
           UNCHANGED <<conduct, conn, net, sent>>, rx' = OneLess
    PROVE  Behind(wire, n + 1)' /\ At(ends, k, n + 1)' /\ Boundary(ends, k, n + 1)'
<1>1. /\ Len(arrived) \in Nat /\ Len(arrived) > 0 /\ Len(arrived') = Len(arrived) - 1
      /\ \A i \in 1 .. Len(arrived') : arrived'[i] = arrived[i + 1]
  BY TailFacts DEF TypeInv
<1>2. Len(net) \in Nat /\ rx.size \in Nat /\ Len(sent) \in Nat
  BY NumberFacts
<1>3. n \in Nat /\ n + 1 \in Nat
  BY DEF Behind
<1>4. Behind(wire, n + 1)'
  <2>1. Len(wire) \in Nat
    BY LenProperties DEF Wired
  <2>2. /\ (n + 1) + Len(arrived') + Len(net') <= Len(wire)
        /\ conn' = "open" => (n + 1) + Len(arrived') + Len(net') = Len(wire)
    BY <1>1, <1>2, <1>3, <2>1 DEF Behind
  <2>3. \A i \in 1 .. Len(arrived') : arrived'[i] = wire[(n + 1) + i]
    <3> TAKE i \in 1 .. Len(arrived')
    <3>1. i + 1 \in 1 .. Len(arrived) /\ n + (i + 1) = (n + 1) + i
      BY <1>1, <1>3
    <3>2. arrived[i + 1] = wire[n + (i + 1)]
      BY <3>1 DEF Behind
    <3> QED
      BY <1>1, <3>1, <3>2
  <2>4. \A i \in 1 .. Len(net') : net'[i] = wire[(n + 1) + Len(arrived') + i]
    <3> TAKE i \in 1 .. Len(net')
    <3>1. (n + 1) + Len(arrived') + i = n + Len(arrived) + i
      BY <1>1, <1>2, <1>3
    <3>2. net[i] = wire[n + Len(arrived) + i]
      BY DEF Behind
    <3> QED
      BY <3>1, <3>2
  <2> QED
    BY <1>3, <2>2, <2>3, <2>4 DEF Behind
<1>5. rx'.size = rx.size - 1
  BY DEF OneLess, TypeInv
<1>6. At(ends, k, n + 1)'
  BY <1>2, <1>3, <1>5 DEF At
<1>7. Boundary(ends, k, n + 1)'
  <2>1. (n + 1) + Len(arrived') = n + Len(arrived)
    BY <1>1, <1>3
  <2> QED
    BY <2>1 DEF Boundary, Whole
<1> QED
  BY <1>4, <1>6, <1>7

\* With whole frames, the payload has arrived with its header.
LEMMA PayloadArrived ==
    ASSUME TypeInv, NEW wire, NEW ends, NEW k, NEW n,
           Wired(wire, ends), Behind(wire, n), At(ends, k, n), Boundary(ends, k, n),
           Whole
    PROVE  rx.size <= Len(arrived) /\ (arrived = <<>> => rx.size = 0)
<1>1. PICK m \in k .. Len(sent) : n + Len(arrived) = ends[m]
  BY DEF Boundary
<1>2. /\ k \in 0 .. Len(sent) /\ m \in 0 .. Len(sent) /\ k <= m
      /\ n \in Nat /\ Len(arrived) \in Nat /\ rx.size \in Nat
  BY <1>1, NumberFacts DEF At, Behind
<1>3. ends[k] <= ends[m]
  <2>1. ends[k] \in Nat /\ ends[m] \in Nat /\ (k < m => ends[k] < ends[m])
    BY <1>2 DEF Wired
  <2> QED
    BY <1>2, <2>1
<1>4. ends[k] = n + rx.size
  BY DEF At
<1>5. rx.size <= Len(arrived)
  BY <1>1, <1>2, <1>3, <1>4
<1>6. arrived = <<>> => Len(arrived) = 0
  OBVIOUS
<1> QED
  BY <1>2, <1>5, <1>6

-----------------------------------------------------------------------------
(* A header is parsed. *)

LEMMA HeaderAhead ==
    ASSUME TypeInv, NEW wire, NEW ends, NEW k, NEW n,
           Wired(wire, ends), Behind(wire, n), At(ends, k, n),
           rx.size = 0, Len(arrived) >= 2
    PROVE  /\ k + 1 \in 1 .. Len(sent) /\ sent[k + 1] \in Frames
           /\ ends[k + 1] = n + FrameLen(sent[k + 1])
           /\ \A i \in 1 .. Len(arrived) :
                 i <= FrameLen(sent[k + 1]) => arrived[i] = FrameByte(sent[k + 1], k + 1, i)
<1>1. /\ k \in 0 .. Len(sent) /\ n \in Nat /\ ends[k] = n /\ Len(sent) \in Nat
      /\ Len(arrived) \in Nat /\ Len(net) \in Nat
  BY NumberFacts DEF At, Behind
<1>2. k # Len(sent)
  <2>1. n + Len(arrived) + Len(net) <= Len(wire) /\ ends[Len(sent)] = Len(wire)
    BY DEF Behind, Wired
  <2> QED
    BY <1>1, <2>1
<1>3. k + 1 \in 1 .. Len(sent) /\ (k + 1) - 1 = k
  BY <1>1, <1>2
<1>4. sent[k + 1] \in Frames
  BY <1>3, ElementOfSeq DEF TypeInv, TypeOK
<1>5. /\ ends[k + 1] = ends[k] + FrameLen(sent[k + 1])
      /\ \A i \in 1 .. FrameLen(sent[k + 1]) :
            wire[ends[k] + i] = FrameByte(sent[k + 1], k + 1, i)
  BY <1>3 DEF Wired
<1>6. ASSUME NEW i \in 1 .. Len(arrived), i <= FrameLen(sent[k + 1])
      PROVE  arrived[i] = FrameByte(sent[k + 1], k + 1, i)
  <2>1. i \in 1 .. FrameLen(sent[k + 1])
    BY <1>4, <1>6, FrameFacts
  <2>2. arrived[i] = wire[n + i]
    BY <1>6 DEF Behind
  <2> QED
    BY <1>1, <1>5, <2>1, <2>2
<1> QED
  BY <1>1, <1>3, <1>4, <1>5, <1>6

\* What parseMessage makes of the bytes it has.
LEMMA HeaderParsed ==
    ASSUME NEW f \in Frames, NEW j, Len(arrived) \in Nat, Len(arrived) >= 2,
           \A i \in 1 .. Len(arrived) : i <= FrameLen(f) => arrived[i] = FrameByte(f, j, i)
    PROVE  /\ arrived[1] = <<"op", f.type, f.fin>>
           /\ LongHeader <=> Long(f)
           /\ ~Long(f) => HeaderSize = 2 /\ NewSize = f.size
           /\ Long(f) /\ Len(arrived) >= 3 => HeaderSize = 3 /\ NewSize = f.size
           /\ Long(f) /\ Len(arrived) = 2 => HeaderSize = 2 /\ NewSize = Huge
<1>1. /\ f.size \in Nat /\ HeadLen(f) \in {2, 3} /\ FrameLen(f) = HeadLen(f) + f.size
      /\ ShortLimit \in Nat
  BY FrameFacts, BufferAssumption
<1>2. arrived[1] = FrameByte(f, j, 1) /\ arrived[2] = FrameByte(f, j, 2)
  BY <1>1
<1>3. Long(f) /\ Len(arrived) >= 3 => arrived[3] = FrameByte(f, j, 3)
  BY <1>1 DEF HeadLen
<1>4. arrived[1] = <<"op", f.type, f.fin>>
  BY <1>2 DEF FrameByte
<1>5. arrived[2][2] = IF Long(f) THEN ShortLimit ELSE f.size
  <2>1. arrived[2] = <<"len", IF Long(f) THEN ShortLimit ELSE f.size>>
    BY <1>2 DEF FrameByte
  <2> QED
    BY <2>1
<1>6. LongHeader <=> Long(f)
  BY <1>1, <1>5 DEF LongHeader, Long
<1>7. Long(f) /\ Len(arrived) >= 3 => arrived[3][2] = f.size
  <2>1. Long(f) /\ Len(arrived) >= 3 => arrived[3] = <<"len", f.size>>
    BY <1>3 DEF FrameByte
  <2> QED
    BY <2>1
<1>8. ~Long(f) => HeaderSize = 2 /\ NewSize = f.size
  BY <1>5, <1>6 DEF HeaderSize, NewSize
<1>9. Long(f) /\ Len(arrived) >= 3 => HeaderSize = 3 /\ NewSize = f.size
  BY <1>6, <1>7 DEF HeaderSize, NewSize
<1>10. Long(f) /\ Len(arrived) = 2 => HeaderSize = 2 /\ NewSize = Huge
  BY <1>6 DEF HeaderSize, NewSize
<1> QED
  BY <1>4, <1>6, <1>8, <1>9, <1>10

\* The step of Parse that all its callers share.
Parsed ==
    /\ rx' = [type |-> NewOpCode(arrived[1]).type, fin |-> NewOpCode(arrived[1]).fin,
              size |-> NewSize]
    /\ arrived' = SubSeq(arrived, HeaderSize + 1, Len(arrived))
    /\ UNCHANGED <<conduct, conn, net, sent, due>>

LEMMA BytesDropped ==
    ASSUME arrived \in Seq(Byte), net \in Seq(Byte), NEW wire, Len(wire) \in Nat, NEW n,
           Behind(wire, n), NEW h \in 0 .. Len(arrived),
           arrived' = SubSeq(arrived, h + 1, Len(arrived)), UNCHANGED <<conn, net>>
    PROVE  Behind(wire, n + h)' /\ Len(arrived') = Len(arrived) - h
<1>1. Len(arrived) \in Nat /\ Len(net) \in Nat /\ n \in Nat /\ h \in Nat /\ n + h \in Nat
  BY LenProperties DEF Behind
<1>2. /\ Len(arrived') = Len(arrived) - h
      /\ \A i \in 1 .. Len(arrived') : arrived'[i] = arrived[h + i]
  BY DropFacts
<1> DEFINE a == Len(arrived)
           b == Len(net)
           c == Len(arrived')
           w == Len(wire)
<1>3. /\ (n + h) + Len(arrived') + Len(net') <= Len(wire)
      /\ conn' = "open" => (n + h) + Len(arrived') + Len(net') = Len(wire)
  <2>1. c = a - h /\ a \in Nat /\ b \in Nat /\ w \in Nat
    BY <1>1, <1>2
  <2>2. n + a + b <= w /\ (conn = "open" => n + a + b = w)
    BY DEF Behind
  <2> HIDE DEF a, b, c, w
  <2>3. (n + h) + c + b = n + a + b
    BY <1>1, <2>1
  <2> QED
    BY <2>2, <2>3 DEF a, b, c, w
<1>4. \A i \in 1 .. Len(arrived') : arrived'[i] = wire[(n + h) + i]
  <2> TAKE i \in 1 .. Len(arrived')
  <2>1. h + i \in 1 .. Len(arrived) /\ n + (h + i) = (n + h) + i
    BY <1>1, <1>2
  <2>2. arrived[h + i] = wire[n + (h + i)]
    BY <2>1 DEF Behind
  <2> QED
    BY <1>2, <2>1, <2>2
<1>5. \A i \in 1 .. Len(net') : net'[i] = wire[(n + h) + Len(arrived') + i]
  <2> TAKE i \in 1 .. Len(net')
  <2>1. (n + h) + c + i = n + a + i
    <3>1. c = a - h /\ a \in Nat
      BY <1>1, <1>2
    <3> HIDE DEF a, b, c
    <3> QED
      BY <1>1, <3>1
  <2>2. net[i] = wire[n + a + i]
    BY DEF Behind
  <2> QED
    BY <2>1, <2>2
<1> QED
  BY <1>1, <1>2, <1>3, <1>4, <1>5 DEF Behind

LEMMA HeaderRead ==
    ASSUME TypeInv, NEW wire, NEW ends, NEW k, NEW n,
           Wired(wire, ends), Behind(wire, n), At(ends, k, n), Boundary(ends, k, n),
           rx.size = 0, Len(arrived) >= 2, Parsed,
           Len(arrived) >= 3 \/ ~Long(sent[k + 1]),
           NEW h, h = HeadLen(sent[k + 1])
    PROVE  /\ Behind(wire, n + h)' /\ At(ends, k + 1, n + h)' /\ Boundary(ends, k + 1, n + h)'
           /\ rx'.size = sent[k + 1].size /\ rx'.size <= MaxPayload
<1> DEFINE f == sent[k + 1]
<1>1. /\ k + 1 \in 1 .. Len(sent) /\ f \in Frames /\ ends[k + 1] = n + FrameLen(f)
      /\ \A i \in 1 .. Len(arrived) : i <= FrameLen(f) => arrived[i] = FrameByte(f, k + 1, i)
  BY HeaderAhead
<1>2. /\ Len(arrived) \in Nat /\ Len(net) \in Nat /\ n \in Nat /\ arrived \in Seq(Byte)
      /\ Len(sent) \in Nat /\ k \in 0 .. Len(sent) /\ Len(wire) \in Nat
  BY NumberFacts, LenProperties DEF Behind, At, TypeInv, Wired
<1>3. /\ f.size \in Nat /\ f.size <= MaxPayload /\ h \in {2, 3} /\ FrameLen(f) = h + f.size
      /\ MaxPayload \in Nat
  <2>1. MaxPayload \in Nat
    BY NumberFacts
  <2>2. /\ f.size \in 0 .. MaxPayload /\ HeadLen(f) \in {2, 3}
        /\ FrameLen(f) = HeadLen(f) + f.size
    BY <1>1, FrameFacts
  <2>3. h = HeadLen(f)
    OBVIOUS
  <2> HIDE DEF f
  <2> QED
    BY <2>1, <2>2, <2>3
<1>4. HeaderSize = h /\ NewSize = f.size /\ h <= Len(arrived)
  <2>1. /\ ~Long(f) => HeaderSize = 2 /\ NewSize = f.size
        /\ Long(f) /\ Len(arrived) >= 3 => HeaderSize = 3 /\ NewSize = f.size
    BY <1>1, <1>2, HeaderParsed
  <2> QED
    BY <2>1 DEF HeadLen
<1> HIDE DEF f
<1>5. UNCHANGED <<conduct, conn, net, sent>> /\ rx'.size = f.size
  BY <1>4 DEF Parsed
<1>6. h \in 0 .. Len(arrived) /\ arrived' = SubSeq(arrived, h + 1, Len(arrived))
  <2>1. arrived' = SubSeq(arrived, h + 1, Len(arrived))
    BY <1>4, Zenon DEF Parsed
  <2>2. h \in Nat
    BY <1>3
  <2>3. h \in 0 .. Len(arrived)
    BY <1>2, <1>4, <2>2
  <2> QED
    BY <2>1, <2>3
<1>7. n + h \in Nat
  BY <1>2, <1>3
<1>8. Behind(wire, n + h)' /\ Len(arrived') = Len(arrived) - h
  <2>1. arrived \in Seq(Byte) /\ net \in Seq(Byte)
    BY DEF TypeInv
  <2> QED
    BY <1>2, <1>5, <1>6, <2>1, BytesDropped, Zenon
<1>9. At(ends, k + 1, n + h)'
  BY <1>1, <1>2, <1>3, <1>5, <1>7 DEF At
<1>10. Boundary(ends, k + 1, n + h)'
  <2> SUFFICES ASSUME Whole
               PROVE  \E m \in k + 1 .. Len(sent) : (n + h) + Len(arrived') = ends[m]
    BY <1>5 DEF Boundary, Whole
  <2>1. PICK m \in k .. Len(sent) : n + Len(arrived) = ends[m]
    BY DEF Boundary
  <2>2. m # k
    <3>1. ends[k] = n
      BY <1>2 DEF At
    <3> QED
      BY <1>2, <2>1, <3>1
  <2>3. m \in k + 1 .. Len(sent)
    BY <1>2, <2>1, <2>2
  <2>4. (n + h) + Len(arrived') = n + Len(arrived)
    BY <1>2, <1>3, <1>8
  <2> QED
    BY <2>1, <2>3, <2>4
<1> QED
  BY <1>3, <1>5, <1>8, <1>9, <1>10 DEF f

\* With whole frames, nothing is missing behind a header.
LEMMA WholeFrameArrived ==
    ASSUME TypeInv, NEW wire, NEW ends, NEW k, NEW n,
           Wired(wire, ends), Behind(wire, n), At(ends, k, n), Boundary(ends, k, n),
           rx.size = 0, Len(arrived) >= 2, Whole
    PROVE  Len(arrived) >= 3 \/ ~Long(sent[k + 1])
<1> DEFINE f == sent[k + 1]
<1>1. /\ k + 1 \in 1 .. Len(sent) /\ f \in Frames /\ ends[k + 1] = n + FrameLen(f)
  BY HeaderAhead
<1>2. /\ Len(arrived) \in Nat /\ n \in Nat /\ Len(sent) \in Nat /\ k \in 0 .. Len(sent)
      /\ ends[k] = n
  BY NumberFacts DEF Behind, At
<1>3. PICK m \in k .. Len(sent) : n + Len(arrived) = ends[m]
  BY DEF Boundary
<1>4. m \in k + 1 .. Len(sent)
  BY <1>2, <1>3
<1>5. ends[k + 1] <= ends[m]
  <2>1. /\ ends[k + 1] \in Nat /\ ends[m] \in Nat
        /\ k + 1 < m => ends[k + 1] < ends[m]
    <3>1. k + 1 \in 0 .. Len(sent) /\ m \in 0 .. Len(sent)
      BY <1>1, <1>2, <1>4
    <3> QED
      BY <3>1 DEF Wired
  <2> QED
    BY <1>2, <1>4, <2>1
<1>6. FrameLen(f) \in Nat /\ (Long(f) => FrameLen(f) >= 3)
  BY <1>1, FrameFacts DEF HeadLen
<1> QED
  BY <1>1, <1>2, <1>3, <1>5, <1>6

\* Otherwise the receiver may be lost.
LEMMA HeaderMissed ==
    ASSUME TypeInv, NEW wire, NEW ends, NEW k, NEW n,
           Wired(wire, ends), Behind(wire, n), At(ends, k, n), Boundary(ends, k, n),
           rx.size = 0, Len(arrived) >= 2, Parsed,
           ~(Len(arrived) >= 3 \/ ~Long(sent[k + 1]))
    PROVE  Lost' /\ rx'.size = Huge
<1>1. ~Whole
  BY WholeFrameArrived
<1>2. /\ Len(arrived) = 2 /\ Len(net) \in Nat /\ n \in Nat
      /\ Len(sent) \in Nat /\ Len(sent) <= FrameLimit /\ Len(wire) \in Nat
      /\ FrameMax \in Nat /\ FrameLimit \in Nat
  <2>1. Len(arrived) \in Nat /\ Len(wire) \in Nat
    BY NumberFacts, LenProperties DEF Wired
  <2>2. Len(arrived) = 2
    <3> DEFINE a == Len(arrived)
    <3>1. a \in Nat /\ a >= 2 /\ ~(a >= 3)
      BY <2>1
    <3> HIDE DEF a
    <3>2. a = 2
      BY <3>1
    <3> QED
      BY <3>2 DEF a
  <2>3. n \in Nat
    BY DEF Behind
  <2> QED
    BY <2>1, <2>2, <2>3, NumberFacts
<1>3. HeaderSize = 2 /\ NewSize = Huge
  BY <1>2, HeaderAhead, HeaderParsed
<1>4. Len(arrived') = 0
  <2>1. arrived' = SubSeq(arrived, 3, 2)
    BY <1>2, <1>3 DEF Parsed
  <2>2. SubSeq(arrived, 3, 2) = <<>>
    BY SubSeqEmpty
  <2> QED
    BY <2>1, <2>2
<1>5. n + Len(arrived) + Len(net) <= Len(wire) /\ Len(wire) <= FrameMax * Len(sent)
  BY DEF Behind, Wired
<1>6. Len(net) <= FrameMax * Len(sent)
  <2>1. FrameMax * Len(sent) \in Nat
    BY <1>2
  <2> QED
    BY <1>2, <1>5, <2>1
<1>7. FrameMax * FrameLimit + 1 > Len(net) + FrameMax * (FrameLimit - Len(sent))
  BY <1>2, <1>6, HugeIsMore
<1>8. Huge > Len(arrived') + Len(net) + FrameMax * (FrameLimit - Len(sent))
  <2>1. FrameMax * (FrameLimit - Len(sent)) \in Int /\ FrameMax * FrameLimit \in Int
    BY <1>2
  <2>2. PICK all \in Int : all = FrameMax * FrameLimit
    BY <2>1
  <2>3. PICK more \in Int : more = FrameMax * (FrameLimit - Len(sent))
    BY <2>1
  <2>4. Huge = all + MaxHttp + 1 /\ MaxHttp \in Nat /\ all + 1 > Len(net) + more
    BY <1>7, <2>2, <2>3, NumberFacts
  <2>5. Huge > 0 + Len(net) + more
    BY <1>2, <2>4
  <2> QED
    BY <1>4, <2>3, <2>5
<1>9. /\ UNCHANGED <<conduct, net, sent>> /\ rx'.size = Huge
  BY <1>3 DEF Parsed
<1> QED
  BY <1>1, <1>8, <1>9 DEF Lost, Whole, FrameLimit

-----------------------------------------------------------------------------
(* The server sends a frame, the network delivers some or loses the rest.  *)

LEMMA SentGrows ==
    ASSUME TypeInv, NEW f \in Frames, sent' = Append(sent, f)
    PROVE  /\ Len(sent) \in Nat /\ Len(sent') = Len(sent) + 1 /\ sent' \in Seq(Frames)
           /\ \A j \in 1 .. Len(sent) : sent'[j] = sent[j]
           /\ sent'[Len(sent) + 1] = f
BY AppendFacts, LenProperties DEF TypeInv, TypeOK

Extended(ends, f, total) ==
    [j \in 0 .. Len(sent) + 1 |-> IF j <= Len(sent) THEN ends[j] ELSE total + FrameLen(f)]

LEMMA WireGrows ==
    ASSUME TypeInv, NEW wire, NEW ends, Wired(wire, ends),
           NEW f \in Frames, sent' = Append(sent, f),
           NEW longer \in Seq(Byte), Len(longer) = Len(wire) + FrameLen(f),
           \A i \in 1 .. Len(wire) : longer[i] = wire[i],
           \A i \in 1 .. FrameLen(f) : longer[Len(wire) + i] = FrameByte(f, Len(sent) + 1, i),
           NEW further, further = Extended(ends, f, Len(wire))
    PROVE  Wired(longer, further)'
<1> DEFINE l == Len(sent)
           w == Len(wire)
           b == FrameLen(f)
<1>1. /\ l \in Nat /\ Len(sent') = l + 1
      /\ \A j \in 1 .. l : sent'[j] = sent[j]
      /\ sent'[l + 1] = f
  BY SentGrows
<1>2. b \in Nat /\ b >= 2 /\ b <= FrameMax /\ FrameMax \in Nat
  BY FrameFacts, NumberFacts
<1>3. w \in Nat /\ ends \in [0 .. l -> Nat] /\ ends[0] = 0 /\ ends[l] = w
  BY LenProperties DEF Wired
<1>4. /\ \A j \in 0 .. l : further[j] = ends[j]
      /\ further[l + 1] = w + b /\ DOMAIN further = 0 .. l + 1
      /\ further = [j \in 0 .. l + 1 |-> IF j <= l THEN ends[j] ELSE w + b]
  BY <1>1 DEF Extended
<1>5. Len(longer) = w + b /\ w <= FrameMax * l
  BY DEF Wired
<1>6. \A i, j \in 0 .. l : i < j => ends[i] < ends[j]
  BY DEF Wired
<1>7. \A j \in 0 .. l : ends[j] <= w
  <2> TAKE j \in 0 .. l
  <2>1. j < l => ends[j] < ends[l]
    BY <1>1, <1>6
  <2> QED
    BY <1>1, <1>3, <2>1
<1>8. \A j \in 1 .. l : ends[j] = ends[j - 1] + FrameLen(sent[j])
  BY DEF Wired
<1>9. \A j \in 1 .. l : \A i \in 1 .. FrameLen(sent[j]) :
         wire[ends[j - 1] + i] = FrameByte(sent[j], j, i)
  BY DEF Wired
<1>10. \A j \in 1 .. l : sent[j] \in Frames
  BY ElementOfSeq DEF TypeInv, TypeOK
<1> HIDE DEF l, w, b
<1>11. further \in [0 .. l + 1 -> Nat]
  BY <1>1, <1>2, <1>3, <1>4
<1>12. w + b <= FrameMax * (l + 1)
  <2>1. FrameMax * (l + 1) = FrameMax * l + FrameMax
    BY <1>1, <1>2, OneFrameMore
  <2>2. PICK p \in Nat : p = FrameMax * l
    BY <1>1, <1>2
  <2> QED
    BY <1>2, <1>3, <1>5, <2>1, <2>2
<1>13. \A i, j \in 0 .. l + 1 : i < j => further[i] < further[j]
  <2> TAKE i, j \in 0 .. l + 1
  <2> HAVE i < j
  <2>1. CASE j <= l
    BY <1>1, <1>4, <1>6, <2>1
  <2>2. CASE j = l + 1
    <3>1. i \in 0 .. l
      BY <1>1, <2>2
    <3>2. further[i] = ends[i] /\ ends[i] <= w /\ ends[i] \in Nat
      BY <1>3, <1>4, <1>7, <3>1
    <3> QED
      BY <1>2, <1>3, <1>4, <2>2, <3>2
  <2> QED
    BY <1>1, <2>1, <2>2
<1>14. ASSUME NEW j \in 1 .. l + 1
       PROVE  /\ further[j] = further[j - 1] + FrameLen(sent'[j])
              /\ \A i \in 1 .. FrameLen(sent'[j]) :
                    longer[further[j - 1] + i] = FrameByte(sent'[j], j, i)
  <2>1. CASE j <= l
    <3>1. j \in 1 .. l /\ j \in 0 .. l /\ j - 1 \in 0 .. l
      BY <1>1, <1>14, <2>1
    <3>2. sent'[j] = sent[j] /\ further[j] = ends[j] /\ further[j - 1] = ends[j - 1]
      BY <1>1, <1>4, <3>1
    <3>3. ASSUME NEW i \in 1 .. FrameLen(sent[j])
          PROVE  longer[ends[j - 1] + i] = FrameByte(sent[j], j, i)
      <4>1. FrameLen(sent[j]) \in Nat /\ ends[j - 1] \in Nat /\ ends[j] \in Nat /\ ends[j] <= w
        <5>1. FrameLen(sent[j]) \in 2 .. FrameMax
          BY <1>10, <3>1, FrameFacts
        <5>2. ends[j - 1] \in Nat /\ ends[j] \in Nat /\ ends[j] <= w
          BY <1>3, <1>7, <3>1
        <5> QED
          BY <1>2, <5>1, <5>2
      <4>2. ends[j] = ends[j - 1] + FrameLen(sent[j])
        BY <1>8, <3>1
      <4>3. ends[j - 1] + i \in 1 .. w
        BY <1>3, <3>3, <4>1, <4>2
      <4>4. longer[ends[j - 1] + i] = wire[ends[j - 1] + i]
        BY <4>3 DEF w
      <4> QED
        BY <1>9, <3>1, <3>3, <4>4
    <3> QED
      BY <1>8, <3>1, <3>2, <3>3
  <2>2. CASE j = l + 1
    <3>1. sent'[j] = f /\ further[j] = w + b /\ j - 1 = l /\ further[j - 1] = w
      <4>1. j - 1 = l /\ l \in 0 .. l
        BY <1>1, <2>2
      <4> QED
        BY <1>1, <1>3, <1>4, <2>2, <4>1
    <3>2. \A i \in 1 .. b : longer[w + i] = FrameByte(f, j, i)
      BY <2>2 DEF w, b, l
    <3> QED
      BY <3>1, <3>2 DEF b
  <2> QED
    BY <1>1, <1>14, <2>1, <2>2
<1> QED
  <2>1. 0 \in 0 .. l
    BY <1>1
  <2>2. further[0] = 0
    BY <1>3, <1>4, <2>1
  <2> QED
    BY <1>1, <1>4, <1>5, <1>11, <1>12, <1>13, <1>14, <2>2 DEF Wired

LEMMA StreamGrows ==
    ASSUME TypeInv, NEW wire, NEW ends, NEW k, NEW n,
           Wired(wire, ends), Behind(wire, n), At(ends, k, n), Boundary(ends, k, n),
           conn = "open", NEW f \in Frames, Sends(f, Len(sent) + 1),
           UNCHANGED <<conduct, conn, arrived, rx>>
    PROVE  \E longer, further :
              /\ Wired(longer, further)' /\ Behind(longer, n)'
              /\ At(further, k, n)' /\ Boundary(further, k, n)'
<1> DEFINE b == FrameLen(f)
           a == Len(arrived)
           c == Len(net)
           w == Len(wire)
           l == Len(sent)
<1>1. l \in Nat /\ wire \in Seq(Byte) /\ net \in Seq(Byte) /\ l + 1 \in Nat
  BY NumberFacts DEF Wired, TypeInv
<1>2. b \in Nat
  BY FrameFacts
<1>3. PICK longer : /\ longer \in Seq(Byte) /\ Len(longer) = Len(wire) + b
                    /\ \A i \in 1 .. Len(wire) : longer[i] = wire[i]
                    /\ \A i \in 1 .. b : longer[Len(wire) + i] = FrameByte(f, l + 1, i)
  <2> DEFINE longer == wire \o Header(f) \o [i \in 1 .. f.size |-> <<"data", l + 1>>]
  <2>1. /\ longer \in Seq(Byte) /\ Len(longer) = Len(wire) + b
        /\ \A i \in 1 .. Len(wire) : longer[i] = wire[i]
        /\ \A i \in 1 .. b : longer[Len(wire) + i] = FrameByte(f, l + 1, i)
    BY <1>1, BytesOfFrame
  <2> HIDE DEF longer, b, l
  <2> QED
    BY <2>1
<1>4. /\ Len(net') = c + b
      /\ \A i \in 1 .. c : net'[i] = net[i]
      /\ \A i \in 1 .. b : net'[c + i] = FrameByte(f, l + 1, i)
  <2>1. net' = net \o Header(f) \o [i \in 1 .. f.size |-> <<"data", l + 1>>]
    BY DEF Sends
  <2> QED
    BY <1>1, <2>1, BytesOfFrame
<1>5. PICK further : further = Extended(ends, f, Len(wire))
  OBVIOUS
<1>6. Wired(longer, further)'
  <2>1. sent' = Append(sent, f)
    BY DEF Sends
  <2> QED
    BY <1>3, <1>5, <2>1, WireGrows
<1>7. /\ a \in Nat /\ c \in Nat /\ n \in Nat /\ w \in Nat /\ n + a + c = w
      /\ \A i \in 1 .. a : arrived[i] = wire[n + i]
      /\ \A i \in 1 .. c : net[i] = wire[n + a + i]
  BY <1>1, NumberFacts, LenProperties DEF Behind
<1>8. Behind(longer, n)'
  <2> HIDE DEF a, b, c, w, l
  <2>1. n + a + (c + b) = w + b
    BY <1>2, <1>7
  <2>2. \A i \in 1 .. a : arrived'[i] = longer[n + i]
    <3> TAKE i \in 1 .. a
    <3>1. n + i \in 1 .. w
      BY <1>7
    <3> QED
      BY <1>3, <1>7, <3>1 DEF w
  <2>3. \A i \in 1 .. c + b : net'[i] = longer[n + a + i]
    <3> TAKE i \in 1 .. c + b
    <3>1. CASE i <= c
      <4>1. n + a + i \in 1 .. w /\ i \in 1 .. c
        BY <1>2, <1>7, <3>1
      <4> QED
        BY <1>3, <1>4, <1>7, <4>1 DEF w
    <3>2. CASE i > c
      <4>1. i - c \in 1 .. b /\ c + (i - c) = i /\ w + (i - c) = n + a + i
        BY <1>2, <1>7, <3>2
      <4>2. net'[i] = FrameByte(f, l + 1, i - c)
        BY <1>4, <4>1
      <4>3. longer[n + a + i] = FrameByte(f, l + 1, i - c)
        BY <1>3, <4>1 DEF w
      <4> QED
        BY <4>2, <4>3
    <3> QED
      BY <1>2, <1>7, <3>1, <3>2
  <2>4. /\ Len(arrived') = a /\ Len(net') = c + b /\ Len(longer) = w + b
    BY <1>3, <1>4 DEF a, w
  <2>5. w + b \in Nat
    BY <1>2, <1>7
  <2> QED
    BY <1>7, <2>1, <2>2, <2>3, <2>4, <2>5 DEF Behind
<1>9. /\ Len(sent') = l + 1
      /\ \A j \in 0 .. l : further[j] = ends[j]
  <2>1. sent' = Append(sent, f)
    BY DEF Sends
  <2>2. Len(sent') = l + 1
    BY <2>1, SentGrows
  <2> QED
    BY <1>1, <1>5, <2>2 DEF Extended
<1>10. At(further, k, n)'
  <2>1. k \in 0 .. l /\ ends[k] = n + rx.size
    BY DEF At
  <2> HIDE DEF l
  <2>2. k \in 0 .. l + 1 /\ further[k] = n + rx'.size
    BY <1>1, <1>9, <2>1
  <2> QED
    BY <1>9, <2>2 DEF At
<1>11. Boundary(further, k, n)'
  <2> SUFFICES ASSUME Whole
               PROVE  \E m \in k .. Len(sent') : n + Len(arrived') = further[m]
    BY DEF Boundary, Whole
  <2>1. PICK m \in k .. l : n + Len(arrived) = ends[m]
    BY DEF Boundary
  <2>2. k \in 0 .. l
    BY DEF At
  <2> HIDE DEF l
  <2>3. m \in 0 .. l /\ m \in k .. l + 1
    BY <1>1, <2>1, <2>2
  <2> QED
    BY <1>9, <2>1, <2>3
<1> QED
  BY <1>6, <1>8, <1>10, <1>11

LEMMA StreamDelivered ==
    ASSUME TypeInv, NEW wire, NEW ends, NEW k, NEW n,
           Wired(wire, ends), Behind(wire, n), At(ends, k, n), Boundary(ends, k, n),
           Arrive, conn = "closed" => net = <<>>
    PROVE  Behind(wire, n)' /\ At(ends, k, n)' /\ Boundary(ends, k, n)'
<1> DEFINE a == Len(arrived)
           c == Len(net)
           d == IF Whole THEN c ELSE 1
           head == SubSeq(net, 1, d)
<1>1. /\ net # <<>> /\ net' = SubSeq(net, d + 1, Len(net)) /\ arrived' = arrived \o head
      /\ UNCHANGED <<conduct, conn, sent, rx>>
  BY DEF Arrive, Whole, rxVars
<1>2. arrived \in Seq(Byte) /\ net \in Seq(Byte)
  BY DEF TypeInv
<1>3. a \in Nat /\ c \in Nat /\ c > 0 /\ n \in Nat /\ Len(wire) \in Nat
  BY <1>1, <1>2, NumberFacts, LenProperties, TailFacts DEF Behind, Wired
<1>4. d \in 0 .. c
  <2> HIDE DEF c
  <2> QED
    BY <1>3
<1> HIDE DEF d
<1>5. /\ head \in Seq(Byte) /\ Len(head) = d
      /\ \A i \in 1 .. d : head[i] = net[i]
  BY <1>2, <1>4, TakeFacts
<1> HIDE DEF head
<1>6. /\ arrived' \in Seq(Byte) /\ Len(arrived') = a + d
      /\ \A i \in 1 .. a : arrived'[i] = arrived[i]
      /\ \A i \in 1 .. d : arrived'[a + i] = net[i]
  <2>1. /\ arrived \o head \in Seq(Byte) /\ Len(arrived \o head) = Len(arrived) + Len(head)
        /\ \A i \in 1 .. Len(arrived) : (arrived \o head)[i] = arrived[i]
        /\ \A i \in 1 .. Len(head) : (arrived \o head)[Len(arrived) + i] = head[i]
    <3>1. head \in Seq(Byte) /\ arrived \in Seq(Byte)
      BY <1>2, <1>5
    <3> QED
      BY <3>1, ConcatFacts
  <2> QED
    BY <1>1, <1>5, <2>1
<1>7. /\ net' \in Seq(Byte) /\ Len(net') = c - d
      /\ \A i \in 1 .. Len(net') : net'[i] = net[d + i]
  BY <1>1, <1>2, <1>4, DropFacts
<1>8. /\ n + a + c <= Len(wire) /\ (conn = "open" => n + a + c = Len(wire))
      /\ \A i \in 1 .. a : arrived[i] = wire[n + i]
      /\ \A i \in 1 .. c : net[i] = wire[n + a + i]
  BY DEF Behind
<1>9. conn = "open"
  <2>1. conn \in {"open", "closed"}
    BY DEF TypeInv, TypeOK
  <2> QED
    BY <1>1, <2>1
<1>10. c = 0 \/ n + a + c = Len(wire)
  BY <1>8, <1>9
<1> HIDE DEF a, c
<1>11. \A i \in 1 .. a + d : arrived'[i] = wire[n + i]
  <2> TAKE i \in 1 .. a + d
  <2>1. CASE i <= a
    BY <1>3, <1>6, <1>8, <2>1
  <2>2. CASE i > a
    <3>1. i - a \in 1 .. d /\ i - a \in 1 .. c /\ a + (i - a) = i /\ n + a + (i - a) = n + i
      BY <1>3, <1>4, <2>2
    <3> QED
      BY <1>6, <1>8, <3>1
  <2> QED
    BY <1>3, <1>4, <2>1, <2>2
<1>12. \A i \in 1 .. c - d : net'[i] = wire[n + (a + d) + i]
  <2> TAKE i \in 1 .. c - d
  <2>1. d + i \in 1 .. c /\ n + a + (d + i) = n + (a + d) + i
    BY <1>3, <1>4
  <2> QED
    BY <1>7, <1>8, <2>1
<1>13. n + (a + d) + (c - d) = n + a + c
  BY <1>3, <1>4
<1>14. Behind(wire, n)'
  BY <1>1, <1>3, <1>6, <1>7, <1>8, <1>11, <1>12, <1>13 DEF Behind
<1>15. At(ends, k, n)'
  BY <1>1 DEF At
<1>16. Boundary(ends, k, n)'
  <2> SUFFICES ASSUME Whole
               PROVE  \E m \in k .. Len(sent) : n + Len(arrived') = ends[m]
    BY <1>1 DEF Boundary, Whole
  <2>1. d = c
    BY DEF d
  <2>2. n + (a + c) = Len(wire)
    BY <1>3, <1>8, <1>9
  <2>3. ends[Len(sent)] = Len(wire) /\ k \in 0 .. Len(sent) /\ Len(sent) \in Nat
    BY NumberFacts DEF Wired, At
  <2>4. Len(sent) \in k .. Len(sent)
    BY <2>3
  <2> QED
    BY <1>6, <2>1, <2>2, <2>3, <2>4
<1> QED
  BY <1>14, <1>15, <1>16

LEMMA StreamLost ==
    ASSUME TypeInv, NEW wire, NEW ends, NEW k, NEW n,
           Behind(wire, n), At(ends, k, n), Boundary(ends, k, n),
           conn' = "closed", net' = <<>>, Len(wire) \in Nat,
           UNCHANGED <<conduct, arrived, sent, rx>>
    PROVE  Behind(wire, n)' /\ At(ends, k, n)' /\ Boundary(ends, k, n)'
<1>1. Len(arrived) \in Nat /\ Len(net) \in Nat /\ n \in Nat
  BY NumberFacts DEF Behind
<1>2. Len(net') = 0
  OBVIOUS
<1>3. Behind(wire, n)'
  <2> DEFINE a == Len(arrived)
             c == Len(net)
  <2>1. n + a + c <= Len(wire)
    BY DEF Behind
  <2> HIDE DEF a, c
  <2>2. n + a + 0 <= Len(wire) /\ a \in Nat
    BY <1>1, <2>1 DEF a, c
  <2>3. n + Len(arrived') + Len(net') <= Len(wire)
    BY <1>2, <2>2 DEF a
  <2> QED
    BY <1>2, <2>3 DEF Behind
<1>4. At(ends, k, n)' /\ Boundary(ends, k, n)'
  BY DEF At, Boundary, Whole
<1> QED
  BY <1>3, <1>4

\* A connection that has just been made.
LEMMA StreamBegins ==
    ASSUME conn' = "open", net' = <<>>, arrived' = <<>>, sent' = <<>>, rx'.size = 0,
           MaxPayload \in Nat
    PROVE  \E wire, ends : /\ Wired(wire, ends)' /\ Behind(wire, 0)'
                           /\ At(ends, 0, 0)' /\ Boundary(ends, 0, 0)'
<1> DEFINE ends == [j \in 0 .. 0 |-> 0]
           wire == <<>>
<1>1. /\ Len(sent') = 0 /\ Len(net') = 0 /\ Len(arrived') = 0
      /\ wire \in Seq(Byte) /\ Len(wire) = 0
  OBVIOUS
<1>2. ends \in [0 .. 0 -> Nat] /\ ends[0] = 0
  OBVIOUS
<1> HIDE DEF ends, wire
<1>3. Wired(wire, ends)'
  <2>1. FrameMax * 0 = 0
    BY DEF FrameMax
  <2>2. \A i, j \in 0 .. 0 : ~(i < j)
    OBVIOUS
  <2> QED
    BY <1>1, <1>2, <2>1, <2>2 DEF Wired
<1>4. Behind(wire, 0)' /\ At(ends, 0, 0)' /\ Boundary(ends, 0, 0)'
  <2>1. 0 \in 0 .. 0
    OBVIOUS
  <2> QED
    BY <1>1, <1>2, <2>1 DEF Behind, At, Boundary
<1> QED
  BY <1>3, <1>4

-----------------------------------------------------------------------------
(* Counting frames. *)

\* One frame more is counted.
CountedOn(n, S, count, which, image, list, count2, which2, image2, list2) ==
    /\ n \in Nat /\ list \in Seq(S)
    /\ Counts(n, count, which, image, list)
    /\ \A j \in 1 .. n : (j \in which2 <=> j \in which) /\ image2[j] = image[j]
    /\ IF n + 1 \in which2
       THEN image2[n + 1] \in S /\ list2 = Append(list, image2[n + 1])
       ELSE list2 = list
    /\ count2 \in [0 .. n + 1 -> Nat] /\ count2[n + 1] = Len(list2)
    /\ \A j \in 0 .. n : count2[j] = count[j]

LEMMA CountsGrow ==
    ASSUME NEW n, NEW S, NEW count, NEW which, NEW image, NEW list,
           NEW count2, NEW which2, NEW image2, NEW list2,
           CountedOn(n, S, count, which, image, list, count2, which2, image2, list2)
    PROVE  Counts(n + 1, count2, which2, image2, list2)
<1> DEFINE l == Len(list)
           m == Len(list2)
<1>1. /\ l \in Nat /\ n \in Nat /\ n + 1 \in Nat /\ list \in Seq(S)
      /\ count \in [0 .. n -> Nat] /\ count[0] = 0 /\ count[n] = l
      /\ \A j \in 0 .. n : count[j] <= l
  BY LenProperties DEF Counts, CountedOn
<1>2. /\ m = IF n + 1 \in which2 THEN l + 1 ELSE l
      /\ \A i \in 1 .. l : list2[i] = list[i]
      /\ n + 1 \in which2 => list2[l + 1] = image2[n + 1]
  <2>1. CASE n + 1 \in which2
    <3>1. image2[n + 1] \in S /\ list2 = Append(list, image2[n + 1])
      BY <2>1 DEF CountedOn
    <3>2. /\ Len(list2) = Len(list) + 1
          /\ \A i \in 1 .. Len(list) : list2[i] = list[i]
          /\ list2[Len(list) + 1] = image2[n + 1]
      BY <1>1, <3>1, AppendFacts
    <3> QED
      BY <2>1, <3>2
  <2>2. CASE n + 1 \notin which2
    <3>1. list2 = list
      BY <2>2 DEF CountedOn
    <3> QED
      BY <2>2, <3>1
  <2> QED
    BY <2>1, <2>2
<1>3. \A j \in 1 .. n : /\ count[j] = IF j \in which THEN count[j - 1] + 1 ELSE count[j - 1]
                        /\ j \in which => list[count[j]] = image[j]
  BY DEF Counts, CountedOn
<1>4. /\ \A j \in 0 .. n : count2[j] = count[j]
      /\ count2[n + 1] = m /\ count2 \in [0 .. n + 1 -> Nat]
  BY DEF CountedOn
<1> HIDE DEF l, m
<1>5. \A j \in 0 .. n + 1 : count2[j] <= m
  <2> TAKE j \in 0 .. n + 1
  <2>1. j \in 0 .. n \/ j = n + 1
    BY <1>1
  <2>2. j \in 0 .. n => count[j] <= l /\ count[j] \in Nat
    BY <1>1
  <2> QED
    BY <1>1, <1>2, <1>4, <2>1, <2>2
<1>6. ASSUME NEW j \in 1 .. n + 1
      PROVE  /\ count2[j] = IF j \in which2 THEN count2[j - 1] + 1 ELSE count2[j - 1]
             /\ j \in which2 => list2[count2[j]] = image2[j]
  <2>1. CASE j \in 1 .. n
    <3>1. j \in 0 .. n /\ j - 1 \in 0 .. n
      BY <1>1, <2>1
    <3>2. count2[j] = count[j] /\ count2[j - 1] = count[j - 1]
      BY <1>4, <3>1
    <3>3. count2[j] = IF j \in which2 THEN count2[j - 1] + 1 ELSE count2[j - 1]
      BY <1>3, <2>1, <3>2 DEF CountedOn
    <3>4. ASSUME j \in which2 PROVE list2[count2[j]] = image2[j]
      <4>1. list[count[j]] = image[j] /\ image2[j] = image[j]
        BY <1>3, <2>1, <3>4 DEF CountedOn
      <4>2. count[j] \in 1 .. l
        <5>1. count[j] = count[j - 1] + 1 /\ count[j - 1] \in Nat /\ count[j] <= l
          BY <1>1, <1>3, <2>1, <3>1, <3>4 DEF CountedOn
        <5> QED
          BY <1>1, <5>1
      <4> QED
        BY <1>2, <3>2, <4>1, <4>2
    <3> QED
      BY <3>3, <3>4
  <2>2. CASE j = n + 1
    <3>1. j - 1 = n /\ n \in 0 .. n
      BY <1>1, <2>2
    <3>2. count2[j] = m /\ count2[j - 1] = l
      BY <1>1, <1>4, <2>2, <3>1
    <3> QED
      BY <1>1, <1>2, <2>2, <3>2
  <2> QED
    BY <1>1, <1>6, <2>1, <2>2
<1>7. count2[0] = 0
  BY <1>1, <1>4
<1> QED
  BY <1>4, <1>5, <1>6, <1>7 DEF Counts, m

LEMMA CountsBegin ==
    ASSUME NEW which, NEW image
    PROVE  \E count : Counts(0, count, which, image, <<>>)
<1> DEFINE count == [j \in 0 .. 0 |-> 0]
<1>1. count \in [0 .. 0 -> Nat] /\ count[0] = 0 /\ Len(<<>>) = 0
  OBVIOUS
<1>2. \A j \in 1 .. 0 : FALSE
  OBVIOUS
<1> HIDE DEF count
<1>3. Counts(0, count, which, image, <<>>)
  BY <1>1, <1>2 DEF Counts
<1> QED
  BY <1>3

LEMMA PayloadType ==
    ASSUME NEW f \in Frames, NEW n \in Nat
    PROVE  Payload(f, n) \in Seq(Nat) /\ Message(f, n) \in DueMessages
<1>1. f.size \in Nat /\ f.fin \in {"yes", "no"}
  BY FrameFacts
<1>2. Payload(f, n) \in [1 .. f.size -> Nat]
  BY DEF Payload
<1>3. Payload(f, n) \in Seq(Nat)
  BY <1>1, <1>2, SeqDef
<1> QED
  BY <1>1, <1>3 DEF Message, DueMessages

LEMMA DueGrows ==
    ASSUME TypeInv, NEW f \in Frames, Sends(f, Len(sent) + 1)
    PROVE  /\ due' \in [messages : Seq(DueMessages), pongs : Seq(Pongs)]
           /\ due'.messages = IF IsMessage(f) THEN Append(due.messages, Message(f, Len(sent) + 1))
                              ELSE due.messages
           /\ due'.pongs = IF f.type = "ping" THEN Append(due.pongs, Payload(f, Len(sent) + 1))
                           ELSE due.pongs
<1>1. due.messages \in Seq(DueMessages) /\ due.pongs \in Seq(Pongs)
  BY DEF TypeInv
<1>2. /\ Message(f, Len(sent) + 1) \in DueMessages
      /\ Payload(f, Len(sent) + 1) \in Pongs
  BY NumberFacts, PayloadType DEF Pongs
<1>3. /\ Append(due.messages, Message(f, Len(sent) + 1)) \in Seq(DueMessages)
      /\ Append(due.pongs, Payload(f, Len(sent) + 1)) \in Seq(Pongs)
  BY <1>1, <1>2, AppendFacts
<1>4. due' = [messages |-> IF IsMessage(f) THEN Append(due.messages, Message(f, Len(sent) + 1))
                           ELSE due.messages,
              pongs |-> IF f.type = "ping" THEN Append(due.pongs, Payload(f, Len(sent) + 1))
                        ELSE due.pongs]
  BY DEF Sends
<1> QED
  BY <1>1, <1>3, <1>4

\* What is read or answered of the list stays when the list grows.
LEMMA TalliedSoFar ==
    ASSUME NEW n \in Nat, NEW count, NEW which, NEW image, NEW S, NEW list \in Seq(S),
           Counts(n, count, which, image, list), NEW k \in 0 .. n
    PROVE  /\ count[k] \in 0 .. Len(list) /\ Len(list) \in Nat
           /\ k > 0 /\ k \in which => /\ count[k] - 1 \in 0 .. Len(list) - 1
                                      /\ list[count[k]] = image[k]
<1>1. count[k] \in Nat /\ count[k] <= Len(list) /\ Len(list) \in Nat
  BY LenProperties DEF Counts
<1>2. ASSUME k > 0, k \in which
      PROVE  count[k] - 1 \in 0 .. Len(list) - 1 /\ list[count[k]] = image[k]
  <2>1. k \in 1 .. n /\ k - 1 \in 0 .. n
    BY <1>2
  <2>2. count[k] = count[k - 1] + 1 /\ list[count[k]] = image[k]
    BY <1>2, <2>1 DEF Counts
  <2>3. count[k - 1] \in Nat
    BY <2>1 DEF Counts
  <2> QED
    BY <1>1, <2>2, <2>3
<1> QED
  BY <1>1, <1>2

LEMMA TallyGrows ==
    ASSUME TypeInv, NEW messages, NEW pings, NEW k \in 0 .. Len(sent),
           Tallied(messages, pings, k), NEW f \in Frames, Sends(f, Len(sent) + 1),
           UNCHANGED <<pc, conduct, tx, rx, left, text, got, pongs>>
    PROVE  \E messages2, pings2 : Tallied(messages2, pings2, k)'
<1> DEFINE l == Len(sent)
<1>1. sent' = Append(sent, f)
  BY DEF Sends
<1>2. /\ l \in Nat /\ Len(sent') = l + 1
      /\ \A j \in 1 .. l : sent'[j] = sent[j]
      /\ sent'[l + 1] = f
  BY <1>1, SentGrows
<1>3. due.messages \in Seq(DueMessages) /\ due.pongs \in Seq(Pongs)
  BY DEF TypeInv
<1>4. /\ due'.messages = IF IsMessage(f) THEN Append(due.messages, Message(f, l + 1))
                         ELSE due.messages
      /\ due'.pongs = IF f.type = "ping" THEN Append(due.pongs, Payload(f, l + 1))
                      ELSE due.pongs
      /\ Message(f, l + 1) \in DueMessages /\ Payload(f, l + 1) \in Pongs
  BY <1>2, DueGrows, PayloadType DEF Pongs
<1>5. PICK messages2 : messages2 = [j \in 0 .. l + 1 |-> IF j <= l THEN messages[j]
                                                         ELSE Len(due'.messages)]
  OBVIOUS
<1>6. PICK pings2 : pings2 = [j \in 0 .. l + 1 |-> IF j <= l THEN pings[j]
                                                   ELSE Len(due'.pongs)]
  OBVIOUS
<1> HIDE DEF l
<1>7. Counts(l + 1, messages2, MessageFrames', MessageOf', due'.messages)
  <2>1. \A j \in 1 .. l : j \in MessageFrames' <=> j \in MessageFrames
    BY <1>2 DEF MessageFrames, l
  <2>2. \A j \in 1 .. l : MessageOf'[j] = MessageOf[j]
    BY <1>2 DEF MessageOf, l
  <2>3. MessageOf'[l + 1] = Message(f, l + 1)
    BY <1>2 DEF MessageOf
  <2>4. l + 1 \in MessageFrames' <=> IsMessage(f)
    BY <1>2 DEF MessageFrames
  <2>5. IF l + 1 \in MessageFrames'
        THEN MessageOf'[l + 1] \in DueMessages
                /\ due'.messages = Append(due.messages, MessageOf'[l + 1])
        ELSE due'.messages = due.messages
    BY <1>4, <2>3, <2>4
  <2>6. Counts(l, messages, MessageFrames, MessageOf, due.messages)
    BY DEF Tallied, l
  <2>7. /\ messages2 \in [0 .. l + 1 -> Nat] /\ messages2[l + 1] = Len(due'.messages)
        /\ \A j \in 0 .. l : messages2[j] = messages[j]
    <3>1. Len(due'.messages) \in Nat
      BY <1>2, DueGrows, LenProperties DEF l
    <3>2. messages \in [0 .. l -> Nat]
      BY <2>6 DEF Counts
    <3> QED
      BY <1>2, <1>5, <3>1, <3>2
  <2>8. CountedOn(l, DueMessages, messages, MessageFrames, MessageOf, due.messages,
                  messages2, MessageFrames', MessageOf', due'.messages)
    BY <1>2, <1>3, <2>1, <2>2, <2>5, <2>6, <2>7, Zenon DEF CountedOn
  <2> QED
    BY <2>8, CountsGrow
<1>8. Counts(l + 1, pings2, PingFrames', PingOf', due'.pongs)
  <2>1. \A j \in 1 .. l : j \in PingFrames' <=> j \in PingFrames
    BY <1>2 DEF PingFrames, l
  <2>2. \A j \in 1 .. l : PingOf'[j] = PingOf[j]
    BY <1>2 DEF PingOf, l
  <2>3. PingOf'[l + 1] = Payload(f, l + 1)
    BY <1>2 DEF PingOf
  <2>4. l + 1 \in PingFrames' <=> f.type = "ping"
    BY <1>2 DEF PingFrames
  <2>5. IF l + 1 \in PingFrames'
        THEN PingOf'[l + 1] \in Pongs /\ due'.pongs = Append(due.pongs, PingOf'[l + 1])
        ELSE due'.pongs = due.pongs
    BY <1>4, <2>3, <2>4
  <2>6. Counts(l, pings, PingFrames, PingOf, due.pongs)
    BY DEF Tallied, l
  <2>7. /\ pings2 \in [0 .. l + 1 -> Nat] /\ pings2[l + 1] = Len(due'.pongs)
        /\ \A j \in 0 .. l : pings2[j] = pings[j]
    <3>1. Len(due'.pongs) \in Nat
      BY <1>2, DueGrows, LenProperties DEF l
    <3>2. pings \in [0 .. l -> Nat]
      BY <2>6 DEF Counts
    <3> QED
      BY <1>2, <1>6, <3>1, <3>2
  <2>8. CountedOn(l, Pongs, pings, PingFrames, PingOf, due.pongs,
                  pings2, PingFrames', PingOf', due'.pongs)
    BY <1>2, <1>3, <2>1, <2>2, <2>5, <2>6, <2>7, Zenon DEF CountedOn
  <2> QED
    BY <2>8, CountsGrow
<1>9. k \in 0 .. l /\ (k > 0 => k \in 1 .. l /\ sent'[k] = sent[k])
  <2>1. k \in 0 .. l
    BY DEF l
  <2> QED
    BY <1>2, <2>1
<1>10. messages2[k] = messages[k] /\ pings2[k] = pings[k]
  BY <1>2, <1>5, <1>6, <1>9
<1>11. ASSUME Orderly
       PROVE  HeaderKnown(k)' /\ ReadSoFar(messages2, k)'
  <2>1. HeaderKnown(k) /\ ReadSoFar(messages, k)
    BY <1>11 DEF Tallied
  <2>2. HeaderKnown(k)'
    BY <1>9, <2>1 DEF HeaderKnown
  <2> DEFINE x == IF pc = "read" THEN messages[k] - 1 ELSE messages[k]
  <2>3. x \in 0 .. Len(due.messages)
    <3>1. Counts(l, messages, MessageFrames, MessageOf, due.messages)
      BY DEF Tallied, l
    <3>2. pc = "read" => k > 0 /\ k \in MessageFrames
      BY <1>9, <2>1 DEF ReadSoFar, MessageFrames, l
    <3>3. /\ messages[k] \in 0 .. Len(due.messages) /\ Len(due.messages) \in Nat
          /\ k > 0 /\ k \in MessageFrames => messages[k] - 1 \in 0 .. Len(due.messages) - 1
      BY <1>2, <1>3, <1>9, <3>1, TalliedSoFar
    <3> QED
      BY <3>2, <3>3
  <2>4. SubSeq(due'.messages, 1, x) = SubSeq(due.messages, 1, x)
    BY <1>3, <1>4, <2>3, TakenOfGrown
  <2>5. got = SubSeq(due.messages, 1, x)
    BY <2>1 DEF ReadSoFar
  <2>6. got' = SubSeq(due'.messages, 1, IF pc' = "read" THEN messages2[k] - 1 ELSE messages2[k])
    BY <1>10, <2>4, <2>5
  <2> QED
    BY <1>9, <2>1, <2>2, <2>6 DEF ReadSoFar
<1>12. ASSUME Orderly, OfExample
       PROVE  PongedSoFar(pings2, k)'
  <2>1. PongedSoFar(pings, k)
    BY <1>12 DEF Tallied
  <2> DEFINE x == IF pc = "pong" THEN pings[k] - 1 ELSE pings[k]
  <2>2. x \in 0 .. Len(due.pongs)
    <3>1. Counts(l, pings, PingFrames, PingOf, due.pongs)
      BY DEF Tallied, l
    <3>2. pc = "pong" => k > 0 /\ k \in PingFrames
      BY <1>9, <2>1 DEF PongedSoFar, PingFrames, l
    <3>3. /\ pings[k] \in 0 .. Len(due.pongs) /\ Len(due.pongs) \in Nat
          /\ k > 0 /\ k \in PingFrames => pings[k] - 1 \in 0 .. Len(due.pongs) - 1
      BY <1>2, <1>3, <1>9, <3>1, TalliedSoFar
    <3> QED
      BY <3>2, <3>3
  <2>3. SubSeq(due'.pongs, 1, x) = SubSeq(due.pongs, 1, x)
    BY <1>3, <1>4, <2>2, TakenOfGrown
  <2>4. pongs = SubSeq(due.pongs, 1, x)
    BY <2>1 DEF PongedSoFar
  <2>5. pongs' = SubSeq(due'.pongs, 1, IF pc' = "pong" THEN pings2[k] - 1 ELSE pings2[k])
    BY <1>10, <2>3, <2>4
  <2> QED
    BY <1>9, <2>1, <2>5 DEF PongedSoFar
<1>13. (Orderly' <=> Orderly) /\ (OfExample' <=> OfExample)
  BY DEF Orderly, Whole, OfExample
<1>14. Tallied(messages2, pings2, k)'
  BY <1>2, <1>7, <1>8, <1>11, <1>12, <1>13 DEF Tallied
<1> QED
  BY <1>14

-----------------------------------------------------------------------------
(* Steps on a connection.  First, those that leave the stream as it is. *)

LEMMA TalliedKept ==
    ASSUME NEW messages, NEW pings, NEW k, Tallied(messages, pings, k),
           UNCHANGED <<conduct, sent, due>>,
           Orderly => HeaderKnown(k)' /\ ReadSoFar(messages, k)',
           Orderly /\ OfExample => PongedSoFar(pings, k)'
    PROVE  Tallied(messages, pings, k)'
<1>1. (Orderly' <=> Orderly) /\ (OfExample' <=> OfExample)
  BY DEF Orderly, Whole, OfExample
<1>2. /\ Counts(Len(sent), messages, MessageFrames, MessageOf, due.messages)
      /\ Counts(Len(sent), pings, PingFrames, PingOf, due.pongs)
  BY DEF Tallied
<1>3. MessageFrames' = MessageFrames /\ MessageOf' = MessageOf
      /\ PingFrames' = PingFrames /\ PingOf' = PingOf /\ sent' = sent /\ due' = due
  BY DEF MessageFrames, MessageOf, PingFrames, PingOf
<1>4. /\ Counts(Len(sent'), messages, MessageFrames', MessageOf', due'.messages)
      /\ Counts(Len(sent'), pings, PingFrames', PingOf', due'.pongs)
  BY <1>2, <1>3, Zenon
<1> QED
  BY <1>1, <1>4, Zenon DEF Tallied

LEMMA FramedKept ==
    ASSUME NEW wire, NEW ends, NEW k, NEW n, Framed(wire, ends, k, n),
           UNCHANGED <<conduct, iState, netVars, rx>>, pc' # "begin"
    PROVE  Framed(wire, ends, k, n)'
BY DEF Framed, netVars, Wired, Behind, At, Boundary, Whole

LEMMA QuietStep ==
    ASSUME InFrame, UNCHANGED <<conduct, iState, netVars, rx, got>>,
           pc' # "begin", pc \notin {"read", "pong"}, pc' \notin {"read", "pong"},
           Orderly /\ OfExample => pongs' = pongs /\ pc' # "crash"
    PROVE  InFrame'
<1>1. PICK wire, ends, messages, pings, k, n :
        Framed(wire, ends, k, n) /\ Tallied(messages, pings, k)
  BY DEF InFrame
<1>2. Framed(wire, ends, k, n)'
  BY <1>1, FramedKept
<1>3. UNCHANGED <<conduct, sent, due>> /\ UNCHANGED <<rx, got>>
  BY DEF netVars
<1>4. Orderly => HeaderKnown(k)' /\ ReadSoFar(messages, k)'
  BY <1>1, <1>3 DEF Tallied, HeaderKnown, ReadSoFar
<1>5. Orderly /\ OfExample => PongedSoFar(pings, k)'
  BY <1>1, <1>3 DEF Tallied, PongedSoFar
<1>6. Tallied(messages, pings, k)'
  BY <1>1, <1>3, <1>4, <1>5, TalliedKept
<1> QED
  BY <1>2, <1>6 DEF InFrame

LEMMA ComposeOnConnection ==
    ASSUME TypeInv, TxInv, InFrame, Compose, Whole /\ OfExample => pc' # "crash"
    PROVE  InFrame'
<1>1. /\ UNCHANGED <<conduct, iState, netVars, rx, got>>
      /\ pc \in {"loop", "compose"} /\ pc' \in {"loop", "compose", "flush", "crash"}
  BY DEF Compose, StartMessage, PrintByte, CompleteMessage, ParseWhileComposing, Ping,
         rxVars, history
<1>2. Orderly /\ OfExample => pongs' = pongs /\ pc' # "crash"
  <2> SUFFICES ASSUME Orderly, OfExample
               PROVE  pongs' = pongs /\ pc' # "crash"
    OBVIOUS
  <2>1. CASE StartMessage \/ PrintByte
    BY <1>1, <2>1 DEF StartMessage, PrintByte, Orderly
  <2>2. CASE CompleteMessage
    BY <2>2 DEF CompleteMessage, Answered, TxInv, Orderly
  <2>3. ~ParseWhileComposing /\ ~Ping
    BY DEF ParseWhileComposing, Ping, OfExample
  <2> QED
    BY <2>1, <2>2, <2>3 DEF Compose
<1> QED
  BY <1>1, <1>2, QuietStep

\* Where nothing is left of the payload, the size that is reset is 0 already.
LEMMA EndedKeeps ==
    ASSUME TypeInv, Sound, Available = 0, Ended
    PROVE  rx' = rx
<1>1. rx.size = 0
  BY DEF Sound
<1> QED
  BY <1>1 DEF Ended, TypeInv

LEMMA ReturnOnConnection ==
    ASSUME TypeInv, InFrame, Sound, Flushed \/ NoMessage \/ PongDiscarded
    PROVE  InFrame'
<1>0. PongDiscarded => rx' = rx
  BY EndedKeeps DEF PongDiscarded
<1>1. /\ UNCHANGED <<conduct, iState, netVars, rx, got, pongs>>
      /\ pc \in {"flush", "header", "discard"} /\ pc' \in {"header", "loop", "compose"}
  BY <1>0 DEF Flushed, NoMessage, PongDiscarded, rxVars, history, TypeInv, TypeOK
<1> QED
  BY <1>1, QuietStep

-----------------------------------------------------------------------------
(* A byte of payload is read. *)

LEMMA FramedByteRead ==
    ASSUME TypeInv, NEW wire, NEW ends, NEW k, NEW n, Framed(wire, ends, k, n),
           rx.size > 0, ByteArrived, TakeByte, rx' = OneLess,
           UNCHANGED <<conduct, iState>>, pc' # "begin"
    PROVE  Framed(wire, ends, k, n + 1)'
<1>1. /\ Wired(wire, ends) /\ Behind(wire, n) /\ At(ends, k, n) /\ Boundary(ends, k, n)
      /\ iState = "body"
  BY DEF Framed
<1>2. /\ arrived # <<>> /\ arrived' = Tail(arrived)
      /\ UNCHANGED <<conduct, conn, net, sent>>
  BY DEF ByteArrived, TakeByte
<1>3. Behind(wire, n + 1)' /\ At(ends, k, n + 1)' /\ Boundary(ends, k, n + 1)'
  BY <1>1, <1>2, ByteRead
<1>4. Wired(wire, ends)'
  BY <1>1, <1>2, WiredKept
<1> QED
  BY <1>1, <1>3, <1>4 DEF Framed

LEMMA SameHeader ==
    ASSUME TypeInv, NEW k, HeaderKnown(k), rx' = OneLess \/ UNCHANGED rx, UNCHANGED sent
    PROVE  HeaderKnown(k)'
<1>1. rx'.type = rx.type /\ rx'.fin = rx.fin
  BY DEF OneLess, TypeInv
<1> QED
  BY <1>1 DEF HeaderKnown

\* The next byte of the payload of frame k tells who sent it.
LEMMA PayloadByte ==
    ASSUME TypeInv, NEW wire, NEW ends, NEW k, NEW n, Framed(wire, ends, k, n),
           rx.size > 0, k > 0, rx.size <= sent[k].size, ByteArrived
    PROVE  Head(arrived)[2] = k
<1> DEFINE f == sent[k]
<1>1. /\ Wired(wire, ends) /\ Behind(wire, n) /\ At(ends, k, n)
  BY DEF Framed
<1>2. /\ Head(arrived) = arrived[1] /\ 1 \in 1 .. Len(arrived)
  BY TailFacts DEF TypeInv, ByteArrived
<1>3. /\ k \in 1 .. Len(sent) /\ n \in Nat /\ rx.size \in Nat /\ ends[k] = n + rx.size
      /\ Len(sent) \in Nat
  BY <1>1, NumberFacts DEF At, Behind
<1>4. f \in Frames
  BY <1>3, ElementOfSeq DEF TypeInv, TypeOK
<1>5. f.size \in Nat /\ HeadLen(f) \in {2, 3} /\ FrameLen(f) = HeadLen(f) + f.size
  BY <1>4, FrameFacts
<1>6. /\ ends[k] = ends[k - 1] + FrameLen(f) /\ ends[k - 1] \in Nat
      /\ \A i \in 1 .. FrameLen(f) : wire[ends[k - 1] + i] = FrameByte(f, k, i)
  <2>1. k - 1 \in 0 .. Len(sent)
    BY <1>3
  <2> QED
    BY <1>1, <1>3, <2>1 DEF Wired
<1> DEFINE i == FrameLen(f) - rx.size + 1
<1>7. rx.size <= f.size
  OBVIOUS
<1> HIDE DEF f
<1>8. i \in 1 .. FrameLen(f) /\ i > HeadLen(f) /\ ends[k - 1] + i = n + 1
  <2> DEFINE l == FrameLen(f)
             h == HeadLen(f)
             x == rx.size
             e == ends[k - 1]
  <2>1. /\ l = h + f.size /\ h \in {2, 3} /\ x \in Nat /\ x > 0 /\ x <= f.size
        /\ e \in Nat /\ n \in Nat /\ e + l = n + x /\ f.size \in Nat
    BY <1>3, <1>5, <1>6, <1>7
  <2> HIDE DEF l, h, x, e
  <2>2. l - x + 1 \in 1 .. l /\ l - x + 1 > h /\ e + (l - x + 1) = n + 1
    BY <2>1
  <2> QED
    BY <2>2 DEF l, h, x, e
<1>9. FrameByte(f, k, i) = <<"data", k>>
  BY <1>5, <1>8 DEF FrameByte, HeadLen
<1>10. arrived[1] = wire[n + 1]
  BY <1>1, <1>2 DEF Behind
<1>11. arrived[1] = <<"data", k>>
  BY <1>6, <1>8, <1>9, <1>10
<1> QED
  BY <1>2, <1>11

LEMMA FlushOnConnection ==
    ASSUME TypeInv, InFrame, Sound, Flush
    PROVE  InFrame'
<1>1. PICK wire, ends, messages, pings, k, n :
        Framed(wire, ends, k, n) /\ Tallied(messages, pings, k)
  BY DEF InFrame
<1>2. /\ rx.size > 0 /\ ByteArrived /\ TakeByte /\ rx' = OneLess
      /\ pc \in {"flush", "discard"}
      /\ UNCHANGED <<pc, conduct, iState, tx, left, text, got, pongs, sent, due>>
  BY DEF Sound, Flush, TakeByte, history
<1>3. Framed(wire, ends, k, n + 1)'
  BY <1>1, <1>2, FramedByteRead
<1>4. Orderly => HeaderKnown(k)' /\ ReadSoFar(messages, k)'
  BY <1>1, <1>2, SameHeader DEF Tallied, ReadSoFar
<1>5. Orderly /\ OfExample => PongedSoFar(pings, k)'
  BY <1>1, <1>2 DEF Tallied, PongedSoFar
<1>6. Tallied(messages, pings, k)'
  BY <1>1, <1>2, <1>4, <1>5, TalliedKept
<1> QED
  BY <1>3, <1>6 DEF InFrame

LEMMA StringByteOnConnection ==
    ASSUME TypeInv, PlaceInv, InFrame, ReadString
    PROVE  InFrame'
<1>1. PICK wire, ends, messages, pings, k, n :
        Framed(wire, ends, k, n) /\ Tallied(messages, pings, k)
  BY DEF InFrame
<1>2. /\ pc = "read" /\ left > 0 /\ left' = left - 1
      /\ text' = Append(text, IF ByteArrived THEN Head(arrived)[2] ELSE "-1")
      /\ UNCHANGED <<pc, conduct, iState, tx, got, pongs, sent, due>>
  BY DEF ReadString, TakeByte, netVars, history
<1>3. left <= rx.size /\ left \in Nat /\ rx.size \in Nat
  BY <1>2, NumberFacts DEF PlaceInv
<1>4. CASE ByteArrived
  <2>1. TakeByte /\ rx' = OneLess /\ rx.size > 0
    BY <1>2, <1>3, <1>4 DEF ReadString
  <2>2. Framed(wire, ends, k, n + 1)'
    BY <1>1, <1>2, <1>4, <2>1, FramedByteRead
  <2>3. ASSUME Orderly
        PROVE  HeaderKnown(k)' /\ ReadSoFar(messages, k)'
    <3>1. HeaderKnown(k) /\ ReadSoFar(messages, k)
      BY <1>1, <2>3 DEF Tallied
    <3>2. HeaderKnown(k)'
      BY <1>2, <2>1, <3>1, SameHeader
    <3>3. /\ k > 0 /\ IsMessage(sent[k]) /\ rx.size = left /\ left <= sent[k].size
          /\ text = [i \in 1 .. sent[k].size - left |-> k]
          /\ got = SubSeq(due.messages, 1, messages[k] - 1)
      BY <1>2, <3>1 DEF ReadSoFar
    <3>4. Head(arrived)[2] = k
      BY <1>1, <1>4, <2>1, <3>3, PayloadByte
    <3>5. sent[k].size \in Nat
      <4>1. k \in 1 .. Len(sent)
        BY <1>1, <3>3, NumberFacts DEF Framed, At
      <4>2. sent[k] \in Frames
        BY <4>1, ElementOfSeq DEF TypeInv, TypeOK
      <4> QED
        BY <4>2, FrameFacts
    <3>6. text' = [i \in 1 .. sent[k].size - left' |-> k]
      <4>1. sent[k].size - left \in Nat /\ (sent[k].size - left) + 1 = sent[k].size - left'
        BY <1>2, <1>3, <3>3, <3>5
      <4>2. text' = Append(text, k)
        BY <1>2, <1>4, <3>4
      <4>3. Append([i \in 1 .. sent[k].size - left |-> k], k)
              = [i \in 1 .. (sent[k].size - left) + 1 |-> k]
        BY <4>1, CopiesGrow
      <4> QED
        BY <3>3, <4>1, <4>2, <4>3, Zenon
    <3>7. rx'.size = left' /\ left' <= sent[k].size
      <4>1. rx'.size = rx.size - 1
        BY <2>1 DEF OneLess, TypeInv
      <4> QED
        BY <1>2, <1>3, <3>3, <3>5, <4>1
    <3>8. ReadSoFar(messages, k)'
      BY <1>2, <3>3, <3>6, <3>7, Zenon DEF ReadSoFar
    <3> QED
      BY <3>2, <3>8
  <2>4. Orderly /\ OfExample => PongedSoFar(pings, k)'
    BY <1>1, <1>2 DEF Tallied, PongedSoFar
  <2>5. Tallied(messages, pings, k)'
    BY <1>1, <1>2, <2>3, <2>4, TalliedKept
  <2> QED
    BY <2>2, <2>5 DEF InFrame
<1>5. CASE ~ByteArrived
  <2>1. UNCHANGED <<netVars, rx>>
    BY <1>5 DEF ReadString
  <2>2. Framed(wire, ends, k, n)'
    BY <1>1, <1>2, <2>1, FramedKept
  <2>3. ~Orderly
    <3> SUFFICES ASSUME Orderly
                 PROVE  FALSE
      OBVIOUS
    <3>1. rx.size = 0
      BY <1>1, <1>5, PayloadArrived DEF Framed, Orderly, ByteArrived
    <3> QED
      BY <1>2, <1>3, <3>1
  <2>4. Tallied(messages, pings, k)'
    BY <1>1, <1>2, <2>3, TalliedKept
  <2> QED
    BY <2>2, <2>4 DEF InFrame
<1> QED
  BY <1>4, <1>5

\* A write into the buffer that has room for the byte.
LEMMA ByteWritten ==
    ASSUME TypeInv, NEW x \in Token, iState = "body", tx.started = "yes",
           Len(tx.data) < TxBuffer
    PROVE  /\ ~Overruns(tx, 1)
           /\ Write(tx, <<x>>) = [tx EXCEPT !.data = Append(tx.data, x)]
<1>1. Len(tx.data) \in Nat /\ TxBuffer \in Nat /\ tx.data \in Seq(Token)
  BY BufferAssumption, LenProperties DEF TypeInv, TxType
<1>2. Kept(tx, 1) = 1
  BY <1>1 DEF Kept
<1>3. Len(<<x>>) = 1 /\ SubSeq(<<x>>, 1, 1) = <<x>>
  <2>1. <<x>> \in Seq(Token) /\ Len(<<x>>) = 1
    OBVIOUS
  <2> QED
    BY <2>1, SubSeqFull
<1>4. tx.data \o <<x>> = Append(tx.data, x)
  BY <1>1, AppendIsConcat
<1>5. Write(tx, <<x>>) = [tx EXCEPT !.data = tx.data \o <<x>>]
  BY <1>2, <1>3 DEF Write
<1>6. ~Overruns(tx, 1)
  BY <1>1, <1>2 DEF Overruns
<1> QED
  BY <1>4, <1>5, <1>6

LEMMA PongByteOnConnection ==
    ASSUME TypeInv, InFrame, Sound, CopyByte
    PROVE  InFrame'
<1>1. PICK wire, ends, messages, pings, k, n :
        Framed(wire, ends, k, n) /\ Tallied(messages, pings, k)
  BY DEF InFrame
<1>2. /\ pc = "pong" /\ rx.size > 0 /\ pc' \in {"pong", "crash"}
      /\ UNCHANGED <<conduct, iState, left, text, got, pongs, sent, due>>
  BY DEF Sound, CopyByte, TakeByte, netVars, history
<1>3. rx.size \in Nat
  BY NumberFacts
<1>4. CASE ByteArrived
  <2>1. TakeByte /\ rx' = OneLess
    BY <1>4 DEF CopyByte
  <2>2. Framed(wire, ends, k, n + 1)'
    BY <1>1, <1>2, <1>4, <2>1, FramedByteRead
  <2>3. Orderly => HeaderKnown(k)' /\ ReadSoFar(messages, k)'
    BY <1>1, <1>2, <2>1, SameHeader DEF Tallied, ReadSoFar
  <2>4. ASSUME Orderly, OfExample
        PROVE  PongedSoFar(pings, k)'
    <3>1. /\ k > 0 /\ sent[k].type = "ping" /\ rx.size <= sent[k].size
          /\ tx.started = "yes" /\ tx.type = "pong"
          /\ tx.data = [i \in 1 .. sent[k].size - rx.size |-> k]
          /\ pongs = SubSeq(due.pongs, 1, pings[k] - 1)
      BY <1>1, <1>2, <2>4 DEF Tallied, PongedSoFar
    <3>2. Head(arrived)[2] = k
      BY <1>1, <1>2, <1>4, <3>1, PayloadByte
    <3>3. k \in Nat /\ sent[k].size \in Nat /\ sent[k].size <= MaxPayload /\ MaxPayload \in Nat
      <4>1. k \in 1 .. Len(sent)
        BY <1>1, <3>1, NumberFacts DEF Framed, At
      <4>2. sent[k] \in Frames
        BY <4>1, ElementOfSeq DEF TypeInv, TypeOK
      <4>3. MaxPayload \in Nat
        BY NumberFacts
      <4>4. k \in Nat
        BY <4>1, NumberFacts
      <4>5. sent[k].size \in 0 .. MaxPayload /\ sent[k].size \in Nat
        BY <4>2, FrameFacts
      <4> QED
        BY <4>3, <4>4, <4>5
    <3>4. rx'.size = rx.size - 1
      BY <1>2, <2>1 DEF OneLess, TypeInv
    <3> DEFINE x == sent[k].size - rx.size
    <3>5. x \in Nat /\ x + 1 = sent[k].size - rx'.size /\ x < TxBuffer /\ rx'.size <= sent[k].size
      BY <1>2, <1>3, <3>1, <3>3, <3>4, BufferAssumption
    <3>6. Len(tx.data) = x
      BY <3>1, <3>5
    <3> HIDE DEF x
    <3>7. /\ ~Overruns(tx, 1)
          /\ Write(tx, <<k>>) = [tx EXCEPT !.data = Append(tx.data, k)]
      BY <1>1, <3>1, <3>3, <3>5, <3>6, ByteWritten DEF Token, Framed
    <3>8. pc' = pc /\ tx' = [tx EXCEPT !.data = Append(tx.data, k)]
      BY <1>4, <3>2, <3>7 DEF CopyByte
    <3>9. Append([i \in 1 .. x |-> k], k) = [i \in 1 .. x + 1 |-> k]
      BY <3>5, CopiesGrow
    <3>10. tx'.started = "yes" /\ tx'.type = "pong" /\ tx'.data = Append(tx.data, k)
      BY <3>1, <3>8 DEF TypeInv, TxType
    <3>11. tx'.data = [i \in 1 .. sent[k].size - rx'.size |-> k]
      BY <3>1, <3>5, <3>9, <3>10, Zenon DEF x
    <3> QED
      BY <1>2, <3>1, <3>5, <3>8, <3>10, <3>11, Zenon DEF PongedSoFar
  <2>5. Tallied(messages, pings, k)'
    BY <1>1, <1>2, <2>3, <2>4, TalliedKept
  <2> QED
    BY <2>2, <2>5 DEF InFrame
<1>5. CASE ~ByteArrived
  <2>1. UNCHANGED <<netVars, rx>>
    BY <1>5 DEF CopyByte
  <2>2. Framed(wire, ends, k, n)'
    BY <1>1, <1>2, <2>1, FramedKept
  <2>3. ~Orderly
    <3> SUFFICES ASSUME Orderly
                 PROVE  FALSE
      OBVIOUS
    <3>1. rx.size = 0
      BY <1>1, <1>5, PayloadArrived DEF Framed, Orderly, ByteArrived
    <3> QED
      BY <1>2, <1>3, <3>1
  <2>4. Tallied(messages, pings, k)'
    BY <1>1, <1>2, <2>3, TalliedKept
  <2> QED
    BY <2>2, <2>4 DEF InFrame
<1> QED
  BY <1>4, <1>5

-----------------------------------------------------------------------------
(* A header is parsed: one frame more, or the receiver is lost. *)

LEMMA ParseType ==
    ASSUME NEW type, Parse(type)
    PROVE  rx'.type = type
BY DEF Parse, ReadHeader, Misread

LEMMA ParseIsParsed ==
    ASSUME NEW type \in OpCodes, Sound, Parse(type)
    PROVE  /\ Parsed /\ pc = "header" /\ Len(arrived) >= 2 /\ rx'.type = type
           /\ UNCHANGED <<iState, got>>
<1>1. pc = "header" /\ Len(arrived) >= 2 /\ UNCHANGED <<iState, got>>
  BY DEF Parse
<1>2. IsHeader
  BY <1>1 DEF Sound
<1>3. ReadHeader(type)
  BY <1>2 DEF Parse, Misread
<1>4. UNCHANGED <<conduct, conn, net, sent, due>>
  BY DEF Parse
<1> QED
  BY <1>1, <1>3, <1>4 DEF ReadHeader, Parsed

LEMMA FramedParsed ==
    ASSUME TypeInv, PlaceInv, NEW wire, NEW ends, NEW k, NEW n, Framed(wire, ends, k, n),
           pc = "header", Len(arrived) >= 2, Parsed, UNCHANGED iState, pc' # "begin"
    PROVE  /\ k + 1 \in 1 .. Len(sent) /\ sent[k + 1] \in Frames
           /\ arrived[1] = <<"op", sent[k + 1].type, sent[k + 1].fin>>
           /\ \/ /\ \E h : Framed(wire, ends, k + 1, h)'
                 /\ rx'.size = sent[k + 1].size /\ rx'.size <= MaxPayload
              \/ Lost' /\ rx'.size = Huge
<1> DEFINE f == sent[k + 1]
           h == HeadLen(f)
<1>1. /\ Wired(wire, ends) /\ Behind(wire, n) /\ At(ends, k, n) /\ Boundary(ends, k, n)
      /\ iState = "body" /\ rx.size = 0
  BY DEF Framed, PlaceInv
<1>2. /\ k + 1 \in 1 .. Len(sent) /\ f \in Frames
      /\ \A i \in 1 .. Len(arrived) : i <= FrameLen(f) => arrived[i] = FrameByte(f, k + 1, i)
  BY <1>1, HeaderAhead
<1>3. arrived[1] = <<"op", f.type, f.fin>>
  BY <1>2, NumberFacts, HeaderParsed
<1>4. CASE Len(arrived) >= 3 \/ ~Long(f)
  <2>1. PICK g : g = h
    OBVIOUS
  <2>2. /\ Behind(wire, n + g)' /\ At(ends, k + 1, n + g)' /\ Boundary(ends, k + 1, n + g)'
        /\ rx'.size = f.size /\ rx'.size <= MaxPayload
    BY <1>1, <1>4, <2>1, HeaderRead
  <2>3. Wired(wire, ends)'
    BY <1>1, WiredKept DEF Parsed
  <2>4. Framed(wire, ends, k + 1, n + g)'
    BY <1>1, <2>2, <2>3 DEF Framed
  <2> QED
    BY <1>2, <1>3, <2>2, <2>4
<1>5. CASE ~(Len(arrived) >= 3 \/ ~Long(f))
  <2>1. Lost' /\ rx'.size = Huge
    BY <1>1, <1>5, HeaderMissed
  <2> QED
    BY <1>2, <1>3, <2>1
<1> QED
  BY <1>4, <1>5

\* Without control frames inside a message, a continuation has the type of its message.
LEMMA HeaderBecomesKnown ==
    ASSUME TypeInv, SentInv, NEW k \in 0 .. Len(sent), HeaderKnown(k), Orderly,
           k + 1 \in 1 .. Len(sent), sent[k + 1] \in Frames, Parsed,
           arrived[1] = <<"op", sent[k + 1].type, sent[k + 1].fin>>
    PROVE  /\ HeaderKnown(k + 1)'
           /\ rx'.type = IF IsData(sent[k + 1]) THEN "text" ELSE sent[k + 1].type
<1> DEFINE f == sent[k + 1]
<1>1. f.type \in Types /\ f.fin \in {"yes", "no"} /\ k \in Nat /\ Len(sent) \in Nat
  <2>1. f \in Frames
    OBVIOUS
  <2>2. f.type \in Types /\ f.fin \in {"yes", "no"}
    BY <2>1, FrameFacts
  <2>3. Len(sent) \in Nat
    BY NumberFacts
  <2> QED
    BY <2>2, <2>3
<1>2. arrived[1][2] = f.type /\ arrived[1][3] = f.fin
  BY SMT
<1>3. sent' = sent /\ rx'.type = NewOpCode(arrived[1]).type /\ rx'.fin = NewOpCode(arrived[1]).fin
  BY DEF Parsed
<1>4. CASE f.type # "cont"
  <2>1. rx'.type = f.type /\ rx'.fin = f.fin
    BY <1>2, <1>3, <1>4 DEF NewOpCode
  <2>2. IsData(f) => f.type = "text"
    BY <1>1, <1>4 DEF IsData, Types, Control
  <2> QED
    BY <1>3, <2>1, <2>2 DEF HeaderKnown
<1>5. CASE f.type = "cont"
  <2>1. k > 0 /\ IsData(sent[k]) /\ sent[k].fin = "no"
    <3>1. k + 1 > 1 /\ IsData(sent[(k + 1) - 1]) /\ sent[(k + 1) - 1].fin = "no"
      BY <1>5 DEF SentInv, Orderly
    <3>2. (k + 1) - 1 = k
      BY <1>1
    <3> QED
      BY <1>1, <3>1, <3>2
  <2>2. rx.type = "text" /\ rx.fin = "no"
    BY <2>1 DEF HeaderKnown
  <2>3. rx'.type = "text" /\ rx'.fin = f.fin
    BY <1>2, <1>3, <1>5, <2>2 DEF NewOpCode
  <2>4. IsData(f)
    BY <1>5 DEF IsData, Control
  <2> QED
    BY <1>3, <2>3, <2>4 DEF HeaderKnown
<1> QED
  BY <1>4, <1>5

LEMMA CountNext ==
    ASSUME NEW m \in Nat, NEW count, NEW which, NEW image, NEW list,
           Counts(m, count, which, image, list), NEW k \in Nat, k + 1 \in 1 .. m
    PROVE  /\ count[k] \in Nat
           /\ count[k + 1] = IF k + 1 \in which THEN count[k] + 1 ELSE count[k]
           /\ k + 1 \in which => count[k + 1] - 1 = count[k]
<1>1. k \in 0 .. m /\ (k + 1) - 1 = k
  OBVIOUS
<1>2. count[k] \in Nat
  BY <1>1 DEF Counts
<1>3. count[k + 1] = IF k + 1 \in which THEN count[(k + 1) - 1] + 1 ELSE count[(k + 1) - 1]
  BY DEF Counts
<1> QED
  BY <1>1, <1>2, <1>3

\* What the frame that has been parsed asks for.
LEMMA TalliedParsed ==
    ASSUME TypeInv, SentInv, NEW messages, NEW pings, NEW k \in 0 .. Len(sent),
           Tallied(messages, pings, k),
           pc = "header", Parsed, UNCHANGED got,
           k + 1 \in 1 .. Len(sent), sent[k + 1] \in Frames,
           arrived[1] = <<"op", sent[k + 1].type, sent[k + 1].fin>>,
           Orderly /\ IsMessage(sent[k + 1]) =>
               pc' = "read" /\ text' = <<>> /\ left' = rx'.size /\ rx'.size = sent[k + 1].size,
           Orderly /\ ~IsMessage(sent[k + 1]) => pc' # "read",
           Orderly /\ OfExample => pongs' = pongs /\ pc' # "crash",
           Orderly /\ OfExample /\ sent[k + 1].type = "ping" =>
               /\ pc' = "pong" /\ rx'.size = sent[k + 1].size
               /\ tx'.started = "yes" /\ tx'.type = "pong" /\ tx'.data = <<>>,
           Orderly /\ sent[k + 1].type # "ping" => pc' # "pong"
    PROVE  Tallied(messages, pings, k + 1)'
<1> DEFINE f == sent[k + 1]
           m == k + 1
<1>1. /\ f.size \in Nat /\ k \in Nat /\ Len(sent) \in Nat /\ m > 0
      /\ UNCHANGED <<conduct, sent, due>>
  <2>1. f.size \in Nat
    BY FrameFacts
  <2>2. Len(sent) \in Nat
    BY NumberFacts
  <2>3. k \in Nat /\ m > 0
    BY <2>2
  <2>4. UNCHANGED <<conduct, sent, due>>
    BY DEF Parsed
  <2> QED
    BY <2>1, <2>2, <2>3, <2>4
<1>2. Len(<<>>) = 0 /\ \A x : [i \in 1 .. 0 |-> x] = <<>>
  OBVIOUS
<1>3. f.size - f.size = 0
  BY <1>1
<1>4. ASSUME Orderly
      PROVE  HeaderKnown(m)' /\ ReadSoFar(messages, m)'
  <2>1. HeaderKnown(k) /\ ReadSoFar(messages, k)
    BY <1>4 DEF Tallied
  <2>2. HeaderKnown(m)'
    BY <1>4, <2>1, HeaderBecomesKnown
  <2>3. /\ messages[m] = IF m \in MessageFrames THEN messages[k] + 1 ELSE messages[k]
        /\ m \in MessageFrames => messages[m] - 1 = messages[k]
    <3>1. Counts(Len(sent), messages, MessageFrames, MessageOf, due.messages)
      BY DEF Tallied
    <3> QED
      BY <1>1, <3>1, CountNext
  <2>4. m \in MessageFrames <=> IsMessage(f)
    BY DEF MessageFrames
  <2>5. got' = SubSeq(due.messages, 1, messages[k])
    BY <2>1 DEF ReadSoFar
  <2>6. CASE IsMessage(f)
    <3>1. pc' = "read" /\ text' = <<>> /\ left' = f.size /\ rx'.size = f.size
      BY <1>4, <2>6
    <3>2. got' = SubSeq(due'.messages, 1, messages[m] - 1)
      BY <1>1, <2>3, <2>4, <2>5, <2>6
    <3>3. text' = [i \in 1 .. f.size - left' |-> m]
      <4>1. f.size - left' = 0
        BY <1>3, <3>1
      <4> QED
        BY <1>2, <3>1, <4>1
    <3>4. sent'[m] = f /\ left' <= f.size /\ rx'.size = left'
      BY <1>1, <3>1
    <3> QED
      BY <1>1, <2>2, <2>6, <3>1, <3>2, <3>3, <3>4, Zenon DEF ReadSoFar
  <2>7. CASE ~IsMessage(f)
    <3>1. pc' # "read" /\ got' = SubSeq(due'.messages, 1, messages[m])
      BY <1>1, <1>4, <2>3, <2>4, <2>5, <2>7
    <3> QED
      BY <2>2, <3>1, Zenon DEF ReadSoFar
  <2> QED
    BY <2>6, <2>7
<1>5. ASSUME Orderly, OfExample
      PROVE  PongedSoFar(pings, m)'
  <2>1. PongedSoFar(pings, k)
    BY <1>5 DEF Tallied
  <2>2. /\ pings[m] = IF m \in PingFrames THEN pings[k] + 1 ELSE pings[k]
        /\ m \in PingFrames => pings[m] - 1 = pings[k]
    <3>1. Counts(Len(sent), pings, PingFrames, PingOf, due.pongs)
      BY DEF Tallied
    <3> QED
      BY <1>1, <3>1, CountNext
  <2>3. m \in PingFrames <=> f.type = "ping"
    BY DEF PingFrames
  <2>4. pongs' = SubSeq(due.pongs, 1, pings[k]) /\ pc' # "crash"
    BY <1>5, <2>1 DEF PongedSoFar
  <2>5. CASE f.type = "ping"
    <3>1. /\ pc' = "pong" /\ rx'.size = f.size
          /\ tx'.started = "yes" /\ tx'.type = "pong" /\ tx'.data = <<>>
      BY <1>5, <2>5
    <3>2. pongs' = SubSeq(due'.pongs, 1, pings[m] - 1)
      BY <1>1, <2>2, <2>3, <2>4, <2>5
    <3>3. tx'.data = [i \in 1 .. f.size - rx'.size |-> m]
      <4>1. f.size - rx'.size = 0
        BY <1>3, <3>1
      <4> QED
        BY <1>2, <3>1, <4>1
    <3>4. sent'[m] = f /\ rx'.size <= f.size
      BY <1>1, <3>1
    <3> QED
      BY <1>1, <2>4, <2>5, <3>1, <3>2, <3>3, <3>4, Zenon DEF PongedSoFar
  <2>6. CASE f.type # "ping"
    <3>1. pc' # "pong" /\ pongs' = SubSeq(due'.pongs, 1, pings[m])
      BY <1>1, <1>5, <2>2, <2>3, <2>4, <2>6
    <3> QED
      BY <2>4, <3>1, Zenon DEF PongedSoFar
  <2> QED
    BY <2>5, <2>6
<1>6. (Orderly' <=> Orderly) /\ (OfExample' <=> OfExample)
  BY <1>1 DEF Orderly, Whole, OfExample
<1>7. /\ Counts(Len(sent'), messages, MessageFrames', MessageOf', due'.messages)
      /\ Counts(Len(sent'), pings, PingFrames', PingOf', due'.pongs)
  BY <1>1 DEF Tallied, MessageFrames, MessageOf, PingFrames, PingOf
<1> HIDE DEF m
<1>8. Tallied(messages, pings, m)'
  BY <1>4, <1>5, <1>6, <1>7, Zenon DEF Tallied
<1> QED
  BY <1>8 DEF m

LEMMA ParseOnConnection ==
    ASSUME TypeInv, PlaceInv, SentInv, TxInv, InFrame, Sound,
           ParseData \/ ParseDiscarded \/ ParsePing
    PROVE  /\ \/ InFrame' /\ rx'.size \in 0 .. MaxPayload
              \/ Lost' /\ rx'.size = Huge
           /\ rx'.type \in OpCodes /\ rx'.size \in 0 .. Huge
<1>1. PICK wire, ends, messages, pings, k, n :
        Framed(wire, ends, k, n) /\ Tallied(messages, pings, k)
  BY DEF InFrame
<1>2. PICK type \in OpCodes : Parse(type)
  BY DEF ParseData, ParseDiscarded, ParsePing, Types, OpCodes
<1>3. /\ Parsed /\ pc = "header" /\ Len(arrived) >= 2 /\ rx'.type = type
      /\ UNCHANGED <<iState, got>>
  BY <1>2, ParseIsParsed
<1>4. pc' \in {"loop", "compose", "read", "discard", "pong"}
  BY DEF ParseData, ParseDiscarded, ParsePing, TypeInv, TypeOK
<1> DEFINE f == sent[k + 1]
<1>5. /\ k + 1 \in 1 .. Len(sent) /\ f \in Frames
      /\ arrived[1] = <<"op", f.type, f.fin>>
      /\ \/ /\ \E h : Framed(wire, ends, k + 1, h)'
            /\ rx'.size = f.size /\ rx'.size <= MaxPayload
         \/ Lost' /\ rx'.size = Huge
  BY <1>1, <1>3, <1>4, FramedParsed
<1>6. /\ k \in 0 .. Len(sent) /\ Len(sent) > 0 /\ Huge \in Nat /\ Huge > MaxPayload
      /\ MaxPayload \in Nat
  <2>1. Huge \in Nat /\ Len(sent) \in Nat /\ MaxPayload \in Nat
    BY NumberFacts
  <2>2. k \in 0 .. Len(sent)
    BY <1>1 DEF Framed, At
  <2>3. Len(sent) > 0
    BY <1>5, <2>1, <2>2
  <2>4. Huge > MaxPayload
    BY <2>3, HugeIsLong
  <2> QED
    BY <2>1, <2>2, <2>3, <2>4
<1>7. f.size \in Nat
  BY <1>5, FrameFacts
<1>8. rx'.size \in 0 .. Huge /\ (rx'.size # Huge => rx'.size \in 0 .. MaxPayload)
  <2>1. rx'.size = Huge \/ (rx'.size = f.size /\ rx'.size <= MaxPayload)
    BY <1>5
  <2>2. CASE rx'.size = Huge
    BY <1>6, <2>2
  <2>3. CASE rx'.size = f.size /\ rx'.size <= MaxPayload
    BY <1>6, <1>7, <2>3
  <2> QED
    BY <2>1, <2>2, <2>3
<1>9. ASSUME NEW h, Framed(wire, ends, k + 1, h)', rx'.size = f.size, rx'.size <= MaxPayload
      PROVE  InFrame'
  <2>1. Orderly => rx'.type = IF IsData(f) THEN "text" ELSE f.type
    BY <1>1, <1>3, <1>5, <1>6, HeaderBecomesKnown DEF Tallied
  <2>2. IsMessage(f) <=> IsData(f) /\ f.size > 0
    BY DEF IsMessage
  <2>3. ~IsData(f) <=> f.type \in Control
    BY DEF IsData
  <2>4. Orderly /\ OfExample => pongs' = pongs /\ pc' # "crash"
    BY <1>4 DEF ParseData, ParseDiscarded, ParsePing, Parse
  <2>5. rx'.size # Huge
    BY <1>6, <1>9
  <2>6. CASE ParseData
    <3>0. PICK t \in OpCodes \ Control : Parse(t)
      BY <2>6 DEF ParseData
    <3>1. Orderly => IsData(f)
      <4>1. rx'.type \notin Control
        BY <3>0, ParseType
      <4> QED
        BY <2>1, <2>3, <4>1
    <3>2. pc' # "pong"
      BY <2>6 DEF ParseData, TypeInv, TypeOK
    <3>3. text' = <<>>
      BY <2>6 DEF ParseData
    <3>4. f.size > 0 => pc' = "read" /\ left' = rx'.size
      <4>1. Available' = rx'.size
        BY <1>1, <1>3 DEF Available, Framed
      <4> QED
        BY <1>7, <1>9, <2>5, <2>6, <4>1 DEF ParseData
    <3>5. ~(f.size > 0) => pc' # "read"
      <4>1. ~(f.size > 0) => rx'.size = 0
        BY <1>7, <1>9
      <4> QED
        BY <2>6, <4>1 DEF ParseData, TypeInv, TypeOK
    <3>6. Orderly => f.type # "ping"
      BY <3>1 DEF IsData, Control
    <3>7. Orderly /\ IsMessage(f) =>
            pc' = "read" /\ text' = <<>> /\ left' = rx'.size /\ rx'.size = f.size
      BY <1>9, <2>2, <3>3, <3>4
    <3>8. Orderly /\ ~IsMessage(f) => pc' # "read"
      BY <2>2, <3>1, <3>5
    <3>9. Tallied(messages, pings, k + 1)'
      BY <1>1, <1>3, <1>5, <1>6, <2>4, <3>2, <3>6, <3>7, <3>8, TalliedParsed
    <3> QED
      BY <1>9, <3>9 DEF InFrame
  <2>7. CASE ParseDiscarded
    <3>1. rx'.type \in {"pong", "close"} /\ pc' = "discard"
      BY <2>7, ParseType DEF ParseDiscarded
    <3>2. Orderly => f.type = rx'.type /\ ~IsMessage(f)
      BY <2>1, <2>2, <3>1
    <3>3. Tallied(messages, pings, k + 1)'
      BY <1>1, <1>3, <1>5, <1>6, <2>4, <3>1, <3>2, TalliedParsed
    <3> QED
      BY <1>9, <3>3 DEF InFrame
  <2>8. CASE ParsePing
    <3>1. rx'.type = "ping" /\ pc' = "pong" /\ tx' = BeginMessage("pong")
      BY <2>8, ParseType DEF ParsePing
    <3>2. Orderly => f.type = "ping" /\ ~IsMessage(f)
      BY <2>1, <2>2, <3>1
    <3>3. Orderly /\ OfExample => tx'.started = "yes" /\ tx'.type = "pong" /\ tx'.data = <<>>
      BY <1>3, <3>1 DEF BeginMessage, TxInv, Orderly
    <3>4. Tallied(messages, pings, k + 1)'
      BY <1>1, <1>3, <1>5, <1>6, <1>9, <2>4, <3>1, <3>2, <3>3, TalliedParsed
    <3> QED
      BY <1>9, <3>4 DEF InFrame
  <2> QED
    BY <2>6, <2>7, <2>8
<1>10. \/ InFrame' /\ rx'.size \in 0 .. MaxPayload
       \/ Lost' /\ rx'.size = Huge
  BY <1>5, <1>6, <1>8, <1>9
<1> QED
  BY <1>3, <1>8, <1>10

-----------------------------------------------------------------------------
(* A message has been read, a PING answered. *)

LEMMA StringReadOnConnection ==
    ASSUME TypeInv, InFrame, StringRead
    PROVE  InFrame'
<1>1. PICK wire, ends, messages, pings, k, n :
        Framed(wire, ends, k, n) /\ Tallied(messages, pings, k)
  BY DEF InFrame
<1>2. /\ pc = "read" /\ left = 0 /\ pc' \in {"loop", "compose"}
      /\ got' = Append(got, [type |-> rx.type, fin |-> rx.fin, data |-> text])
      /\ UNCHANGED <<conduct, iState, netVars, rx, pongs, sent, due>>
  BY DEF StringRead, netVars, TypeInv, TypeOK
<1>3. Framed(wire, ends, k, n)'
  BY <1>1, <1>2, FramedKept
<1>4. ASSUME Orderly
      PROVE  HeaderKnown(k)' /\ ReadSoFar(messages, k)'
  <2>1. HeaderKnown(k) /\ ReadSoFar(messages, k)
    BY <1>1, <1>4 DEF Tallied
  <2>2. HeaderKnown(k)'
    BY <1>2, <2>1, SameHeader
  <2>3. /\ k > 0 /\ IsMessage(sent[k]) /\ got = SubSeq(due.messages, 1, messages[k] - 1)
        /\ text = [i \in 1 .. sent[k].size - left |-> k]
    BY <1>2, <2>1 DEF ReadSoFar
  <2>4. k \in 1 .. Len(sent) /\ k \in 0 .. Len(sent) /\ Len(sent) \in Nat
    BY <1>1, <2>3, NumberFacts DEF Framed, At
  <2>5. sent[k] \in Frames /\ sent[k].size \in Nat
    BY <2>4, ElementOfSeq, FrameFacts DEF TypeInv, TypeOK
  <2>6. [type |-> rx.type, fin |-> rx.fin, data |-> text] = MessageOf[k]
    <3>1. rx.type = "text" /\ rx.fin = sent[k].fin
      BY <2>1, <2>3 DEF HeaderKnown, IsMessage
    <3>2. sent[k].size - left = sent[k].size
      BY <1>2, <2>5
    <3>3. text = Payload(sent[k], k)
      BY <2>3, <3>2 DEF Payload
    <3> QED
      BY <2>4, <3>1, <3>3 DEF MessageOf, Message
  <2>7. due.messages \in Seq(DueMessages)
    BY DEF TypeInv
  <2>8. /\ messages[k] - 1 \in 0 .. Len(due.messages) - 1 /\ messages[k] \in Nat
        /\ due.messages[messages[k]] = MessageOf[k]
    <3>1. Counts(Len(sent), messages, MessageFrames, MessageOf, due.messages)
      BY <1>1 DEF Tallied
    <3>2. k \in MessageFrames
      BY <2>3, <2>4 DEF MessageFrames
    <3>3. /\ messages[k] \in 0 .. Len(due.messages) /\ Len(due.messages) \in Nat
          /\ messages[k] - 1 \in 0 .. Len(due.messages) - 1
          /\ due.messages[messages[k]] = MessageOf[k]
      BY <2>3, <2>4, <2>7, <3>1, <3>2, TalliedSoFar
    <3> QED
      BY <3>3
  <2> DEFINE x == messages[k] - 1
  <2>9. Append(SubSeq(due.messages, 1, x), due.messages[x + 1])
          = SubSeq(due.messages, 1, x + 1)
    <3>1. x \in 0 .. Len(due.messages) - 1
      BY <2>8
    <3> HIDE DEF x
    <3> QED
      BY <2>7, <3>1, TakenGrows
  <2>10. x + 1 = messages[k]
    BY <2>8
  <2>11. got' = SubSeq(due'.messages, 1, messages[k])
    BY <1>2, <2>3, <2>6, <2>8, <2>9, <2>10
  <2> QED
    BY <1>2, <2>2, <2>11 DEF ReadSoFar
<1>5. Orderly /\ OfExample => PongedSoFar(pings, k)'
  BY <1>1, <1>2 DEF Tallied, PongedSoFar
<1>6. Tallied(messages, pings, k)'
  BY <1>1, <1>2, <1>4, <1>5, TalliedKept
<1> QED
  BY <1>3, <1>6 DEF InFrame

LEMMA PongSentOnConnection ==
    ASSUME TypeInv, InFrame, Sound, SendPong
    PROVE  InFrame'
<1>0. rx' = rx /\ rx.size = 0
  BY EndedKeeps DEF SendPong, Sound
<1>1. PICK wire, ends, messages, pings, k, n :
        Framed(wire, ends, k, n) /\ Tallied(messages, pings, k)
  BY DEF InFrame
<1>2. /\ pc = "pong" /\ rx.size = 0 /\ pc' \in {"loop", "compose"} /\ pongs' = Answered(tx)
      /\ UNCHANGED <<conduct, iState, netVars, rx, got, sent, due>>
  BY <1>0 DEF SendPong, netVars, TypeInv, TypeOK
<1>3. Framed(wire, ends, k, n)'
  BY <1>1, <1>2, FramedKept
<1>4. Orderly => HeaderKnown(k)' /\ ReadSoFar(messages, k)'
  BY <1>1, <1>2 DEF Tallied, ReadSoFar, HeaderKnown
<1>5. ASSUME Orderly, OfExample
      PROVE  PongedSoFar(pings, k)'
  <2>1. /\ k > 0 /\ sent[k].type = "ping" /\ pongs = SubSeq(due.pongs, 1, pings[k] - 1)
        /\ tx.started = "yes" /\ tx.type = "pong"
        /\ tx.data = [i \in 1 .. sent[k].size - rx.size |-> k]
    BY <1>1, <1>2, <1>5 DEF Tallied, PongedSoFar
  <2>2. k \in 1 .. Len(sent) /\ k \in 0 .. Len(sent) /\ Len(sent) \in Nat
    BY <1>1, <2>1, NumberFacts DEF Framed, At
  <2>3. sent[k] \in Frames /\ sent[k].size \in Nat
    BY <2>2, ElementOfSeq, FrameFacts DEF TypeInv, TypeOK
  <2>4. tx.data = PingOf[k]
    <3>1. sent[k].size - rx.size = sent[k].size
      BY <1>2, <2>3
    <3> QED
      BY <2>1, <2>2, <3>1 DEF PingOf, Payload
  <2>5. due.pongs \in Seq(Pongs)
    BY DEF TypeInv
  <2>6. /\ pings[k] - 1 \in 0 .. Len(due.pongs) - 1 /\ pings[k] \in Nat
        /\ due.pongs[pings[k]] = PingOf[k]
    <3>1. Counts(Len(sent), pings, PingFrames, PingOf, due.pongs)
      BY <1>1 DEF Tallied
    <3>2. k \in PingFrames
      BY <2>1, <2>2 DEF PingFrames
    <3>3. /\ pings[k] \in 0 .. Len(due.pongs) /\ Len(due.pongs) \in Nat
          /\ pings[k] - 1 \in 0 .. Len(due.pongs) - 1
          /\ due.pongs[pings[k]] = PingOf[k]
      BY <2>1, <2>2, <2>5, <3>1, <3>2, TalliedSoFar
    <3> QED
      BY <3>3
  <2> DEFINE x == pings[k] - 1
  <2>7. Append(SubSeq(due.pongs, 1, x), due.pongs[x + 1]) = SubSeq(due.pongs, 1, x + 1)
    <3>1. x \in 0 .. Len(due.pongs) - 1
      BY <2>6
    <3> HIDE DEF x
    <3> QED
      BY <2>5, <3>1, TakenGrows
  <2>8. x + 1 = pings[k]
    BY <2>6
  <2>9. pongs' = Append(pongs, tx.data)
    BY <1>2, <2>1 DEF Answered
  <2>10. pongs' = SubSeq(due'.pongs, 1, pings[k])
    BY <1>2, <2>1, <2>4, <2>6, <2>7, <2>8, <2>9
  <2> QED
    BY <1>2, <2>10 DEF PongedSoFar
<1>6. Tallied(messages, pings, k)'
  BY <1>1, <1>2, <1>4, <1>5, TalliedKept
<1> QED
  BY <1>3, <1>6 DEF InFrame

-----------------------------------------------------------------------------
(* The server and the network. *)

LEMMA SendOnConnection ==
    ASSUME TypeInv, InFrame, ServerSends
    PROVE  InFrame'
<1>1. PICK wire, ends, messages, pings, k, n :
        Framed(wire, ends, k, n) /\ Tallied(messages, pings, k)
  BY DEF InFrame
<1>2. PICK f \in Frames : Sends(f, Len(sent) + 1)
  BY DEF ServerSends
<1>3. /\ conn = "open" /\ UNCHANGED <<conduct, conn, arrived, rx>>
      /\ UNCHANGED <<pc, conduct, tx, rx, left, text, got, pongs>>
      /\ UNCHANGED iState
  BY DEF ServerSends, rxVars, history
<1>4. /\ Wired(wire, ends) /\ Behind(wire, n) /\ At(ends, k, n) /\ Boundary(ends, k, n)
      /\ iState = "body" /\ pc # "begin" /\ k \in 0 .. Len(sent)
  BY <1>1 DEF Framed, At
<1>5. PICK longer, further : /\ Wired(longer, further)' /\ Behind(longer, n)'
                             /\ At(further, k, n)' /\ Boundary(further, k, n)'
  BY <1>2, <1>3, <1>4, StreamGrows
<1>6. Framed(longer, further, k, n)'
  BY <1>3, <1>4, <1>5 DEF Framed
<1>7. \E messages2, pings2 : Tallied(messages2, pings2, k)'
  BY <1>1, <1>2, <1>3, <1>4, TallyGrows
<1> QED
  BY <1>6, <1>7 DEF InFrame

LEMMA ArriveOnConnection ==
    ASSUME TypeInv, PlaceInv, InFrame, Arrive
    PROVE  InFrame'
<1>1. PICK wire, ends, messages, pings, k, n :
        Framed(wire, ends, k, n) /\ Tallied(messages, pings, k)
  BY DEF InFrame
<1>2. UNCHANGED <<pc, conduct, iState, tx, rx, left, text, got, pongs, sent, due>>
  BY DEF Arrive, rxVars, history
<1>3. /\ Wired(wire, ends) /\ Behind(wire, n) /\ At(ends, k, n) /\ Boundary(ends, k, n)
      /\ iState = "body" /\ pc # "begin" /\ (conn = "closed" => net = <<>>)
  BY <1>1 DEF Framed, PlaceInv
<1>4. Behind(wire, n)' /\ At(ends, k, n)' /\ Boundary(ends, k, n)'
  BY <1>3, StreamDelivered
<1>5. Wired(wire, ends)'
  BY <1>2, <1>3, WiredKept
<1>6. Framed(wire, ends, k, n)'
  BY <1>2, <1>3, <1>4, <1>5 DEF Framed
<1>7. Orderly => HeaderKnown(k)' /\ ReadSoFar(messages, k)'
  BY <1>1, <1>2 DEF Tallied, HeaderKnown, ReadSoFar
<1>8. Orderly /\ OfExample => PongedSoFar(pings, k)'
  BY <1>1, <1>2 DEF Tallied, PongedSoFar
<1>9. Tallied(messages, pings, k)'
  BY <1>1, <1>2, <1>7, <1>8, TalliedKept
<1> QED
  BY <1>6, <1>9 DEF InFrame

LEMMA LossOnConnection ==
    ASSUME TypeInv, InFrame, ConnectionLost
    PROVE  InFrame'
<1>1. PICK wire, ends, messages, pings, k, n :
        Framed(wire, ends, k, n) /\ Tallied(messages, pings, k)
  BY DEF InFrame
<1>2. /\ UNCHANGED <<pc, conduct, iState, tx, rx, left, text, got, pongs, sent, due>>
      /\ UNCHANGED <<conduct, arrived, sent, rx>> /\ conn' = "closed" /\ net' = <<>>
  BY DEF ConnectionLost, rxVars, history
<1>3. /\ Wired(wire, ends) /\ Behind(wire, n) /\ At(ends, k, n) /\ Boundary(ends, k, n)
      /\ iState = "body" /\ pc # "begin"
  BY <1>1 DEF Framed
<1>4. Len(wire) \in Nat
  BY <1>3, LenProperties DEF Wired
<1>5. Behind(wire, n)' /\ At(ends, k, n)' /\ Boundary(ends, k, n)'
  BY <1>2, <1>3, <1>4, StreamLost
<1>6. Wired(wire, ends)'
  BY <1>2, <1>3, WiredKept
<1>7. Framed(wire, ends, k, n)'
  BY <1>2, <1>3, <1>5, <1>6 DEF Framed
<1>8. Orderly => HeaderKnown(k)' /\ ReadSoFar(messages, k)'
  BY <1>1, <1>2 DEF Tallied, HeaderKnown, ReadSoFar
<1>9. Orderly /\ OfExample => PongedSoFar(pings, k)'
  BY <1>1, <1>2 DEF Tallied, PongedSoFar
<1>10. Tallied(messages, pings, k)'
  BY <1>1, <1>2, <1>8, <1>9, TalliedKept
<1> QED
  BY <1>7, <1>10 DEF InFrame

LEMMA ConnectionBegins ==
    ASSUME BaseInv, BeginSucceeds, Upgraded'
    PROVE  InFrame'
<1>1. /\ conn' = "open" /\ net' = <<>> /\ arrived' = <<>> /\ sent' = <<>> /\ rx'.size = 0
      /\ iState' = "body" /\ pc' = "loop" /\ got' = <<>> /\ pongs' = <<>>
      /\ due'.messages = <<>> /\ due'.pongs = <<>>
  BY DEF BeginSucceeds, Begin, HeadersRead, Upgraded, BaseInv
<1>2. MaxPayload \in Nat
  BY BufferAssumption
<1>3. PICK wire, ends : /\ Wired(wire, ends)' /\ Behind(wire, 0)'
                        /\ At(ends, 0, 0)' /\ Boundary(ends, 0, 0)'
  BY <1>1, <1>2, StreamBegins
<1>4. Framed(wire, ends, 0, 0)'
  BY <1>1, <1>3 DEF Framed
<1>5. PICK messages : Counts(0, messages, MessageFrames', MessageOf', <<>>)
  BY CountsBegin
<1>6. PICK pings : Counts(0, pings, PingFrames', PingOf', <<>>)
  BY CountsBegin
<1>7. messages[0] = 0 /\ pings[0] = 0
  BY <1>5, <1>6 DEF Counts
<1>8. SubSeq(<<>>, 1, 0) = <<>> /\ Len(<<>>) = 0
  BY SubSeqEmpty
<1>9. HeaderKnown(0)' /\ ReadSoFar(messages, 0)' /\ PongedSoFar(pings, 0)'
  BY <1>1, <1>7, <1>8 DEF HeaderKnown, ReadSoFar, PongedSoFar
<1>10. /\ Counts(Len(sent'), messages, MessageFrames', MessageOf', due'.messages)
       /\ Counts(Len(sent'), pings, PingFrames', PingOf', due'.pongs)
  BY <1>1, <1>5, <1>6, <1>8
<1>11. Tallied(messages, pings, 0)'
  BY <1>9, <1>10 DEF Tallied
<1> QED
  BY <1>4, <1>11 DEF InFrame

LEMMA ConnectionEnds ==
    ASSUME TypeInv, PlaceInv, TxInv, Disconnected \/ CloseDiscarded
    PROVE  /\ Over'
           /\ UNCHANGED <<conduct, got, pongs, due>>
<1>1. CASE Disconnected
  BY <1>1 DEF Disconnected, Connected, TypeInv, TypeOK, Over, netVars, history
<1>2. CASE CloseDiscarded
  BY <1>2 DEF CloseDiscarded, TypeInv, TypeOK, TxInv, Over, Whole, OfExample, history
<1> QED
  BY <1>1, <1>2

-----------------------------------------------------------------------------
(* Steps with no connection, or with one the receiver no longer understands. *)

\* Nothing is added to what has been read and answered, as far as Orderly is concerned.
Quiet == /\ UNCHANGED <<conduct, due>>
         /\ Whole => got' = got /\ (OfExample => pongs' = pongs)

LEMMA OverStep ==
    ASSUME TypeInv, PlaceInv, TxInv, Over, Sound, Goes
    PROVE  Over' /\ Quiet
<1>1. /\ conn = "closed" /\ arrived = <<>> /\ net = <<>>
      /\ pc \notin {"read", "pong", "discard"}
      /\ Whole /\ OfExample => pc # "compose" /\ back = "loop"
      /\ back \in {"loop", "compose"}
  BY DEF Over, PlaceInv, TxInv, TypeInv, TypeOK
<1>3. CASE Disconnected
  BY <1>3, ConnectionEnds DEF Quiet
<1>4. CASE PrintByte \/ CompleteMessage \/ ParseWhileComposing
  <2>1. /\ pc = "compose" /\ pc' \in {"compose", "flush", "crash"}
        /\ UNCHANGED <<conduct, conn, arrived, due, got>>
    BY <1>4 DEF PrintByte, CompleteMessage, ParseWhileComposing, netVars, history
  <2> QED
    BY <1>1, <2>1 DEF Over, Quiet, Whole, OfExample
<1>5. ~StartMessage /\ ~Ping
  BY <1>1 DEF StartMessage, Ping, Connected
<1>6. CASE Flushed \/ NoMessage
  <2>1. /\ pc \in {"flush", "header"} /\ pc' \in {"header", back}
        /\ UNCHANGED <<conduct, conn, arrived, due, got, pongs>>
    BY <1>6 DEF Flushed, NoMessage, netVars, history
  <2> QED
    BY <1>1, <2>1 DEF Over, Quiet, Whole, OfExample
<1>7. Len(arrived) = 0
  BY <1>1
<1>8. ~Flush /\ ~ParseData /\ ~ParseDiscarded /\ ~ParsePing
  BY <1>1, <1>7 DEF Flush, ByteArrived, ParseData, ParseDiscarded, ParsePing, Parse
<1>9. ~CopyByte /\ ~SendPong /\ ~PongDiscarded /\ ~CloseDiscarded /\ ~ReadString /\ ~StringRead
  BY <1>1 DEF CopyByte, SendPong, PongDiscarded, CloseDiscarded, ReadString, StringRead
<1>10. CASE Spin
  BY <1>1, <1>10 DEF Spin, vars, netVars, history, Over, Quiet, Whole, OfExample
<1>11. ~ServerSends /\ ~Arrive /\ ~ConnectionLost
  BY <1>1 DEF ServerSends, Arrive, ConnectionLost
<1> QED
  BY <1>3, <1>4, <1>5, <1>6, <1>8, <1>9, <1>10, <1>11 DEF Goes, Receives, Compose

LEMMA LostByteRead ==
    ASSUME TypeInv, Lost, TakeByte, ByteArrived, rx.size > 0, rx' = OneLess, UNCHANGED conduct
    PROVE  Lost'
<1> DEFINE more == FrameMax * (FrameLimit - Len(sent))
           a == Len(arrived)
           b == Len(net)
           x == rx.size
<1>1. /\ FrameMax \in Nat /\ FrameLimit \in Nat /\ Len(sent) \in Nat
      /\ a \in Nat /\ b \in Nat /\ x \in Nat
  BY NumberFacts
<1>2. more \in Int
  BY <1>1
<1>3. Len(arrived') = a - 1 /\ UNCHANGED <<net, sent, FrameLimit>>
  BY TailFacts DEF TypeInv, TakeByte, ByteArrived, FrameLimit
<1>4. rx'.size = x - 1
  BY DEF OneLess, TypeInv
<1>5. x > a + b + more /\ ~Whole
  BY DEF Lost
<1> HIDE DEF more, a, b, x
<1>6. x - 1 > (a - 1) + b + more
  BY <1>1, <1>2, <1>5
<1> QED
  BY <1>3, <1>4, <1>5, <1>6 DEF Lost, Whole, more, b

LEMMA BytesDelivered ==
    ASSUME NEW S, arrived \in Seq(S), net \in Seq(S), Arrive
    PROVE  /\ arrived' \in Seq(S) /\ net' \in Seq(S)
           /\ Len(arrived') + Len(net') = Len(arrived) + Len(net)
<1> DEFINE d == IF Whole THEN Len(net) ELSE 1
           head == SubSeq(net, 1, d)
           a == Len(arrived)
           c == Len(net)
<1>1. /\ net # <<>> /\ net' = SubSeq(net, d + 1, Len(net)) /\ arrived' = arrived \o head
  BY DEF Arrive, Whole
<1>2. arrived \in Seq(S) /\ net \in Seq(S)
  OBVIOUS
<1>3. a \in Nat /\ c \in Nat /\ c > 0
  BY <1>1, <1>2, LenProperties, TailFacts
<1>4. d \in 0 .. c
  <2> HIDE DEF c
  <2> QED
    BY <1>3 DEF c
<1> HIDE DEF d
<1>5. head \in Seq(S) /\ Len(head) = d
  BY <1>2, <1>4, TakeFacts
<1> HIDE DEF head
<1>6. arrived' \in Seq(S) /\ Len(arrived') = a + d
  BY <1>1, <1>2, <1>5, ConcatFacts
<1>7. net' \in Seq(S) /\ Len(net') = c - d
  BY <1>1, <1>2, <1>4, DropFacts
<1> HIDE DEF a, c
<1>8. (a + d) + (c - d) = a + c
  BY <1>3, <1>4
<1> QED
  BY <1>6, <1>7, <1>8 DEF a, c

\* There are no more frames than FrameLimit, on any connection.
LEMMA SendsFew ==
    ASSUME TypeOK, ServerSends
    PROVE  Len(sent) < FrameLimit
<1>1. /\ conduct \in Conducts /\ Len(sent) \in Nat
  BY LenProperties DEF TypeOK
<1>2. /\ MaxFrames[conduct] \in Nat /\ MaxLate[conduct] \in Nat
      /\ MaxLate[conduct] <= MaxFrames[conduct]
  BY <1>1, BufferAssumption
<1>3. Len(sent) < IF Upgraded THEN FrameLimit ELSE MaxLate[conduct]
  BY DEF ServerSends
<1> QED
  BY <1>1, <1>2, <1>3 DEF FrameLimit

LEMMA LostStep ==
    ASSUME TypeInv, PlaceInv, TxInv, Lost, Sound, Goes
    PROVE  (InFrame' \/ Lost' \/ Over') /\ conduct' = conduct
<1> DEFINE more == FrameMax * (FrameLimit - Len(sent))
<1>1. /\ FrameMax \in Nat /\ FrameLimit \in Nat /\ Len(sent) \in Nat /\ Len(sent) <= FrameLimit
      /\ Len(arrived) \in Nat /\ Len(net) \in Nat /\ rx.size \in Nat
  BY NumberFacts
<1>2. more \in Nat
  BY <1>1
<1>3. ~Whole /\ rx.size > Len(arrived) + Len(net) + more
  BY DEF Lost
<1>4. rx.size > 0 /\ pc # "header"
  <2> DEFINE a == Len(arrived)
             b == Len(net)
  <2>1. a \in Nat /\ b \in Nat /\ rx.size > a + b + more
    BY <1>1, <1>3
  <2> HIDE DEF a, b, more
  <2>2. rx.size > 0
    BY <1>1, <1>2, <2>1
  <2> QED
    BY <2>2 DEF PlaceInv
<1> HIDE DEF more
<1>6. CASE Disconnected \/ CloseDiscarded
  BY <1>6, ConnectionEnds
<1>0. ~PongDiscarded /\ ~SendPong
  BY <1>4 DEF PongDiscarded, SendPong, Sound
<1>7. CASE Compose \/ Flushed \/ NoMessage \/ StringRead \/ Spin
  <2>1. UNCHANGED <<conduct, arrived, net, sent, rx>>
    BY <1>7 DEF Compose, StartMessage, PrintByte, CompleteMessage, ParseWhileComposing, Ping,
                Flushed, NoMessage, StringRead, Spin, vars, netVars, rxVars
  <2> QED
    BY <2>1 DEF Lost, Whole, FrameLimit
<1>8. CASE Flush \/ CopyByte \/ ReadString
  <2>1. UNCHANGED conduct
    BY <1>8 DEF Flush, CopyByte, ReadString
  <2>2. CASE ByteArrived
    <3>1. TakeByte /\ rx' = OneLess
      BY <1>8, <2>2 DEF Flush, CopyByte, ReadString
    <3> QED
      BY <1>4, <2>1, <2>2, <3>1, LostByteRead
  <2>3. CASE ~ByteArrived
    <3>1. UNCHANGED <<conduct, arrived, net, sent, rx>>
      BY <1>8, <2>3 DEF Flush, CopyByte, ReadString, netVars
    <3> QED
      BY <3>1 DEF Lost, Whole, FrameLimit
  <2> QED
    BY <2>2, <2>3
<1>9. ~ParseData /\ ~ParseDiscarded /\ ~ParsePing
  BY <1>4 DEF ParseData, ParseDiscarded, ParsePing, Parse
<1>10. CASE ServerSends
  <2>1. PICK f \in Frames : Sends(f, Len(sent) + 1)
    BY <1>10 DEF ServerSends
  <2>2. UNCHANGED <<conduct, arrived, rx>> /\ Len(sent) < FrameLimit
    BY <1>10, SendsFew DEF ServerSends, rxVars, TypeInv
  <2>3. Len(net') = Len(net) + FrameLen(f)
    <3>1. net' = net \o Header(f) \o [i \in 1 .. f.size |-> <<"data", Len(sent) + 1>>]
      BY <2>1 DEF Sends
    <3>2. net \in Seq(Byte) /\ Len(sent) + 1 \in Nat
      BY <1>1 DEF TypeInv
    <3> QED
      BY <3>1, <3>2, BytesOfFrame
  <2>4. Len(sent') = Len(sent) + 1
    BY <2>1, SentGrows DEF Sends
  <2>5. FrameLen(f) \in Nat /\ FrameLen(f) <= FrameMax
    BY <1>1, FrameFacts
  <2>6. FrameMax * (FrameLimit - Len(sent)) = FrameMax * (FrameLimit - (Len(sent) + 1)) + FrameMax
    BY <1>1, OneFrameMore
  <2> DEFINE a == Len(arrived)
             b == Len(net)
             c == FrameLen(f)
             rest == FrameMax * (FrameLimit - (Len(sent) + 1))
  <2>7. /\ a \in Nat /\ b \in Nat /\ c \in Nat /\ c <= FrameMax /\ rest \in Int
        /\ rx.size > a + b + more /\ more = rest + FrameMax
    BY <1>1, <1>3, <2>5, <2>6 DEF more
  <2> HIDE DEF a, b, c, rest
  <2>8. rx.size > a + (b + c) + rest
    BY <1>1, <2>7
  <2>9. FrameLimit' = FrameLimit
    BY <2>2 DEF FrameLimit
  <2>10. rx'.size > Len(arrived') + Len(net') + FrameMax * (FrameLimit' - Len(sent'))
    BY <2>2, <2>3, <2>4, <2>8, <2>9 DEF a, b, c, rest
  <2> QED
    BY <1>3, <2>2, <2>10 DEF Lost, Whole
<1>11. CASE Arrive
  <2>1. UNCHANGED <<conduct, sent, rx>>
    BY <1>11 DEF Arrive, rxVars
  <2>2. Len(arrived') + Len(net') = Len(arrived) + Len(net)
    BY <1>11, BytesDelivered DEF TypeInv
  <2> QED
    BY <1>3, <2>1, <2>2 DEF Lost, Whole, FrameLimit, more
<1>12. CASE ConnectionLost
  <2>1. UNCHANGED <<conduct, arrived, sent, rx>> /\ Len(net') = 0
    BY <1>12 DEF ConnectionLost, rxVars
  <2> DEFINE a == Len(arrived)
             b == Len(net)
  <2>2. a \in Nat /\ b \in Nat /\ rx.size > a + b + more
    BY <1>1, <1>3
  <2> HIDE DEF a, b
  <2>3. rx.size > a + 0 + more
    BY <1>1, <1>2, <2>2
  <2> QED
    BY <1>3, <2>1, <2>3 DEF Lost, Whole, FrameLimit, more, a
<1> QED
  BY <1>0, <1>6, <1>7, <1>8, <1>9, <1>10, <1>11, <1>12 DEF Goes, Receives

-----------------------------------------------------------------------------
(* Every part of the invariant is kept. *)

LEMMA WireUnchanged ==
    ASSUME InFrame, UNCHANGED vars
    PROVE  InFrame'
<1>1. PICK wire, ends, messages, pings, k, n :
        Framed(wire, ends, k, n) /\ Tallied(messages, pings, k)
  BY DEF InFrame
<1>2. /\ UNCHANGED <<conduct, iState, netVars, rx>>
      /\ UNCHANGED <<pc, tx, left, text, got, pongs, sent, due>>
  BY DEF vars, rxVars, netVars, history
<1>3. Framed(wire, ends, k, n)'
  BY <1>1, <1>2, FramedKept DEF Framed
<1>4. Orderly => HeaderKnown(k)' /\ ReadSoFar(messages, k)'
  BY <1>1, <1>2 DEF Tallied, HeaderKnown, ReadSoFar
<1>5. Orderly /\ OfExample => PongedSoFar(pings, k)'
  BY <1>1, <1>2 DEF Tallied, PongedSoFar
<1>6. Tallied(messages, pings, k)'
  BY <1>1, <1>2, <1>4, <1>5, TalliedKept
<1> QED
  BY <1>3, <1>6 DEF InFrame

LEMMA WireStep ==
    ASSUME TypeInv, PlaceInv, SentInv, TxInv, WireInv, Sound, Goes,
           Whole /\ OfExample => pc' # "crash"
    PROVE  InFrame' \/ (Lost' /\ ~Whole') \/ (Over' /\ Quiet)
<1>1. CASE Over
  BY <1>1, OverStep
<1>2. CASE Lost
  <2>1. ~Whole /\ (InFrame' \/ Lost' \/ Over') /\ conduct' = conduct
    BY <1>2, LostStep DEF Lost
  <2>2. Over' => due' = due
    <3> SUFFICES ASSUME Over', due' # due
                 PROVE  FALSE
      OBVIOUS
    <3>1. ServerSends
      BY DEF Goes, Receives, Compose, Disconnected, StartMessage,
             PrintByte, CompleteMessage, ParseWhileComposing, Ping, Flush, Spin, Flushed,
             NoMessage, Parse, ParseData, ParseDiscarded, ParsePing, CopyByte, SendPong,
             PongDiscarded, CloseDiscarded, ReadString, StringRead, Arrive,
             ConnectionLost, TakeByte, vars, netVars
    <3>2. conn' = "open"
      BY <3>1 DEF ServerSends
    <3> QED
      BY <3>2 DEF Over
  <2> QED
    BY <2>1, <2>2 DEF Quiet, Whole, Lost
<1>3. CASE InFrame
  <2>2. CASE Disconnected \/ CloseDiscarded
    BY <2>2, ConnectionEnds DEF Quiet
  <2>3. CASE Compose
    BY <1>3, <2>3, ComposeOnConnection
  <2>4. CASE Flushed \/ NoMessage \/ PongDiscarded
    BY <1>3, <2>4, ReturnOnConnection
  <2>5. CASE Flush
    BY <1>3, <2>5, FlushOnConnection
  <2>6. CASE ParseData \/ ParseDiscarded \/ ParsePing
    BY <1>3, <2>6, ParseOnConnection DEF Lost
  <2>7. CASE CopyByte
    BY <1>3, <2>7, PongByteOnConnection
  <2>8. CASE SendPong
    BY <1>3, <2>8, PongSentOnConnection
  <2>9. CASE ReadString
    BY <1>3, <2>9, StringByteOnConnection
  <2>10. CASE StringRead
    BY <1>3, <2>10, StringReadOnConnection
  <2>11. CASE Spin
    <3>1. UNCHANGED vars
      BY <2>11 DEF Spin
    <3> QED
      BY <1>3, <3>1, WireUnchanged
  <2>12. CASE ServerSends
    BY <1>3, <2>12, SendOnConnection
  <2>13. CASE Arrive
    BY <1>3, <2>13, ArriveOnConnection
  <2>14. CASE ConnectionLost
    BY <1>3, <2>14, LossOnConnection
  <2> QED
    BY <2>2, <2>3, <2>4, <2>5, <2>6, <2>7, <2>8, <2>9, <2>10, <2>11, <2>12, <2>13, <2>14
       DEF Goes, Receives
<1> QED
  BY <1>1, <1>2, <1>3 DEF WireInv

\* The prefixes follow from what InFrame says of the two lists.
LEMMA PrefixOfTally == TypeInv /\ InFrame => PrefixInv
<1> SUFFICES ASSUME TypeInv, InFrame
             PROVE  PrefixInv
  OBVIOUS
<1>1. PICK wire, ends, messages, pings, k, n :
        Framed(wire, ends, k, n) /\ Tallied(messages, pings, k)
  BY DEF InFrame
<1>2. k \in 0 .. Len(sent) /\ Len(sent) \in Nat
  BY <1>1, NumberFacts DEF Framed, At
<1>3. due.messages \in Seq(DueMessages) /\ due.pongs \in Seq(Pongs)
  BY DEF TypeInv
<1>4. ASSUME Orderly PROVE IsPrefix(got, due.messages)
  <2> DEFINE x == IF pc = "read" THEN messages[k] - 1 ELSE messages[k]
  <2>1. /\ ReadSoFar(messages, k)
        /\ Counts(Len(sent), messages, MessageFrames, MessageOf, due.messages)
    BY <1>1, <1>4 DEF Tallied
  <2>2. pc = "read" => k > 0 /\ k \in MessageFrames
    BY <1>2, <2>1 DEF ReadSoFar, MessageFrames
  <2>3. /\ messages[k] \in 0 .. Len(due.messages) /\ Len(due.messages) \in Nat
        /\ k > 0 /\ k \in MessageFrames => messages[k] - 1 \in 0 .. Len(due.messages) - 1
    BY <1>2, <1>3, <2>1, TalliedSoFar
  <2>4. x \in 0 .. Len(due.messages)
    BY <2>2, <2>3
  <2>5. got = SubSeq(due.messages, 1, x)
    BY <2>1 DEF ReadSoFar
  <2> HIDE DEF x
  <2> QED
    BY <1>3, <2>4, <2>5, PrefixOfTaken
<1>5. ASSUME Orderly, OfExample PROVE IsPrefix(pongs, due.pongs)
  <2> DEFINE x == IF pc = "pong" THEN pings[k] - 1 ELSE pings[k]
  <2>1. PongedSoFar(pings, k) /\ Counts(Len(sent), pings, PingFrames, PingOf, due.pongs)
    BY <1>1, <1>5 DEF Tallied
  <2>2. pc = "pong" => k > 0 /\ k \in PingFrames
    BY <1>2, <2>1 DEF PongedSoFar, PingFrames
  <2>3. /\ pings[k] \in 0 .. Len(due.pongs) /\ Len(due.pongs) \in Nat
        /\ k > 0 /\ k \in PingFrames => pings[k] - 1 \in 0 .. Len(due.pongs) - 1
    BY <1>2, <1>3, <2>1, TalliedSoFar
  <2>4. x \in 0 .. Len(due.pongs)
    BY <2>2, <2>3
  <2>5. pongs = SubSeq(due.pongs, 1, x)
    BY <2>1 DEF PongedSoFar
  <2> HIDE DEF x
  <2> QED
    BY <1>3, <2>4, <2>5, PrefixOfTaken
<1> QED
  BY <1>4, <1>5 DEF PrefixInv

LEMMA PrefixStep ==
    ASSUME TypeInv', PrefixInv, InFrame' \/ (Lost' /\ ~Whole') \/ (Over' /\ Quiet)
    PROVE  PrefixInv'
<1>1. CASE InFrame'
  BY <1>1, PrefixOfTally, PTL
<1>2. CASE ~Whole'
  BY <1>2 DEF PrefixInv, Orderly
<1>3. CASE Quiet
  BY <1>3 DEF Quiet, PrefixInv, Orderly, Whole, OfExample
<1> QED
  BY <1>1, <1>2, <1>3

LEMMA GoesOn ==
    ASSUME Goes \/ ParseChunked
    PROVE  conduct' = conduct /\ answer' = answer
BY DEF Goes, Receives, Compose, Disconnected, StartMessage, PrintByte, CompleteMessage,
       ParseWhileComposing, Ping, Flush, Spin, Flushed, NoMessage, Parse, ParseData,
       ParseDiscarded, ParsePing, CopyByte, SendPong, PongDiscarded, CloseDiscarded,
       ReadString, StringRead, ServerSends, Arrive, ConnectionLost, ParseChunked, vars

BeginsAnew == BeginSucceeds \/ BeginFails \/ BeginRefused \/ BeginUnanswered

LEMMA StepKinds ==
    ASSUME Next
    PROVE  Goes \/ ParseChunked \/ BeginsAnew \/ Reset
BY DEF Next, Task, ParseMessage, Goes, Receives, BeginsAnew

LEMMA ConductKept ==
    ASSUME Next
    PROVE  conduct' = conduct
BY StepKinds, GoesOn DEF BeginsAnew, BeginSucceeds, BeginFails, BeginRefused,
   BeginUnanswered, Begin, Reset

LEMMA SentStep ==
    ASSUME TypeInv, SentInv, Goes
    PROVE  SentInv'
<1>1. conduct' = conduct
  BY GoesOn
<1> SUFFICES ASSUME conduct.server = "plain"
             PROVE  /\ \A j \in 1 .. Len(sent') : sent'[j].type = "cont" =>
                          j > 1 /\ IsData(sent'[j - 1]) /\ sent'[j - 1].fin = "no"
                    /\ Midway' => IsData(sent'[Len(sent')])
  BY <1>1 DEF SentInv
<1>2. /\ \A j \in 1 .. Len(sent) :
           sent[j].type = "cont" => j > 1 /\ IsData(sent[j - 1]) /\ sent[j - 1].fin = "no"
      /\ Midway => IsData(sent[Len(sent)])
  BY DEF SentInv
<1>4. CASE ServerSends
  <2>1. PICK f \in Frames : Legal(f) /\ Sends(f, Len(sent) + 1)
    BY <1>4 DEF ServerSends
  <2> DEFINE l == Len(sent)
  <2>2. /\ l \in Nat /\ Len(sent') = l + 1 /\ sent' \in Seq(Frames)
        /\ \A j \in 1 .. l : sent'[j] = sent[j]
        /\ sent'[l + 1] = f
    BY <2>1, SentGrows DEF Sends
  <2>3. DOMAIN sent = 1 .. l /\ DOMAIN sent' = 1 .. l + 1
    BY <2>2, LenProperties DEF TypeInv, TypeOK
  <2> HIDE DEF l
  <2>4. Midway => /\ l \in 1 .. l /\ IsData(sent[l]) /\ sent[l].fin = "no"
    <3> SUFFICES ASSUME Midway
                 PROVE  l \in 1 .. l /\ IsData(sent[l]) /\ sent[l].fin = "no"
      OBVIOUS
    <3>1. PICK k \in 1 .. l : /\ IsData(sent[k]) /\ sent[k].fin = "no"
                              /\ \A j \in 1 .. l : j > k => ~IsData(sent[j])
      BY <2>3 DEF Midway
    <3>2. l \in 1 .. l /\ IsData(sent[l])
      BY <1>2, <2>2, <3>1 DEF l
    <3>3. ~(l > k)
      BY <3>1, <3>2
    <3>4. k = l
      BY <2>2, <3>1, <3>3
    <3> QED
      BY <3>1, <3>2, <3>4
  <2>5. ASSUME NEW j \in 1 .. l + 1, sent'[j].type = "cont"
        PROVE  j > 1 /\ IsData(sent'[j - 1]) /\ sent'[j - 1].fin = "no"
    <3>1. CASE j \in 1 .. l
      <4>1. sent'[j] = sent[j]
        BY <2>2, <3>1
      <4>2. j > 1 /\ IsData(sent[j - 1]) /\ sent[j - 1].fin = "no"
        BY <1>2, <2>5, <3>1, <4>1 DEF l
      <4>3. j - 1 \in 1 .. l
        BY <2>2, <3>1, <4>2
      <4> QED
        BY <2>2, <4>2, <4>3
    <3>2. CASE j = l + 1
      <4>1. f.type = "cont"
        BY <2>2, <2>5, <3>2
      <4>2. Midway
        BY <2>1, <4>1 DEF Legal
      <4>3. j - 1 = l /\ l \in 1 .. l /\ j > 1
        BY <2>2, <2>4, <3>2, <4>2
      <4> QED
        BY <2>2, <2>4, <4>2, <4>3
    <3> QED
      BY <2>2, <2>5, <3>1, <3>2
  <2>6. Midway' => IsData(sent'[l + 1])
    <3> SUFFICES ASSUME Midway', ~IsData(f)
                 PROVE  FALSE
      BY <2>2
    <3>1. ~Midway
      BY <2>1 DEF Legal, IsData
    <3>2. PICK k \in 1 .. l + 1 : /\ IsData(sent'[k]) /\ sent'[k].fin = "no"
                                  /\ \A j \in 1 .. l + 1 : j > k => ~IsData(sent'[j])
      BY <2>3 DEF Midway
    <3>3. k \in 1 .. l
      BY <2>2, <3>2
    <3>4. /\ IsData(sent[k]) /\ sent[k].fin = "no"
          /\ \A j \in 1 .. l : j > k => ~IsData(sent[j])
      BY <2>2, <3>2, <3>3
    <3> QED
      BY <2>3, <3>1, <3>3, <3>4 DEF Midway
  <2> QED
    BY <2>2, <2>5, <2>6
<1>5. CASE UNCHANGED sent
  BY <1>2, <1>5 DEF Midway
<1> QED
  BY <1>4, <1>5
     DEF Goes, Receives, Compose, Disconnected,
         StartMessage, PrintByte, CompleteMessage, ParseWhileComposing, Ping, Flush, Spin,
         Flushed, NoMessage, Parse, ParseData, ParseDiscarded, ParsePing, CopyByte, SendPong,
         PongDiscarded, CloseDiscarded, ReadString, StringRead, Arrive,
         ConnectionLost, TakeByte, vars, netVars

-----------------------------------------------------------------------------
(* On any connection. *)

LEMMA WriteFits ==
    ASSUME tx \in TxType, NEW bytes \in Seq(Token), ~Overruns(tx, Len(bytes))
    PROVE  Write(tx, bytes) \in TxType
<1> DEFINE n == Len(bytes)
           a == Len(tx.data)
           k == Kept(tx, n)
           part == SubSeq(bytes, 1, k)
<1>1. /\ n \in Nat /\ a \in Nat /\ TxBuffer \in Nat /\ SizeOfTxSize \in Nat
      /\ SizeOfTxSize <= TxBuffer /\ tx.data \in Seq(Token)
  BY BufferAssumption, LenProperties DEF TxType
<1>2. k = IF iState = "idle" \/ tx.started = "no" THEN 0
          ELSE IF a + n <= TxBuffer THEN n ELSE SizeOfTxSize - a
  BY DEF Kept
<1>3. ~(k < 0)
  BY DEF Overruns
<1> HIDE DEF n, a, k
<1>4. k \in 0 .. n
  BY <1>1, <1>2, <1>3
<1>5. part \in Seq(Token) /\ Len(part) = k
  BY <1>4, TakeFacts DEF n
<1> HIDE DEF part
<1>6. tx.data \o part \in Seq(Token)
  BY <1>1, <1>5, ConcatFacts
<1>7. Write(tx, bytes) = [tx EXCEPT !.data = tx.data \o part]
  BY DEF Write, part, k, n
<1> QED
  BY <1>6, <1>7 DEF TxType

LEMMA TxStep ==
    ASSUME BaseInv, Next
    PROVE  tx' \in TxType
<1>1. tx \in TxType
  BY DEF BaseInv
<1>2. <<>> \in Seq(Token) /\ Len(<<>>) = 0
  OBVIOUS
<1>3. CASE StartMessage \/ ParsePing
  <2>1. \E type \in {"text", "pong"} : tx' = BeginMessage(type)
    BY <1>3 DEF StartMessage, ParsePing
  <2> QED
    BY <1>1, <1>2, <2>1 DEF BeginMessage, TxType
<1>4. CASE PrintByte
  <2>1. <<"w">> \in Seq(Token) /\ Len(<<"w">>) = 1
    BY DEF Token
  <2>2. tx' = tx \/ (~Overruns(tx, Len(<<"w">>)) /\ tx' = Write(tx, <<"w">>))
    BY <1>4, <2>1 DEF PrintByte
  <2> QED
    BY <1>1, <2>1, <2>2, WriteFits
<1>5. CASE CompleteMessage \/ Ping \/ SendPong
  <2>1. tx' = NoTx(<<>>)
    BY <1>5 DEF CompleteMessage, Ping, SendPong
  <2> QED
    BY <1>1, <1>2, <2>1 DEF NoTx, TxType
<1>6. CASE CopyByte
  <2> DEFINE x == IF ByteArrived THEN Head(arrived)[2] ELSE "-1"
  <2>1. x \in Token
    <3>1. ByteArrived => Head(arrived) \in AnyByte
      BY TailFacts DEF ByteArrived, BaseInv
    <3>2. \A b \in AnyByte : b[2] \in Token
      BY DEF AnyByte, Byte, Token
    <3> QED
      BY <3>1, <3>2 DEF Token
  <2> HIDE DEF x
  <2>2. <<x>> \in Seq(Token) /\ Len(<<x>>) = 1
    BY <2>1
  <2>3. tx' = tx \/ (~Overruns(tx, Len(<<x>>)) /\ tx' = Write(tx, <<x>>))
    BY <1>6, <2>2 DEF CopyByte, x
  <2> QED
    BY <1>1, <2>2, <2>3, WriteFits
<1>7. CASE Reset
  BY <1>2, <1>7 DEF Reset, TxType
<1>8. CASE UNCHANGED tx
  BY <1>1, <1>8
<1> QED
  BY <1>3, <1>4, <1>5, <1>6, <1>7, <1>8
     DEF Next, Task, Compose, ParseMessage, Begin, BeginSucceeds, BeginFails, BeginRefused,
         BeginUnanswered, Disconnected, ParseWhileComposing, Flush, Spin, Flushed, NoMessage,
         ParseChunked, ParseData, ParseDiscarded, PongDiscarded, CloseDiscarded, ReadString,
         StringRead, ServerSends, Arrive, ConnectionLost, vars

LEMMA HugeIsNat ==
    ASSUME TypeOK
    PROVE  Huge \in Nat
<1>1. MaxPayload + 3 \in Nat /\ FrameLimit \in Nat /\ MaxHttp \in Nat
  BY BufferAssumption DEF FrameLimit, TypeOK
<1>2. PICK m \in Nat : m = MaxPayload + 3
  BY <1>1
<1>3. m * FrameLimit \in Nat
  BY <1>1
<1> QED
  BY <1>1, <1>2, <1>3 DEF Huge

BaseRx == [type : OpCodes, fin : {"yes", "no"}, size : Nat]

\* Whatever the bytes are, they make a type, a final flag and a length.
LEMMA AnyHeader ==
    ASSUME BaseInv, NEW type \in OpCodes, Parse(type), Huge \in Nat
    PROVE  rx' \in BaseRx /\ arrived' \in Seq(AnyByte)
<1>1. /\ arrived \in Seq(AnyByte) /\ rx \in BaseRx /\ Len(arrived) \in Nat /\ Len(arrived) >= 2
      /\ MaxPayload \in Nat
  BY LenProperties, BufferAssumption DEF BaseInv, BaseRx, Parse
<1>2. \A i \in 1 .. Len(arrived) : arrived[i] \in AnyByte
  BY <1>1, ElementOfSeq
<1>3. CASE ReadHeader(type)
  <2>1. arrived[1][3] \in {"yes", "no"}
    <3>1. arrived[1] \in AnyByte /\ arrived[1][1] = "op"
      BY <1>1, <1>2, <1>3 DEF ReadHeader, IsHeader
    <3> QED
      BY <3>1 DEF AnyByte, Byte
  <2>2. NewOpCode(arrived[1]).fin \in {"yes", "no"}
    BY <1>1, <2>1 DEF NewOpCode, BaseRx
  <2>3. NewSize \in Nat
    <3>1. \A b \in AnyByte : b[1] = "len" => b[2] \in Nat
      BY DEF AnyByte, Byte
    <3>2. arrived[2] \in AnyByte /\ arrived[2][1] = "len"
      BY <1>1, <1>2, <1>3 DEF ReadHeader, IsHeader
    <3>3. LongHeader /\ Len(arrived) > 2 => arrived[3] \in AnyByte /\ arrived[3][1] = "len"
      BY <1>1, <1>2, <1>3 DEF ReadHeader, IsHeader
    <3> QED
      BY <1>1, <3>1, <3>2, <3>3 DEF NewSize
  <2>4. HeaderSize \in 0 .. Len(arrived)
    BY <1>1 DEF HeaderSize
  <2>5. arrived' = SubSeq(arrived, HeaderSize + 1, Len(arrived))
    BY <1>3 DEF ReadHeader
  <2>6. arrived' \in Seq(AnyByte)
    BY <1>1, <2>4, <2>5, DropFacts
  <2>7. rx' = [type |-> type, fin |-> NewOpCode(arrived[1]).fin, size |-> NewSize]
    BY <1>3 DEF ReadHeader
  <2> QED
    BY <2>2, <2>3, <2>6, <2>7 DEF BaseRx
<1>4. CASE Misread(type)
  <2>1. PICK fin \in {"yes", "no"}, size \in (0 .. MaxPayload) \cup {Huge} :
          rx' = [type |-> type, fin |-> fin, size |-> size]
    BY <1>4, Zenon DEF Misread
  <2>2. PICK n \in 2 .. Len(arrived) : arrived' = SubSeq(arrived, n + 1, Len(arrived))
    BY <1>4 DEF Misread
  <2>3. n \in 0 .. Len(arrived)
    BY <1>1
  <2>4. arrived' \in Seq(AnyByte)
    BY <1>1, <2>2, <2>3, DropFacts
  <2> QED
    BY <1>1, <2>1, <2>4 DEF BaseRx
<1> QED
  BY <1>3, <1>4 DEF Parse

LEMMA BaseRxStep ==
    ASSUME BaseInv, Next
    PROVE  rx' \in BaseRx /\ left' \in Nat
<1>1. rx \in BaseRx /\ left \in Nat
  BY DEF BaseInv, BaseRx, TypeOK
<1>2. Huge \in Nat
  BY HugeIsNat DEF BaseInv
<1>3. CASE ParseData \/ ParseDiscarded \/ ParsePing
  <2>1. PICK type \in OpCodes : Parse(type)
    BY <1>3 DEF ParseData, ParseDiscarded, ParsePing, Types, OpCodes
  <2>2. rx' \in BaseRx /\ arrived' \in Seq(AnyByte)
    BY <1>2, <2>1, AnyHeader
  <2>3. Available' \in Nat
    BY <2>2, LenProperties DEF Available, BaseRx
  <2> QED
    BY <1>1, <1>3, <2>2, <2>3 DEF ParseData, ParseDiscarded, ParsePing
<1>4. CASE Flush \/ CopyByte \/ ReadString
  <2>1. rx' = rx \/ rx' = OneLess
    BY <1>4 DEF Flush, CopyByte, ReadString
  <2>2. left' = left \/ (left > 0 /\ left' = left - 1)
    BY <1>4 DEF Flush, CopyByte, ReadString
  <2> QED
    BY <1>1, <1>2, <2>1, <2>2 DEF OneLess, BaseRx
<1>5. CASE BeginsAnew
  BY <1>1, <1>5 DEF BeginsAnew, BeginSucceeds, BeginFails, BeginRefused, BeginUnanswered, Begin,
                    BaseRx
<1>6. CASE Reset
  BY <1>6 DEF Reset, BaseRx, Types, OpCodes
<1>7. CASE ParseChunked
  BY <1>1, <1>2, <1>7 DEF ParseChunked, BaseRx, OpCodes
<1>8. CASE SendPong \/ PongDiscarded \/ CloseDiscarded
  BY <1>1, <1>8 DEF SendPong, PongDiscarded, CloseDiscarded, Ended, BaseRx
<1>9. CASE UNCHANGED <<rx, left>>
  BY <1>1, <1>9
<1> QED
  BY <1>3, <1>4, <1>5, <1>6, <1>7, <1>8, <1>9, StepKinds
     DEF Goes, Receives, Compose, Disconnected, StartMessage, PrintByte, CompleteMessage,
         ParseWhileComposing, Ping, Spin, Flushed, NoMessage, StringRead, ServerSends, Arrive,
         ConnectionLost, rxVars, vars

LEMMA SentIsWider ==
    ASSUME NEW s \in Seq(Byte)
    PROVE  s \in Seq(AnyByte)
BY SeqDef DEF AnyByte

LEMMA SendsAny ==
    ASSUME BaseInv, ServerSends
    PROVE  /\ net' \in Seq(AnyByte) /\ arrived' = arrived
           /\ sent' \in Seq(Frames) /\ Len(sent') <= FrameLimit
<1>1. PICK f \in Frames : Sends(f, Len(sent) + 1)
  BY DEF ServerSends
<1>2. /\ sent \in Seq(Frames) /\ Len(sent) \in Nat /\ Len(sent) + 1 \in Nat
      /\ net \in Seq(AnyByte) /\ Len(sent) < FrameLimit /\ FrameLimit \in Nat
  BY SendsFew, LenProperties, BufferAssumption DEF BaseInv, TypeOK, FrameLimit
<1>3. net' \in Seq(AnyByte)
  <2> DEFINE h == Header(f)
             d == [i \in 1 .. f.size |-> <<"data", Len(sent) + 1>>]
  <2>1. h \in Seq(AnyByte)
    BY <1>2, HeaderFacts, SentIsWider
  <2>2. d \in Seq(AnyByte)
    <3>1. d \in Seq(Byte)
      BY <1>2, FrameFacts, DataFacts
    <3> HIDE DEF d
    <3> QED
      BY <3>1, SentIsWider
  <2>3. net' = net \o h \o d
    BY <1>1 DEF Sends
  <2> HIDE DEF h, d
  <2> QED
    BY <1>2, <2>1, <2>2, <2>3, ConcatThree
<1>4. sent' = Append(sent, f)
  BY <1>1 DEF Sends
<1>5. sent' \in Seq(Frames) /\ Len(sent') = Len(sent) + 1
  BY <1>2, <1>4, AppendFacts
<1>6. arrived' = arrived
  BY DEF ServerSends
<1> DEFINE l == Len(sent)
<1>7. l \in Nat /\ l < FrameLimit /\ FrameLimit \in Nat
  BY <1>2
<1> HIDE DEF l
<1>8. l + 1 <= FrameLimit
  BY <1>7
<1> QED
  BY <1>3, <1>5, <1>6, <1>8 DEF l

LEMMA BaseBytes ==
    ASSUME BaseInv, Next
    PROVE  /\ arrived' \in Seq(AnyByte) /\ net' \in Seq(AnyByte)
           /\ sent' \in Seq(Frames) /\ Len(sent') <= FrameLimit
<1>1. /\ arrived \in Seq(AnyByte) /\ net \in Seq(AnyByte) /\ sent \in Seq(Frames)
      /\ Len(sent) <= FrameLimit /\ FrameLimit \in Nat /\ Len(arrived) \in Nat
  BY LenProperties, BufferAssumption DEF BaseInv, TypeOK, FrameLimit
<1>2. /\ \A S : <<>> \in Seq(S)
      /\ Len(<<>>) = 0
  OBVIOUS
<1>3. CASE BeginsAnew
  <2>1. arrived' = <<>> /\ sent' = <<>>
    BY <1>3 DEF BeginsAnew, BeginSucceeds, BeginFails, BeginRefused, BeginUnanswered, Begin
  <2>2. \A http \in HttpBytes : http \in Seq(AnyByte)
    <3> SUFFICES ASSUME NEW n \in 0 .. MaxHttp
                 PROVE  [i \in 1 .. n |-> <<"http", "-">>] \in Seq(AnyByte)
      BY DEF HttpBytes
    <3>1. n \in Nat
      BY BufferAssumption
    <3>2. <<"http", "-">> \in AnyByte
      BY DEF AnyByte
    <3>3. [i \in 1 .. n |-> <<"http", "-">>] \in [1 .. n -> AnyByte]
      BY <3>2
    <3> QED
      BY <3>1, <3>3, SeqDef
  <2>3. net' \in Seq(AnyByte)
    BY <1>2, <1>3, <2>2 DEF BeginsAnew, BeginSucceeds, BeginFails, BeginRefused, BeginUnanswered
  <2> QED
    BY <1>1, <1>2, <2>1, <2>3
<1>4. CASE CloseDiscarded \/ Reset \/ ConnectionLost
  <2>1. arrived' \in {arrived, <<>>} /\ net' = <<>> /\ UNCHANGED sent
    BY <1>4 DEF CloseDiscarded, Reset, ConnectionLost
  <2> QED
    BY <1>1, <1>2, <2>1
<1>5. CASE Flush \/ CopyByte \/ ReadString
  <2>1. /\ arrived' = arrived \/ (arrived # <<>> /\ arrived' = Tail(arrived))
        /\ UNCHANGED <<net, sent>>
    BY <1>5 DEF Flush, CopyByte, ReadString, TakeByte, ByteArrived, netVars
  <2>2. arrived' \in Seq(AnyByte)
    BY <1>1, <2>1, TailFacts
  <2> QED
    BY <1>1, <2>1, <2>2
<1>6. CASE ParseData \/ ParseDiscarded \/ ParsePing
  <2>1. PICK type \in OpCodes : Parse(type)
    BY <1>6 DEF ParseData, ParseDiscarded, ParsePing, Types, OpCodes
  <2>2. arrived' \in Seq(AnyByte)
    BY <2>1, HugeIsNat, AnyHeader DEF BaseInv
  <2>3. UNCHANGED <<net, sent>>
    BY <2>1 DEF Parse
  <2> QED
    BY <1>1, <2>2, <2>3
<1>7. CASE ParseChunked
  <2>1. PICK n \in 0 .. Len(arrived) : arrived' = SubSeq(arrived, n + 1, Len(arrived))
    BY <1>7 DEF ParseChunked
  <2>2. UNCHANGED <<net, sent>>
    BY <1>7 DEF ParseChunked
  <2>3. arrived' \in Seq(AnyByte)
    BY <1>1, <2>1, DropFacts
  <2> QED
    BY <1>1, <2>2, <2>3
<1>8. CASE ServerSends
  BY <1>1, <1>8, SendsAny
<1>9. CASE Arrive
  <2>1. UNCHANGED sent
    BY <1>9 DEF Arrive
  <2> QED
    BY <1>1, <1>9, <2>1, BytesDelivered
<1>10. CASE UNCHANGED netVars
  BY <1>1, <1>10 DEF netVars
<1> QED
  BY <1>3, <1>4, <1>5, <1>6, <1>7, <1>8, <1>9, <1>10, StepKinds
     DEF Goes, Receives, Compose, Disconnected, StartMessage, PrintByte,
         CompleteMessage, ParseWhileComposing, Ping, Spin, Flushed, NoMessage, SendPong,
         PongDiscarded, StringRead, vars

LEMMA FieldsStep ==
    ASSUME BaseInv, Next
    PROVE  /\ pc' \in {"begin", "loop", "compose", "flush", "header", "discard", "pong", "read",
                       "crash"}
           /\ answer' \in {"none", "upgraded", "chunked", "refused", "unanswered"}
           /\ iState' \in {"idle", "body", "chunk"} /\ isChunked' \in {"yes", "no"}
           /\ conn' \in {"open", "closed"}
           /\ back' \in {"loop", "compose"}
           /\ wrote' \in Seq({"w"})
<1>1. /\ pc \in {"begin", "loop", "compose", "flush", "header", "discard", "pong", "read",
                 "crash"}
      /\ answer \in {"none", "upgraded", "chunked", "refused", "unanswered"}
      /\ iState \in {"idle", "body", "chunk"} /\ isChunked \in {"yes", "no"}
      /\ conn \in {"open", "closed"}
      /\ back \in {"loop", "compose"} /\ wrote \in Seq({"w"})
  BY DEF BaseInv, TypeOK
<1>2. Append(wrote, "w") \in Seq({"w"}) /\ <<>> \in Seq({"w"})
  BY <1>1, AppendFacts
<1>3. CASE BeginsAnew
  BY <1>1, <1>3 DEF BeginsAnew, BeginSucceeds, BeginFails, BeginRefused, BeginUnanswered, Begin,
                    HeadersRead
<1>4. CASE Disconnected \/ Reset \/ CloseDiscarded
  BY <1>1, <1>2, <1>4 DEF Disconnected, Reset, CloseDiscarded, rxVars, netVars, history
<1>5. CASE Compose
  BY <1>1, <1>2, <1>5 DEF Compose, StartMessage, PrintByte, CompleteMessage,
                          ParseWhileComposing, Ping, rxVars, netVars, history
<1>6. CASE Flush \/ Flushed \/ NoMessage \/ CopyByte \/ SendPong \/ PongDiscarded
  BY <1>1, <1>6 DEF Flush, Flushed, NoMessage, CopyByte, SendPong, PongDiscarded, TakeByte,
                    rxVars, netVars, history
<1>7. CASE ParseChunked \/ ParseData \/ ParseDiscarded \/ ParsePing
  BY <1>1, <1>7 DEF ParseChunked, ParseData, ParseDiscarded, ParsePing, Parse, history
<1>8. CASE ReadString \/ StringRead
  BY <1>1, <1>8 DEF ReadString, StringRead, TakeByte, netVars, history
<1>9. CASE Spin \/ ServerSends \/ Arrive \/ ConnectionLost
  BY <1>1, <1>9 DEF Spin, vars, ServerSends, Arrive, ConnectionLost, rxVars, netVars, history
<1> QED
  BY <1>3, <1>4, <1>5, <1>6, <1>7, <1>8, <1>9, StepKinds DEF Goes, Receives

LEMMA ExampleStep ==
    ASSUME BaseInv, Next
    PROVE  ExampleInv'
<1>1. conduct' = conduct
  BY ConductKept
<1> SUFFICES ASSUME OfExample
             PROVE  /\ back' = "loop"
                    /\ pc' \notin {"compose", "crash"} => wrote' = <<>>
                    /\ pc' \notin {"compose", "pong", "crash"} => tx'.started = "no"
  BY <1>1 DEF ExampleInv, OfExample
<1>2. /\ back = "loop"
      /\ pc \notin {"compose", "crash"} => wrote = <<>>
      /\ pc \notin {"compose", "pong", "crash"} => tx.started = "no"
  BY DEF BaseInv, ExampleInv
<1>3. CASE BeginsAnew \/ Disconnected
  BY <1>2, <1>3 DEF BeginsAnew, BeginSucceeds, BeginFails, BeginRefused, BeginUnanswered, Begin,
                    Disconnected, rxVars, history
<1>4. CASE Reset
  BY <1>2, <1>4 DEF Reset
<1>5. CASE StartMessage \/ PrintByte \/ CompleteMessage
  BY <1>2, <1>5 DEF StartMessage, PrintByte, CompleteMessage, NoTx, rxVars
<1>6. ~ParseWhileComposing /\ ~Ping
  BY DEF ParseWhileComposing, Ping, OfExample
<1>7. CASE Flush \/ Flushed \/ NoMessage \/ PongDiscarded \/ CloseDiscarded
  BY <1>2, <1>7 DEF Flush, Flushed, NoMessage, PongDiscarded, CloseDiscarded, rxVars, history
<1>8. CASE ParseChunked \/ ParseData \/ ParseDiscarded \/ ParsePing
  BY <1>2, <1>8 DEF ParseChunked, ParseData, ParseDiscarded, ParsePing, Parse, history
<1>9. CASE CopyByte \/ SendPong
  BY <1>2, <1>9 DEF CopyByte, SendPong, NoTx, history
<1>10. CASE ReadString \/ StringRead
  BY <1>2, <1>10 DEF ReadString, StringRead, history
<1>11. CASE Spin \/ ServerSends \/ Arrive \/ ConnectionLost
  BY <1>2, <1>11 DEF Spin, vars, ServerSends, Arrive, ConnectionLost, rxVars, history
<1> QED
  BY <1>3, <1>4, <1>5, <1>6, <1>7, <1>8, <1>9, <1>10, <1>11, StepKinds
     DEF Goes, Receives, Compose

LEMMA BaseStep ==
    ASSUME BaseInv, Next
    PROVE  BaseInv'
<1>1. conduct' = conduct /\ conduct \in Conducts
  BY ConductKept DEF BaseInv, TypeOK
<1>2. FrameLimit' = FrameLimit
  BY <1>1 DEF FrameLimit
<1>3. /\ pc' \in {"begin", "loop", "compose", "flush", "header", "discard", "pong", "read",
                  "crash"}
      /\ answer' \in {"none", "upgraded", "chunked", "refused", "unanswered"}
      /\ iState' \in {"idle", "body", "chunk"} /\ isChunked' \in {"yes", "no"}
      /\ conn' \in {"open", "closed"}
      /\ back' \in {"loop", "compose"} /\ wrote' \in Seq({"w"})
  BY FieldsStep
<1>4. tx' \in TxType /\ rx' \in BaseRx /\ left' \in Nat
  BY TxStep, BaseRxStep
<1>5. /\ arrived' \in Seq(AnyByte) /\ net' \in Seq(AnyByte)
      /\ sent' \in Seq(Frames) /\ Len(sent') <= FrameLimit'
  BY <1>2, BaseBytes
<1>6. TypeOK'
  BY <1>1, <1>3, <1>4, <1>5 DEF TypeOK, TxType, BaseRx
<1>7. ExampleInv'
  BY ExampleStep
<1> QED
  BY <1>3, <1>4, <1>5, <1>6, <1>7 DEF BaseInv, BaseRx

-----------------------------------------------------------------------------
(* On a connection that begin() has upgraded. *)

\* Where a header is read, a frame begins.
LEMMA AtHeader ==
    ASSUME TypeInv, PlaceInv, WireInv, pc = "header", Len(arrived) >= 2
    PROVE  InFrame
<1>1. ~Over
  BY DEF Over
<1>2. ~Lost
  <2> SUFFICES ASSUME Lost
               PROVE  FALSE
    OBVIOUS
  <2> DEFINE more == FrameMax * (FrameLimit - Len(sent))
             a == Len(arrived)
             b == Len(net)
  <2>1. /\ FrameMax \in Nat /\ FrameLimit \in Nat /\ Len(sent) \in Nat
        /\ Len(sent) <= FrameLimit /\ a \in Nat /\ b \in Nat
    BY NumberFacts
  <2>2. more \in Nat
    BY <2>1
  <2>3. 0 > a + b + more
    BY DEF Lost, PlaceInv
  <2> HIDE DEF more, a, b
  <2> QED
    BY <2>1, <2>2, <2>3
<1> QED
  BY <1>1, <1>2 DEF WireInv

LEMMA SoundIs ==
    ASSUME TypeInv, PlaceInv, WireInv
    PROVE  Sound
<1>1. Available = rx.size
  <2>1. iState = "idle" => Len(arrived) = 0 /\ rx.size = 0
    BY DEF PlaceInv
  <2> QED
    BY <2>1 DEF Available
<1>2. ASSUME pc = "header", Len(arrived) >= 2
      PROVE  IsHeader
  <2>1. PICK wire, ends, k, n : Framed(wire, ends, k, n)
    BY <1>2, AtHeader DEF InFrame
  <2>2. /\ Wired(wire, ends) /\ Behind(wire, n) /\ At(ends, k, n) /\ rx.size = 0
    BY <1>2, <2>1 DEF Framed, PlaceInv
  <2> DEFINE f == sent[k + 1]
  <2>3. /\ f \in Frames
        /\ \A i \in 1 .. Len(arrived) : i <= FrameLen(f) => arrived[i] = FrameByte(f, k + 1, i)
    BY <1>2, <2>2, HeaderAhead
  <2> HIDE DEF f
  <2>4. /\ Len(arrived) \in Nat /\ FrameLen(f) \in Nat /\ FrameLen(f) >= 2
        /\ Long(f) => FrameLen(f) >= 3
    <3>1. Len(arrived) \in Nat
      BY NumberFacts
    <3>2. f.size \in Nat /\ FrameLen(f) = HeadLen(f) + f.size
      BY <2>3, FrameFacts
    <3> QED
      BY <3>1, <3>2 DEF HeadLen
  <2>5. arrived[1][1] = "op" /\ arrived[2][1] = "len"
    <3>1. arrived[1] = FrameByte(f, k + 1, 1) /\ arrived[2] = FrameByte(f, k + 1, 2)
      BY <1>2, <2>3, <2>4
    <3>2. /\ arrived[1] = <<"op", f.type, f.fin>>
          /\ arrived[2] = <<"len", IF Long(f) THEN ShortLimit ELSE f.size>>
      BY <3>1 DEF FrameByte
    <3> QED
      BY <3>2
  <2>6. LongHeader /\ Len(arrived) > 2 => arrived[3][1] = "len"
    <3> SUFFICES ASSUME LongHeader, Len(arrived) > 2
                 PROVE  arrived[3][1] = "len"
      OBVIOUS
    <3>1. Long(f)
      BY <1>2, <2>3, <2>4, HeaderParsed
    <3>2. arrived[3] = FrameByte(f, k + 1, 3)
      BY <2>3, <2>4, <3>1
    <3>3. arrived[3] = <<"len", f.size>>
      BY <3>1, <3>2 DEF FrameByte
    <3> QED
      BY <3>3
  <2> QED
    BY <2>5, <2>6 DEF IsHeader
<1> QED
  BY <1>1, <1>2 DEF Sound

RxType == [type : OpCodes, fin : {"yes", "no"}, size : 0 .. Huge]

\* A header of a frame has a type and a length that fit.
LEMMA RxParsed ==
    ASSUME TypeInv, PlaceInv, SentInv, TxInv, WireInv, Sound,
           ParseData \/ ParseDiscarded \/ ParsePing
    PROVE  rx' \in RxType
<1>1. pc = "header" /\ Len(arrived) >= 2
  BY DEF ParseData, ParseDiscarded, ParsePing, Parse
<1>2. InFrame
  BY <1>1, AtHeader
<1>3. rx'.type \in OpCodes /\ rx'.size \in 0 .. Huge
  BY <1>2, ParseOnConnection
<1>4. PICK type \in OpCodes : Parse(type)
  BY DEF ParseData, ParseDiscarded, ParsePing, Types, OpCodes
<1>5. rx' = [type |-> NewOpCode(arrived[1]).type, fin |-> NewOpCode(arrived[1]).fin,
             size |-> NewSize]
  BY <1>4, ParseIsParsed DEF Parsed
<1>6. NewOpCode(arrived[1]).fin \in {"yes", "no"}
  <2>1. PICK wire, ends, k, n : Framed(wire, ends, k, n)
    BY <1>2 DEF InFrame
  <2>2. /\ Wired(wire, ends) /\ Behind(wire, n) /\ At(ends, k, n) /\ rx.size = 0
    BY <1>1, <2>1 DEF Framed, PlaceInv
  <2>3. /\ sent[k + 1] \in Frames
        /\ \A i \in 1 .. Len(arrived) :
              i <= FrameLen(sent[k + 1]) => arrived[i] = FrameByte(sent[k + 1], k + 1, i)
    BY <1>1, <2>2, HeaderAhead
  <2>4. arrived[1] = <<"op", sent[k + 1].type, sent[k + 1].fin>>
    BY <1>1, <2>3, NumberFacts, HeaderParsed
  <2>5. sent[k + 1].fin \in {"yes", "no"} /\ rx.fin \in {"yes", "no"}
    BY <2>3, FrameFacts DEF TypeInv
  <2>6. arrived[1][3] \in {"yes", "no"}
    BY <2>4, <2>5
  <2> QED
    BY <2>5, <2>6 DEF NewOpCode
<1> QED
  BY <1>3, <1>5, <1>6 DEF RxType

LEMMA RxStep ==
    ASSUME TypeInv, PlaceInv, SentInv, TxInv, WireInv, Sound, Goes
    PROVE  rx' \in RxType
<1>1. rx \in RxType /\ left \in Nat /\ Huge \in Nat /\ rx.size \in Nat
  BY NumberFacts DEF TypeInv, RxType
<1>2. CASE ParseData \/ ParseDiscarded \/ ParsePing
  BY <1>2, RxParsed
<1>3. CASE Flush \/ CopyByte \/ ReadString
  <2>1. rx' = rx \/ (rx' = OneLess /\ rx.size > 0)
    <3>1. pc = "read" /\ left > 0 => rx.size > 0
      BY <1>1 DEF PlaceInv
    <3> QED
      BY <1>3, <3>1 DEF Flush, CopyByte, ReadString, Sound
  <2> QED
    BY <1>1, <2>1 DEF OneLess, RxType
<1>4. CASE SendPong \/ PongDiscarded \/ CloseDiscarded
  BY <1>1, <1>4, EndedKeeps DEF SendPong, PongDiscarded, CloseDiscarded
<1>5. CASE UNCHANGED rx
  BY <1>1, <1>5
<1> QED
  BY <1>2, <1>3, <1>4, <1>5
     DEF Goes, Receives, Compose, Disconnected, StartMessage, PrintByte,
         CompleteMessage, ParseWhileComposing, Ping, Spin, Flushed, NoMessage,
         StringRead, ServerSends, Arrive, ConnectionLost, rxVars, vars

LEMMA StreamStep ==
    ASSUME TypeInv, Sound, Goes
    PROVE  /\ arrived' \in Seq(Byte) /\ net' \in Seq(Byte)
           /\ due' \in [messages : Seq(DueMessages), pongs : Seq(Pongs)]
<1>1. /\ arrived \in Seq(Byte) /\ net \in Seq(Byte) /\ sent \in Seq(Frames)
      /\ due \in [messages : Seq(DueMessages), pongs : Seq(Pongs)]
      /\ Len(sent) \in Nat
  BY NumberFacts DEF TypeInv, TypeOK
<1>2. /\ \A S : <<>> \in Seq(S)
      /\ Len(<<>>) = 0
  OBVIOUS
<1>4. CASE CloseDiscarded \/ ConnectionLost
  <2>1. arrived' \in {arrived, <<>>} /\ net' = <<>> /\ UNCHANGED <<sent, due>>
    BY <1>4 DEF CloseDiscarded, ConnectionLost
  <2> QED
    BY <1>1, <1>2, <2>1
<1>5. CASE Flush \/ CopyByte \/ ReadString
  <2>1. /\ arrived' = arrived \/ (arrived # <<>> /\ arrived' = Tail(arrived))
        /\ UNCHANGED <<net, sent, due>>
    BY <1>5 DEF Flush, CopyByte, ReadString, TakeByte, ByteArrived, netVars
  <2>2. arrived' \in Seq(Byte)
    BY <1>1, <2>1, TailFacts
  <2> QED
    BY <1>1, <2>1, <2>2
<1>6. CASE ParseData \/ ParseDiscarded \/ ParsePing
  <2>1. /\ arrived' = SubSeq(arrived, HeaderSize + 1, Len(arrived)) /\ Len(arrived) >= 2
        /\ UNCHANGED <<net, sent, due>>
    <3>1. PICK type \in OpCodes : Parse(type)
      BY <1>6 DEF ParseData, ParseDiscarded, ParsePing, Types, OpCodes
    <3> QED
      BY <3>1, ParseIsParsed DEF Parsed
  <2>2. Len(arrived) \in Nat
    BY NumberFacts
  <2>3. HeaderSize \in 0 .. Len(arrived)
    BY <2>1, <2>2 DEF HeaderSize
  <2>4. arrived' \in Seq(Byte)
    BY <1>1, <2>1, <2>3, DropFacts
  <2> QED
    BY <1>1, <2>1, <2>4
<1>7. CASE ServerSends
  <2>1. PICK f \in Frames : Sends(f, Len(sent) + 1)
    BY <1>7 DEF ServerSends
  <2>2. /\ net' = net \o Header(f) \o [i \in 1 .. f.size |-> <<"data", Len(sent) + 1>>]
        /\ sent' = Append(sent, f)
    BY <2>1 DEF Sends
  <2>3. Len(sent) + 1 \in Nat /\ arrived' = arrived
    BY <1>1, <1>7 DEF ServerSends
  <2>4. net' \in Seq(Byte)
    BY <1>1, <2>2, <2>3, BytesOfFrame
  <2> QED
    BY <1>1, <2>1, <2>3, <2>4, DueGrows
<1>8. CASE Arrive
  <2>1. UNCHANGED <<sent, due>>
    BY <1>8 DEF Arrive
  <2> QED
    BY <1>1, <1>8, <2>1, BytesDelivered
<1>9. CASE UNCHANGED netVars
  BY <1>1, <1>9 DEF netVars
<1> QED
  BY <1>4, <1>5, <1>6, <1>7, <1>8, <1>9
     DEF Goes, Receives, Compose, Disconnected, StartMessage, PrintByte,
         CompleteMessage, ParseWhileComposing, Ping, Spin, Flushed, NoMessage, SendPong,
         PongDiscarded, StringRead, vars

LEMMA TypeStep ==
    ASSUME TypeInv, PlaceInv, SentInv, TxInv, WireInv, Sound, Goes, BaseInv'
    PROVE  TypeInv'
<1>1. Huge' = Huge
  BY GoesOn DEF Huge, FrameLimit
<1>2. rx' \in [type : OpCodes, fin : {"yes", "no"}, size : 0 .. Huge']
  BY <1>1, RxStep DEF RxType
<1>3. /\ arrived' \in Seq(Byte) /\ net' \in Seq(Byte)
      /\ due' \in [messages : Seq(DueMessages), pongs : Seq(Pongs)]
  BY StreamStep
<1> QED
  BY <1>2, <1>3 DEF TypeInv, BaseInv

LEMMA PlaceStep ==
    ASSUME TypeInv, TypeInv', PlaceInv, Sound, Goes
    PROVE  PlaceInv'
<1>1. /\ iState \in {"body", "idle"}
      /\ iState = "idle" => conn = "closed" /\ arrived = <<>> /\ rx.size = 0
      /\ conn = "closed" => net = <<>>
      /\ pc = "begin" => conn = "closed" /\ arrived = <<>>
      /\ pc = "header" => rx.size = 0
      /\ pc = "read" => left <= rx.size
      /\ conn \in {"open", "closed"} /\ back \in {"loop", "compose"}
      /\ rx.size \in Nat /\ left \in Nat
  BY NumberFacts DEF PlaceInv, TypeInv, TypeOK
<1>2. CASE Disconnected
  BY <1>1, <1>2 DEF Disconnected, Connected, PlaceInv, rxVars, netVars, history
<1>3. CASE CloseDiscarded
  <2>1. rx' = rx /\ rx.size = 0
    BY <1>3, EndedKeeps DEF CloseDiscarded, Sound
  <2> QED
    BY <1>1, <1>3, <2>1 DEF CloseDiscarded, PlaceInv
<1>4. CASE Compose
  BY <1>1, <1>4 DEF Compose, StartMessage, PrintByte, CompleteMessage, ParseWhileComposing,
                    Ping, PlaceInv, rxVars, netVars, history
<1>5. CASE Flushed \/ NoMessage \/ StringRead
  BY <1>1, <1>5 DEF Flushed, NoMessage, StringRead, PlaceInv, Sound, rxVars, netVars, history
<1>6. CASE SendPong \/ PongDiscarded
  <2>1. rx' = rx
    BY <1>6, EndedKeeps DEF SendPong, PongDiscarded
  <2> QED
    BY <1>1, <1>6, <2>1 DEF SendPong, PongDiscarded, PlaceInv, netVars
<1>7. CASE Flush \/ CopyByte
  <2>1. /\ pc' \in {"flush", "discard", "pong", "crash"} /\ UNCHANGED <<conn, net, iState>>
        /\ iState # "idle"
    BY <1>1, <1>7 DEF Flush, CopyByte, TakeByte, Sound, netVars
  <2> QED
    BY <1>1, <2>1 DEF PlaceInv
<1>8. CASE ReadString
  <2>1. /\ pc = "read" /\ pc' = pc /\ left' = left - 1 /\ left > 0
        /\ UNCHANGED <<conn, net, iState>>
        /\ rx' = rx \/ rx' = OneLess
    BY <1>8 DEF ReadString, TakeByte, netVars
  <2>2. rx.size > 0 /\ iState # "idle"
    BY <1>1, <2>1
  <2>3. rx'.size = rx.size \/ rx'.size = rx.size - 1
    BY <2>1, <2>2 DEF OneLess, TypeInv
  <2>4. left' <= rx'.size
    BY <1>1, <1>8, <2>1, <2>2, <2>3 DEF ReadString, OneLess, TypeInv
  <2> QED
    BY <1>1, <2>1, <2>2, <2>4 DEF PlaceInv
<1>9. CASE ParseData \/ ParseDiscarded \/ ParsePing
  <2>1. iState = "body"
    <3>1. Len(arrived) >= 2
      BY <1>9 DEF ParseData, ParseDiscarded, ParsePing, Parse
    <3>2. arrived # <<>>
      BY <3>1
    <3> QED
      BY <1>1, <3>2
  <2>2. /\ pc' \in {"loop", "compose", "read", "discard", "pong"}
        /\ UNCHANGED <<conn, net, iState>>
        /\ pc' = "read" => left' = rx'.size
    BY <1>1, <1>9, <2>1 DEF ParseData, ParseDiscarded, ParsePing, Parse, Available
  <2>3. left' = rx'.size => left' <= rx'.size
    <3>1. rx'.size \in 0 .. Huge'
      BY DEF TypeInv
    <3> QED
      BY <3>1
  <2> QED
    BY <1>1, <2>1, <2>2, <2>3 DEF PlaceInv
<1>10. CASE Spin \/ ServerSends \/ Arrive \/ ConnectionLost
  BY <1>1, <1>10 DEF Spin, vars, ServerSends, Arrive, ConnectionLost, PlaceInv, rxVars, netVars,
                     history
<1> QED
  BY <1>2, <1>3, <1>4, <1>5, <1>6, <1>7, <1>8, <1>9, <1>10 DEF Goes, Receives

\* The example's next byte of a message fits.
LEMMA ExamplePrints ==
    ASSUME TypeInv, PlaceInv, TxInv, WireInv, Whole, OfExample, PrintByte
    PROVE  /\ pc' = "compose" /\ tx'.started = "yes" /\ tx'.type = "text" /\ tx'.data = wrote'
           /\ Len(wrote') <= MaxMessage
<1>1. /\ pc = "compose" /\ Len(wrote) < MaxMessage /\ wrote' = Append(wrote, "w")
      /\ tx.started = "yes" /\ tx.type = "text" /\ tx.data = wrote
  BY DEF PrintByte, TxInv
<1>2. iState = "body"
  BY <1>1 DEF WireInv, InFrame, Framed, Lost, Over
<1>3. /\ Len(wrote) \in Nat /\ wrote \in Seq({"w"}) /\ TxBuffer \in Nat
      /\ MaxMessage \in Nat /\ MaxMessage <= TxBuffer
  BY BufferAssumption, LenProperties DEF TypeInv
<1>4. Len(tx.data) < TxBuffer
  BY <1>1, <1>3
<1>5. "w" \in Token
  BY DEF Token
<1>6. ~Overruns(tx, 1) /\ Write(tx, <<"w">>) = [tx EXCEPT !.data = Append(tx.data, "w")]
  BY <1>1, <1>2, <1>4, <1>5, ByteWritten
<1>7. pc' = "compose" /\ tx' = [tx EXCEPT !.data = Append(tx.data, "w")]
  BY <1>1, <1>6 DEF PrintByte
<1>8. tx'.started = "yes" /\ tx'.type = "text" /\ tx'.data = wrote'
  BY <1>1, <1>7 DEF TypeInv, TxType
<1>9. Len(wrote') = Len(wrote) + 1
  BY <1>1, <1>3, AppendFacts
<1> QED
  BY <1>1, <1>3, <1>7, <1>8, <1>9

\* And so does the next byte of a PONG, which has arrived with its header.
LEMMA ExampleCopies ==
    ASSUME TypeInv, PlaceInv, TxInv, WireInv, Sound, Whole, OfExample, CopyByte
    PROVE  pc' = "pong" /\ tx'.started = "yes" /\ Len(tx'.data) + rx'.size <= MaxPayload
<1>1. /\ pc = "pong" /\ rx.size > 0 /\ tx.started = "yes"
      /\ Len(tx.data) + rx.size <= MaxPayload
  BY DEF CopyByte, TxInv, Sound
<1>2. /\ rx.size \in Nat /\ Len(tx.data) \in Nat /\ tx.data \in Seq(Token) /\ MaxPayload \in Nat
      /\ TxBuffer \in Nat /\ MaxPayload <= TxBuffer
  BY NumberFacts, BufferAssumption, LenProperties DEF TypeInv, TxType
<1>3. InFrame
  BY <1>1 DEF WireInv, Lost, Over
<1>4. PICK wire, ends, k, n : Framed(wire, ends, k, n)
  BY <1>3 DEF InFrame
<1>5. iState = "body" /\ ByteArrived
  <2>1. arrived = <<>> => rx.size = 0
    BY <1>4, PayloadArrived DEF Framed
  <2> QED
    BY <1>1, <1>4, <2>1 DEF Framed, ByteArrived
<1> DEFINE x == Head(arrived)[2]
<1>6. x \in Token
  <2>1. Head(arrived) \in Byte
    BY <1>5, TailFacts DEF ByteArrived, TypeInv
  <2>2. \A b \in Byte : b[2] \in Token
    BY DEF Byte, Token
  <2> QED
    BY <2>1, <2>2
<1>7. Len(tx.data) < TxBuffer
  BY <1>1, <1>2
<1> HIDE DEF x
<1>8. ~Overruns(tx, 1) /\ Write(tx, <<x>>) = [tx EXCEPT !.data = Append(tx.data, x)]
  BY <1>1, <1>5, <1>6, <1>7, ByteWritten
<1>9. pc' = "pong" /\ tx' = [tx EXCEPT !.data = Append(tx.data, x)] /\ rx' = OneLess
  BY <1>1, <1>5, <1>8 DEF CopyByte, x
<1>10. tx'.started = "yes" /\ tx'.data = Append(tx.data, x)
  BY <1>1, <1>9 DEF TypeInv, TxType
<1>11. Len(tx'.data) = Len(tx.data) + 1
  BY <1>2, <1>6, <1>10, AppendFacts
<1>12. rx'.size = rx.size - 1
  BY <1>1, <1>9 DEF OneLess, TypeInv
<1> QED
  BY <1>1, <1>2, <1>9, <1>10, <1>11, <1>12

LEMMA ExampleAnswers ==
    ASSUME TypeInv, PlaceInv, SentInv, TxInv, WireInv, Sound, Whole, OfExample, ParsePing
    PROVE  tx'.started = "yes" /\ Len(tx'.data) + rx'.size <= MaxPayload
<1>1. pc = "header" /\ Len(arrived) >= 2 /\ conduct' = conduct
  BY DEF ParsePing, Parse
<1>2. rx'.size \in 0 .. MaxPayload
  <2>1. ~Lost'
    BY <1>1 DEF Lost, Whole
  <2> QED
    BY <1>1, <2>1, AtHeader, ParseOnConnection
<1>3. tx.started = "no" /\ tx' = BeginMessage("pong")
  BY <1>1 DEF TxInv, ParsePing
<1>4. tx'.started = "yes" /\ tx'.data = <<>>
  BY <1>3 DEF BeginMessage
<1>5. Len(tx'.data) = 0 /\ MaxPayload \in Nat
  BY <1>4, NumberFacts
<1> QED
  BY <1>2, <1>4, <1>5

LEMMA TxInvStep ==
    ASSUME TypeInv, PlaceInv, SentInv, TxInv, WireInv, Sound, Goes
    PROVE  TxInv'
<1>1. conduct' = conduct
  BY GoesOn
<1> SUFFICES ASSUME Whole, OfExample
             PROVE  /\ back' = "loop" /\ pc' # "crash"
                    /\ last'.data = last'.wrote
                    /\ pc' = "compose" => /\ tx'.started = "yes" /\ tx'.type = "text"
                                          /\ tx'.data = wrote' /\ Len(wrote') <= MaxMessage
                    /\ pc' = "pong" => /\ tx'.started = "yes"
                                       /\ Len(tx'.data) + rx'.size <= MaxPayload
                    /\ pc' # "compose" => wrote' = <<>>
                    /\ pc' \notin {"compose", "pong"} => tx'.started = "no"
  BY <1>1 DEF TxInv, Whole, OfExample
<1>2. /\ back = "loop" /\ pc # "crash"
      /\ last.data = last.wrote
      /\ pc = "compose" => /\ tx.started = "yes" /\ tx.type = "text" /\ tx.data = wrote
                           /\ Len(wrote) <= MaxMessage
      /\ pc = "pong" => tx.started = "yes" /\ Len(tx.data) + rx.size <= MaxPayload
      /\ pc # "compose" => wrote = <<>>
      /\ pc \notin {"compose", "pong"} => tx.started = "no"
  BY DEF TxInv
<1>3. CASE StartMessage
  <2>1. Len(<<>>) = 0 /\ MaxMessage \in Nat
    BY BufferAssumption
  <2> QED
    BY <1>2, <1>3, <2>1 DEF StartMessage, BeginMessage, rxVars
<1>4. CASE PrintByte
  <2>1. UNCHANGED <<back, last>>
    BY <1>4 DEF PrintByte, rxVars
  <2> QED
    BY <1>2, <1>4, <2>1, ExamplePrints
<1>5. CASE CompleteMessage
  BY <1>2, <1>5 DEF CompleteMessage, NoTx
<1>6. ~ParseWhileComposing /\ ~Ping
  BY DEF ParseWhileComposing, Ping, OfExample
<1>7. CASE Disconnected
  BY <1>2, <1>7 DEF Disconnected, rxVars, netVars, history
<1>8. CASE Flush \/ Flushed \/ NoMessage \/ PongDiscarded \/ CloseDiscarded
  BY <1>2, <1>8 DEF Flush, Flushed, NoMessage, PongDiscarded, CloseDiscarded, rxVars, netVars,
                    history
<1>9. CASE ParseData \/ ParseDiscarded
  BY <1>2, <1>9 DEF ParseData, ParseDiscarded, Parse
<1>10. CASE ParsePing
  <2>1. pc = "header" /\ pc' = "pong" /\ UNCHANGED <<back, wrote, last>>
    BY <1>10 DEF ParsePing, Parse
  <2> QED
    BY <1>2, <1>10, <2>1, ExampleAnswers
<1>11. CASE CopyByte
  <2>1. pc = "pong" /\ UNCHANGED <<back, wrote, last>>
    BY <1>11 DEF CopyByte, history
  <2> QED
    BY <1>2, <1>11, <2>1, ExampleCopies
<1>12. CASE SendPong
  BY <1>2, <1>12 DEF SendPong, NoTx
<1>13. CASE ReadString \/ StringRead
  BY <1>2, <1>13 DEF ReadString, StringRead, history
<1>14. CASE Spin \/ ServerSends \/ Arrive \/ ConnectionLost
  BY <1>2, <1>14 DEF Spin, vars, ServerSends, Arrive, ConnectionLost, rxVars, history
<1> QED
  BY <1>3, <1>4, <1>5, <1>6, <1>7, <1>8, <1>9, <1>10, <1>11, <1>12, <1>13, <1>14
     DEF Goes, Receives, Compose

LEMMA UpStep ==
    ASSUME UpInv, Goes, BaseInv'
    PROVE  UpInv'
<1>1. TypeInv /\ PlaceInv /\ SentInv /\ PrefixInv /\ TxInv /\ WireInv
  BY DEF UpInv
<1>2. Sound
  BY <1>1, SoundIs
<1>3. TypeInv'
  BY <1>1, <1>2, TypeStep
<1>4. PlaceInv' /\ SentInv' /\ TxInv'
  BY <1>1, <1>2, <1>3, PlaceStep, SentStep, TxInvStep
<1>5. Whole /\ OfExample => pc' # "crash"
  BY <1>4, GoesOn DEF TxInv, Whole, OfExample
<1>6. InFrame' \/ (Lost' /\ ~Whole') \/ (Over' /\ Quiet)
  BY <1>1, <1>2, <1>5, WireStep
<1>7. PrefixInv'
  BY <1>1, <1>3, <1>6, PrefixStep
<1> QED
  BY <1>3, <1>4, <1>6, <1>7 DEF UpInv, WireInv

\* begin() makes a connection on which nothing has been read or answered yet.
LEMMA BeginStep ==
    ASSUME BaseInv, BaseInv', BeginSucceeds, Upgraded'
    PROVE  UpInv'
<1>1. /\ conn' = "open" /\ net' = <<>> /\ arrived' = <<>> /\ sent' = <<>> /\ rx'.size = 0
      /\ iState' = "body" /\ pc' = "loop" /\ got' = <<>> /\ pongs' = <<>>
      /\ due' = [messages |-> <<>>, pongs |-> <<>>] /\ last' = [data |-> <<>>, wrote |-> <<>>]
      /\ pc = "begin" /\ UNCHANGED <<conduct, back, wrote, tx>>
  BY DEF BeginSucceeds, Begin, HeadersRead, Upgraded, BaseInv
<1>2. /\ \A S : <<>> \in Seq(S)
      /\ Len(<<>>) = 0
  OBVIOUS
<1>3. TypeInv'
  <2>1. 0 \in 0 .. Huge'
    <3>1. Huge' = Huge
      BY <1>1 DEF Huge, FrameLimit
    <3>2. Huge \in Nat
      BY HugeIsNat DEF BaseInv
    <3> QED
      BY <3>1, <3>2
  <2> QED
    BY <1>1, <1>2, <2>1 DEF TypeInv, BaseInv
<1>4. PlaceInv'
  BY <1>1 DEF PlaceInv
<1>5. SentInv'
  <2>1. DOMAIN sent' = {} /\ 1 .. Len(sent') = {}
    BY <1>1, <1>2
  <2> QED
    BY <2>1 DEF SentInv, Midway
<1>6. PrefixInv'
  <2>1. IsPrefix(<<>>, <<>>)
    BY <1>2, SubSeqEmpty DEF IsPrefix
  <2> QED
    BY <1>1, <2>1 DEF PrefixInv
<1>7. TxInv'
  BY <1>1 DEF BaseInv, ExampleInv, TxInv, Whole, OfExample
<1>8. WireInv'
  BY ConnectionBegins DEF WireInv
<1> QED
  BY <1>3, <1>4, <1>5, <1>6, <1>7, <1>8 DEF UpInv

-----------------------------------------------------------------------------
(* The theorems. *)

LEMMA InvInit == Init => IInv
<1> SUFFICES ASSUME Init
             PROVE  BaseInv /\ ~Upgraded
  BY DEF IInv
<1>1. /\ \A S : <<>> \in Seq(S)
      /\ Len(<<>>) = 0
  OBVIOUS
<1>2. FrameLimit \in Nat
  BY BufferAssumption DEF Init, FrameLimit
<1>3. TypeOK
  BY <1>1, <1>2 DEF Init, TypeOK, Types, OpCodes
<1>4. ExampleInv
  BY DEF Init, ExampleInv
<1>5. ~Upgraded
  BY DEF Init, Upgraded
<1> QED
  BY <1>1, <1>3, <1>4, <1>5 DEF BaseInv, Init, TxType, Types, OpCodes

LEMMA InvStep == IInv /\ [Next]_vars => IInv'
<1> SUFFICES ASSUME IInv, [Next]_vars
             PROVE  IInv'
  OBVIOUS
<1>1. BaseInv /\ (Upgraded => UpInv)
  BY DEF IInv
<1>2. CASE Next
  <2>1. BaseInv'
    BY <1>1, <1>2, BaseStep
  <2>2. ASSUME Upgraded'
        PROVE  UpInv'
    <3>1. CASE Goes
      <4>1. Upgraded
        BY <2>2, <3>1, GoesOn DEF Upgraded
      <4> QED
        BY <1>1, <2>1, <3>1, <4>1, UpStep
    <3>2. CASE BeginsAnew
      <4>1. BeginSucceeds
        BY <2>2, <3>2 DEF BeginsAnew, BeginFails, BeginRefused, BeginUnanswered, Begin, Upgraded
      <4> QED
        BY <1>1, <2>1, <2>2, <4>1, BeginStep
    <3>3. ~ParseChunked
      <4>1. ParseChunked => Upgraded
        BY <2>2, GoesOn DEF Upgraded
      <4> QED
        BY <1>1, <4>1 DEF UpInv, PlaceInv, ParseChunked
    <3>4. ~Reset
      BY <2>2 DEF Reset, Upgraded
    <3> QED
      BY <1>2, <3>1, <3>2, <3>3, <3>4, StepKinds
  <2> QED
    BY <2>1, <2>2 DEF IInv
<1>3. CASE UNCHANGED vars
  <2>1. BaseInv'
    BY <1>1, <1>3 DEF BaseInv, TypeOK, ExampleInv, OfExample, FrameLimit, vars, rxVars, netVars,
                      history
  <2>2. ASSUME Upgraded'
        PROVE  UpInv'
    <3>1. UpInv
      BY <1>1, <1>3, <2>2 DEF Upgraded, vars
    <3>2. WireInv'
      <4>1. CASE InFrame
        BY <1>3, <4>1, WireUnchanged DEF WireInv
      <4>2. CASE Lost \/ Over
        BY <1>3, <4>2 DEF WireInv, Lost, Over, Whole, OfExample, FrameLimit, vars, rxVars, netVars
      <4> QED
        BY <3>1, <4>1, <4>2 DEF WireInv, UpInv
    <3>3. PlaceInv' /\ PrefixInv' /\ TxInv'
      BY <1>3, <3>1 DEF UpInv, PlaceInv, PrefixInv, TxInv, Orderly, Whole, OfExample, vars, rxVars,
                        netVars, history
    <3>4. TypeInv'
      BY <1>3, <2>1, <3>1 DEF UpInv, TypeInv, BaseInv, Huge, FrameLimit, vars, rxVars, netVars,
                              history
    <3>5. SentInv'
      BY <1>3, <3>1 DEF UpInv, SentInv, Midway, vars, netVars
    <3> QED
      BY <3>2, <3>3, <3>4, <3>5 DEF UpInv
  <2> QED
    BY <2>1, <2>2 DEF IInv
<1> QED
  BY <1>2, <1>3

LEMMA Invariance == Spec => []IInv
BY InvInit, InvStep, PTL DEF Spec

(***************************************************************************)
(* WebSocketClient.cpp 29-372: the variables stay in their types, whatever *)
(* the sketch calls, the server sends and begin() has returned.            *)
(***************************************************************************)
LEMMA TypeCorrect == Spec => []TypeOK
<1>1. IInv => TypeOK
  BY DEF IInv, BaseInv
<1> QED
  BY <1>1, Invariance, PTL

(***************************************************************************)
(* WebSocketClient.cpp 160-178, 247-257: on a connection that begin() has  *)
(* upgraded, whose frames arrive whole, the example never writes past      *)
(* iTxBuffer: its messages and the PONGs find the buffer empty, and what   *)
(* is left of a PING fits behind what was copied of it.                    *)
(***************************************************************************)
THEOREM BufferHoldsCorrect == Spec => []BufferHolds
<1>1. IInv => BufferHolds
  BY DEF IInv, UpInv, TxInv, BufferHolds
<1> QED
  BY <1>1, Invariance, PTL

\* Where everything has been handled, every frame has been parsed.
LEMMA AllParsed ==
    ASSUME TypeInv, NEW wire, NEW ends, NEW k, NEW n, Framed(wire, ends, k, n),
           Whole, Settled
    PROVE  k = Len(sent)
<1>1. /\ Wired(wire, ends) /\ Behind(wire, n) /\ At(ends, k, n) /\ Boundary(ends, k, n)
  BY DEF Framed
<1>2. /\ Len(arrived) = 0 /\ Len(net) = 0 /\ conn = "open" /\ arrived = <<>>
      /\ n \in Nat /\ Len(sent) \in Nat /\ k \in 0 .. Len(sent)
  BY <1>1, NumberFacts DEF Settled, Behind, At
<1>3. rx.size = 0
  BY <1>1, <1>2, PayloadArrived
<1>4. n = Len(wire)
  <2>1. n + Len(arrived) + Len(net) = Len(wire)
    BY <1>1, <1>2 DEF Behind
  <2>2. n + 0 + 0 = Len(wire)
    BY <1>2, <2>1
  <2> QED
    BY <1>2, <2>2
<1>5. ends[k] = ends[Len(sent)] /\ ends[k] \in Nat
  BY <1>1, <1>2, <1>3, <1>4 DEF At, Wired
<1>6. k < Len(sent) => ends[k] < ends[Len(sent)]
  <2>1. Len(sent) \in 0 .. Len(sent)
    BY <1>2
  <2> QED
    BY <1>1, <1>2, <2>1 DEF Wired
<1> QED
  BY <1>2, <1>5, <1>6

\* With every frame parsed, everything due has been read, and every PING answered.
LEMMA AllHandled ==
    ASSUME UpInv, Orderly, Settled
    PROVE  got = due.messages /\ (OfExample => pongs = due.pongs)
<1>1. TypeInv /\ WireInv /\ Whole
  BY DEF UpInv, Orderly
<1>2. InFrame
  BY <1>1 DEF WireInv, Lost, Over, Settled
<1>3. PICK wire, ends, messages, pings, k, n :
        Framed(wire, ends, k, n) /\ Tallied(messages, pings, k)
  BY <1>2 DEF InFrame
<1>4. k = Len(sent)
  BY <1>1, <1>3, AllParsed
<1>5. due.messages \in Seq(DueMessages) /\ due.pongs \in Seq(Pongs) /\ pc \in {"loop", "compose"}
  BY <1>1 DEF TypeInv, Settled
<1>6. got = due.messages
  <2>1. got = SubSeq(due.messages, 1, messages[k])
    BY <1>3, <1>5 DEF Tallied, ReadSoFar
  <2>2. messages[k] = Len(due.messages)
    BY <1>3, <1>4 DEF Tallied, Counts
  <2> QED
    BY <1>5, <2>1, <2>2, SubSeqFull
<1>7. ASSUME OfExample PROVE pongs = due.pongs
  <2>1. pongs = SubSeq(due.pongs, 1, pings[k])
    BY <1>3, <1>5, <1>7 DEF Tallied, PongedSoFar
  <2>2. pings[k] = Len(due.pongs)
    BY <1>3, <1>4 DEF Tallied, Counts
  <2> QED
    BY <1>5, <2>1, <2>2, SubSeqFull
<1> QED
  BY <1>6, <1>7

(***************************************************************************)
(* WebSocketClient.cpp 181-293, parseMessage: on a connection that begin() *)
(* has upgraded, with whole frames and control frames only between the     *)
(* messages, the sketch reads the messages of the server, each once, in    *)
(* order and unaltered, and all of them once nothing is left to handle,    *)
(* whatever the connections before it have left behind.                    *)
(***************************************************************************)
THEOREM ReceivedIsSentCorrect == Spec => []ReceivedIsSent
<1>1. IInv => ReceivedIsSent
  <2> SUFFICES ASSUME UpInv, Orderly
               PROVE  IsPrefix(got, due.messages) /\ (Settled => got = due.messages)
    BY DEF IInv, ReceivedIsSent
  <2>1. IsPrefix(got, due.messages)
    BY DEF UpInv, PrefixInv
  <2> QED
    BY <2>1, AllHandled
<1> QED
  BY <1>1, Invariance, PTL

(***************************************************************************)
(* WebSocketClient.cpp 75-179, 247-257: on a connection that begin() has   *)
(* upgraded what the example sends is what it wrote, though PONGs share    *)
(* its buffer, and every PING is answered with its own payload, in order.  *)
(***************************************************************************)
THEOREM SentIsWrittenCorrect == Spec => []SentIsWritten
<1>1. IInv => SentIsWritten
  <2> SUFFICES ASSUME UpInv, Whole, OfExample
               PROVE  /\ last.data = last.wrote
                      /\ conduct.server = "plain" => /\ IsPrefix(pongs, due.pongs)
                                                     /\ Settled => pongs = due.pongs
    BY DEF IInv, SentIsWritten
  <2>1. last.data = last.wrote
    BY DEF UpInv, TxInv
  <2>2. conduct.server = "plain" => Orderly
    BY DEF Orderly
  <2>3. Orderly => IsPrefix(pongs, due.pongs)
    BY DEF UpInv, PrefixInv
  <2> QED
    BY <2>1, <2>2, <2>3, AllHandled
<1> QED
  BY <1>1, Invariance, PTL
=============================================================================

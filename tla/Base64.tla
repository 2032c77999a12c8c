------------------------------- MODULE Base64 -------------------------------
(***************************************************************************)
(* The three ways in which the code turns bytes into Base64: b64_encode of *)
(* the HTTP library, sendBasicAuth, which feeds it three bytes at a time,  *)
(* and the upload of the timelapse sketch, which encodes an image chunk by *)
(* chunk with an encoder of its own.  Text is a sequence of the values 0   *)
(* to 63, and 64 for padding, "=": the dictionaries are the same.          *)
(***************************************************************************)
EXTENDS Integers, Sequences, SequencesExt

CONSTANTS Values,       \* of bytes (bound)
          MaxBytes,     \* that are encoded at once (bound)
          ChunkSize,    \* CHUNK_SIZE of the sketch, a multiple of three
          KeyRoom       \* sizeof(base64RandomKey), for as many bytes as MaxBytes

\* A chunk is whole groups of three, and the key of a web socket fits into its
\* array with the zero behind it: 25 for 16 bytes.
ASSUME Base64Assumption ==
    /\ Values \subseteq 0 .. 255
    /\ MaxBytes \in Nat
    /\ ChunkSize \in Nat \ {0} /\ ChunkSize % 3 = 0
    /\ KeyRoom \in Nat /\ KeyRoom > 4 * ((MaxBytes + 2) \div 3)

VARIABLE bytes          \* the input: a name with its password, an image

Pad == 64

\* The bytes of a group of at most three; those behind it do not matter.
At(group, k) == IF k <= Len(group) THEN group[k] ELSE 0

\* Mutant: the low bits of the second byte are lost.
MutSextets(g) ==
    <<At(g, 1) \div 4, (At(g, 1) % 4) * 16 + At(g, 2) \div 16, At(g, 3) \div 64, At(g, 3) % 64>>

Sextets(g) ==
    <<At(g, 1) \div 4,
      (At(g, 1) % 4) * 16 + At(g, 2) \div 16,
      (At(g, 2) % 16) * 4 + At(g, 3) \div 64,
      At(g, 3) % 64>>

EncodeGroup(g) == [k \in 1 .. 4 |-> IF k <= Len(g) + 1 THEN Sextets(g)[k] ELSE Pad]

From(k, input, size) == SubSeq(input, k, IF k + size - 1 < Len(input) THEN k + size - 1 ELSE Len(input))

\* The input in groups of size, the last one with what is left.
Groups(input, size) ==
    [n \in 1 .. (Len(input) + size - 1) \div size |-> From((n - 1) * size + 1, input, size)]

(***************************************************************************)
(* b64_encode: nothing if the output seems too small, which is tested with *)
(* the whole bytes the sextets take, and not with their padding.           *)
(***************************************************************************)
B64Encode(input, room) ==
    IF room < (Len(input) * 8) \div 6 THEN <<>>
    ELSE FlattenSeq([n \in DOMAIN Groups(input, 3) |-> EncodeGroup(Groups(input, 3)[n])])

\* sendBasicAuth: input[] is encoded whenever it is full, and at the end.
SendByte(s, byte) ==
    IF Len(s.input) < 2 THEN [sent |-> s.sent, input |-> Append(s.input, byte)]
    ELSE [sent |-> s.sent \o B64Encode(Append(s.input, byte), 4), input |-> <<>>]

SendBasicAuth ==
    LET last == FoldLeft(SendByte, [sent |-> <<>>, input |-> <<>>], bytes)
    IN IF last.input = <<>> THEN last.sent ELSE last.sent \o B64Encode(last.input, 4)

\* base64EncodeChunked of the sketch.
Base64EncodeChunked(data) ==
    FlattenSeq([n \in DOMAIN Groups(data, 3) |-> EncodeGroup(Groups(data, 3)[n])])

\* Mutant: CHUNK_SIZE is not a multiple of three.
MutFileData ==
    FlattenSeq([n \in DOMAIN Groups(bytes, ChunkSize + 1) |->
                Base64EncodeChunked(Groups(bytes, ChunkSize + 1)[n])])

\* The fileData of uploadToGoogleDrive, before each chunk's "+", "/" and "=" are escaped.
FileData ==
    FlattenSeq([n \in DOMAIN Groups(bytes, ChunkSize) |->
                Base64EncodeChunked(Groups(bytes, ChunkSize)[n])])
-----------------------------------------------------------------------------
BytesInit == bytes = <<>>

AddByte == /\ Len(bytes) < MaxBytes
           /\ \E value \in Values : bytes' = Append(bytes, value)

NextInput == bytes # <<>> /\ bytes' = <<>>

BytesNext == AddByte \/ NextInput

BytesSpec == BytesInit /\ [][BytesNext]_bytes
-----------------------------------------------------------------------------
\* The bits of a text, highest first, and those of the bytes.
BitsOf(n, width) == [k \in 1 .. width |-> (n \div 2 ^ (width - k)) % 2]

\* How much padding there must be, and the bits of the text before it.
Padding == (2 * Len(bytes)) % 3

TextBits(text) ==
    FlattenSeq([k \in 1 .. Len(text) - Padding |-> BitsOf(text[k], 6)])

ByteBits == FlattenSeq([k \in DOMAIN bytes |-> BitsOf(bytes[k], 8)])

\* A text for the bytes: their bits, zeros to the end of the last sextet, and
\* padding to a multiple of four, nowhere else.
Encodes(text) ==
    /\ Len(text) = 4 * ((Len(bytes) + 2) \div 3)
    /\ \A k \in DOMAIN text : text[k] = Pad <=> k > Len(text) - Padding
    /\ IsPrefix(ByteBits, TextBits(text))
    /\ \A k \in Len(ByteBits) + 1 .. Len(TextBits(text)) : TextBits(text)[k] = 0

(***************************************************************************)
(* Cutting the input into pieces changes nothing: a name and password sent *)
(* three bytes at a time, and an image encoded in chunks, are the Base64   *)
(* text of the whole, without padding in the middle; and the key of a web  *)
(* socket fits into its array.                                             *)
(***************************************************************************)
PiecesEncodeTheWhole ==
    /\ Encodes(SendBasicAuth)
    /\ Encodes(FileData)
    /\ Encodes(B64Encode(bytes, KeyRoom)) /\ Len(B64Encode(bytes, KeyRoom)) < KeyRoom
=============================================================================

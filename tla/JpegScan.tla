------------------------------ MODULE JpegScan ------------------------------
(***************************************************************************)
(* decodeJPEGfile of CStreamer.cpp: from an image as the camera delivers   *)
(* it to the scan data and quantization tables that go into RTP packets.   *)
(* An image grows section by section; what is decoded is the buffer it     *)
(* would make if it ended here.                                            *)
(***************************************************************************)
EXTENDS Integers, Sequences, SequencesExt

CONSTANTS MaxSections, MaxScan      \* sections before the scan, elements of the scan (bounds)

VARIABLES
    sections,   \* names of the sections between SOI and SOS
    scan,       \* elements of the scan data
    ending      \* "none" before the scan has ended, else what follows it

imageVars == <<sections, scan, ending>>

-----------------------------------------------------------------------------
(***************************************************************************)
(* The file format (external).  A section is a marker, a length that       *)
(* counts its own two bytes, and a payload; here one holds the marker SOS  *)
(* as data.  A 0 is put behind every 255 of the scan data.                 *)
(***************************************************************************)
Marker == [SOI |-> 216, APP0 |-> 224, DQT |-> 219, DHT |-> 196, SOF0 |-> 192, SOS |-> 218,
           EOI |-> 217, DRI |-> 221]

Payload == [APP0 |-> <<255, 218>>, DQT |-> <<0, 1>>, DHT |-> <<16, 3, 2>>, SOF0 |-> <<8>>,
            DRI |-> <<0, 4>>, SOS |-> <<3, 1>>]

Kinds == {"APP0", "DQT", "DHT", "SOF0", "DRI"}

Section(name) == <<255, Marker[name], 0, Len(Payload[name]) + 2>> \o Payload[name]

Element == [plain |-> <<7>>, zero |-> <<0>>, stuffed |-> <<255, 0>>, restart |-> <<255, 208, 7>>]

Endings == [exact |-> <<255, 217>>, padded |-> <<255, 217, 0, 0>>, filled |-> <<255, 255, 217>>]

Headers == <<255, Marker["SOI"]>> \o FlattenSeq([k \in DOMAIN sections |-> Section(sections[k])])

ScanData == FlattenSeq([k \in DOMAIN scan |-> Element[scan[k]]])

Buffer == Headers \o Section("SOS") \o ScanData \o Endings[ending]
-----------------------------------------------------------------------------
(***************************************************************************)
(* Positions are those of the buffer, counted from 1; these are for a      *)
(* marker that is not found, and for reading behind the buffer.            *)
(***************************************************************************)
NotFound == 0
BeyondBuffer == -1

\* Sections that are skipped by their length.
Skipped == {Marker[name] : name \in {"APP0", "DQT", "DHT", "SOF0", "SOS"}}

BlockLength(bytes, p) == bytes[p] * 256 + bytes[p + 1]

\* nextJpegBlock.
NextBlock(bytes, p) == p + BlockLength(bytes, p)

\* Mutant: sections are walked through byte by byte.
MutFindHeader(bytes, start, len, marker) ==
    LET at[p \in Nat] ==
            IF p - start >= len THEN NotFound
            ELSE IF p >= Len(bytes) THEN BeyondBuffer
            ELSE IF bytes[p] = 255 /\ bytes[p + 1] = marker THEN p + 2
            ELSE at[p + 1]
    IN at[start]

\* findJPEGheader: the position behind the marker.
FindHeader(bytes, start, len, marker) ==
    LET at[p \in Nat] ==
            IF p - start >= len THEN NotFound
            ELSE IF p >= Len(bytes) THEN BeyondBuffer
            ELSE IF bytes[p] # 255 THEN NotFound
            ELSE IF bytes[p + 1] = marker THEN p + 2
            ELSE IF bytes[p + 1] \notin Skipped THEN at[p + 2]
            ELSE IF p + 3 > Len(bytes) THEN BeyondBuffer
            ELSE at[NextBlock(bytes, p + 2)]
    IN at[start]

\* skipScanBytes: the first 255 that is not followed by a 0.
SkipScanBytes(bytes, start) ==
    LET at[p \in Nat] ==
            IF p >= Len(bytes) THEN BeyondBuffer
            ELSE IF bytes[p] # 255 THEN at[p + 1]
            ELSE IF bytes[p + 1] # 0 THEN p
            ELSE at[p + 2]
    IN at[start]

Found(p) == p > 0

(***************************************************************************)
(* decodeJPEGfile.  The length is two short from the search for SOI on,    *)
(* which does not move the start, and is not shrunk by the tables.         *)
(***************************************************************************)
Undecoded == [ok |-> "no"]

DecodeJPEGfile(bytes) ==
    LET soi    == FindHeader(bytes, 1, Len(bytes), Marker["SOI"])
        length == Len(bytes) - 2
        table0 == FindHeader(bytes, 1, length, Marker["DQT"])
        after0 == NextBlock(bytes, table0)
        table1 == FindHeader(bytes, after0, length - (table0 - 1), Marker["DQT"])
        sos    == FindHeader(bytes, 1, length, Marker["SOS"])
        start  == NextBlock(bytes, sos)
        mark   == SkipScanBytes(bytes, start)
        end    == FindHeader(bytes, mark, length - (start - 1), Marker["EOI"])
    IN IF ~Found(soi) \/ ~Found(sos) \/ ~Found(mark) \/ ~Found(end) THEN Undecoded
       ELSE [ok |-> "yes", start |-> start, len |-> end - start,
             qtable0 |-> IF Found(table0) THEN table0 + 3 ELSE 0,
             qtable1 |-> IF ~Found(table0) THEN 0
                         ELSE IF Found(table1) THEN table1 + 3 ELSE after0 + 3]
-----------------------------------------------------------------------------
ImageInit == sections = <<>> /\ scan = <<>> /\ ending = "none"

AddSection == /\ ending = "none" /\ scan = <<>>
              /\ Len(sections) < MaxSections
              /\ \E name \in Kinds : sections' = Append(sections, name)
              /\ UNCHANGED <<scan, ending>>

AddScan == /\ ending = "none"
           /\ Len(scan) < MaxScan
           /\ \E element \in DOMAIN Element : scan' = Append(scan, element)
           /\ UNCHANGED <<sections, ending>>

\* A scan is not empty: for an empty one endlen, two short, would be 0.
EndImage == /\ ending = "none" /\ scan # <<>>
            /\ ending' \in DOMAIN Endings
            /\ UNCHANGED <<sections, scan>>

\* The next image.
NextImage == /\ ending # "none"
             /\ sections' = <<>> /\ scan' = <<>> /\ ending' = "none"

ImageNext == AddSection \/ AddScan \/ EndImage \/ NextImage

ImageSpec == ImageInit /\ [][ImageNext]_imageVars
-----------------------------------------------------------------------------
Tables == {k \in DOMAIN sections : sections[k] = "DQT"}

\* Where the table of the k-th section begins: behind marker, length and number.
TableAt(k) ==
    Len(<<255, Marker["SOI"]>> \o FlattenSeq([i \in 1 .. k - 1 |-> Section(sections[i])])) + 6

Baseline == /\ "DRI" \notin ToSet(sections) /\ "restart" \notin ToSet(scan)
            /\ ending \in {"exact", "padded"}

(***************************************************************************)
(* Of every image with the sections that findJPEGheader knows, in any      *)
(* order, the scan data is found from its first byte to the end of the EOI *)
(* marker and not beyond, with both quantization tables if there are two   *)
(* and none if there is none, in spite of the lengths that are not kept up *)
(* to date.  Every other image is refused: one with a section or a restart *)
(* marker that is not known is never cut at a wrong place.  The bytes in a *)
(* section are those of Payload; the search jumps over them.               *)
(***************************************************************************)
ScanIsFound ==
    ending # "none" =>
      LET result == DecodeJPEGfile(Buffer) IN
        /\ (result.ok = "yes") <=> Baseline
        /\ Baseline =>
             /\ result.start = Len(Headers \o Section("SOS")) + 1
             /\ result.len = Len(ScanData) + 2
             /\ Tables = {} => result.qtable0 = 0 /\ result.qtable1 = 0
             /\ \A k \in Tables : (\A i \in Tables : k <= i) => result.qtable0 = TableAt(k)
             /\ \A k \in Tables : \A l \in Tables :
                   {i \in Tables : i < l} = {k} => result.qtable1 = TableAt(l)
=============================================================================

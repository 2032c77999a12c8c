-------------------------- MODULE RtpDelivery_proofs -------------------------
(***************************************************************************)
(* First that an image is always sent whole, for every size of image, of   *)
(* fragment and of the sequence counter (RtpPackets).  Then that the ring  *)
(* of sessions is never broken and its walk misses none (SessionList), and *)
(* that following it delivers every packet to every session (RtpDelivery), *)
(* for any number of sessions.                                             *)
(***************************************************************************)
EXTENDS RtpDelivery, SequenceTheorems, FiniteSetTheorems, WellFoundedInduction, TLAPS

-----------------------------------------------------------------------------
(***************************************************************************)
(* The packets p carry the first `bytes' bytes of the image, in order,     *)
(* under its timestamp; the next packet's number is `following'.           *)
(***************************************************************************)
Carries(p, bytes, following) ==
    /\ Len(p) > 0
    /\ p[1].offset = 0
    /\ p[Len(p)].offset + p[Len(p)].size = bytes
    /\ Successor(p[Len(p)].seq) = following
    /\ \A k \in 1 .. Len(p) : p[k].size \in 1 .. MaxFragment /\ p[k].stamp = timestamp
    /\ \A k \in 1 .. Len(p) - 1 :
          /\ p[k + 1].offset = p[k].offset + p[k].size
          /\ p[k + 1].seq = Successor(p[k].seq)
          /\ p[k].marker = "no"

\* While the loop is in the middle of an image, no packet bears the marker.
PartSent ==
    (pc = "send" /\ offset # 0) =>
        Carries(packets, offset, seqNumber) /\ packets[Len(packets)].marker = "no"

\* After the loop the last packet bears it.
AllSent ==
    pc = "end" =>
        Carries(packets, len, seqNumber) /\ packets[Len(packets)].marker = "yes"

\* streamFrame runs only with sessions, which cannot leave before it ends.
Sending == pc = "send" => (sessions = "some" /\ len \in Lengths /\ offset < len)

IInv == TypeOK /\ Sending /\ PartSent /\ AllSent

-----------------------------------------------------------------------------
\* A fragment fits into a packet and into the rest of the image.
LEMMA FragmentFits ==
    ASSUME TypeOK, pc = "send", Sending
    PROVE  /\ Fragment \in 1 .. MaxFragment
           /\ offset + Fragment <= len
           /\ ~IsLastFragment => offset + Fragment \in 1 .. len - 1
BY SizesAssumption DEF SizesAssumption, TypeOK, Sending, Fragment, IsLastFragment

LEMMA SuccessorType == \A n \in SeqNumbers : Successor(n) \in SeqNumbers
BY SizesAssumption DEF SizesAssumption, Successor, SeqNumbers

\* One element is a sequence of its set.
LEMMA OneElement == ASSUME NEW S, NEW x \in S PROVE <<x>> \in Seq(S)
<1>1. <<x>> \in [1 .. 1 -> S]
  OBVIOUS
<1>2. QED
  BY <1>1, SeqDef

\* What SendRtpPacket adds to the packets keeps them contiguous.
LEMMA PacketExtends ==
    ASSUME IInv, pc = "send",
           NEW q, q = (IF offset = 0 THEN <<Packet>> ELSE Append(packets, Packet))
    PROVE  /\ q \in Seq(Packets)
           /\ Carries(q, offset + Fragment, Successor(seqNumber))
           /\ q[Len(q)].marker = IF IsLastFragment THEN "yes" ELSE "no"
<1>1. /\ Fragment \in 1 .. MaxFragment /\ MaxFragment \in Nat
      /\ offset \in Nat /\ seqNumber \in SeqNumbers /\ packets \in Seq(Packets)
  BY FragmentFits, SizesAssumption DEF IInv, TypeOK, SizesAssumption
<1>2. /\ Packet \in Packets
      /\ Packet.offset = offset /\ Packet.size = Fragment
      /\ Packet.seq = seqNumber /\ Packet.stamp = timestamp
      /\ Packet.marker = IF IsLastFragment THEN "yes" ELSE "no"
  BY <1>1 DEF Packet, Packets, IInv, TypeOK
<1>3. CASE offset = 0
  <2>1. q = <<Packet>> /\ Len(q) = 1 /\ q[1] = Packet
    BY <1>3
  <2>2. q \in Seq(Packets)
    BY <2>1, <1>2, OneElement
  <2>3. QED
    BY <2>1, <2>2, <1>1, <1>2, <1>3 DEF Carries
<1>4. CASE offset # 0
  <2>1. /\ Carries(packets, offset, seqNumber)
        /\ packets[Len(packets)].marker = "no"
    BY <1>4 DEF IInv, PartSent
  <2>2. /\ q = Append(packets, Packet)
        /\ Len(q) = Len(packets) + 1 /\ Len(packets) \in Nat /\ q[Len(q)] = Packet
        /\ \A k \in 1 .. Len(packets) : q[k] = packets[k]
    BY <1>4, <1>1, <1>2
  <2>3. q \in Seq(Packets)
    BY <1>1, <1>2, <2>2
  <2>4. Len(q) > 0 /\ q[1].offset = 0
    BY <2>1, <2>2 DEF Carries
  <2>5. /\ q[Len(q)].offset + q[Len(q)].size = offset + Fragment
        /\ Successor(q[Len(q)].seq) = Successor(seqNumber)
    BY <2>2, <1>2
  <2>6. \A k \in 1 .. Len(q) : q[k].size \in 1 .. MaxFragment /\ q[k].stamp = timestamp
    BY <2>1, <2>2, <1>1, <1>2 DEF Carries
  <2>7. ASSUME NEW k \in 1 .. Len(q) - 1
        PROVE  /\ q[k + 1].offset = q[k].offset + q[k].size
               /\ q[k + 1].seq = Successor(q[k].seq)
               /\ q[k].marker = "no"
    <3>1. CASE k = Len(packets)
      BY <3>1, <2>1, <2>2, <1>2 DEF Carries
    <3>2. CASE k # Len(packets)
      <4>1. k \in 1 .. Len(packets) - 1 /\ k + 1 \in 1 .. Len(packets)
        BY <3>2, <2>2
      <4>2. QED
        BY <4>1, <2>1, <2>2 DEF Carries
    <3>3. QED
      BY <3>1, <3>2
  <2>8. QED
    BY <2>2, <2>3, <2>4, <2>5, <2>6, <2>7, <1>2 DEF Carries
<1>5. QED
  BY <1>3, <1>4

-----------------------------------------------------------------------------
LEMMA InitIInv == Init => IInv
BY SizesAssumption
   DEF SizesAssumption, Init, IInv, TypeOK, Sending, PartSent, AllSent, SeqNumbers

LEMMA NextIInv == IInv /\ [Next]_vars => IInv'
<1> SUFFICES ASSUME IInv, [Next]_vars PROVE IInv'
  OBVIOUS
<1> USE DEF IInv
<1>1. CASE SessionsChange
  BY <1>1 DEF SessionsChange, TypeOK, Sending, PartSent, AllSent
<1>2. CASE StreamFrame
  BY <1>2, SizesAssumption
     DEF StreamFrame, SizesAssumption, TypeOK, Sending, PartSent, AllSent
<1>3. CASE SendRtpPacket
  <2>1. /\ pc = "send" /\ sessions = "some"
        /\ seqNumber' = Successor(seqNumber)
        /\ packets' = IF offset = 0 THEN <<Packet>> ELSE Append(packets, Packet)
        /\ offset' = IF IsLastFragment THEN 0 ELSE offset + Fragment
        /\ pc' = IF offset' = 0 THEN "end" ELSE "send"
        /\ UNCHANGED <<sessions, timestamp, len>>
    BY <1>3 DEF SendRtpPacket, Sending
  <2>2. /\ packets' \in Seq(Packets)
        /\ Carries(packets', offset + Fragment, seqNumber')
        /\ packets'[Len(packets')].marker = IF IsLastFragment THEN "yes" ELSE "no"
    BY <2>1, PacketExtends
  <2>3. /\ Fragment \in 1 .. MaxFragment
        /\ offset + Fragment <= len
        /\ ~IsLastFragment => offset + Fragment \in 1 .. len - 1
    BY <2>1, FragmentFits
  <2>4. seqNumber' \in SeqNumbers
    BY <2>1, SuccessorType DEF TypeOK
  <2>5. TypeOK'
    BY <2>1, <2>2, <2>3, <2>4, SizesAssumption DEF TypeOK, SizesAssumption
  <2>6. Sending'
    BY <2>1, <2>3, SizesAssumption DEF Sending, SizesAssumption, TypeOK
  <2>7. Carries(packets, offset + Fragment, seqNumber)' <=> Carries(packets', (offset + Fragment)', seqNumber')
    BY <2>1 DEF Carries
  <2>8. CASE IsLastFragment
    BY <2>1, <2>2, <2>5, <2>6, <2>8 DEF PartSent, AllSent, Carries, IsLastFragment
  <2>9. CASE ~IsLastFragment
    BY <2>1, <2>2, <2>3, <2>5, <2>6, <2>9 DEF PartSent, AllSent, Carries
  <2>10. QED
    BY <2>8, <2>9
<1>4. CASE EndFrame
  BY <1>4 DEF EndFrame, TypeOK, Sending, PartSent, AllSent
<1>5. CASE UNCHANGED vars
  BY <1>5 DEF vars, TypeOK, Sending, PartSent, AllSent, Carries
<1>6. QED
  BY <1>1, <1>2, <1>3, <1>4, <1>5 DEF Next

LEMMA IInvWhole == IInv => FrameIsWhole
<1> SUFFICES ASSUME IInv, pc = "end" PROVE FrameIsWhole
  BY DEF FrameIsWhole
<1>1. Carries(packets, len, seqNumber) /\ packets[Len(packets)].marker = "yes"
  BY DEF IInv, AllSent
<1>2. Len(packets) \in Nat
  BY DEF IInv, TypeOK
<1>3. QED
  BY <1>1, <1>2 DEF FrameIsWhole, Carries

(***************************************************************************)
(* The types of CStreamer's counters and packets are kept.                 *)
(***************************************************************************)
THEOREM PacketTypeCorrect == Spec => []TypeOK
<1>1. IInv => TypeOK
  BY DEF IInv
<1>2. QED
  BY <1>1, InitIInv, NextIInv, PTL DEF Spec

(***************************************************************************)
(* streamFrame sends every image whole: contiguous fragments, consecutive  *)
(* sequence numbers, one timestamp, and the marker on the last.            *)
(***************************************************************************)
THEOREM FrameIsWholeCorrect == Spec => []FrameIsWhole
BY InitIInv, NextIInv, IInvWhole, PTL DEF Spec

-----------------------------------------------------------------------------
(***************************************************************************)
(* The ring written as positions: the head is at 0 and again behind the    *)
(* last session.                                                           *)
(***************************************************************************)
At(s, k) == IF k \in 1 .. Len(s) THEN s[k] ELSE ListHead

OrderOK ==
    /\ order \in Seq(Clients)
    /\ \A j, k \in 1 .. Len(order) : order[j] = order[k] => j = k

LinksOK ==
    /\ next \in [List!Elements -> List!Elements \cup {Dangling}]
    /\ prev \in [List!Elements -> List!Elements \cup {Dangling}]
    /\ \A k \in 0 .. Len(order) : /\ next[At(order, k)] = At(order, k + 1)
                                  /\ prev[At(order, k + 1)] = At(order, k)

\* A session that is not linked in may be linked in; the others may not.
UnlinkedOK ==
    \A c \in Clients : next[c] # Dangling => \E k \in 1 .. Len(order) : order[k] = c

\* The walk stands at some position, and the rest of the order is to visit.
WalkOK ==
    /\ toVisit \in Seq(Clients)
    /\ \/ element = ListHead /\ toVisit = <<>>
       \/ \E p \in 1 .. Len(order) :
             /\ element = order[p]
             /\ Len(toVisit) = Len(order) - p + 1
             /\ \A j \in 1 .. Len(toVisit) : toVisit[j] = order[p + j - 1]

ListInv == OrderOK /\ LinksOK /\ UnlinkedOK /\ WalkOK

LEMMA Names == /\ ListHead \notin Clients /\ Dangling \notin List!Elements
               /\ ListHead \in List!Elements /\ Clients \subseteq List!Elements
BY ElementsAssumption DEF ElementsAssumption, List!Elements

LEMMA AtIsElement ==
    ASSUME OrderOK, NEW k \in Int
    PROVE  /\ At(order, k) \in List!Elements
           /\ k \in 1 .. Len(order) => At(order, k) = order[k] /\ At(order, k) \in Clients
           /\ k \notin 1 .. Len(order) => At(order, k) = ListHead
BY Names DEF At, OrderOK

LEMMA InitList == List!Init => ListInv
<1> SUFFICES ASSUME List!Init PROVE ListInv
  OBVIOUS
<1>1. order = <<>> /\ toVisit = <<>> /\ Len(order) = 0 /\ element = ListHead
  BY DEF List!Init
<1>2. OrderOK /\ WalkOK
  BY <1>1, EmptySeq DEF OrderOK, WalkOK
<1>3. next[ListHead] = ListHead /\ prev[ListHead] = ListHead
  BY Names DEF List!Init
<1>4. /\ next \in [List!Elements -> List!Elements \cup {Dangling}]
      /\ prev \in [List!Elements -> List!Elements \cup {Dangling}]
  BY Names DEF List!Init
<1>5. LinksOK
  BY <1>1, <1>3, <1>4 DEF LinksOK, At
<1>6. UnlinkedOK
  BY Names DEF List!Init, UnlinkedOK
<1>7. QED
  BY <1>2, <1>5, <1>6 DEF ListInv

\* No element stands at two positions of the ring.
LEMMA Distinct ==
    ASSUME OrderOK, NEW j \in Int, NEW k \in Int, At(order, j) = At(order, k),
           \/ j \in 0 .. Len(order) /\ k \in 0 .. Len(order)
           \/ j \in 1 .. Len(order) + 1 /\ k \in 1 .. Len(order) + 1
    PROVE  j = k
<1>1. Len(order) \in Nat
  BY DEF OrderOK
<1>2. CASE j \in 1 .. Len(order) /\ k \in 1 .. Len(order)
  BY <1>2, AtIsElement DEF OrderOK
<1>3. CASE j \notin 1 .. Len(order) \/ k \notin 1 .. Len(order)
  <2>1. j \notin 1 .. Len(order) /\ k \notin 1 .. Len(order)
    BY <1>3, AtIsElement, Names
  <2>2. QED
    BY <2>1, <1>1
<1>4. QED
  BY <1>2, <1>3

(***************************************************************************)
(* A session linked in at the end of the list.                             *)
(***************************************************************************)
LEMMA AddKeeps == ASSUME ListInv, NEW c \in Clients, List!Add(c) PROVE ListInv'
<1> DEFINE n == Len(order)
<1>1. /\ element = ListHead /\ next[c] = Dangling
      /\ prev' = [prev EXCEPT ![c] = prev[ListHead], ![ListHead] = c]
      /\ next' = [next EXCEPT ![c] = ListHead, ![prev[ListHead]] = c]
      /\ order' = Append(order, c) /\ element' = element /\ toVisit' = toVisit
  BY DEF List!Add
<1>2. OrderOK /\ LinksOK /\ UnlinkedOK /\ WalkOK /\ n \in Nat
  BY DEF ListInv, OrderOK
<1>3. \A k \in 1 .. n : order[k] # c
  <2> SUFFICES ASSUME NEW k \in 1 .. n, order[k] = c PROVE FALSE
    OBVIOUS
  <2>1. At(order, k) = c /\ next[c] = At(order, k + 1)
    BY <1>2 DEF LinksOK, At
  <2>2. At(order, k + 1) \in List!Elements
    BY <1>2, AtIsElement
  <2>3. QED
    BY <2>1, <2>2, <1>1, Names
<1>4. /\ order' \in Seq(Clients) /\ Len(order') = n + 1 /\ order'[n + 1] = c
      /\ \A k \in 1 .. n : order'[k] = order[k]
  BY <1>1, <1>2 DEF OrderOK
<1>5. OrderOK'
  <2>1. ASSUME NEW j \in 1 .. n + 1, NEW k \in 1 .. n + 1, order'[j] = order'[k]
        PROVE  j = k
    <3>1. CASE j = n + 1 \/ k = n + 1
      BY <2>1, <3>1, <1>2, <1>3, <1>4
    <3>2. CASE j \in 1 .. n /\ k \in 1 .. n
      BY <2>1, <3>2, <1>2, <1>4 DEF OrderOK
    <3>3. QED
      BY <3>1, <3>2, <1>2
  <2>2. QED
    BY <2>1, <1>4 DEF OrderOK
<1>6. prev[ListHead] = At(order, n) /\ At(order, n) \in List!Elements /\ At(order, n) # c
  <2>1. At(order, n + 1) = ListHead /\ n \in 0 .. n
    BY <1>2, AtIsElement
  <2>2. At(order, n) # c
    BY <1>2, <1>3, AtIsElement, Names
  <2>3. QED
    BY <2>1, <2>2, <1>2, AtIsElement DEF LinksOK
<1>7. /\ \A k \in 0 .. n : At(order', k) = At(order, k) /\ At(order, k) # c
      /\ At(order', n + 1) = c /\ At(order', n + 2) = ListHead
  BY <1>2, <1>3, <1>4, Names DEF At
<1>8. /\ next' \in [List!Elements -> List!Elements \cup {Dangling}]
      /\ prev' \in [List!Elements -> List!Elements \cup {Dangling}]
      /\ next'[At(order, n)] = c /\ next'[c] = ListHead
      /\ prev'[ListHead] = c /\ prev'[c] = At(order, n)
      /\ \A e \in List!Elements : /\ e # c /\ e # At(order, n) => next'[e] = next[e]
                                  /\ e # c /\ e # ListHead => prev'[e] = prev[e]
  BY <1>1, <1>2, <1>6, Names DEF LinksOK
<1>9. ASSUME NEW k \in 0 .. n + 1
      PROVE  /\ next'[At(order', k)] = At(order', k + 1)
             /\ prev'[At(order', k + 1)] = At(order', k)
  <2>1. CASE k < n
    <3>1. k \in 0 .. n /\ k + 1 \in 1 .. n /\ n \in 0 .. n
      BY <2>1, <1>2
    <3>2. At(order, k) # At(order, n) /\ At(order, k + 1) # ListHead
      BY <3>1, <2>1, <1>2, Distinct, AtIsElement, Names
    <3>3. At(order, k) \in List!Elements /\ At(order, k + 1) \in List!Elements
      BY <3>1, <1>2, AtIsElement
    <3>4. next[At(order, k)] = At(order, k + 1) /\ prev[At(order, k + 1)] = At(order, k)
      BY <3>1, <1>2 DEF LinksOK
    <3>5. QED
      BY <3>1, <3>2, <3>3, <3>4, <1>7, <1>8
  <2>2. CASE k = n
    BY <2>2, <1>2, <1>7, <1>8
  <2>3. CASE k = n + 1
    BY <2>3, <1>2, <1>7, <1>8
  <2>4. QED
    BY <2>1, <2>2, <2>3, <1>2
<1>10. LinksOK'
  BY <1>4, <1>8, <1>9 DEF LinksOK, List!Elements
<1>11. UnlinkedOK'
  <2> SUFFICES ASSUME NEW d \in Clients, next'[d] # Dangling
               PROVE  \E k \in 1 .. n + 1 : order'[k] = d
    BY <1>4 DEF UnlinkedOK
  <2>1. CASE d = c
    BY <2>1, <1>2, <1>4
  <2>2. CASE d = At(order, n) /\ d # c
    <3>1. n \in 1 .. n
      BY <2>2, <1>2, AtIsElement, Names
    <3>2. QED
      BY <3>1, <2>2, <1>2, <1>4, AtIsElement
  <2>3. CASE d # c /\ d # At(order, n)
    <3>1. next[d] # Dangling
      BY <2>3, <1>8, Names
    <3>2. PICK k \in 1 .. n : order[k] = d
      BY <3>1, <1>2 DEF UnlinkedOK
    <3>3. QED
      BY <3>2, <1>2, <1>4
  <2>4. QED
    BY <2>1, <2>2, <2>3
<1>12. WalkOK'
  <2>1. toVisit = <<>> /\ toVisit \in Seq(Clients)
    BY <1>1, <1>2, Names DEF WalkOK, OrderOK
  <2>2. QED
    BY <2>1, <1>1 DEF WalkOK
<1>13. QED
  BY <1>5, <1>10, <1>11, <1>12 DEF ListInv

-----------------------------------------------------------------------------
LEMMA StartWalkKeeps == ASSUME ListInv, List!StartWalk PROVE ListInv'
<1>1. /\ element' = next[ListHead] /\ toVisit' = order /\ order # <<>>
      /\ next' = next /\ prev' = prev /\ order' = order
  BY DEF List!StartWalk
<1>2. OrderOK /\ LinksOK /\ UnlinkedOK /\ Len(order) \in Nat /\ order \in Seq(Clients)
  BY DEF ListInv, OrderOK
<1>3. Len(order) # 0
  BY <1>1, <1>2, EmptySeq
<1>4. next[At(order, 0)] = At(order, 1) /\ At(order, 0) = ListHead /\ At(order, 1) = order[1]
  BY <1>2, <1>3, AtIsElement DEF LinksOK
<1>5. /\ 1 \in 1 .. Len(order) /\ element' = order[1]
      /\ Len(order) = Len(order) - 1 + 1
      /\ \A j \in 1 .. Len(order) : order[j] = order[1 + j - 1]
  BY <1>1, <1>2, <1>3, <1>4
<1>6. WalkOK'
  BY <1>1, <1>2, <1>5 DEF WalkOK
<1>7. QED
  BY <1>1, <1>2, <1>6 DEF ListInv, OrderOK, LinksOK, UnlinkedOK

\* Where the walk stands, and what its next step is.
LEMMA Standing ==
    ASSUME ListInv, element \in Clients
    PROVE  \E p \in 1 .. Len(order) :
              /\ element = At(order, p) /\ element = order[p]
              /\ next[element] = At(order, p + 1) /\ prev[element] = At(order, p - 1)
              /\ toVisit \in Seq(Clients) /\ Len(toVisit) = Len(order) - p + 1
              /\ \A j \in 1 .. Len(toVisit) : toVisit[j] = order[p + j - 1]
              /\ Tail(toVisit) \in Seq(Clients) /\ Len(Tail(toVisit)) = Len(order) - p
              /\ \A j \in 1 .. Len(Tail(toVisit)) : Tail(toVisit)[j] = order[p + j]
<1>1. OrderOK /\ LinksOK /\ WalkOK /\ Len(order) \in Nat
  BY DEF ListInv, OrderOK
<1>2. PICK p \in 1 .. Len(order) :
              /\ element = order[p]
              /\ Len(toVisit) = Len(order) - p + 1
              /\ \A j \in 1 .. Len(toVisit) : toVisit[j] = order[p + j - 1]
  BY <1>1, Names DEF WalkOK
<1>3. element = At(order, p)
  BY <1>1, <1>2, AtIsElement
<1>4. p \in 0 .. Len(order) /\ p - 1 \in 0 .. Len(order) /\ p - 1 + 1 = p
  BY <1>1
<1>5. next[element] = At(order, p + 1) /\ prev[element] = At(order, p - 1)
  BY <1>1, <1>3, <1>4 DEF LinksOK
<1>6. toVisit \in Seq(Clients) /\ Len(toVisit) >= 1 /\ toVisit # <<>>
  BY <1>1, <1>2 DEF WalkOK
<1>7. /\ Tail(toVisit) \in Seq(Clients) /\ Len(Tail(toVisit)) = Len(order) - p
      /\ \A j \in 1 .. Len(Tail(toVisit)) : Tail(toVisit)[j] = toVisit[j + 1]
  <2>1. /\ Tail(toVisit) \in Seq(Clients) /\ Len(Tail(toVisit)) = Len(toVisit) - 1
        /\ \A j \in 1 .. Len(Tail(toVisit)) : Tail(toVisit)[j] = toVisit[j + 1]
    BY <1>6, HeadTailProperties
  <2>2. QED
    BY <2>1, <1>1, <1>2
<1>8. ASSUME NEW j \in 1 .. Len(Tail(toVisit))
      PROVE  Tail(toVisit)[j] = order[p + j]
  <2>1. j + 1 \in 1 .. Len(toVisit) /\ p + (j + 1) - 1 = p + j
    BY <1>1, <1>2, <1>7
  <2>2. toVisit[j + 1] = order[p + (j + 1) - 1]
    BY <2>1, <1>2
  <2>3. QED
    BY <2>1, <2>2, <1>7
<1>9. WITNESS p \in 1 .. Len(order)
<1>10. QED
  BY ONLY <1>2, <1>3, <1>5, <1>6, <1>7, <1>8

LEMMA VisitAndKeepKeeps == ASSUME ListInv, List!VisitAndKeep PROVE ListInv'
<1>1. /\ element \in Clients /\ element' = next[element] /\ toVisit' = Tail(toVisit)
      /\ next' = next /\ prev' = prev /\ order' = order
  BY DEF List!VisitAndKeep
<1>2. OrderOK /\ LinksOK /\ UnlinkedOK /\ Len(order) \in Nat
  BY DEF ListInv, OrderOK
<1>3. PICK p \in 1 .. Len(order) :
              /\ next[element] = At(order, p + 1)
              /\ Tail(toVisit) \in Seq(Clients) /\ Len(Tail(toVisit)) = Len(order) - p
              /\ \A j \in 1 .. Len(Tail(toVisit)) : Tail(toVisit)[j] = order[p + j]
  BY <1>1, Standing
<1>4. CASE p = Len(order)
  <2>1. element' = ListHead
    BY <1>1, <1>2, <1>3, <1>4, AtIsElement
  <2>2. toVisit' = <<>>
    BY <1>1, <1>2, <1>3, <1>4, EmptySeq
  <2>3. WalkOK'
    BY <2>1, <2>2, <1>1, <1>3 DEF WalkOK
  <2>4. QED
    BY <2>3, <1>1, <1>2 DEF ListInv, OrderOK, LinksOK, UnlinkedOK
<1>5. CASE p # Len(order)
  <2>1. p + 1 \in 1 .. Len(order) /\ element' = order[p + 1]
    BY <1>1, <1>2, <1>3, <1>5, AtIsElement
  <2>2. /\ Len(toVisit') = Len(order') - (p + 1) + 1
        /\ \A j \in 1 .. Len(toVisit') : toVisit'[j] = order'[(p + 1) + j - 1]
    <3>1. Len(toVisit') = Len(order') - (p + 1) + 1
      BY <1>1, <1>2, <1>3
    <3>2. ASSUME NEW j \in 1 .. Len(toVisit')
          PROVE  toVisit'[j] = order'[(p + 1) + j - 1]
      <4>1. (p + 1) + j - 1 = p + j
        BY <3>1, <1>1, <1>2
      <4>2. QED
        BY <4>1, <1>1, <1>3
    <3>3. QED
      BY <3>1, <3>2
  <2>3. WalkOK'
    BY <2>1, <2>2, <1>1, <1>3 DEF WalkOK
  <2>4. QED
    BY <2>3, <1>1, <1>2 DEF ListInv, OrderOK, LinksOK, UnlinkedOK
<1>6. QED
  BY <1>4, <1>5

(***************************************************************************)
(* A session deleted where the walk stands, which has gone on before.      *)
(***************************************************************************)
LEMMA VisitAndDeleteKeeps == ASSUME ListInv, List!VisitAndDelete PROVE ListInv'
<1> DEFINE n == Len(order)
           before(p) == At(order, p - 1)
           after(p) == At(order, p + 1)
<1>1. /\ element \in Clients /\ element' = next[element] /\ toVisit' = Tail(toVisit)
      /\ next' = [next EXCEPT ![prev[element]] = next[element], ![element] = Dangling]
      /\ prev' = [prev EXCEPT ![next[element]] = prev[element], ![element] = Dangling]
      /\ order' = List!Without(order, element)
  BY DEF List!VisitAndDelete, List!UnlinkedNext, List!UnlinkedPrev
<1>2. OrderOK /\ LinksOK /\ UnlinkedOK /\ n \in Nat /\ order \in Seq(Clients)
  BY DEF ListInv, OrderOK
<1>3. PICK p \in 1 .. n :
              /\ element = At(order, p) /\ element = order[p]
              /\ next[element] = after(p) /\ prev[element] = before(p)
              /\ Tail(toVisit) \in Seq(Clients) /\ Len(Tail(toVisit)) = n - p
              /\ \A j \in 1 .. Len(Tail(toVisit)) : Tail(toVisit)[j] = order[p + j]
  BY <1>1, Standing
<1>4. (CHOOSE k \in DOMAIN order : order[k] = element) = p
  BY <1>2, <1>3 DEF OrderOK
<1>5. order' = [k \in 1 .. n - 1 |-> IF k < p THEN order[k] ELSE order[k + 1]]
  BY <1>1, <1>4 DEF List!Without
<1>6. /\ order' \in Seq(Clients) /\ Len(order') = n - 1
      /\ \A k \in 1 .. n - 1 : order'[k] = IF k < p THEN order[k] ELSE order[k + 1]
  <2>1. \A k \in 1 .. n - 1 : k \in 1 .. n /\ k + 1 \in 1 .. n
    BY <1>2
  <2>2. \A k \in 1 .. n : order[k] \in Clients
    BY <1>2
  <2>3. order' \in [1 .. n - 1 -> Clients]
    BY <1>5, <2>1, <2>2
  <2>4. n - 1 \in Nat
    BY <1>2, <1>3
  <2>5. order' \in Seq(Clients)
    BY <2>3, <2>4, SeqDef
  <2>6. Len(order') \in Nat /\ 1 .. Len(order') = 1 .. n - 1
    BY <2>3, <2>5, LenProperties
  <2>7. Len(order') = n - 1
    BY <2>4, <2>6
  <2>8. QED
    BY <1>5, <2>5, <2>7
<1>7. ASSUME NEW k \in 0 .. n
      PROVE  At(order', k) = IF k < p THEN At(order, k) ELSE At(order, k + 1)
  <2>1. CASE k \in 1 .. n - 1
    <3>1. k \in 1 .. Len(order') /\ k \in 1 .. n /\ k + 1 \in 1 .. n
      BY <2>1, <1>2, <1>6
    <3>2. order'[k] = IF k < p THEN order[k] ELSE order[k + 1]
      BY <2>1, <1>6
    <3>3. QED
      BY <3>1, <3>2 DEF At
  <2>2. CASE k = 0
    <3>1. k \notin 1 .. Len(order') /\ k \notin 1 .. n /\ k < p
      BY <2>2, <1>2, <1>6
    <3>2. QED
      BY <3>1 DEF At
  <2>3. CASE k = n
    <3>1. k \notin 1 .. Len(order') /\ k + 1 \notin 1 .. n /\ ~(k < p)
      BY <2>3, <1>2, <1>6
    <3>2. QED
      BY <3>1 DEF At
  <2>4. QED
    BY <2>1, <2>2, <2>3, <1>2
<1>8. OrderOK'
  <2>1. ASSUME NEW j \in 1 .. n - 1, NEW k \in 1 .. n - 1, order'[j] = order'[k]
        PROVE  j = k
    <3>1. /\ (IF j < p THEN j ELSE j + 1) \in 1 .. n
          /\ (IF k < p THEN k ELSE k + 1) \in 1 .. n
      BY <1>2, <1>3
    <3>2. order[IF j < p THEN j ELSE j + 1] = order[IF k < p THEN k ELSE k + 1]
      BY <2>1, <1>6
    <3>3. (IF j < p THEN j ELSE j + 1) = (IF k < p THEN k ELSE k + 1)
      BY <3>1, <3>2, <1>2 DEF OrderOK
    <3>4. QED
      BY <3>3, <1>2, <1>3
  <2>2. QED
    BY <2>1, <1>6 DEF OrderOK
<1>9. /\ before(p) \in List!Elements /\ after(p) \in List!Elements
      /\ before(p) # element /\ after(p) # element
  <2>1. /\ p - 1 \in 0 .. n /\ p \in 0 .. n /\ p + 1 \in 1 .. n + 1 /\ p \in 1 .. n + 1
        /\ p - 1 \in Int /\ p + 1 \in Int /\ p \in Int /\ p - 1 # p /\ p + 1 # p
    BY <1>2, <1>3
  <2>2. before(p) # At(order, p)
    BY <2>1, <1>2, Distinct
  <2>3. after(p) # At(order, p)
    BY <2>1, <1>2, Distinct
  <2>4. QED
    BY <2>1, <2>2, <2>3, <1>2, <1>3, AtIsElement
<1>10. /\ next' \in [List!Elements -> List!Elements \cup {Dangling}]
       /\ prev' \in [List!Elements -> List!Elements \cup {Dangling}]
       /\ next'[before(p)] = after(p) /\ next'[element] = Dangling
       /\ prev'[after(p)] = before(p) /\ prev'[element] = Dangling
       /\ \A e \in List!Elements : /\ e # element /\ e # before(p) => next'[e] = next[e]
                                   /\ e # element /\ e # after(p) => prev'[e] = prev[e]
  BY <1>1, <1>2, <1>3, <1>9, Names DEF LinksOK
<1>11. ASSUME NEW k \in 0 .. n - 1
       PROVE  next'[At(order', k)] = At(order', k + 1)
  <2>1. /\ k \in 0 .. n /\ k + 1 \in 0 .. n /\ p - 1 \in 0 .. n /\ p \in 0 .. n
        /\ k \in Int /\ k + 1 \in Int /\ p - 1 \in Int /\ p \in Int
    BY <1>2, <1>3
  <2>2. CASE k < p - 1
    <3>1. At(order', k) = At(order, k) /\ At(order', k + 1) = At(order, k + 1)
      BY <2>1, <2>2, <1>3, <1>7
    <3>2. At(order, k) # before(p)
      BY <2>1, <2>2, <1>2, Distinct
    <3>3. At(order, k) # At(order, p)
      BY <2>1, <2>2, <1>2, Distinct
    <3>4. next[At(order, k)] = At(order, k + 1) /\ At(order, k) \in List!Elements
      BY <2>1, <1>2, AtIsElement DEF LinksOK
    <3>5. QED
      BY <3>1, <3>2, <3>3, <3>4, <1>3, <1>10
  <2>3. CASE k = p - 1
    <3>1. At(order', k) = before(p) /\ At(order', k + 1) = after(p)
      BY <2>1, <2>3, <1>3, <1>7
    <3>2. QED
      BY <3>1, <1>10
  <2>4. CASE k > p - 1
    <3>1. At(order', k) = At(order, k + 1) /\ At(order', k + 1) = At(order, (k + 1) + 1)
      <4>1. ~(k < p) /\ ~(k + 1 < p)
        BY ONLY <2>1, <2>4, p \in 1 .. n
      <4>2. QED
        BY <4>1, <2>1, <1>7
    <3>2. At(order, k + 1) # before(p)
      BY <2>1, <2>4, <1>2, Distinct
    <3>3. At(order, k + 1) # At(order, p)
      BY <2>1, <2>4, <1>2, Distinct
    <3>4. next[At(order, k + 1)] = At(order, (k + 1) + 1) /\ At(order, k + 1) \in List!Elements
      BY <2>1, <1>2, AtIsElement DEF LinksOK
    <3>5. QED
      BY <3>1, <3>2, <3>3, <3>4, <1>3, <1>10
  <2>5. QED
    BY <2>1, <2>2, <2>3, <2>4
<1>12. ASSUME NEW k \in 0 .. n - 1
       PROVE  prev'[At(order', k + 1)] = At(order', k)
  <2>1. /\ k \in 0 .. n /\ k + 1 \in 0 .. n /\ k + 1 \in 1 .. n + 1
        /\ (k + 1) + 1 \in 1 .. n + 1 /\ p + 1 \in 1 .. n + 1 /\ p \in 1 .. n + 1
        /\ k \in Int /\ k + 1 \in Int /\ (k + 1) + 1 \in Int /\ p + 1 \in Int /\ p \in Int
    <3>1. n \in Nat
      BY <1>2
    <3>2. QED
      BY ONLY <3>1, k \in 0 .. n - 1, p \in 1 .. n
  <2>2. CASE k < p - 1
    <3>1. At(order', k) = At(order, k) /\ At(order', k + 1) = At(order, k + 1)
      BY <2>1, <2>2, <1>3, <1>7
    <3>2. At(order, k + 1) # after(p)
      BY <2>1, <2>2, <1>2, Distinct
    <3>3. At(order, k + 1) # At(order, p)
      BY <2>1, <2>2, <1>2, Distinct
    <3>4. prev[At(order, k + 1)] = At(order, k) /\ At(order, k + 1) \in List!Elements
      BY <2>1, <1>2, AtIsElement DEF LinksOK
    <3>5. QED
      BY <3>1, <3>2, <3>3, <3>4, <1>3, <1>10
  <2>3. CASE k = p - 1
    <3>1. At(order', k) = before(p) /\ At(order', k + 1) = after(p)
      BY <2>1, <2>3, <1>3, <1>7
    <3>2. QED
      BY <3>1, <1>10
  <2>4. CASE k > p - 1
    <3>1. At(order', k) = At(order, k + 1) /\ At(order', k + 1) = At(order, (k + 1) + 1)
      <4>1. ~(k < p) /\ ~(k + 1 < p)
        BY ONLY <2>1, <2>4, p \in 1 .. n
      <4>2. QED
        BY <4>1, <2>1, <1>7
    <3>2. At(order, (k + 1) + 1) # after(p)
      BY <2>1, <2>4, <1>2, Distinct
    <3>3. At(order, (k + 1) + 1) # At(order, p)
      BY <2>1, <2>4, <1>2, Distinct
    <3>4. /\ prev[At(order, (k + 1) + 1)] = At(order, k + 1)
          /\ At(order, (k + 1) + 1) \in List!Elements
      BY <2>1, <1>2, AtIsElement DEF LinksOK
    <3>5. QED
      BY <3>1, <3>2, <3>3, <3>4, <1>3, <1>10
  <2>5. QED
    BY <2>1, <2>2, <2>3, <2>4
<1>13. LinksOK'
  BY <1>6, <1>10, <1>11, <1>12 DEF LinksOK, List!Elements
<1>14. UnlinkedOK'
  <2> SUFFICES ASSUME NEW d \in Clients, next'[d] # Dangling
               PROVE  \E k \in 1 .. n - 1 : order'[k] = d
    BY <1>6 DEF UnlinkedOK
  <2>1. d # element /\ d \in List!Elements
    BY <1>10, Names
  <2>2. \E k \in 1 .. n : order[k] = d
    <3>1. CASE d = before(p)
      <4>1. p - 1 \in 1 .. n
        BY <3>1, <1>2, <1>3, AtIsElement, Names
      <4>2. QED
        BY <4>1, <3>1, <1>2, AtIsElement
    <3>2. CASE d # before(p)
      BY <3>2, <2>1, <1>2, <1>10 DEF UnlinkedOK
    <3>3. QED
      BY <3>1, <3>2
  <2>3. PICK k \in 1 .. n : order[k] = d
    BY <2>2
  <2>4. CASE k < p
    <3>1. k \in 1 .. n - 1 /\ order'[k] = d
      BY <2>3, <2>4, <1>2, <1>3, <1>6
    <3>2. QED
      BY <3>1
  <2>5. CASE k > p
    <3>1. k - 1 \in 1 .. n - 1 /\ ~(k - 1 < p) /\ k - 1 + 1 = k
      BY <2>5, <1>2, <1>3
    <3>2. order'[k - 1] = d
      BY <3>1, <2>3, <1>6
    <3>3. QED
      BY <3>1, <3>2
  <2>6. QED
    BY <2>1, <2>3, <2>4, <2>5, <1>2, <1>3
<1>15. CASE p = n
  <2>1. element' = ListHead
    BY <1>1, <1>2, <1>3, <1>15, AtIsElement
  <2>2. toVisit' = <<>>
    BY <1>1, <1>2, <1>3, <1>15, EmptySeq
  <2>3. WalkOK'
    BY <2>1, <2>2, <1>1, <1>3 DEF WalkOK
  <2>4. QED
    BY <2>3, <1>8, <1>13, <1>14 DEF ListInv
<1>16. CASE p # n
  <2>1. p \in 1 .. n - 1 /\ p + 1 \in 1 .. n
    BY <1>2, <1>3, <1>16
  <2>2. element' = order'[p]
    BY <2>1, <1>1, <1>2, <1>3, <1>6, AtIsElement
  <2>3. Len(toVisit') = Len(order') - p + 1
    <3>1. Len(toVisit') = n - p /\ Len(order') = n - 1 /\ n \in Nat
      BY <1>1, <1>2, <1>3, <1>6
    <3>2. QED
      BY ONLY <3>1, p \in 1 .. n
  <2>4. ASSUME NEW j \in 1 .. Len(toVisit')
        PROVE  toVisit'[j] = order'[p + j - 1]
    <3>1. /\ p + j - 1 \in 1 .. n - 1 /\ ~(p + j - 1 < p) /\ p + j - 1 + 1 = p + j
      BY <1>2, <1>3, <1>6, <2>3
    <3>2. order'[p + j - 1] = order[p + j]
      BY <3>1, <1>6
    <3>3. QED
      BY <3>2, <1>1, <1>3
  <2>5. WalkOK'
    BY <2>1, <2>2, <2>3, <2>4, <1>1, <1>3, <1>6 DEF WalkOK
  <2>6. QED
    BY <2>5, <1>8, <1>13, <1>14 DEF ListInv
<1>17. QED
  BY <1>15, <1>16

-----------------------------------------------------------------------------
LEMMA ListStep == ListInv /\ [List!Next]_listVars => ListInv'
<1> SUFFICES ASSUME ListInv, [List!Next]_listVars PROVE ListInv'
  OBVIOUS
<1>1. CASE \E c \in Clients : List!Add(c)
  BY <1>1, AddKeeps
<1>2. CASE List!StartWalk
  BY <1>2, StartWalkKeeps
<1>3. CASE List!VisitAndKeep
  BY <1>3, VisitAndKeepKeeps
<1>4. CASE List!VisitAndDelete
  BY <1>4, VisitAndDeleteKeeps
<1>5. CASE UNCHANGED listVars
  BY <1>5 DEF listVars, ListInv, OrderOK, LinksOK, UnlinkedOK, WalkOK
<1>6. QED
  BY <1>1, <1>2, <1>3, <1>4, <1>5 DEF List!Next

\* What the positions say is what the module of the list promises.
LEMMA ListInvFormsRing == ListInv => List!LinksFormRing
<1> SUFFICES ASSUME ListInv PROVE List!LinksFormRing
  OBVIOUS
<1> DEFINE n == Len(order)
<1>1. OrderOK /\ LinksOK /\ n \in Nat /\ order \in Seq(Clients)
  BY DEF ListInv, OrderOK
<1>2. List!Ring = <<ListHead>> \o order /\ <<ListHead>> \in Seq(List!Elements)
  BY Names, OneElement DEF List!Ring
<1>3. /\ Len(List!Ring) = n + 1
      /\ \A k \in 1 .. n + 1 : List!Ring[k] = At(order, k - 1)
  <2>1. order \in Seq(List!Elements)
    BY <1>1, Names
  <2>2. /\ Len(List!Ring) = 1 + n
        /\ \A k \in 1 .. 1 + n : List!Ring[k] = IF k <= 1 THEN <<ListHead>>[k] ELSE order[k - 1]
    BY <1>2, <2>1, ConcatProperties
  <2>3. QED
    BY <2>2, <1>1 DEF At
<1>4. ASSUME NEW k \in 1 .. Len(List!Ring),
             NEW successor, successor = IF k = Len(List!Ring) THEN ListHead ELSE List!Ring[k + 1]
      PROVE  next[List!Ring[k]] = successor /\ prev[successor] = List!Ring[k]
  <2>1. k \in 1 .. n + 1 /\ k - 1 \in 0 .. n /\ k - 1 + 1 = k
    BY <1>1, <1>3
  <2>2. List!Ring[k] = At(order, k - 1)
    BY <2>1, <1>3
  <2>3. successor = At(order, k)
    <3>1. CASE k = n + 1
      BY <3>1, <1>4, <1>1, <1>3, AtIsElement
    <3>2. CASE k # n + 1
      <4>1. k + 1 \in 1 .. n + 1 /\ k + 1 - 1 = k
        BY <3>2, <2>1, <1>1
      <4>2. QED
        BY <4>1, <3>2, <1>4, <1>3
    <3>3. QED
      BY <3>1, <3>2
  <2>4. QED
    BY <2>1, <2>2, <2>3, <1>1 DEF LinksOK
<1>5. QED
  BY <1>4 DEF List!LinksFormRing

LEMMA ListInvVisitsAll == ListInv => List!WalkVisitsAll
<1> SUFFICES ASSUME ListInv PROVE List!WalkVisitsAll
  OBVIOUS
<1>1. WalkOK /\ OrderOK /\ Len(order) \in Nat
  BY DEF ListInv, OrderOK
<1>2. CASE element = ListHead /\ toVisit = <<>>
  BY <1>2 DEF List!WalkVisitsAll
<1>3. CASE \E p \in 1 .. Len(order) :
             /\ element = order[p]
             /\ Len(toVisit) = Len(order) - p + 1
             /\ \A j \in 1 .. Len(toVisit) : toVisit[j] = order[p + j - 1]
  <2>1. PICK p \in 1 .. Len(order) :
             /\ element = order[p]
             /\ Len(toVisit) = Len(order) - p + 1
             /\ \A j \in 1 .. Len(toVisit) : toVisit[j] = order[p + j - 1]
    BY <1>3
  <2>2. 1 \in 1 .. Len(toVisit) /\ p + 1 - 1 = p
    BY <2>1, <1>1
  <2>3. toVisit[1] = element /\ toVisit # <<>>
    BY <2>1, <2>2, EmptySeq
  <2>4. QED
    BY <2>3 DEF List!WalkVisitsAll
<1>4. QED
  BY <1>1, <1>2, <1>3 DEF WalkOK

-----------------------------------------------------------------------------
LEMMA DeliveryStepsAreSteps ==
    [DeliveryNext]_deliveryVars => [Next]_vars /\ [List!Next]_listVars
<1> SUFFICES ASSUME [DeliveryNext]_deliveryVars PROVE [Next]_vars /\ [List!Next]_listVars
  OBVIOUS
<1>1. CASE Serve
  BY <1>1 DEF Serve, Next
<1>2. CASE TakeImage
  BY <1>2 DEF TakeImage, Next
<1>3. CASE Deliver
  BY <1>3 DEF Deliver, Next
<1>4. CASE FinishImage
  BY <1>4 DEF FinishImage, Next
<1>5. CASE UNCHANGED deliveryVars
  BY <1>5 DEF deliveryVars
<1>6. CASE ServePlay
  BY <1>6 DEF ServePlay, SessionsChange, Next, List!Next
<1>7. QED
  BY <1>1, <1>2, <1>3, <1>4, <1>5, <1>6 DEF DeliveryNext

(***************************************************************************)
(* Images are sent whole also while sessions are linked in and out between *)
(* them.                                                                   *)
(***************************************************************************)
THEOREM FrameIsWholeInDelivery == DeliverySpec => []FrameIsWhole
<1>1. DeliveryInit => IInv
  BY InitIInv DEF DeliveryInit
<1>2. IInv /\ [DeliveryNext]_deliveryVars => IInv'
  BY NextIInv, DeliveryStepsAreSteps
<1>3. QED
  BY <1>1, <1>2, IInvWhole, PTL DEF DeliverySpec

(***************************************************************************)
(* LinkedListElement's links form the ring of the live sessions, in the    *)
(* order they were added, whatever the walk has deleted.                   *)
(***************************************************************************)
THEOREM LinksFormRingCorrect == DeliverySpec => []LinksFormRing
<1>1. DeliveryInit => ListInv
  BY InitList DEF DeliveryInit
<1>2. ListInv /\ [DeliveryNext]_deliveryVars => ListInv'
  BY ListStep, DeliveryStepsAreSteps
<1>3. ListInv => LinksFormRing
  BY ListInvFormsRing DEF LinksFormRing
<1>4. QED
  BY <1>1, <1>2, <1>3, PTL DEF DeliverySpec

(***************************************************************************)
(* The walk of handleRequests visits every session that was there when it  *)
(* started, and none that has been deleted.                                *)
(***************************************************************************)
THEOREM WalkVisitsAllCorrect == DeliverySpec => []WalkVisitsAll
<1>1. DeliveryInit => ListInv
  BY InitList DEF DeliveryInit
<1>2. ListInv /\ [DeliveryNext]_deliveryVars => ListInv'
  BY ListStep, DeliveryStepsAreSteps
<1>3. ListInv => WalkVisitsAll
  BY ListInvVisitsAll DEF WalkVisitsAll
<1>4. QED
  BY <1>1, <1>2, <1>3, PTL DEF DeliverySpec

-----------------------------------------------------------------------------
LEMMA PacketType == ASSUME IInv, pc = "send" PROVE Packet \in Packets
<1>1. Fragment \in 1 .. MaxFragment /\ MaxFragment \in Nat
  BY FragmentFits, SizesAssumption DEF IInv, SizesAssumption
<1>2. QED
  BY <1>1 DEF Packet, Packets, IInv, TypeOK

LEMMA ReceivedStep ==
    ASSUME IInv, received \in [Clients -> Seq(Packets)], [DeliveryNext]_deliveryVars
    PROVE  received' \in [Clients -> Seq(Packets)]
<1>1. CASE Serve
  <2>1. \A c \in Clients : received[c] \in Seq(Packets) /\ <<>> \in Seq(Packets)
    BY EmptySeq
  <2>2. QED
    BY <2>1, <1>1 DEF Serve
<1>2. CASE Deliver
  <2>1. Packet \in Packets
    BY <1>2, PacketType DEF Deliver, SendRtpPacket
  <2>2. ASSUME NEW c \in Clients
        PROVE  /\ received[c] \in Seq(Packets) /\ <<Packet>> \in Seq(Packets)
               /\ Append(received[c], Packet) \in Seq(Packets)
    BY <2>1, OneElement, AppendProperties
  <2>3. QED
    BY <2>2, <1>2 DEF Deliver
<1>3. CASE ServePlay \/ TakeImage \/ FinishImage \/ UNCHANGED deliveryVars
  BY <1>3 DEF ServePlay, TakeImage, FinishImage, deliveryVars
<1>4. QED
  BY <1>1, <1>2, <1>3 DEF DeliveryNext

LEMMA ListInvTypes == ListInv => List!TypeOK
<1> SUFFICES ASSUME ListInv PROVE List!TypeOK
  OBVIOUS
<1>1. OrderOK /\ LinksOK /\ WalkOK
  BY DEF ListInv
<1>2. element \in List!Elements
  BY <1>1, Names DEF WalkOK, OrderOK
<1>3. QED
  BY <1>1, <1>2 DEF List!TypeOK, OrderOK, LinksOK, WalkOK

-----------------------------------------------------------------------------
(***************************************************************************)
(* Induction on the natural numbers, as a fact about sets of them: from    *)
(* their being well-ordered.                                               *)
(***************************************************************************)
LEMMA NatInductionOnSets ==
    ASSUME NEW S, S \subseteq Nat, 0 \in S, \A n \in S : n + 1 \in S
    PROVE  S = Nat
<1> DEFINE Less == OpToRel(<, Nat)
           T == Nat \ S
<1> SUFFICES ASSUME T # {} PROVE FALSE
  OBVIOUS
<1>1. IsWellFoundedOn(Less, Nat)
  BY NatLessThanWellFounded
<1>2. T \subseteq Nat
  OBVIOUS
<1>3. \A m, n \in Nat : m < n => <<m, n>> \in Less
  BY DEF OpToRel
<1> HIDE DEF Less, T
<1>4. PICK n \in T : \A m \in T : ~ (<<m, n>> \in Less)
  BY <1>1, <1>2, WFMin
<1>5. n \in Nat /\ n \notin S
  BY <1>4 DEF T
<1>6. n - 1 \in Nat /\ n - 1 < n
  BY <1>5
<1>7. n - 1 \in S
  BY <1>3, <1>4, <1>5, <1>6 DEF T
<1>8. QED
  BY <1>5, <1>6, <1>7

\* A session is in the list once at most, so the list is no longer than there are sessions.
LEMMA OrderIsShort ==
    ASSUME OrderOK
    PROVE  Cardinality(Clients) \in Nat /\ Len(order) <= Cardinality(Clients)
<1>1. IsFiniteSet(Clients)
  BY ElementsAssumption DEF ElementsAssumption
<1>2. order \in Injection(1 .. Len(order), Clients) /\ Len(order) \in Nat
  BY DEF OrderOK, Injection, IsInjective
<1>3. Cardinality(1 .. Len(order)) <= Cardinality(Clients)
  BY <1>1, <1>2, FS_Injection
<1>4. Cardinality(1 .. Len(order)) = Len(order)
  <2>1. Cardinality(1 .. Len(order)) = IF 1 > Len(order) THEN 0 ELSE Len(order) - 1 + 1
    BY <1>2, FS_Interval
  <2>2. QED
    BY <2>1, <1>2
<1>5. QED
  BY <1>1, <1>3, <1>4, FS_CardinalityType

(***************************************************************************)
(* Following m_Next from the head goes through the list from its first     *)
(* session to its last and stays at the head: SendRtpPacket meets them all.*)
(***************************************************************************)
LEMMA ReachesAll == ASSUME ListInv PROVE \A k \in 1 .. Len(order) : order[k] \in Reached
<1> DEFINE N == Cardinality(Clients)
           at == CHOOSE f : f = [k \in 0 .. N |->
                                   IF k = 0 THEN next[ListHead]
                                   ELSE IF f[k - 1] = ListHead THEN ListHead ELSE next[f[k - 1]]]
           there == [k \in 0 .. N |-> At(order, k + 1)]
<1>1. OrderOK /\ LinksOK /\ Len(order) \in Nat /\ N \in Nat /\ Len(order) <= N
  BY OrderIsShort DEF ListInv, OrderOK
<1>2. Reached = {at[k] : k \in DOMAIN at} \ {ListHead}
  BY DEF Reached
<1> HIDE DEF N
<1>3. /\ next[ListHead] = At(order, 1)
      /\ \A k \in Nat : At(order, (k + 1) + 1) =
            IF At(order, k + 1) = ListHead THEN ListHead ELSE next[At(order, k + 1)]
  <2>1. next[ListHead] = At(order, 1)
    <3>1. At(order, 0) = ListHead /\ 0 \in 0 .. Len(order) /\ 0 + 1 = 1
      BY <1>1, AtIsElement
    <3>2. QED
      BY <3>1, <1>1 DEF LinksOK
  <2>2. ASSUME NEW k \in Nat, k + 1 \in 1 .. Len(order)
        PROVE  /\ At(order, k + 1) # ListHead
               /\ At(order, (k + 1) + 1) = next[At(order, k + 1)]
    <3>1. At(order, k + 1) # ListHead
      BY <1>1, <2>2, AtIsElement, Names
    <3>2. k + 1 \in 0 .. Len(order)
      BY <2>2
    <3>3. QED
      BY <3>1, <3>2, <1>1 DEF LinksOK
  <2>3. ASSUME NEW k \in Nat, k + 1 \notin 1 .. Len(order)
        PROVE  At(order, k + 1) = ListHead /\ At(order, (k + 1) + 1) = ListHead
    <3>1. (k + 1) + 1 \notin 1 .. Len(order)
      BY <2>3, <1>1
    <3>2. QED
      BY <2>3, <3>1 DEF At
  <2>4. QED
    BY <2>1, <2>2, <2>3
<1>4. at = [k \in 0 .. N |-> IF k = 0 THEN next[ListHead]
                              ELSE IF at[k - 1] = ListHead THEN ListHead ELSE next[at[k - 1]]]
  <2>1. there = [k \in 0 .. N |->
                   IF k = 0 THEN next[ListHead]
                   ELSE IF there[k - 1] = ListHead THEN ListHead ELSE next[there[k - 1]]]
    <3>1. ASSUME NEW k \in 0 .. N
          PROVE  there[k] = IF k = 0 THEN next[ListHead]
                            ELSE IF there[k - 1] = ListHead THEN ListHead ELSE next[there[k - 1]]
      <4>1. CASE k = 0
        BY <4>1, <1>3
      <4>2. CASE k # 0
        <5>1. k - 1 \in Nat /\ k - 1 \in 0 .. N /\ (k - 1) + 1 = k
          BY <4>2, <1>1
        <5>2. there[k - 1] = At(order, (k - 1) + 1) /\ there[k] = At(order, ((k - 1) + 1) + 1)
          BY <5>1
        <5>3. QED
          BY <5>1, <5>2, <4>2, <1>3
      <4>3. QED
        BY <4>1, <4>2
    <3>2. QED
      BY <3>1
  <2> HIDE DEF there
  <2>2. QED
    BY <2>1
<1> HIDE DEF at
<1>5. \A k \in Nat : k \in 0 .. N => at[k] = At(order, k + 1)
  <2> DEFINE S == {k \in Nat : k \in 0 .. N => at[k] = At(order, k + 1)}
  <2>1. 0 \in S
    BY <1>1, <1>3, <1>4
  <2>2. ASSUME NEW k \in S PROVE k + 1 \in S
    <3> SUFFICES ASSUME k + 1 \in 0 .. N PROVE at[k + 1] = At(order, (k + 1) + 1)
      OBVIOUS
    <3>1. k \in Nat /\ k \in 0 .. N /\ k + 1 # 0 /\ (k + 1) - 1 = k
      BY <1>1
    <3>2. at[k] = At(order, k + 1)
      BY <3>1
    <3>3. at[k + 1] = IF at[k] = ListHead THEN ListHead ELSE next[at[k]]
      BY <3>1, <1>4
    <3>4. QED
      BY <3>1, <3>2, <3>3, <1>3
  <2>3. S \subseteq Nat
    OBVIOUS
  <2> HIDE DEF S
  <2>4. S = Nat
    BY <2>1, <2>2, <2>3, NatInductionOnSets
  <2>5. QED
    BY <2>4 DEF S
<1>6. ASSUME NEW k \in 1 .. Len(order) PROVE order[k] \in Reached
  <2>1. k - 1 \in Nat /\ k - 1 \in 0 .. N /\ (k - 1) + 1 = k /\ k \in Int
    BY <1>1
  <2>2. at[k - 1] = order[k] /\ order[k] # ListHead
    BY <2>1, <1>1, <1>5, AtIsElement, Names
  <2>3. DOMAIN at = 0 .. N
    BY <1>4
  <2>4. QED
    BY <2>1, <2>2, <2>3, <1>2
<1>7. QED
  BY <1>6

(***************************************************************************)
(* While an image is sent the walk over the sessions is over, and whoever  *)
(* plays has received what has been sent of the image.  Who does not play  *)
(* never has received anything: only its deletion ends a session's play.   *)
(***************************************************************************)
NoWalkWhileSending == pc # "idle" => element = ListHead

PlayersOnly == /\ playing \subseteq Clients
               /\ \A c \in Clients \ playing : received[c] = <<>>

GotAllSoFar ==
    (pc = "end" \/ (pc = "send" /\ offset # 0)) =>
        \A k \in 1 .. Len(order) : order[k] \in playing => received[order[k]] = packets

DeliveryInv ==
    /\ IInv /\ ListInv /\ received \in [Clients -> Seq(Packets)]
    /\ NoWalkWhileSending /\ PlayersOnly /\ GotAllSoFar

LEMMA InitDelivery == DeliveryInit => DeliveryInv
<1> SUFFICES ASSUME DeliveryInit PROVE DeliveryInv
  OBVIOUS
<1>1. IInv /\ ListInv
  BY InitIInv, InitList DEF DeliveryInit
<1>2. received \in [Clients -> Seq(Packets)]
  BY EmptySeq DEF DeliveryInit
<1>3. NoWalkWhileSending /\ PlayersOnly /\ GotAllSoFar
  BY DEF DeliveryInit, Init, NoWalkWhileSending, PlayersOnly, GotAllSoFar
<1>4. QED
  BY <1>1, <1>2, <1>3 DEF DeliveryInv

LEMMA DeliverKeepsUp == ASSUME DeliveryInv, Deliver PROVE GotAllSoFar'
<1>1. /\ pc = "send" /\ sessions = "some" /\ order' = order /\ playing' = playing
      /\ packets' = IF offset = 0 THEN <<Packet>> ELSE Append(packets, Packet)
      /\ received' = [c \in Clients |-> IF c \notin Receivers THEN received[c]
                                        ELSE IF offset = 0 THEN <<Packet>>
                                        ELSE Append(received[c], Packet)]
  BY DEF Deliver, SendRtpPacket, DeliveryInv, IInv, Sending, listVars
<1>2. ASSUME NEW k \in 1 .. Len(order), order[k] \in playing
      PROVE  received'[order[k]] = packets'
  <2>1. order[k] \in Clients /\ order[k] \in Receivers
    BY <1>2, ReachesAll DEF DeliveryInv, ListInv, OrderOK, Receivers
  <2>2. offset # 0 => received[order[k]] = packets
    BY <1>1, <1>2 DEF DeliveryInv, GotAllSoFar
  <2>3. QED
    BY <2>1, <2>2, <1>1
<1>3. QED
  BY <1>1, <1>2 DEF GotAllSoFar

LEMMA StepPlayers ==
    ASSUME DeliveryInv, [DeliveryNext]_deliveryVars
    PROVE  PlayersOnly'
<1>1. /\ playing \subseteq Clients /\ received \in [Clients -> Seq(Packets)]
      /\ \A c \in Clients \ playing : received[c] = <<>>
  BY DEF DeliveryInv, PlayersOnly
<1>2. CASE Serve
  BY <1>1, <1>2 DEF Serve, PlayersOnly
<1>3. CASE ServePlay
  BY <1>1, <1>3 DEF ServePlay, List!VisitAndKeep, PlayersOnly
<1>4. CASE Deliver
  BY <1>1, <1>4 DEF Deliver, Receivers, PlayersOnly
<1>5. CASE TakeImage \/ FinishImage \/ UNCHANGED deliveryVars
  BY <1>1, <1>5 DEF TakeImage, FinishImage, deliveryVars, PlayersOnly
<1>6. QED
  BY <1>2, <1>3, <1>4, <1>5 DEF DeliveryNext

LEMMA StepDelivery == DeliveryInv /\ [DeliveryNext]_deliveryVars => DeliveryInv'
<1> SUFFICES ASSUME DeliveryInv, [DeliveryNext]_deliveryVars PROVE DeliveryInv'
  OBVIOUS
<1>1. IInv' /\ ListInv' /\ received' \in [Clients -> Seq(Packets)] /\ PlayersOnly'
  BY NextIInv, ListStep, ReceivedStep, StepPlayers, DeliveryStepsAreSteps DEF DeliveryInv
<1>2. NoWalkWhileSending' /\ GotAllSoFar'
  <2>1. CASE Serve \/ ServePlay
    BY <2>1 DEF Serve, ServePlay, SessionsChange, NoWalkWhileSending, GotAllSoFar
  <2>2. CASE TakeImage
    BY <2>2 DEF TakeImage, StreamFrame, listVars, NoWalkWhileSending, GotAllSoFar
  <2>3. CASE Deliver
    <3>1. NoWalkWhileSending'
      BY <2>3 DEF Deliver, SendRtpPacket, listVars, DeliveryInv, NoWalkWhileSending
    <3>2. QED
      BY <3>1, <2>3, DeliverKeepsUp
  <2>4. CASE FinishImage
    BY <2>4 DEF FinishImage, EndFrame, NoWalkWhileSending, GotAllSoFar
  <2>5. CASE UNCHANGED deliveryVars
    BY <2>5 DEF deliveryVars, vars, listVars, DeliveryInv, NoWalkWhileSending, GotAllSoFar
  <2>6. QED
    BY <2>1, <2>2, <2>3, <2>4, <2>5 DEF DeliveryNext
<1>3. QED
  BY <1>1, <1>2 DEF DeliveryInv

(***************************************************************************)
(* Types are kept: links lead to elements or nowhere, and every session    *)
(* has a sequence of packets.                                              *)
(***************************************************************************)
THEOREM DeliveryTypeCorrect == DeliverySpec => []DeliveryTypeOK
<1>1. DeliveryInv => DeliveryTypeOK
  BY ListInvTypes DEF DeliveryInv, DeliveryTypeOK, IInv, PlayersOnly
<1>2. QED
  BY <1>1, InitDelivery, StepDelivery, PTL DEF DeliverySpec

(***************************************************************************)
(* Every session that played when an image was taken has been sent all its *)
(* packets, in order, when the image is done, and no other session any:    *)
(* following m_Next over a ring from which sessions were unlinked in the   *)
(* middle of walks misses none.                                            *)
(***************************************************************************)
THEOREM EverySessionGetsAllCorrect == DeliverySpec => []EverySessionGetsAll
<1>1. DeliveryInv => EverySessionGetsAll
  <2> SUFFICES ASSUME DeliveryInv, pc = "end", NEW c \in ToSet(order)
               PROVE  received[c] = IF c \in playing THEN packets ELSE <<>>
    BY DEF EverySessionGetsAll
  <2>1. DOMAIN order = 1 .. Len(order) /\ ToSet(order) \subseteq Clients
    BY DEF DeliveryInv, ListInv, OrderOK, ToSet
  <2>2. c \in playing => received[c] = packets
    <3>1. PICK k \in 1 .. Len(order) : c = order[k]
      BY <2>1 DEF ToSet
    <3>2. QED
      BY <3>1 DEF DeliveryInv, GotAllSoFar
  <2>3. c \notin playing => received[c] = <<>>
    BY <2>1 DEF DeliveryInv, PlayersOnly
  <2>4. QED
    BY <2>2, <2>3
<1>2. QED
  BY <1>1, InitDelivery, StepDelivery, PTL DEF DeliverySpec
=============================================================================

----------------------------- MODULE SessionList ----------------------------
(***************************************************************************)
(* LinkedListElement.h and the two loops of CStreamer.cpp that walk it:    *)
(* the ring of sessions that hangs off m_Clients.  A session links itself  *)
(* in when it is constructed and out when it is deleted, which happens in  *)
(* the middle of CStreamer::handleRequests' walk over the same ring.       *)
(***************************************************************************)
EXTENDS Integers, Sequences, SequencesExt

CONSTANTS
    Clients,    \* sessions that may exist
    ListHead,   \* the element m_Clients itself
    Dangling    \* what the links of a deleted session are worth

VARIABLES
    next,       \* m_Next of every element
    prev,       \* m_Prev of every element
    element,    \* the loop variable of the walk; ListHead ends it
    order,      \* history: the live sessions in the order they were added
    toVisit     \* history: the sessions the present walk has still to visit

vars == <<next, prev, element, order, toVisit>>

Elements == Clients \cup {ListHead}

TypeOK == /\ next \in [Elements -> Elements \cup {Dangling}]
          /\ prev \in [Elements -> Elements \cup {Dangling}]
          /\ element \in Elements
          /\ order \in Seq(Clients)
          /\ toVisit \in Seq(Clients)

Init == /\ next = [e \in Elements |-> IF e = ListHead THEN ListHead ELSE Dangling]
        /\ prev = [e \in Elements |-> IF e = ListHead THEN ListHead ELSE Dangling]
        /\ element = ListHead
        /\ order = <<>>
        /\ toVisit = <<>>

\* The elements of s without x.
Without(s, x) == LET p == CHOOSE k \in DOMAIN s : s[k] = x IN
                    [k \in 1 .. Len(s) - 1 |-> IF k < p THEN s[k] ELSE s[k + 1]]

(***************************************************************************)
(* LinkedListElement(list): add to the end of the list.  Sessions are      *)
(* added by loop() only between two walks.                                 *)
(***************************************************************************)
\* Mutant: the last element is not told of its new successor.
MutAdd(c) ==
    /\ element = ListHead
    /\ next[c] = Dangling
    /\ prev' = [prev EXCEPT ![c] = prev[ListHead], ![ListHead] = c]
    /\ next' = [next EXCEPT ![c] = ListHead, ![ListHead] = IF @ = ListHead THEN c ELSE @]
    /\ order' = Append(order, c)
    /\ UNCHANGED <<element, toVisit>>

Add(c) ==
    /\ element = ListHead
    /\ next[c] = Dangling
    /\ prev' = [prev EXCEPT ![c] = prev[ListHead], ![ListHead] = c]
    /\ next' = [next EXCEPT ![c] = ListHead, ![prev[ListHead]] = c]
    /\ order' = Append(order, c)
    /\ UNCHANGED <<element, toVisit>>

\* ~LinkedListElement: the neighbours are joined.
UnlinkedNext(c) == [next EXCEPT ![prev[c]] = next[c], ![c] = Dangling]
UnlinkedPrev(c) == [prev EXCEPT ![next[c]] = prev[c], ![c] = Dangling]

\* The walk of handleRequests starts at the first session.
StartWalk ==
    /\ element = ListHead
    /\ order # <<>>
    /\ element' = next[ListHead]
    /\ toVisit' = order
    /\ UNCHANGED <<next, prev, order>>

\* The session goes on: the walk advances.
VisitAndKeep ==
    /\ element \in Clients
    /\ element' = next[element]
    /\ toVisit' = Tail(toVisit)
    /\ UNCHANGED <<next, prev, order>>

\* Mutant: the session is deleted before the walk advances.
MutVisitAndDelete ==
    /\ element \in Clients
    /\ next' = UnlinkedNext(element)
    /\ prev' = UnlinkedPrev(element)
    /\ element' = next'[element]
    /\ order' = Without(order, element)
    /\ toVisit' = Tail(toVisit)

\* The session has stopped: the walk advances first, then it is deleted.
VisitAndDelete ==
    /\ element \in Clients
    /\ element' = next[element]
    /\ next' = UnlinkedNext(element)
    /\ prev' = UnlinkedPrev(element)
    /\ order' = Without(order, element)
    /\ toVisit' = Tail(toVisit)

Next == (\E c \in Clients : Add(c)) \/ StartWalk \/ VisitAndKeep \/ VisitAndDelete

Spec == Init /\ [][Next]_vars

-----------------------------------------------------------------------------
Ring == <<ListHead>> \o order

(***************************************************************************)
(* The links always form the ring of the live sessions in the order they   *)
(* were added, in both directions, whatever was deleted during a walk.     *)
(***************************************************************************)
LinksFormRing ==
    \A k \in 1 .. Len(Ring) :
       LET successor == IF k = Len(Ring) THEN ListHead ELSE Ring[k + 1] IN
          next[Ring[k]] = successor /\ prev[successor] = Ring[k]

(***************************************************************************)
(* A walk visits every session that was there when it started, once and in *)
(* order, and never a deleted one: it stands at the first session it has   *)
(* still to visit, or is over when none is left.                           *)
(***************************************************************************)
WalkVisitsAll ==
    element = IF toVisit = <<>> THEN ListHead ELSE Head(toVisit)
=============================================================================

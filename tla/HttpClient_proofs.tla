-------------------------- MODULE HttpClient_proofs --------------------------
(***************************************************************************)
(* Proofs about HttpClient, for any set of responses, any sketches and any *)
(* number of requests on a connection: the parser keeps its type, and the  *)
(* status that is returned is the one of the request's own response; so is *)
(* the body, unless a sketch adds headers of its own and does not stop().  *)
(***************************************************************************)
EXTENDS HttpClient, SequenceTheorems, WellFoundedInduction, TLAPS

\* What the parser has still to read.
Stream == rx \o net

\* Nothing else than w is ahead, and all of it unless the rest was late or lost.
Follows(w, stream, lost) ==
    \E t \in Seq(Tokens) : w = stream \o t /\ (lost = "no" => t = <<>>)

Left(w) == Follows(w, Stream, cut)

Line(q) == Cons("CR", Cons("LF", q))

Firsts == {"100", answer.code}

\* What comes behind the first status line: the response, or another line.
AfterLine(c, q) ==
    \/ c = answer.code /\ q = Rest(answer)
    \/ c = "100" /\ q # <<>> /\ Head(q) = "CR"

-----------------------------------------------------------------------------
(* The inductive invariant of the status.                                  *)

\* A status is known only after responseStatusCode has returned.
NoStatusYet == pc \in {"call", "status"} => status = 0

\* Before the status is read, and while it is: how far the parser has come.
AtCall == pc = "call" => parser.state = "eRequestSent" /\ Left(Wire(answer))

AtToken(c, q) ==
    \/ parser.state = "eRequestSent" /\ parser.code = 0 /\ Left(Cons("HTTP/", Cons(c, Line(q))))
    \/ parser.state = "eRequestSent" /\ c = "100" /\ Left(q)
    \/ parser.state = "eReadingStatusCode" /\ parser.code = 0 /\ Left(Cons(c, Line(q)))
    \/ parser.state = "eReadingStatusCode" /\ parser.code = Code(c) /\ Left(Line(q))
    \/ parser.state = "eStatusCodeRead" /\ parser.code = Code(c) /\ Left(Cons("LF", q))

AtStatus == pc = "status" =>
    \E c \in Firsts : \E q \in Seq(Tokens) : AfterLine(c, q) /\ AtToken(c, q)

\* Afterwards: a request that was not disturbed leaves the parser in the body.
Behind ==
    /\ pc = "skip" => parser.state \notin Idle
    /\ pc \in {"body", "stop"} => parser.state \in BodyStates
    /\ pc = "idle" => parser.state \in BodyStates \cup {"eIdle"}

IInv ==
    /\ TypeOK
    /\ NoStatusYet
    /\ clean = "yes" => AtCall /\ AtStatus /\ Behind
    /\ StatusIsOfRequest

-----------------------------------------------------------------------------
(* Recursion: what is true of a number if it is true of those below it.    *)

LEMMA StrongInduction ==
    ASSUME NEW S, \A n \in Nat : (\A m \in 0 .. n - 1 : m \in S) => n \in S
    PROVE  \A n \in Nat : n \in S
<1> DEFINE Less == OpToRel(<, Nat)
           T == Nat \ S
<1> SUFFICES ASSUME T # {} PROVE FALSE
  OBVIOUS
<1>1. IsWellFoundedOn(Less, Nat)
  BY NatLessThanWellFounded
<1>2. T \subseteq Nat
  OBVIOUS
<1>3. \A m, n \in Nat : m < n => <<m, n>> \in Less
  BY DEF OpToRel
<1> HIDE DEF Less, T
<1>4. PICK n \in T : \A m \in T : ~ (<<m, n>> \in Less)
  BY <1>1, <1>2, WFMin
<1>5. n \in Nat /\ n \notin S
  BY <1>4 DEF T
<1>6. \A m \in 0 .. n - 1 : m \in Nat /\ m < n
  BY <1>5
<1>7. \A m \in 0 .. n - 1 : m \in S
  BY <1>3, <1>4, <1>5, <1>6 DEF T
<1> QED
  BY <1>5, <1>7

-----------------------------------------------------------------------------
(* Numerals. *)

\* The sequence of digits d, read after the digits of v, is the number n.
ReadsAs(d, base, v, n) ==
    \E a \in [0 .. Len(d) -> Nat] :
        /\ a[0] = v /\ a[Len(d)] = n
        /\ \A i \in 1 .. Len(d) : a[i] = a[i - 1] * base + Digit(d[i])

LEMMA DigitFacts ==
    /\ \A k \in 0 .. 15 : DigitOf(k) \in HexDigits /\ Digit(DigitOf(k)) = k
    /\ \A k \in 0 .. 9 : DigitOf(k) \in Digits
    /\ Digits \subseteq HexDigits /\ HexDigits \subseteq Tokens
    /\ \A t \in HexDigits : Digit(t) \in 0 .. 15
    /\ "CR" \notin HexDigits /\ "LF" \notin HexDigits /\ DigitOf(0) = "0"
<1>1. \A j, k \in 0 .. 15 : DigitOf(j) = DigitOf(k) => j = k
  BY DEF DigitOf
<1>2. \A k \in 0 .. 15 : Digit(DigitOf(k)) = k
  BY <1>1 DEF Digit
<1>3. \A k \in 0 .. 15 : DigitOf(k) # "CR" /\ DigitOf(k) # "LF"
  BY DEF DigitOf
<1>4. DigitOf(0) = "0"
  BY DEF DigitOf
<1>5. HexDigits \subseteq Tokens
  BY DEF Tokens
<1>6. Digits \subseteq HexDigits
  <2>1. \A k \in 0 .. 9 : k \in 0 .. 15
    OBVIOUS
  <2> QED
    BY <2>1 DEF Digits, HexDigits
<1> QED
  BY <1>2, <1>3, <1>4, <1>5, <1>6 DEF Digits, HexDigits

\* What the recursive definition of a numeral means.
LEMMA NumeralRecursion ==
    ASSUME NEW n \in Nat, NEW base \in {10, 16}
    PROVE  \E f : /\ Numeral(n, base) = f[n]
                  /\ \A k \in 0 .. n : f[k] = IF k < base THEN <<DigitOf(k)>>
                                              ELSE Append(f[k \div base], DigitOf(k % base))
<1> DEFINE Is(f, m) == f = [k \in 0 .. m |-> IF k < base THEN <<DigitOf(k)>>
                                             ELSE Append(f[k \div base], DigitOf(k % base))]
           S == {m \in Nat : \E f : Is(f, m)}
<1>1. ASSUME NEW m \in Nat, \A l \in 0 .. m - 1 : l \in S PROVE m \in S
  <2>1. CASE m = 0
    <3> DEFINE g == [k \in 0 .. 0 |-> <<DigitOf(k)>>]
    <3>1. Is(g, 0)
      <4>1. [k \in 0 .. 0 |-> IF k < base THEN <<DigitOf(k)>>
                              ELSE Append(g[k \div base], DigitOf(k % base))] = g
        OBVIOUS
      <4> QED
        BY <4>1
    <3> QED
      BY <2>1, <3>1
  <2>2. CASE m # 0
    <3>1. m - 1 \in S
      <4>1. m - 1 \in 0 .. m - 1
        BY <2>2
      <4> HIDE DEF S
      <4> QED
        BY <1>1, <4>1
    <3>2. PICK f : Is(f, m - 1)
      BY <3>1
    <3> DEFINE g == [k \in 0 .. m |-> IF k < m THEN f[k]
                                      ELSE IF k < base THEN <<DigitOf(k)>>
                                      ELSE Append(f[k \div base], DigitOf(k % base))]
               h == [k \in 0 .. m |-> IF k < base THEN <<DigitOf(k)>>
                                      ELSE Append(g[k \div base], DigitOf(k % base))]
    <3>3. ASSUME NEW k \in 0 .. m PROVE g[k] = h[k]
      <4>1. k >= base => k \div base \in 0 .. k - 1
        OBVIOUS
      <4>2. k >= base => g[k \div base] = f[k \div base]
        BY <4>1
      <4>3. k < m => f[k] = IF k < base THEN <<DigitOf(k)>>
                            ELSE Append(f[k \div base], DigitOf(k % base))
        <5>1. k < m => k \in 0 .. m - 1
          OBVIOUS
        <5> QED
          BY <3>2, <5>1
      <4> QED
        BY <4>2, <4>3
    <3>4. g = h
      BY <3>3
    <3>5. Is(g, m)
      BY <3>4
    <3> QED
      BY <3>5
  <2> QED
    BY <2>1, <2>2
<1>2. n \in S
  <2> HIDE DEF S
  <2> QED
    BY <1>1, StrongInduction
<1> DEFINE F == CHOOSE f : Is(f, n)
<1>3. Is(F, n)
  BY <1>2
<1>4. Numeral(n, base) = F[n]
  BY DEF Numeral
<1> HIDE DEF F
<1>5. \A k \in 0 .. n : F[k] = IF k < base THEN <<DigitOf(k)>>
                               ELSE Append(F[k \div base], DigitOf(k % base))
  BY <1>3
<1> QED
  BY <1>4, <1>5

LEMMA ReadsNothing ==
    ASSUME NEW base \in {10, 16}, NEW v, NEW n, ReadsAs(<<>>, base, v, n)
    PROVE  v = n
BY DEF ReadsAs

LEMMA ReadsDigit ==
    ASSUME NEW k \in 0 .. 15, NEW base \in {10, 16}
    PROVE  ReadsAs(<<DigitOf(k)>>, base, 0, k)
<1> DEFINE a == [i \in 0 .. 1 |-> IF i = 0 THEN 0 ELSE k]
           d == <<DigitOf(k)>>
<1>1. Len(d) = 1 /\ d[1] = DigitOf(k) /\ Digit(d[1]) = k
  BY DigitFacts
<1>2. a \in [0 .. Len(d) -> Nat] /\ a[0] = 0 /\ a[Len(d)] = k
  BY <1>1
<1>3. \A i \in 1 .. Len(d) : a[i] = a[i - 1] * base + Digit(d[i])
  BY <1>1
<1> QED
  BY <1>2, <1>3 DEF ReadsAs

LEMMA ReadsAppend ==
    ASSUME NEW base \in {10, 16}, NEW d \in Seq(HexDigits), NEW q \in Nat, NEW r \in 0 .. base - 1,
           ReadsAs(d, base, 0, q)
    PROVE  ReadsAs(Append(d, DigitOf(r)), base, 0, q * base + r)
<1> DEFINE e == Append(d, DigitOf(r))
           n == q * base + r
<1>0. Len(d) \in Nat /\ r \in 0 .. 15
  OBVIOUS
<1>1. Len(e) = Len(d) + 1 /\ e[Len(e)] = DigitOf(r) /\ \A i \in 1 .. Len(d) : e[i] = d[i]
  BY <1>0, DigitFacts
<1>2. PICK a \in [0 .. Len(d) -> Nat] :
        /\ a[0] = 0 /\ a[Len(d)] = q
        /\ \A i \in 1 .. Len(d) : a[i] = a[i - 1] * base + Digit(d[i])
  BY DEF ReadsAs
<1>3. n \in Nat /\ Digit(DigitOf(r)) = r
  BY <1>0, DigitFacts
<1> HIDE DEF e, n
<1> DEFINE b == [i \in 0 .. Len(e) |-> IF i <= Len(d) THEN a[i] ELSE n]
<1>4. b \in [0 .. Len(e) -> Nat] /\ b[0] = 0 /\ b[Len(e)] = n
  BY <1>0, <1>1, <1>2, <1>3
<1>5. ASSUME NEW i \in 1 .. Len(e) PROVE b[i] = b[i - 1] * base + Digit(e[i])
  <2>1. CASE i <= Len(d)
    BY <1>0, <1>1, <1>2, <2>1
  <2>2. CASE i > Len(d)
    <3>1. i = Len(e) /\ i - 1 = Len(d)
      BY <1>0, <1>1, <2>2
    <3>2. b[i] = n /\ b[i - 1] = a[Len(d)]
      BY <1>0, <2>2, <3>1
    <3>3. b[i - 1] = q /\ Digit(e[i]) = r
      BY <1>1, <1>2, <1>3, <3>1, <3>2
    <3> QED
      BY <3>2, <3>3 DEF n
  <2> QED
    BY <1>0, <2>1, <2>2
<1>6. ReadsAs(e, base, 0, n)
  BY <1>4, <1>5 DEF ReadsAs
<1> QED
  BY <1>6 DEF e, n

\* A numeral is made of digits and is read as the number it stands for.
LEMMA NumeralReads ==
    ASSUME NEW n \in Nat, NEW base \in {10, 16}
    PROVE  /\ Numeral(n, base) \in Seq(IF base = 10 THEN Digits ELSE HexDigits)
           /\ ReadsAs(Numeral(n, base), base, 0, n)
<1> DEFINE D == IF base = 10 THEN Digits ELSE HexDigits
<1>1. PICK f : /\ Numeral(n, base) = f[n]
               /\ \A k \in 0 .. n : f[k] = IF k < base THEN <<DigitOf(k)>>
                                           ELSE Append(f[k \div base], DigitOf(k % base))
  BY NumeralRecursion
<1>2. D \subseteq HexDigits /\ \A k \in 0 .. base - 1 : DigitOf(k) \in D /\ k \in 0 .. 15
  BY DigitFacts
<1> HIDE DEF D
<1> DEFINE S == {k \in Nat : k <= n => f[k] \in Seq(D) /\ ReadsAs(f[k], base, 0, k)}
<1>3. ASSUME NEW k \in Nat, \A l \in 0 .. k - 1 : l \in S PROVE k \in S
  <2> SUFFICES ASSUME k <= n PROVE f[k] \in Seq(D) /\ ReadsAs(f[k], base, 0, k)
    OBVIOUS
  <2>1. CASE k < base
    <3>1. k \in 0 .. n /\ k \in 0 .. base - 1
      BY <2>1
    <3>2. f[k] = <<DigitOf(k)>>
      BY <1>1, <2>1, <3>1, Zenon
    <3> QED
      BY <1>2, <3>1, <3>2, ReadsDigit
  <2>2. CASE k >= base
    <3>0. k \in 0 .. n /\ ~(k < base)
      BY <2>2
    <3>1. f[k] = Append(f[k \div base], DigitOf(k % base))
      BY <1>1, <3>0, Zenon
    <3>2. /\ k \div base \in 0 .. k - 1 /\ k % base \in 0 .. base - 1
          /\ (k \div base) * base + (k % base) = k
      BY <2>2
    <3> DEFINE q == k \div base
               r == k % base
    <3>3. q \in S /\ q <= n /\ q \in Nat
      BY <1>3, <3>2
    <3>4. f[q] \in Seq(D) /\ ReadsAs(f[q], base, 0, q)
      BY <3>3
    <3>5. f[q] \in Seq(HexDigits)
      BY <1>2, <3>4, SeqMonotonic
    <3> HIDE DEF q, r
    <3>6. r \in 0 .. base - 1 /\ q * base + r = k
      BY <3>2 DEF q, r
    <3>7. ReadsAs(Append(f[q], DigitOf(r)), base, 0, q * base + r)
      BY <3>3, <3>4, <3>5, <3>6, ReadsAppend
    <3>8. Append(f[q], DigitOf(r)) \in Seq(D)
      BY <1>2, <3>4, <3>6
    <3> QED
      BY <3>1, <3>6, <3>7, <3>8 DEF q, r
  <2> QED
    BY <2>1, <2>2
<1>4. n \in S
  <2> HIDE DEF S
  <2> QED
    BY <1>3, StrongInduction
<1> QED
  BY <1>1, <1>4 DEF D

\* One digit is read.
LEMMA ReadsNext ==
    ASSUME NEW base \in {10, 16}, NEW d \in Seq(HexDigits), d # <<>>, NEW v \in Nat, NEW n,
           ReadsAs(d, base, v, n)
    PROVE  ReadsAs(Tail(d), base, v * base + Digit(Head(d)), n)
<1>1. Len(d) \in Nat /\ Len(d) > 0 /\ Head(d) = d[1] /\ Len(Tail(d)) = Len(d) - 1
  OBVIOUS
<1>2. \A i \in 1 .. Len(d) - 1 : Tail(d)[i] = d[i + 1]
  OBVIOUS
<1>3. PICK a \in [0 .. Len(d) -> Nat] :
        /\ a[0] = v /\ a[Len(d)] = n
        /\ \A i \in 1 .. Len(d) : a[i] = a[i - 1] * base + Digit(d[i])
  BY DEF ReadsAs
<1> DEFINE e == Tail(d)
           b == [i \in 0 .. Len(d) - 1 |-> a[i + 1]]
<1>4. b \in [0 .. Len(e) -> Nat] /\ b[Len(e)] = n
  BY <1>1, <1>3
<1>5. b[0] = v * base + Digit(Head(d))
  <2>1. a[1] = a[1 - 1] * base + Digit(d[1]) /\ b[0] = a[1]
    BY <1>1, <1>3
  <2> QED
    BY <1>1, <1>3, <2>1
<1>6. ASSUME NEW i \in 1 .. Len(e) PROVE b[i] = b[i - 1] * base + Digit(e[i])
  <2>1. i + 1 \in 1 .. Len(d) /\ e[i] = d[i + 1] /\ b[i] = a[i + 1] /\ b[i - 1] = a[i]
    BY <1>1, <1>2
  <2>2. a[i + 1] = a[(i + 1) - 1] * base + Digit(d[i + 1]) /\ (i + 1) - 1 = i
    BY <1>3, <2>1
  <2> QED
    BY <2>1, <2>2
<1> QED
  BY <1>4, <1>5, <1>6 DEF ReadsAs

-----------------------------------------------------------------------------
(* Concatenation of a sequence of sequences. *)

LEMMA FlattenRecursion ==
    ASSUME NEW s, NEW N \in Nat, Len(s) = N, N > 0
    PROVE  \E f : /\ FlattenSeq(s) = f[N]
                  /\ \A i \in 1 .. N : f[i] = IF i = 1 THEN s[i] ELSE f[i - 1] \o s[i]
<1> DEFINE Is(f, m) == f = [i \in 1 .. m |-> IF i = 1 THEN s[i] ELSE f[i - 1] \o s[i]]
           S == {m \in Nat : \E f : Is(f, m)}
<1>1. ASSUME NEW m \in Nat, \A l \in 0 .. m - 1 : l \in S PROVE m \in S
  <2>1. CASE m = 0
    <3> DEFINE g == [i \in 1 .. 0 |-> s[i]]
    <3>1. Is(g, 0)
      <4>1. [i \in 1 .. 0 |-> IF i = 1 THEN s[i] ELSE g[i - 1] \o s[i]] = g
        OBVIOUS
      <4> QED
        BY <4>1
    <3> QED
      BY <2>1, <3>1
  <2>2. CASE m # 0
    <3>1. m - 1 \in S
      <4>1. m - 1 \in 0 .. m - 1
        BY <2>2
      <4> HIDE DEF S
      <4> QED
        BY <1>1, <4>1
    <3>2. PICK f : Is(f, m - 1)
      BY <3>1
    <3> DEFINE g == [i \in 1 .. m |-> IF i < m THEN f[i] ELSE IF i = 1 THEN s[i] ELSE f[i - 1] \o s[i]]
               h == [i \in 1 .. m |-> IF i = 1 THEN s[i] ELSE g[i - 1] \o s[i]]
    <3>3. ASSUME NEW i \in 1 .. m PROVE g[i] = h[i]
      <4>1. i # 1 => i - 1 \in 1 .. m /\ i - 1 < m
        OBVIOUS
      <4>2. i # 1 => g[i - 1] = f[i - 1]
        BY <4>1
      <4>3. i < m => f[i] = IF i = 1 THEN s[i] ELSE f[i - 1] \o s[i]
        <5>1. i < m => i \in 1 .. m - 1
          OBVIOUS
        <5> QED
          BY <3>2, <5>1
      <4> QED
        BY <4>2, <4>3
    <3>4. g = h
      BY <3>3
    <3>5. Is(g, m)
      BY <3>4
    <3> QED
      BY <3>5
  <2> QED
    BY <2>1, <2>2
<1>2. N \in S
  <2> HIDE DEF S
  <2> QED
    BY <1>1, StrongInduction
<1> DEFINE F == CHOOSE f : Is(f, N)
<1>3. Is(F, N)
  BY <1>2
<1>4. FlattenSeq(s) = F[N]
  BY DEF FlattenSeq
<1> HIDE DEF F
<1>5. \A i \in 1 .. N : F[i] = IF i = 1 THEN s[i] ELSE F[i - 1] \o s[i]
  BY <1>3
<1> QED
  BY <1>4, <1>5

LEMMA FlattenType ==
    ASSUME NEW T, NEW s \in Seq(Seq(T))
    PROVE  FlattenSeq(s) \in Seq(T)
<1>1. CASE s = <<>>
  <2>1. FlattenSeq(s) = <<>>
    BY <1>1 DEF FlattenSeq
  <2> QED
    BY <2>1
<1>2. CASE s # <<>>
  <2> DEFINE N == Len(s)
  <2>1. N \in Nat /\ N > 0 /\ \A i \in 1 .. N : s[i] \in Seq(T)
    BY <1>2
  <2>2. PICK f : /\ FlattenSeq(s) = f[N]
                 /\ \A i \in 1 .. N : f[i] = IF i = 1 THEN s[i] ELSE f[i - 1] \o s[i]
    BY <2>1, FlattenRecursion
  <2> HIDE DEF N
  <2> DEFINE S == {i \in Nat : i \in 1 .. N => f[i] \in Seq(T)}
  <2>3. ASSUME NEW i \in Nat, \A l \in 0 .. i - 1 : l \in S PROVE i \in S
    <3> SUFFICES ASSUME i \in 1 .. N PROVE f[i] \in Seq(T)
      OBVIOUS
    <3>1. CASE i = 1
      BY <2>1, <2>2, <3>1
    <3>2. CASE i # 1
      <4>1. i - 1 \in 0 .. i - 1 /\ i - 1 \in 1 .. N
        BY <2>1, <3>2
      <4>2. f[i - 1] \in Seq(T)
        BY <2>3, <4>1
      <4>3. f[i] = f[i - 1] \o s[i] /\ s[i] \in Seq(T)
        BY <2>1, <2>2, <3>2
      <4> QED
        BY <4>2, <4>3, ConcatProperties
    <3> QED
      BY <3>1, <3>2
  <2>4. N \in S
    <3> HIDE DEF S
    <3> QED
      BY <2>1, <2>3, StrongInduction
  <2> QED
    BY <2>1, <2>2, <2>4
<1> QED
  BY <1>1, <1>2

\* The definition appends the last sequence; the first one can be taken off as well.
LEMMA FlattenFirst ==
    ASSUME NEW T, NEW s \in Seq(Seq(T)), s # <<>>
    PROVE  /\ Head(s) \in Seq(T) /\ Tail(s) \in Seq(Seq(T))
           /\ FlattenSeq(s) = Head(s) \o FlattenSeq(Tail(s))
<1> DEFINE N == Len(s)
           x == Head(s)
           t == Tail(s)
<1>1. N \in Nat /\ N > 0 /\ \A i \in 1 .. N : s[i] \in Seq(T)
  OBVIOUS
<1>2. x = s[1] /\ x \in Seq(T) /\ t \in Seq(Seq(T)) /\ Len(t) = N - 1
  OBVIOUS
<1>3. \A i \in 1 .. N - 1 : t[i] = s[i + 1] /\ t[i] \in Seq(T)
  BY <1>1, <1>2
<1>4. PICK f : /\ FlattenSeq(s) = f[N]
               /\ \A i \in 1 .. N : f[i] = IF i = 1 THEN s[i] ELSE f[i - 1] \o s[i]
  BY <1>1, FlattenRecursion
<1> HIDE DEF N, x, t
<1>5. CASE N = 1
  <2>1. FlattenSeq(s) = x
    BY <1>2, <1>4, <1>5
  <2>2. t = <<>> /\ FlattenSeq(t) = <<>>
    <3>1. t = <<>>
      BY <1>2, <1>5, EmptySeq
    <3> QED
      BY <3>1 DEF FlattenSeq
  <2> QED
    BY <1>2, <2>1, <2>2, ConcatEmptySeq DEF x, t
<1>6. CASE N # 1
  <2> DEFINE M == N - 1
  <2>1. M \in Nat /\ M > 0 /\ Len(t) = M
    BY <1>1, <1>2, <1>6
  <2>2. PICK g : /\ FlattenSeq(t) = g[M]
                 /\ \A i \in 1 .. M : g[i] = IF i = 1 THEN t[i] ELSE g[i - 1] \o t[i]
    <3> HIDE DEF M
    <3> QED
      BY <2>1, FlattenRecursion
  <2> DEFINE S == {i \in Nat : i \in 1 .. M => g[i] \in Seq(T) /\ f[i + 1] = x \o g[i]}
  <2>3. ASSUME NEW i \in Nat, \A l \in 0 .. i - 1 : l \in S PROVE i \in S
    <3> SUFFICES ASSUME i \in 1 .. M PROVE g[i] \in Seq(T) /\ f[i + 1] = x \o g[i]
      OBVIOUS
    <3>1. /\ i + 1 \in 1 .. N /\ i + 1 # 1 /\ (i + 1) - 1 = i /\ i \in 1 .. N
          /\ t[i] = s[i + 1] /\ t[i] \in Seq(T)
      BY <1>1, <1>3
    <3>2. f[i + 1] = f[i] \o t[i]
      BY <1>4, <3>1
    <3>3. CASE i = 1
      <4>1. f[i] = x /\ g[i] = t[i]
        BY <1>2, <1>4, <2>2, <3>1, <3>3
      <4> QED
        BY <3>1, <3>2, <4>1
    <3>4. CASE i # 1
      <4>1. i - 1 \in 0 .. i - 1 /\ i - 1 \in 1 .. M /\ (i - 1) + 1 = i
        BY <2>1, <3>4
      <4>2. g[i - 1] \in Seq(T) /\ f[i] = x \o g[i - 1]
        BY <2>3, <4>1
      <4>3. g[i] = g[i - 1] \o t[i]
        BY <2>2, <3>4
      <4>4. f[i + 1] = (x \o g[i - 1]) \o t[i]
        BY <3>2, <4>2
      <4>5. (x \o g[i - 1]) \o t[i] = x \o (g[i - 1] \o t[i])
        <5>1. \A u, v, w \in Seq(T) : (u \o v) \o w = u \o (v \o w)
          BY ConcatAssociative
        <5> QED
          BY <1>2, <3>1, <4>2, <5>1, Zenon
      <4>6. g[i - 1] \o t[i] \in Seq(T)
        BY <3>1, <4>2, ConcatProperties
      <4> QED
        BY <4>3, <4>4, <4>5, <4>6
    <3> QED
      BY <3>3, <3>4
  <2>4. M \in S
    <3> HIDE DEF S
    <3> QED
      BY <2>1, <2>3, StrongInduction
  <2>5. f[N] = x \o g[M]
    BY <1>1, <2>1, <2>4
  <2> QED
    BY <1>2, <1>4, <2>2, <2>5 DEF x, t
<1> QED
  BY <1>2, <1>5, <1>6 DEF x, t

-----------------------------------------------------------------------------
(* Sequences of tokens. *)

LEMMA ConsTokens ==
    \A a \in Tokens : \A s \in Seq(Tokens) :
        /\ Cons(a, s) \in Seq(Tokens) /\ Cons(a, s) # <<>>
        /\ Head(Cons(a, s)) = a /\ Tail(Cons(a, s)) = s
<1> TAKE a \in Tokens
<1> TAKE s \in Seq(Tokens)
<1> DEFINE c == Cons(a, s)
<1>1. c \in Seq(Tokens) /\ Len(c) = Len(s) + 1 /\ Len(s) \in Nat /\ c[1] = a
  BY DEF Cons
<1>2. \A i \in 1 .. Len(s) : c[i + 1] = s[i]
  BY DEF Cons
<1> HIDE DEF c
<1>3. c # <<>> /\ Head(c) = a
  BY <1>1
<1>4. Tail(c) \in Seq(Tokens) /\ Len(Tail(c)) = Len(s) /\ \A i \in 1 .. Len(s) : Tail(c)[i] = c[i + 1]
  BY <1>1, <1>3
<1>5. Tail(c) = s
  BY <1>2, <1>4, SeqEqual
<1> QED
  BY <1>1, <1>3, <1>5 DEF c

LEMMA ConsOfHead ==
    \A s \in Seq(Tokens) : s # <<>> =>
        Head(s) \in Tokens /\ Tail(s) \in Seq(Tokens) /\ s = Cons(Head(s), Tail(s))
<1> TAKE s \in Seq(Tokens)
<1> HAVE s # <<>>
<1>1. /\ Head(s) \in Tokens /\ Tail(s) \in Seq(Tokens) /\ Len(s) \in Nat /\ Len(s) > 0
      /\ Head(s) = s[1] /\ Len(Tail(s)) = Len(s) - 1
      /\ \A i \in 1 .. Len(s) - 1 : Tail(s)[i] = s[i + 1]
  OBVIOUS
<1> DEFINE c == <<Head(s)>> \o Tail(s)
<1>2. c \in Seq(Tokens) /\ Len(c) = Len(s) /\ c[1] = s[1]
  BY <1>1
<1>3. \A i \in 2 .. Len(s) : c[i] = Tail(s)[i - 1]
  BY <1>1
<1>4. \A i \in 1 .. Len(s) : c[i] = s[i]
  <2> TAKE i \in 1 .. Len(s)
  <2>1. CASE i = 1
    BY <1>2, <2>1
  <2>2. CASE i # 1
    <3>1. i \in 2 .. Len(s) /\ i - 1 \in 1 .. Len(s) - 1 /\ (i - 1) + 1 = i
      BY <1>1, <2>2
    <3> QED
      BY <1>1, <1>3, <3>1
  <2> QED
    BY <2>1, <2>2
<1>5. c = s
  BY <1>2, <1>4, SeqEqual
<1> QED
  BY <1>1, <1>5 DEF Cons

LEMMA Concat ==
    /\ \A s, t \in Seq(Tokens) : s \o t \in Seq(Tokens) /\ Len(s \o t) = Len(s) + Len(t)
    /\ \A s \in Seq(Tokens) : s \o <<>> = s /\ <<>> \o s = s
    /\ \A s, t \in Seq(Tokens) : s \o t = <<>> => s = <<>> /\ t = <<>>
    /\ <<>> \in Seq(Tokens)
BY ConcatProperties, ConcatEmptySeq, ConcatEqualIffEmpty

LEMMA Assoc == \A s, t, u \in Seq(Tokens) : (s \o t) \o u = s \o (t \o u)
BY ConcatAssociative

LEMMA ConsConcat ==
    \A a \in Tokens : \A s, t \in Seq(Tokens) : Cons(a, s) \o t = Cons(a, s \o t)
<1> TAKE a \in Tokens
<1> TAKE s, t \in Seq(Tokens)
<1>1. <<a>> \in Seq(Tokens)
  OBVIOUS
<1> QED
  BY <1>1, Assoc, Zenon DEF Cons

LEMMA TokenFacts ==
    /\ "CR" \in Tokens /\ "LF" \in Tokens /\ "HTTP/" \in Tokens
    /\ "x" \in Tokens /\ "Content-Length: " \in Tokens /\ "Transfer-Encoding: chunked" \in Tokens
    /\ Codes \subseteq Tokens /\ HexDigits \subseteq Tokens
BY DEF Tokens

LEMMA LineTokens ==
    \A q \in Seq(Tokens) : Line(q) \in Seq(Tokens) /\ Cons("LF", q) \in Seq(Tokens)
<1> TAKE q \in Seq(Tokens)
<1>1. Cons("LF", q) \in Seq(Tokens)
  BY TokenFacts, ConsTokens
<1>2. Line(q) \in Seq(Tokens)
  BY <1>1, TokenFacts, ConsTokens DEF Line
<1> QED
  BY <1>1, <1>2

LEMMA LineEnd ==
    /\ <<"CR", "LF">> \in Seq(Tokens)
    /\ \A q \in Seq(Tokens) : <<"CR", "LF">> \o q = Line(q)
<1>1. "CR" \in Tokens /\ "LF" \in Tokens
  BY TokenFacts
<1>2. <<"CR", "LF">> \in Seq(Tokens) /\ <<"LF">> \in Seq(Tokens)
  BY <1>1
<1>3. <<"CR", "LF">> = Cons("CR", <<"LF">>)
  BY DEF Cons
<1>4. ASSUME NEW q \in Seq(Tokens) PROVE <<"CR", "LF">> \o q = Line(q)
  <2>1. Cons("CR", <<"LF">>) \o q = Cons("CR", <<"LF">> \o q)
    BY <1>1, <1>2, ConsConcat, Zenon
  <2> QED
    BY <1>3, <2>1 DEF Line, Cons
<1> QED
  BY <1>2, <1>4

-----------------------------------------------------------------------------
(* What the server sends. *)

LEMMA BodyTokens ==
    ASSUME NEW chunks \in Seq(Seq(Tokens) \ {<<>>})
    PROVE  chunks \in Seq(Seq(Tokens)) /\ FlattenSeq(chunks) \in Seq(Tokens)
<1>1. Seq(Tokens) \ {<<>>} \subseteq Seq(Tokens)
  OBVIOUS
<1>2. chunks \in Seq(Seq(Tokens))
  BY <1>1, SeqMonotonic
<1> QED
  BY <1>2, FlattenType

\* A chunk, and what follows it.
LEMMA ChunkIs ==
    ASSUME NEW data \in Seq(Tokens)
    PROVE  /\ Chunk(data) \in Seq(Tokens)
           /\ Numeral(Len(data), 16) \in Seq(HexDigits) /\ Numeral(Len(data), 16) \in Seq(Tokens)
           /\ \A q \in Seq(Tokens) :
                 Chunk(data) \o q = Numeral(Len(data), 16) \o Line(data \o Line(q))
<1> DEFINE n == Numeral(Len(data), 16)
           crlf == <<"CR", "LF">>
<1>1. Len(data) \in Nat
  OBVIOUS
<1>2. n \in Seq(HexDigits)
  BY <1>1, NumeralReads
<1>3. n \in Seq(Tokens)
  BY <1>2, TokenFacts, SeqMonotonic
<1>4. crlf \in Seq(Tokens)
  BY LineEnd
<1>5. Chunk(data) = ((n \o crlf) \o data) \o crlf
  BY DEF Chunk
<1> HIDE DEF n, crlf
<1>6. Chunk(data) \in Seq(Tokens)
  BY <1>3, <1>4, <1>5, Concat
<1>7. ASSUME NEW q \in Seq(Tokens) PROVE Chunk(data) \o q = n \o Line(data \o Line(q))
  <2>1. crlf \o q \in Seq(Tokens) /\ n \o crlf \in Seq(Tokens) /\ (n \o crlf) \o data \in Seq(Tokens)
    BY <1>3, <1>4, Concat
  <2>2. Chunk(data) \o q = ((n \o crlf) \o data) \o (crlf \o q)
    <3>1. Chunk(data) \o q = (((n \o crlf) \o data) \o crlf) \o q
      BY <1>5
    <3> QED
      BY <1>4, <2>1, <3>1, Assoc, Zenon
  <2>3. ((n \o crlf) \o data) \o (crlf \o q) = (n \o crlf) \o (data \o (crlf \o q))
    BY <2>1, Assoc, Zenon
  <2>4. data \o (crlf \o q) \in Seq(Tokens)
    BY <2>1, Concat
  <2>5. (n \o crlf) \o (data \o (crlf \o q)) = n \o (crlf \o (data \o (crlf \o q)))
    BY <1>3, <1>4, <2>4, Assoc, Zenon
  <2>6. \A s \in Seq(Tokens) : crlf \o s = Line(s)
    BY LineEnd DEF crlf
  <2> QED
    BY <2>2, <2>3, <2>4, <2>5, <2>6
<1> QED
  BY <1>2, <1>3, <1>6, <1>7 DEF n

\* What is sent if no chunk is left, and if one is.
LEMMA ChunkedIs ==
    ASSUME NEW chunks \in Seq(Seq(Tokens) \ {<<>>})
    PROVE  /\ Chunked(chunks) \in Seq(Tokens)
           /\ chunks = <<>> => /\ Chunked(chunks) \in Seq({"0", "CR", "LF"})
                               /\ FlattenSeq(chunks) = <<>>
           /\ chunks # <<>> =>
                /\ Head(chunks) \in Seq(Tokens) \ {<<>>} /\ Tail(chunks) \in Seq(Seq(Tokens) \ {<<>>})
                /\ FlattenSeq(chunks) = Head(chunks) \o FlattenSeq(Tail(chunks))
                /\ Chunked(chunks) = Chunk(Head(chunks)) \o Chunked(Tail(chunks))
<1> DEFINE wire(c) == [k \in DOMAIN c |-> Chunk(c[k])]
           last == Chunk(<<>>)
<1>0. <<>> \in Seq(Tokens)
  OBVIOUS
<1>1. last \in Seq(Tokens)
  BY <1>0, ChunkIs
<1>2. ASSUME NEW c \in Seq(Seq(Tokens) \ {<<>>})
      PROVE  /\ wire(c) \in Seq(Seq(Tokens)) /\ Len(wire(c)) = Len(c) /\ Len(c) \in Nat
             /\ \A k \in 1 .. Len(c) : wire(c)[k] = Chunk(c[k])
  <2>1. \A k \in 1 .. Len(c) : Chunk(c[k]) \in Seq(Tokens)
    <3> TAKE k \in 1 .. Len(c)
    <3>1. c[k] \in Seq(Tokens)
      OBVIOUS
    <3> QED
      BY <3>1, ChunkIs
  <2>2. DOMAIN c = 1 .. Len(c) /\ Len(c) \in Nat
    BY LenProperties
  <2> QED
    BY <2>1, <2>2
<1>3. \A c \in Seq(Seq(Tokens) \ {<<>>}) : Chunked(c) = FlattenSeq(wire(c)) \o last
  BY DEF Chunked
<1>4. \A c \in Seq(Seq(Tokens) \ {<<>>}) : FlattenSeq(wire(c)) \in Seq(Tokens)
  <2> TAKE c \in Seq(Seq(Tokens) \ {<<>>})
  <2>1. wire(c) \in Seq(Seq(Tokens))
    BY <1>2
  <2> HIDE DEF wire
  <2> QED
    BY <2>1, FlattenType
<1>5. Chunked(chunks) \in Seq(Tokens)
  <2>1. FlattenSeq(wire(chunks)) \in Seq(Tokens) /\ Chunked(chunks) = FlattenSeq(wire(chunks)) \o last
    BY <1>3, <1>4
  <2> DEFINE f == FlattenSeq(wire(chunks))
  <2>2. f \in Seq(Tokens) /\ Chunked(chunks) = f \o last
    BY <2>1
  <2> HIDE DEF f, last
  <2>3. f \o last \in Seq(Tokens)
    BY <1>1, <2>2, Concat
  <2> QED
    BY <2>2, <2>3
<1>6. ASSUME chunks = <<>>
      PROVE  Chunked(chunks) \in Seq({"0", "CR", "LF"}) /\ FlattenSeq(chunks) = <<>>
  <2>1. FlattenSeq(chunks) = <<>>
    BY <1>6 DEF FlattenSeq
  <2>2. wire(chunks) = <<>>
    BY <1>6
  <2>3. FlattenSeq(wire(chunks)) = <<>>
    BY <2>2 DEF FlattenSeq
  <2>4. Chunked(chunks) = last
    <3> HIDE DEF wire, last
    <3> QED
      BY <1>1, <1>3, <2>3, Concat, Zenon
  <2>5. Numeral(0, 16) = <<"0">>
    <3>1. PICK f : /\ Numeral(0, 16) = f[0]
                   /\ \A k \in 0 .. 0 : f[k] = IF k < 16 THEN <<DigitOf(k)>>
                                               ELSE Append(f[k \div 16], DigitOf(k % 16))
      BY NumeralRecursion
    <3>2. f[0] = <<DigitOf(0)>>
      BY <3>1
    <3> QED
      BY <3>1, <3>2, DigitFacts
  <2>6. last = <<"0">> \o <<"CR", "LF">> \o <<>> \o <<"CR", "LF">>
    BY <2>5 DEF Chunk
  <2>7. last \in Seq({"0", "CR", "LF"})
    <3> HIDE DEF last
    <3>1. /\ <<"0">> \in Seq({"0", "CR", "LF"}) /\ <<"CR", "LF">> \in Seq({"0", "CR", "LF"})
          /\ <<>> \in Seq({"0", "CR", "LF"})
      OBVIOUS
    <3> QED
      BY <2>6, <3>1, ConcatProperties
  <2> QED
    BY <2>1, <2>4, <2>7
<1>7. ASSUME chunks # <<>>
      PROVE  /\ Head(chunks) \in Seq(Tokens) \ {<<>>} /\ Tail(chunks) \in Seq(Seq(Tokens) \ {<<>>})
             /\ FlattenSeq(chunks) = Head(chunks) \o FlattenSeq(Tail(chunks))
             /\ Chunked(chunks) = Chunk(Head(chunks)) \o Chunked(Tail(chunks))
  <2>1. /\ Head(chunks) \in Seq(Tokens) \ {<<>>} /\ Tail(chunks) \in Seq(Seq(Tokens) \ {<<>>})
        /\ Len(chunks) > 0 /\ Len(chunks) \in Nat /\ Head(chunks) = chunks[1]
        /\ Len(Tail(chunks)) = Len(chunks) - 1
        /\ \A k \in 1 .. Len(chunks) - 1 : Tail(chunks)[k] = chunks[k + 1]
    BY <1>7
  <2>2. FlattenSeq(chunks) = Head(chunks) \o FlattenSeq(Tail(chunks))
    BY <1>7, BodyTokens, FlattenFirst
  <2> DEFINE w == wire(chunks)
             v == wire(Tail(chunks))
  <2>3. /\ w \in Seq(Seq(Tokens)) /\ Len(w) = Len(chunks)
        /\ \A k \in 1 .. Len(chunks) : w[k] = Chunk(chunks[k])
    BY <1>2
  <2>4. /\ v \in Seq(Seq(Tokens)) /\ Len(v) = Len(chunks) - 1
        /\ \A k \in 1 .. Len(chunks) - 1 : v[k] = Chunk(Tail(chunks)[k])
    BY <1>2, <2>1
  <2>5. /\ FlattenSeq(v) \in Seq(Tokens) /\ Chunked(chunks) = FlattenSeq(w) \o last
        /\ Chunked(Tail(chunks)) = FlattenSeq(v) \o last
    BY <1>3, <1>4, <2>1
  <2> HIDE DEF w, v
  <2>6. w # <<>> /\ Head(w) = Chunk(Head(chunks))
    BY <2>1, <2>3
  <2>7. Tail(w) = v
    <3>1. /\ Tail(w) \in Seq(Seq(Tokens)) /\ Len(Tail(w)) = Len(v)
          /\ \A k \in 1 .. Len(v) : Tail(w)[k] = w[k + 1]
      BY <2>3, <2>4, <2>6
    <3>2. \A k \in 1 .. Len(v) : w[k + 1] = Chunk(chunks[k + 1]) /\ v[k] = Chunk(chunks[k + 1])
      <4> TAKE k \in 1 .. Len(v)
      <4>1. k \in 1 .. Len(chunks) - 1 /\ k + 1 \in 1 .. Len(chunks)
        BY <2>1, <2>4
      <4>2. Tail(chunks)[k] = chunks[k + 1]
        BY <2>1, <4>1
      <4>3. v[k] = Chunk(Tail(chunks)[k])
        BY <2>4, <4>1
      <4>4. w[k + 1] = Chunk(chunks[k + 1])
        BY <2>3, <4>1
      <4> QED
        BY <4>2, <4>3, <4>4
    <3> QED
      BY <2>4, <3>1, <3>2, SeqEqual
  <2>8. FlattenSeq(w) = Chunk(Head(chunks)) \o FlattenSeq(v)
    BY <2>3, <2>6, <2>7, FlattenFirst
  <2>9. Chunk(Head(chunks)) \in Seq(Tokens)
    BY <2>1, ChunkIs
  <2>10. Chunked(chunks) = (Chunk(Head(chunks)) \o FlattenSeq(v)) \o last
    BY <2>5, <2>8
  <2> HIDE DEF last
  <2>11. Chunked(chunks) = Chunk(Head(chunks)) \o (FlattenSeq(v) \o last)
    BY <1>1, <2>5, <2>9, <2>10, Assoc, Zenon
  <2> QED
    BY <2>1, <2>2, <2>5, <2>11
<1> QED
  BY <1>5, <1>6, <1>7

LEMMA PayloadTokens ==
    ASSUME NEW r \in Responses
    PROVE  /\ r.chunks \in Seq(Seq(Tokens) \ {<<>>})
           /\ Body(r) \in Seq(Tokens) /\ Len(Body(r)) \in Nat /\ Payload(r) \in Seq(Tokens)
           /\ r.code \in {"200", "404"} /\ r.framing \in {"length", "chunked", "close"}
<1>1. /\ r.chunks \in Seq(Seq(Tokens) \ {<<>>})
      /\ r.code \in {"200", "404"} /\ r.framing \in {"length", "chunked", "close"}
  BY ResponsesAssumption
<1>2. Body(r) \in Seq(Tokens) /\ Chunked(r.chunks) \in Seq(Tokens)
  BY <1>1, BodyTokens, ChunkedIs DEF Body
<1> QED
  BY <1>1, <1>2 DEF Payload

LEMMA RestIs ==
    ASSUME NEW r \in Responses
    PROVE  LET end == Line(Line(Payload(r))) IN
             /\ Rest(r) \in Seq(Tokens) /\ end \in Seq(Tokens)
             /\ r.framing = "length" => /\ Numeral(Len(Body(r)), 10) \in Seq(Digits)
                                        /\ Numeral(Len(Body(r)), 10) \in Seq(Tokens)
                                        /\ Rest(r) = Cons("Content-Length: ", Numeral(Len(Body(r)), 10) \o end)
             /\ r.framing = "chunked" => Rest(r) = Cons("Transfer-Encoding: chunked", end)
             /\ r.framing = "close" => Rest(r) = Cons("x", end)
<1> DEFINE end == Line(Line(Payload(r)))
           crlf == <<"CR", "LF">>
           n == Numeral(Len(Body(r)), 10)
<1>1. Payload(r) \in Seq(Tokens) /\ Len(Body(r)) \in Nat /\ r.framing \in {"length", "chunked", "close"}
  BY PayloadTokens
<1>2. Line(Payload(r)) \in Seq(Tokens) /\ end \in Seq(Tokens)
  BY <1>1, LineTokens
<1>3. /\ crlf \in Seq(Tokens) /\ crlf \o Payload(r) = Line(Payload(r))
      /\ crlf \o Line(Payload(r)) = end
  BY <1>1, <1>2, LineEnd
<1>4. n \in Seq(Digits) /\ n \in Seq(Tokens)
  <2>1. n \in Seq(Digits) /\ Digits \subseteq Tokens
    BY <1>1, NumeralReads, DigitFacts
  <2> QED
    BY <2>1, SeqMonotonic
<1>5. ASSUME NEW f \in Seq(Tokens), Framing(r) = f \o crlf
      PROVE  Rest(r) = f \o end
  <2>1. Rest(r) = ((f \o crlf) \o crlf) \o Payload(r)
    BY <1>5 DEF Rest
  <2>2. f \o crlf \in Seq(Tokens)
    BY <1>3, <1>5, Concat
  <2> HIDE DEF crlf, end
  <2>3. ((f \o crlf) \o crlf) \o Payload(r) = (f \o crlf) \o (crlf \o Payload(r))
    BY <1>1, <1>3, <2>2, Assoc, Zenon
  <2>4. (f \o crlf) \o Line(Payload(r)) = f \o (crlf \o Line(Payload(r)))
    BY <1>2, <1>3, <1>5, Assoc, Zenon
  <2> QED
    BY <1>3, <2>1, <2>3, <2>4
<1>6. CASE r.framing = "length"
  <2> DEFINE h == <<"Content-Length: ">>
  <2>1. h \in Seq(Tokens)
    <3>1. "Content-Length: " \in Tokens
      BY TokenFacts
    <3>2. \A a \in Tokens : <<a>> \in Seq(Tokens)
      OBVIOUS
    <3> QED
      BY <3>1, <3>2, Zenon
  <2>2. Framing(r) = (h \o n) \o crlf
    BY <1>6 DEF Framing
  <2> HIDE DEF h, n, end, crlf
  <2>3. h \o n \in Seq(Tokens)
    BY <1>4, <2>1, Concat
  <2>4. Rest(r) = (h \o n) \o end
    BY <1>5, <2>2, <2>3
  <2>5. Rest(r) = h \o (n \o end)
    BY <1>2, <1>4, <2>1, <2>4, Assoc, Zenon
  <2>6. Rest(r) \in Seq(Tokens)
    BY <1>2, <2>3, <2>4, Concat
  <2> QED
    BY <1>2, <1>4, <1>6, <2>5, <2>6 DEF Cons, h, n, end
<1>7. CASE r.framing # "length"
  <2> DEFINE a == IF r.framing = "chunked" THEN "Transfer-Encoding: chunked" ELSE "x"
  <2>1. a \in Tokens
    BY TokenFacts
  <2>2. Framing(r) = <<a, "CR", "LF">>
    BY <1>1, <1>7 DEF Framing
  <2> HIDE DEF a
  <2>3. <<a>> \in Seq(Tokens) /\ <<a, "CR", "LF">> = <<a>> \o crlf
    BY <2>1
  <2>4. Rest(r) = <<a>> \o end
    BY <1>5, <2>2, <2>3
  <2>5. Rest(r) \in Seq(Tokens)
    BY <1>2, <2>3, <2>4, Concat
  <2> QED
    BY <1>1, <1>2, <1>7, <2>4, <2>5 DEF Cons, a
<1> QED
  BY <1>6, <1>7

\* Every response starts with a status line, which something follows.
LEMMA WireOpens ==
    ASSUME NEW r \in Responses
    PROVE  /\ Wire(r) \in Seq(Tokens)
           /\ \E c \in {"100", r.code} : \E q \in Seq(Tokens) :
                 /\ \/ c = r.code /\ q = Rest(r)
                    \/ c = "100" /\ q # <<>> /\ Head(q) = "CR"
                 /\ Wire(r) = Cons("HTTP/", Cons(c, Line(q)))
<1>1. r.code \in {"200", "404"} /\ Rest(r) \in Seq(Tokens)
  BY PayloadTokens, RestIs
<1>2. ASSUME NEW c \in {"100", "200", "404"}
      PROVE  /\ StatusLine(c) \in Seq(Tokens)
             /\ \A q \in Seq(Tokens) : StatusLine(c) \o q = Cons("HTTP/", Cons(c, Line(q)))
  <2>1. c \in Tokens /\ "HTTP/" \in Tokens
    BY TokenFacts DEF Codes
  <2>2. <<"CR", "LF">> \in Seq(Tokens)
    BY LineEnd
  <2>3. Cons(c, <<"CR", "LF">>) \in Seq(Tokens)
    BY <2>1, <2>2, ConsTokens
  <2>4. StatusLine(c) = Cons("HTTP/", Cons(c, <<"CR", "LF">>))
    BY DEF StatusLine, Cons
  <2>5. StatusLine(c) \in Seq(Tokens)
    BY <2>1, <2>3, <2>4, ConsTokens
  <2>6. ASSUME NEW q \in Seq(Tokens)
        PROVE  StatusLine(c) \o q = Cons("HTTP/", Cons(c, Line(q)))
    <3>1. Cons("HTTP/", Cons(c, <<"CR", "LF">>)) \o q = Cons("HTTP/", Cons(c, <<"CR", "LF">>) \o q)
      BY <2>1, <2>3, ConsConcat, Zenon
    <3>2. Cons(c, <<"CR", "LF">>) \o q = Cons(c, <<"CR", "LF">> \o q)
      BY <2>1, <2>2, ConsConcat, Zenon
    <3> QED
      BY <2>4, <3>1, <3>2, LineEnd
  <2> QED
    BY <2>5, <2>6
<1>3. CASE r.interim = "yes"
  <2> DEFINE crlf == <<"CR", "LF">>
             q == Line(StatusLine(r.code) \o Rest(r))
  <2>1. /\ crlf \in Seq(Tokens) /\ StatusLine("100") \in Seq(Tokens) /\ StatusLine(r.code) \in Seq(Tokens)
        /\ StatusLine(r.code) \o Rest(r) \in Seq(Tokens)
    BY <1>1, <1>2, LineEnd, Concat
  <2>2. Wire(r) = ((StatusLine("100") \o crlf) \o StatusLine(r.code)) \o Rest(r)
    BY <1>3 DEF Wire
  <2>3. q \in Seq(Tokens) /\ q = crlf \o (StatusLine(r.code) \o Rest(r)) /\ q # <<>> /\ Head(q) = "CR"
    BY <2>1, LineTokens, LineEnd, TokenFacts, ConsTokens DEF Line
  <2> HIDE DEF crlf, q
  <2>4. Wire(r) = StatusLine("100") \o (crlf \o (StatusLine(r.code) \o Rest(r)))
    <3>1. StatusLine("100") \o crlf \in Seq(Tokens)
      BY <2>1, Concat
    <3>2. Wire(r) = (StatusLine("100") \o crlf) \o (StatusLine(r.code) \o Rest(r))
      BY <1>1, <2>1, <2>2, <3>1, Assoc, Zenon
    <3> QED
      BY <2>1, <3>2, Assoc, Zenon
  <2>5. Wire(r) = Cons("HTTP/", Cons("100", Line(q)))
    BY <1>2, <2>3, <2>4
  <2>6. Wire(r) \in Seq(Tokens)
    BY <2>1, <2>3, <2>4, Concat
  <2> QED
    BY <2>3, <2>5, <2>6
<1>4. CASE r.interim # "yes"
  <2>1. Wire(r) = StatusLine(r.code) \o Rest(r)
    BY <1>4 DEF Wire
  <2>2. StatusLine(r.code) \in Seq(Tokens)
    BY <1>1, <1>2
  <2>3. Wire(r) \in Seq(Tokens)
    BY <1>1, <2>1, <2>2, Concat
  <2>4. Wire(r) = Cons("HTTP/", Cons(r.code, Line(Rest(r))))
    BY <1>1, <1>2, <2>1
  <2> QED
    BY <1>1, <2>3, <2>4
<1> QED
  BY <1>3, <1>4

LEMMA TailOfStream ==
    ASSUME rx \in Seq(Tokens), net \in Seq(Tokens), rx # <<>>
    PROVE  /\ Tail(rx) \in Seq(Tokens) /\ Head(rx) \in Tokens
           /\ Tail(rx) \o net = Tail(Stream)
           /\ Stream \in Seq(Tokens) /\ Stream # <<>> /\ Head(Stream) = Head(rx)
<1>1. Tail(rx) \in Seq(Tokens) /\ Head(rx) \in Tokens /\ Len(rx) > 0 /\ Len(Tail(rx)) = Len(rx) - 1
  OBVIOUS
<1>2. Stream \in Seq(Tokens) /\ Len(Stream) = Len(rx) + Len(net) /\ Stream[1] = rx[1]
  BY <1>1 DEF Stream
<1>3. Stream # <<>> /\ Head(Stream) = Head(rx)
  BY <1>1, <1>2
<1>4. Len(Tail(rx) \o net) = Len(Tail(Stream))
  BY <1>1, <1>2
<1>5. \A i \in 1 .. Len(Tail(Stream)) : (Tail(rx) \o net)[i] = Tail(Stream)[i]
  BY <1>1, <1>2 DEF Stream
<1>6. Tail(rx) \o net \in Seq(Tokens) /\ Tail(Stream) \in Seq(Tokens)
  BY <1>1, <1>2, <1>3
<1> QED
  BY <1>1, <1>2, <1>3, <1>4, <1>5, <1>6

LEMMA ArriveKeepsStream ==
    ASSUME rx \in Seq(Tokens), net \in Seq(Tokens), net # <<>>
    PROVE  Append(rx, Head(net)) \o Tail(net) = Stream
<1>1. Append(rx, Head(net)) \in Seq(Tokens) /\ Tail(net) \in Seq(Tokens) /\ Len(net) > 0
  OBVIOUS
<1>2. Len(Append(rx, Head(net)) \o Tail(net)) = Len(Stream)
  BY <1>1 DEF Stream
<1>3. \A i \in 1 .. Len(Stream) : (Append(rx, Head(net)) \o Tail(net))[i] = Stream[i]
  BY <1>1 DEF Stream
<1>4. Append(rx, Head(net)) \o Tail(net) \in Seq(Tokens) /\ Stream \in Seq(Tokens)
  BY <1>1 DEF Stream
<1> QED
  BY <1>2, <1>3, <1>4, SeqEqual

-----------------------------------------------------------------------------
(* Types.                                                                  *)

LEMMA CodesAndDigits ==
    /\ \A t \in Codes : Code(t) \in {100, 200, 404}
    /\ \A t \in HexDigits : Digit(t) \in Nat
    /\ \A t \in Digits : Digit(t) \in Nat
<1>1. \A t \in Codes : Code(t) \in {100, 200, 404}
  BY DEF Codes, Code
<1> QED
  BY <1>1, DigitFacts

LEMMA InitType == Init => TypeOK
<1> SUFFICES ASSUME Init PROVE TypeOK
  OBVIOUS
<1>1. ParserOK(parser)
  BY DEF Init, ParserOK, Parsers, Idle, kNoContentLengthHeader
<1>2. CallOK
  BY DEF Init, CallOK
<1>3. NetOK
  BY ReuseAssumption DEF Init, NetOK
<1> QED
  BY <1>1, <1>2, <1>3 DEF TypeOK

\* In these states nothing is said of chunks and lengths.
LEMMA ParserMoves ==
    ASSUME NEW p \in Parsers,
           NEW t \in {"eIdle", "eRequestStarted", "eRequestSent", "eReadingStatusCode", "eStatusCodeRead",
                     "eSkipToEndOfHeader", "eLineStartingCRFound", "eReadingBody"}
    PROVE  ParserOK([p EXCEPT !.state = t])
<1>1. [p EXCEPT !.state = t] \in Parsers
  BY DEF Parsers, Idle, HeaderStates, BodyStates
<1>2. [p EXCEPT !.state = t].state = t
  BY DEF Parsers
<1> QED
  BY <1>1, <1>2 DEF ParserOK

LEMMA ResetType == ParserOK(ResetState)
BY DEF ParserOK, ResetState, Parsers, Idle, kNoContentLengthHeader

LEMMA StartedType ==
    TypeOK => ParserOK(Started) /\ Started \in Parsers /\ Flushed \in Seq(Tokens)
<1> SUFFICES ASSUME TypeOK PROVE ParserOK(Started) /\ Started \in Parsers /\ Flushed \in Seq(Tokens)
  OBVIOUS
<1>1. ParserOK(Begun)
  <2>1. parser \in Parsers /\ ParserOK(parser)
    BY DEF TypeOK, ParserOK
  <2> QED
    BY <2>1, ParserMoves DEF Begun
<1>2. ParserOK(Started)
  BY <1>1, ResetType DEF Started
<1> QED
  BY <1>2 DEF ParserOK, TypeOK, NetOK, Flushed

LEMMA StartedSent == TypeOK => ParserOK([Started EXCEPT !.state = "eRequestSent"])
BY StartedType, ParserMoves

LEMMA RoundType == CallOK /\ StartRound => CallOK'
BY DEF CallOK, StartRound, kNoContentLengthHeader

LEMMA RequestType == TypeOK /\ Request => TypeOK'
<1> SUFFICES ASSUME TypeOK, Request PROVE TypeOK'
  OBVIOUS
<1>1. CallOK'
  BY RoundType DEF TypeOK, Request, RefuseRequest, ConnectFails, RequestOnNewConnection, RequestOnOpenConnection
<1>2. ParserOK(parser')
  BY StartedType, StartedSent
     DEF TypeOK, Request, RefuseRequest, ConnectFails, RequestOnNewConnection, RequestOnOpenConnection, SendRequest
<1>3. NetOK'
  <2>1. CASE RefuseRequest
    BY <2>1 DEF TypeOK, NetOK, RefuseRequest, netVars, history
  <2>2. CASE ConnectFails
    BY <2>2, ReuseAssumption DEF TypeOK, NetOK, ConnectFails
  <2>3. SendRequest => answer' \in Responses /\ Wire(answer') \in Seq(Tokens) /\ cut' = "no"
    BY WireOpens DEF SendRequest
  <2>4. CASE RequestOnNewConnection
    BY <2>3, <2>4, ReuseAssumption DEF NetOK, RequestOnNewConnection
  <2>5. CASE RequestOnOpenConnection
    <3>1. rx' \in Seq(Tokens) /\ net' \in Seq(Tokens)
      BY <2>3, <2>5, StartedType, ConcatProperties DEF TypeOK, NetOK, RequestOnOpenConnection
    <3>2. reused' \in 0 .. MaxReuse
      BY <2>5, ReuseAssumption DEF TypeOK, NetOK, RequestOnOpenConnection
    <3> QED
      BY <2>3, <2>5, <3>1, <3>2 DEF TypeOK, NetOK, RequestOnOpenConnection
  <2> QED
    BY <2>1, <2>2, <2>4, <2>5 DEF Request
<1> QED
  BY <1>1, <1>2, <1>3 DEF TypeOK

LEMMA TakeType == TypeOK /\ Take => rx' \in Seq(Tokens) /\ Head(rx) \in Tokens
BY TailOfStream DEF TypeOK, NetOK, Take

\* What calls leave alone.
LEMMA UnreadType ==
    ASSUME NetOK, UNCHANGED Unread, rx' \in Seq(Tokens), clean' \in {"yes", "no"}, cut' \in {"yes", "no"}
    PROVE  NetOK'
BY DEF NetOK, Unread

LEMMA StatusType == TypeOK /\ ResponseStatusCode => TypeOK'
<1> SUFFICES ASSUME TypeOK, ResponseStatusCode PROVE TypeOK'
  OBVIOUS
<1>0. parser \in Parsers /\ ParserOK(parser) /\ parser.code \in {0, 100, 200, 404}
  BY DEF TypeOK, ParserOK, Parsers
<1>1. ASSUME NEW c \in {0, 100, 200, 404}
      PROVE  [parser EXCEPT !.code = c] \in Parsers /\ ParserOK([parser EXCEPT !.code = c])
  <2>1. [parser EXCEPT !.code = c] \in Parsers
    BY <1>0 DEF Parsers
  <2> QED
    BY <1>0, <2>1 DEF ParserOK, Parsers
<1>2. [parser EXCEPT !.state = "eRequestSent", !.code = 0]
        = [[parser EXCEPT !.code = 0] EXCEPT !.state = "eRequestSent"]
  BY <1>0 DEF Parsers
<1>3. ParserOK([parser EXCEPT !.state = "eRequestSent", !.code = 0])
  BY <1>1, <1>2, ParserMoves
<1>4. ASSUME NEW t \in Tokens PROVE ParserOK(AfterStatus(t))
  <2>1. CASE parser.state = "eRequestSent"
    BY <1>0, <2>1, ParserMoves DEF AfterStatus
  <2>2. CASE parser.state = "eReadingStatusCode" /\ t \in Codes
    <3>1. AfterStatus(t) = [parser EXCEPT !.code = Code(t)]
      BY <2>2 DEF AfterStatus
    <3>2. Code(t) \in {0, 100, 200, 404}
      BY <2>2, CodesAndDigits
    <3> QED
      BY <1>1, <3>1, <3>2
  <2>3. CASE parser.state = "eReadingStatusCode" /\ t \notin Codes
    BY <1>0, <2>3, ParserMoves DEF AfterStatus
  <2>4. CASE parser.state \notin {"eRequestSent", "eReadingStatusCode"}
    BY <1>0, <2>4 DEF AfterStatus
  <2> QED
    BY <2>1, <2>2, <2>3, <2>4
<1>5. ParserOK(parser')
  <2>1. "LF" \in Tokens
    BY DEF Tokens
  <2> QED
    BY <1>0, <1>3, <1>4, <2>1, TakeType DEF ResponseStatusCode, CallStatus, StatusMismatch, ReadStatus, StatusLineEnds, StatusTimeout
<1>6. CallOK'
  <2>1. ASSUME NEW result \in {HTTP_ERROR_API, HTTP_ERROR_TIMED_OUT, HTTP_ERROR_INVALID_RESPONSE, parser.code},
               Returns(result), UNCHANGED <<sketch, keepAlive>>
        PROVE  CallOK'
    BY <1>0, <2>1 DEF TypeOK, CallOK, Returns
  <2>2. ASSUME UNCHANGED callVars, UNCHANGED <<sketch, keepAlive>>, pc' \in {pc, "status"}
        PROVE  CallOK'
    BY <2>2 DEF TypeOK, CallOK, callVars
  <2> QED
    BY <2>1, <2>2 DEF ResponseStatusCode, CallStatus, StatusMismatch, ReadStatus, StatusLineEnds, StatusTimeout, Unread
<1>7. NetOK'
  <2>1. CASE CallStatus
    BY <2>1 DEF TypeOK, CallStatus, NetOK, netVars, history
  <2>2. CASE ~CallStatus
    BY <2>2, TakeType, UnreadType
       DEF TypeOK, NetOK, ResponseStatusCode, StatusMismatch, ReadStatus, StatusLineEnds, StatusTimeout, Unread
  <2> QED
    BY <2>1, <2>2
<1> QED
  BY <1>5, <1>6, <1>7 DEF TypeOK

LEMMA HeaderType == TypeOK /\ ContentLength => TypeOK'
<1> SUFFICES ASSUME TypeOK, ContentLength PROVE TypeOK'
  OBVIOUS
<1>0. parser \in Parsers /\ ParserOK(parser)
  BY DEF TypeOK, ParserOK
<1>1. NetOK'
  BY TakeType, UnreadType DEF TypeOK, NetOK, ContentLength, ReadHeader, SkipTimeout, SkipDone, Unread
<1>2. CallOK'
  <2>1. parser.length \in Nat \cup {kNoContentLengthHeader}
    BY <1>0 DEF Parsers
  <2> QED
    BY <2>1 DEF TypeOK, CallOK, ContentLength, ReadHeader, SkipTimeout, SkipDone, Unread, callVars
<1>3. ParserOK(parser')
  <2>1. CASE SkipTimeout \/ SkipDone
    BY <1>0, <2>1 DEF SkipTimeout, SkipDone
  <2>2. CASE ReadHeader
    <3> DEFINE t == Head(rx)
    <3>1. parser' = AfterHeader(t) /\ parser.state \notin BodyStates
      BY <2>2 DEF ReadHeader, EndOfHeadersReached
    <3> HIDE DEF t
    <3>2. ParserOK([parser EXCEPT !.state = "eReadingContentLength", !.length = 0, !.consumed = 0])
      <4> DEFINE p == [parser EXCEPT !.state = "eReadingContentLength", !.length = 0, !.consumed = 0]
      <4>1. p \in Parsers
        BY <1>0 DEF Parsers, HeaderStates
      <4>2. p.state = "eReadingContentLength" /\ p.length # kNoContentLengthHeader
        BY <1>0 DEF Parsers, kNoContentLengthHeader
      <4> HIDE DEF p
      <4>3. ParserOK(p)
        BY <4>1, <4>2 DEF ParserOK
      <4> QED
        BY <4>3 DEF p
    <3>3. ParserOK([parser EXCEPT !.state = "eSkipToEndOfHeader", !.chunked = "yes"])
      <4> DEFINE p == [parser EXCEPT !.state = "eSkipToEndOfHeader", !.chunked = "yes"]
      <4>1. p \in Parsers
        BY <1>0 DEF Parsers, HeaderStates
      <4>2. p.state = "eSkipToEndOfHeader"
        BY <1>0 DEF Parsers
      <4> HIDE DEF p
      <4>3. ParserOK(p)
        BY <4>1, <4>2 DEF ParserOK
      <4> QED
        BY <4>3 DEF p
    <3>4. ParserOK(AtLineStart(t))
      BY <1>0, <3>2, <3>3, ParserMoves DEF AtLineStart
    <3>5. ASSUME parser.state = "eReadingContentLength" PROVE ParserOK(InContentLength(t))
      <4>1. parser.length \in Nat
        BY <1>0, <3>5 DEF ParserOK, Parsers
      <4>2. ASSUME t \in Digits PROVE ParserOK([parser EXCEPT !.length = @ * 10 + Digit(t)])
        <5> DEFINE n == parser.length * 10 + Digit(t)
        <5>1. n \in Nat
          BY <4>1, <4>2, CodesAndDigits
        <5> HIDE DEF n
        <5>2. ParserOK([parser EXCEPT !.length = n])
          BY <1>0, <3>5, <5>1 DEF ParserOK, Parsers, kNoContentLengthHeader
        <5> QED
          BY <5>2 DEF n
      <4> QED
        BY <1>0, <4>2, ParserMoves DEF InContentLength
    <3> DEFINE q == CASE parser.state = "eStatusCodeRead" -> AtLineStart(t)
                      [] parser.state = "eReadingContentLength" -> InContentLength(t)
                      [] OTHER -> parser
    <3>6. ParserOK(q) /\ q \in Parsers
      <4>1. ParserOK(q)
        BY <1>0, <3>4, <3>5
      <4> QED
        BY <4>1 DEF ParserOK
    <3>7. parser.state = "eLineStartingCRFound" => q = parser
      OBVIOUS
    <3>8. parser' = IF t # "LF" THEN q
                    ELSE IF parser.state # "eLineStartingCRFound" THEN [q EXCEPT !.state = "eStatusCodeRead"]
                    ELSE IF parser.chunked = "yes" THEN [q EXCEPT !.state = "eReadingChunkLength", !.chunk = 0]
                    ELSE [q EXCEPT !.state = "eReadingBody"]
      BY <3>1 DEF AfterHeader
    <3>9. ASSUME parser.chunked = "yes"
          PROVE  ParserOK([parser EXCEPT !.state = "eReadingChunkLength", !.chunk = 0])
      <4> DEFINE p == [parser EXCEPT !.state = "eReadingChunkLength", !.chunk = 0]
      <4>1. p \in Parsers
        BY <1>0 DEF Parsers, BodyStates
      <4>2. p.state = "eReadingChunkLength" /\ p.chunked = "yes"
        BY <1>0, <3>9 DEF Parsers
      <4> HIDE DEF p
      <4>3. ParserOK(p)
        BY <4>1, <4>2 DEF ParserOK
      <4> QED
        BY <4>3 DEF p
    <3> HIDE DEF q
    <3> QED
      BY <3>6, <3>7, <3>8, <3>9, ParserMoves
  <2> QED
    BY <2>1, <2>2 DEF ContentLength
<1> QED
  BY <1>1, <1>2, <1>3 DEF TypeOK

LEMMA BodyType == TypeOK /\ ResponseBody => TypeOK'
<1> SUFFICES ASSUME TypeOK, ResponseBody PROVE TypeOK'
  OBVIOUS
<1>0. parser \in Parsers /\ ParserOK(parser)
  BY DEF TypeOK, ParserOK
<1>1. NetOK'
  BY TakeType, UnreadType
     DEF TypeOK, NetOK, ResponseBody, ReadByte, ReadChunkByte, ReadChunkLength, BodyDone, BodyTimeout, Finish, Unread
<1>2. CallOK'
  <2>1. Take => Append(response, Head(rx)) \in Seq(Tokens)
    BY TakeType DEF TypeOK, CallOK
  <2> QED
    BY <2>1 DEF TypeOK, CallOK, ResponseBody, ReadByte, ReadChunkByte, ReadChunkLength, BodyDone, BodyTimeout,
                Finish, Unread, callVars
<1>3. /\ Counted(parser) \in Parsers
      /\ Counted(parser).state = parser.state /\ Counted(parser).chunk = parser.chunk
      /\ Counted(parser).chunked = parser.chunked /\ Counted(parser).length = parser.length
  BY <1>0 DEF Counted, Parsers
<1>4. ParserOK(parser')
  <2>1. CASE ReadByte
    BY <1>0, <1>3, <2>1 DEF ReadByte, ParserOK
  <2>2. CASE ReadChunkByte
    <3>1. parser.chunk \in Nat /\ parser.chunk > 0 /\ parser.chunked = "yes" /\ parser.state = "eReadingBodyChunk"
      BY <1>0, <2>2 DEF ReadChunkByte, ParserOK, Parsers
    <3> DEFINE n == parser.chunk - 1
               t == IF parser.chunk = 1 THEN "eReadingChunkLength" ELSE "eReadingBodyChunk"
    <3>2. n \in Nat /\ (t # "eReadingChunkLength" => n > 0) /\ t \in {"eReadingChunkLength", "eReadingBodyChunk"}
      BY <3>1
    <3>3. parser' = [Counted(parser) EXCEPT !.chunk = n, !.state = t]
      BY <1>3, <2>2, <3>1 DEF ReadChunkByte
    <3> HIDE DEF n, t
    <3>4. [Counted(parser) EXCEPT !.chunk = n, !.state = t] \in Parsers
      BY <1>3, <3>2 DEF Parsers, BodyStates
    <3>5. parser'.chunked = "yes" /\ parser'.state = t /\ parser'.chunk = n
      BY <1>3, <3>1, <3>3 DEF Parsers
    <3> QED
      BY <3>2, <3>3, <3>4, <3>5 DEF ParserOK
  <2>3. CASE ReadChunkLength
    <3>1. parser.chunk \in Nat /\ parser.chunked = "yes" /\ parser.state = "eReadingChunkLength"
      BY <1>0, <2>3 DEF ReadChunkLength, ParserOK, Parsers
    <3>2. ASSUME NEW n \in Nat PROVE ParserOK([parser EXCEPT !.chunk = n])
      BY <1>0, <3>1 DEF ParserOK, Parsers
    <3>3. Head(rx) \in HexDigits => parser.chunk * 16 + Digit(Head(rx)) \in Nat
      BY <3>1, CodesAndDigits
    <3>4. parser.chunk > 0 => ParserOK([parser EXCEPT !.state = "eReadingBodyChunk"])
      BY <1>0, <3>1 DEF ParserOK, Parsers, BodyStates
    <3> QED
      BY <1>0, <2>3, <3>2, <3>3, <3>4 DEF ReadChunkLength, AfterChunkLength
  <2>4. CASE BodyDone \/ BodyTimeout
    BY <1>0, <2>4 DEF BodyDone, BodyTimeout, Finish
  <2> QED
    BY <2>1, <2>2, <2>3, <2>4 DEF ResponseBody
<1> QED
  BY <1>1, <1>2, <1>4 DEF TypeOK

LEMMA StopType == TypeOK /\ Stop => TypeOK'
<1> SUFFICES ASSUME TypeOK, Stop PROVE TypeOK'
  OBVIOUS
<1>1. ParserOK(parser')
  BY ResetType DEF Stop
<1>2. CallOK'
  BY DEF TypeOK, CallOK, Stop, callVars
<1>3. NetOK'
  BY ReuseAssumption DEF TypeOK, NetOK, Stop, history
<1> QED
  BY <1>1, <1>2, <1>3 DEF TypeOK

LEMMA NetworkType == TypeOK /\ (Arrive \/ ServerCloses) => TypeOK'
<1> SUFFICES ASSUME TypeOK, Arrive \/ ServerCloses PROVE TypeOK'
  OBVIOUS
<1>1. ParserOK(parser') /\ CallOK'
  BY DEF TypeOK, CallOK, Arrive, ServerCloses, callVars
<1>2. CASE Arrive
  <2>1. rx' \in Seq(Tokens) /\ net' \in Seq(Tokens)
    BY <1>2 DEF Arrive, TypeOK, NetOK
  <2> QED
    BY <1>1, <1>2, <2>1 DEF TypeOK, NetOK, Arrive, history
<1>3. CASE ServerCloses
  BY <1>1, <1>3 DEF TypeOK, NetOK, ServerCloses
<1> QED
  BY <1>2, <1>3

LEMMA StutterType == TypeOK /\ UNCHANGED vars => TypeOK'
BY DEF TypeOK, CallOK, NetOK, vars, callVars, netVars, history

LEMMA StepType == TypeOK /\ [Next]_vars => TypeOK'
BY RequestType, StatusType, HeaderType, BodyType, StopType, NetworkType, StutterType DEF Next, Sketch

(***************************************************************************)
(* The parser's counters and flags, the results of the calls and the bytes *)
(* on their way keep their types; a chunk is never read without a length.  *)
(***************************************************************************)
THEOREM TypeCorrect == Spec => []TypeOK
BY InitType, StepType, PTL DEF Spec

-----------------------------------------------------------------------------
(* What is ahead of the parser.                                            *)

\* One token less to read.
LEMMA TakeStream == TypeOK /\ Take /\ UNCHANGED net =>
    /\ Stream \in Seq(Tokens) /\ Stream # <<>> /\ Head(Stream) = Head(rx)
    /\ Stream' = Tail(Stream)
BY TailOfStream DEF TypeOK, NetOK, Take, Stream

LEMMA StreamTokens == TypeOK => Stream \in Seq(Tokens)
BY ConcatProperties DEF TypeOK, NetOK, Stream

LEMMA Taken ==
    ASSUME TypeOK, Take, UNCHANGED <<net, cut>>, NEW a \in Tokens, NEW s \in Seq(Tokens), Left(Cons(a, s))
    PROVE  Head(rx) = a /\ Follows(s, Stream', cut')
<1>1. /\ Stream \in Seq(Tokens) /\ Stream # <<>> /\ Head(Stream) = Head(rx)
      /\ Stream' = Tail(Stream)
  BY TakeStream
<1>2. PICK t \in Seq(Tokens) : Cons(a, s) = Stream \o t /\ (cut = "no" => t = <<>>)
  BY DEF Left, Follows
<1> DEFINE h == Head(Stream)
           r == Tail(Stream)
<1>3. h \in Tokens /\ r \in Seq(Tokens) /\ Stream = Cons(h, r)
  BY <1>1, ConsOfHead
<1>4. Stream' = r /\ h = Head(rx)
  BY <1>1
<1> HIDE DEF h, r
<1>5. Cons(a, s) = Cons(h, r \o t) /\ r \o t \in Seq(Tokens)
  <2>1. Cons(h, r) \o t = Cons(h, r \o t)
    BY <1>2, <1>3, ConsConcat, Zenon
  <2>2. r \o t \in Seq(Tokens)
    BY <1>2, <1>3, Concat
  <2> QED
    BY <1>2, <1>3, <2>1, <2>2
<1>6. a = h
  <2>1. Head(Cons(a, s)) = a /\ Head(Cons(h, r \o t)) = h
    BY <1>3, <1>5, ConsTokens
  <2> QED
    BY <1>5, <2>1
<1>7. s = r \o t
  <2>1. Tail(Cons(a, s)) = s /\ Tail(Cons(h, r \o t)) = r \o t
    BY <1>3, <1>5, ConsTokens
  <2> QED
    BY <1>5, <2>1
<1>8. cut' = cut
  OBVIOUS
<1> QED
  BY <1>2, <1>4, <1>6, <1>7, <1>8 DEF Follows

\* If a token is taken, there was one.
LEMMA TakenSome ==
    ASSUME TypeOK, Take, UNCHANGED <<net, cut>>, NEW w \in Seq(Tokens), Left(w)
    PROVE  /\ w # <<>> /\ Head(w) \in Tokens /\ Tail(w) \in Seq(Tokens) /\ w = Cons(Head(w), Tail(w))
           /\ Head(rx) = Head(w) /\ Follows(Tail(w), Stream', cut')
<1>1. Stream \in Seq(Tokens) /\ Stream # <<>>
  BY TakeStream
<1>2. PICK t \in Seq(Tokens) : w = Stream \o t
  BY DEF Left, Follows
<1>3. w # <<>>
  BY <1>1, <1>2, Concat
<1>4. Head(w) \in Tokens /\ Tail(w) \in Seq(Tokens) /\ w = Cons(Head(w), Tail(w))
  BY <1>3, ConsOfHead
<1>5. Left(Cons(Head(w), Tail(w)))
  BY <1>4
<1>6. Head(rx) = Head(w) /\ Follows(Tail(w), Stream', cut')
  BY <1>4, <1>5, Taken
<1> QED
  BY <1>3, <1>4, <1>6

\* Whatever is ahead stays ahead: the network delivers or loses what is behind.
LEMMA NetworkFollows ==
    ASSUME TypeOK, Arrive \/ ServerCloses, NEW w \in Seq(Tokens), Left(w)
    PROVE  Follows(w, Stream', cut')
<1>1. Stream \in Seq(Tokens) /\ rx \in Seq(Tokens) /\ net \in Seq(Tokens)
  BY StreamTokens DEF TypeOK, NetOK
<1>2. PICK t \in Seq(Tokens) : w = Stream \o t /\ (cut = "no" => t = <<>>)
  BY DEF Left, Follows
<1>3. CASE Arrive
  <2>1. Stream' = Stream /\ cut' = cut
    BY <1>1, <1>3, ArriveKeepsStream DEF Arrive, Stream, history
  <2> QED
    BY <1>2, <2>1 DEF Follows
<1>4. CASE ServerCloses
  <2>1. Stream' = rx /\ net' = <<>>
    BY <1>1, <1>4, Concat DEF ServerCloses, Stream
  <2>2. CASE net = <<>>
    <3>1. Stream = rx /\ cut' = cut
      BY <1>1, <1>4, <2>2, Concat DEF ServerCloses, Stream
    <3> QED
      BY <1>2, <2>1, <3>1 DEF Follows
  <2>3. CASE net # <<>>
    <3>1. cut' = "yes"
      BY <1>4, <2>3 DEF ServerCloses
    <3>2. w = (rx \o net) \o t
      BY <1>2 DEF Stream
    <3>3. w = rx \o (net \o t) /\ net \o t \in Seq(Tokens)
      <4>1. PICK r, n \in Seq(Tokens) : r = rx /\ n = net
        BY <1>1
      <4>2. (r \o n) \o t = r \o (n \o t)
        BY Assoc, Zenon
      <4>3. n \o t \in Seq(Tokens)
        BY Concat
      <4> QED
        BY <3>2, <4>1, <4>2, <4>3
    <3> QED
      BY <2>1, <3>1, <3>3 DEF Follows
  <2> QED
    BY <2>2, <2>3
<1> QED
  BY <1>3, <1>4

-----------------------------------------------------------------------------
(* The status.                                                             *)

LEMMA InitIInv == Init => IInv
BY InitType DEF Init, IInv, NoStatusYet, StatusIsOfRequest

LEMMA RequestIInv == IInv /\ Request => IInv'
<1> SUFFICES ASSUME IInv, Request PROVE IInv'
  OBVIOUS
<1>1. TypeOK' /\ TypeOK
  BY RequestType DEF IInv
<1>2. StartRound /\ pc' = "call" /\ status' = 0
  BY DEF Request, RefuseRequest, ConnectFails, RequestOnNewConnection, RequestOnOpenConnection, StartRound
<1>3. NoStatusYet' /\ StatusIsOfRequest'
  BY <1>2 DEF NoStatusYet, StatusIsOfRequest
<1>4. SUFFICES ASSUME clean' = "yes" PROVE AtCall'
  BY <1>1, <1>2, <1>3 DEF IInv, AtStatus, Behind
<1>5. parser.state \in BodyStates \cup {"eIdle"} \/ clean # "yes"
  BY <1>2 DEF IInv, Behind, StartRound
<1>6. ASSUME SendRequest, Stream' = Wire(answer')
      PROVE  AtCall'
  <2>1. Wire(answer') \in Seq(Tokens) /\ <<>> \in Seq(Tokens)
    BY <1>6, WireOpens DEF SendRequest
  <2>2. Wire(answer') = Stream' \o <<>>
    BY <1>6, <2>1, Concat
  <2>3. parser'.state = "eRequestSent"
    <3>1. Started \in Parsers
      BY <1>1, StartedType
    <3> QED
      BY <1>6, <3>1 DEF SendRequest, Parsers
  <2> QED
    BY <2>1, <2>2, <2>3 DEF AtCall, Left, Follows
<1>7. CASE RefuseRequest
  <2>1. clean = "yes" /\ Started.state \notin Idle
    BY <1>4, <1>7 DEF RefuseRequest, history
  <2>2. Begun.state \in BodyStates \cup {"eIdle", "eRequestStarted"}
    BY <1>1, <1>5, <2>1 DEF Begun, TypeOK, ParserOK, Parsers
  <2>3. Started.state \in Idle
    BY <2>2 DEF Started, ResetState, Idle, BodyStates
  <2> QED
    BY <2>1, <2>3
<1>8. CASE ConnectFails
  BY <1>4, <1>8 DEF ConnectFails
<1>9. CASE RequestOnNewConnection
  <2>1. SendRequest /\ rx' = <<>> /\ net' = Wire(answer')
    BY <1>9 DEF RequestOnNewConnection
  <2>2. Stream' = Wire(answer')
    BY <2>1, WireOpens, ConcatEmptySeq DEF Stream, SendRequest
  <2> QED
    BY <1>6, <2>1, <2>2
<1>10. CASE RequestOnOpenConnection
  <2>1. SendRequest /\ rx' = Flushed /\ conn = "open" /\ Flushed \o net = <<>> /\ net' = net \o Wire(answer')
    BY <1>4, <1>10 DEF RequestOnOpenConnection
  <2>2. Flushed \in Seq(Tokens) /\ net \in Seq(Tokens) /\ Wire(answer') \in Seq(Tokens)
    BY <1>1, <2>1, StartedType, WireOpens DEF TypeOK, NetOK, SendRequest
  <2>3. Flushed = <<>> /\ net = <<>>
    BY <2>1, <2>2, ConcatEqualIffEmpty
  <2>4. Stream' = Wire(answer')
    BY <2>1, <2>2, <2>3, ConcatEmptySeq DEF Stream
  <2> QED
    BY <1>6, <2>1, <2>4
<1> QED
  BY <1>7, <1>8, <1>9, <1>10 DEF Request

LEMMA FirstCodes ==
    TypeOK => /\ answer.code \in {"200", "404"}
              /\ \A c \in Firsts : /\ c \in {"100", "200", "404"} /\ c \in Codes
                                   /\ IsInformational(Code(c)) <=> c = "100"
<1> SUFFICES ASSUME TypeOK
    PROVE  /\ answer.code \in {"200", "404"}
           /\ \A c \in Firsts : /\ c \in {"100", "200", "404"} /\ c \in Codes
                                /\ IsInformational(Code(c)) <=> c = "100"
  OBVIOUS
<1>1. answer.code \in {"200", "404"}
  BY ResponsesAssumption DEF TypeOK, NetOK
<1>2. Code("100") = 100 /\ Code("200") = 200 /\ Code("404") = 404
  BY DEF Code
<1> QED
  BY <1>1, <1>2 DEF Firsts, Codes, IsInformational

LEMMA CallIInv == IInv /\ CallStatus => IInv'
<1> SUFFICES ASSUME IInv, CallStatus PROVE IInv'
  OBVIOUS
<1>1. TypeOK' /\ TypeOK
  BY StatusType DEF IInv, ResponseStatusCode
<1>2. status = 0 /\ pc = "call" /\ UNCHANGED <<clean, answer, rx, net>>
  BY DEF IInv, NoStatusYet, CallStatus, history, netVars
<1>3. CASE parser.state \in Idle
  <2>1. pc' = "skip" /\ status' = HTTP_ERROR_API
    BY <1>3 DEF CallStatus, Returns
  <2>2. clean # "yes"
    BY <1>2, <1>3 DEF IInv, AtCall, Idle
  <2> QED
    BY <1>1, <1>2, <2>1, <2>2 DEF IInv, NoStatusYet, StatusIsOfRequest
<1>4. CASE parser.state \notin Idle
  <2>1. pc' = "status" /\ status' = 0 /\ parser' = [parser EXCEPT !.state = "eRequestSent", !.code = 0]
    BY <1>2, <1>4 DEF CallStatus, callVars
  <2>2. parser'.state = "eRequestSent" /\ parser'.code = 0
    BY <1>1, <2>1 DEF TypeOK, ParserOK, Parsers
  <2>3. ASSUME clean = "yes" PROVE AtStatus'
    <3>1. answer \in Responses /\ Left(Wire(answer)) /\ UNCHANGED <<Stream, cut>>
      BY <1>1, <1>2, <2>3 DEF IInv, AtCall, TypeOK, NetOK, CallStatus, Stream, history
    <3>2. PICK c \in {"100", answer.code}, q \in Seq(Tokens) :
            /\ AfterLine(c, q)
            /\ Wire(answer) = Cons("HTTP/", Cons(c, Line(q)))
      BY <3>1, WireOpens DEF AfterLine
    <3>3. AfterLine(c, q)' /\ AtToken(c, q)'
      BY <1>2, <2>2, <3>1, <3>2 DEF AfterLine, AtToken, Left
    <3> QED
      BY <1>2, <3>2, <3>3 DEF AtStatus, Firsts
  <2> QED
    BY <1>1, <1>2, <2>1, <2>3 DEF IInv, NoStatusYet, StatusIsOfRequest, AtCall, Behind
<1> QED
  BY <1>3, <1>4

LEMMA MismatchIInv == IInv /\ (StatusMismatch \/ StatusTimeout) => IInv'
<1> SUFFICES ASSUME IInv, StatusMismatch \/ StatusTimeout PROVE IInv'
  OBVIOUS
<1>1. TypeOK'
  BY StatusType DEF IInv, ResponseStatusCode
<1>2. clean' = "no"
  BY DEF StatusMismatch, StatusTimeout
<1>3. NoStatusYet'
  BY DEF IInv, NoStatusYet, StatusMismatch, StatusTimeout, Returns, callVars
<1> QED
  BY <1>1, <1>2, <1>3 DEF IInv, StatusIsOfRequest

\* The tokens of a status line are those expected.
LEMMA AtStatusFacts ==
    ASSUME IInv, pc = "status", clean = "yes"
    PROVE  \E c \in Firsts : \E q \in Seq(Tokens) :
             /\ AfterLine(c, q) /\ AtToken(c, q)
             /\ c \in {"100", "200", "404"} /\ c \in Codes /\ c \in Tokens /\ c \notin {"CR", "LF"}
             /\ IsInformational(Code(c)) <=> c = "100"
             /\ c # "100" => c = answer.code /\ q = Rest(answer)
             /\ Line(q) \in Seq(Tokens) /\ Cons("LF", q) \in Seq(Tokens) /\ Cons(c, Line(q)) \in Seq(Tokens)
<1>1. PICK c \in Firsts, q \in Seq(Tokens) : AfterLine(c, q) /\ AtToken(c, q)
  BY DEF IInv, AtStatus
<1>2. /\ c \in {"100", "200", "404"} /\ c \in Codes
      /\ IsInformational(Code(c)) <=> c = "100"
  BY <1>1, FirstCodes DEF IInv
<1>3. c \in Tokens /\ Line(q) \in Seq(Tokens) /\ Cons("LF", q) \in Seq(Tokens)
  BY <1>2, TokenFacts, LineTokens
<1>4. Cons(c, Line(q)) \in Seq(Tokens)
  BY <1>3, ConsTokens
<1> QED
  BY <1>1, <1>2, <1>3, <1>4 DEF AfterLine

\* If a status line ends the call, it is the one of the response.
LEMMA LineEnds ==
    ASSUME IInv, StatusLineEnds, clean = "yes", pc' = "skip"
    PROVE  /\ parser.state = "eStatusCodeRead" /\ parser' = parser /\ status' = Code(answer.code)
           /\ Follows(Rest(answer), Stream', cut')
<1>1. TypeOK /\ pc = "status" /\ Take /\ Head(rx) = "LF" /\ UNCHANGED <<net, cut>>
  BY DEF IInv, StatusLineEnds, Unread
<1>2. PICK c \in Firsts, q \in Seq(Tokens) :
        /\ AtToken(c, q)
        /\ c \in Tokens /\ c \notin {"CR", "LF"}
        /\ IsInformational(Code(c)) <=> c = "100"
        /\ c # "100" => c = answer.code /\ q = Rest(answer)
        /\ Line(q) \in Seq(Tokens) /\ Cons("LF", q) \in Seq(Tokens)
  BY <1>1, AtStatusFacts
<1>3. "CR" \in Tokens /\ "LF" \in Tokens
  BY TokenFacts
<1>4. ~ Left(Cons(c, Line(q))) /\ ~ Left(Line(q))
  <2>1. Left(Cons(c, Line(q))) => Head(rx) = c
    BY <1>1, <1>2, Taken
  <2>2. Left(Line(q)) => Head(rx) = "CR"
    BY <1>1, <1>2, <1>3, Taken DEF Line
  <2> QED
    BY <1>1, <1>2, <2>1, <2>2
<1>5. parser.state = "eStatusCodeRead" /\ parser.code = Code(c) /\ Left(Cons("LF", q))
  BY <1>2, <1>4 DEF AtToken, StatusLineEnds
<1>6. Follows(q, Stream', cut')
  BY <1>1, <1>2, <1>3, <1>5, Taken
<1>7. c # "100" /\ parser' = AfterStatus("LF") /\ status' = parser.code
  BY <1>1, <1>2, <1>5 DEF StatusLineEnds, Returns
<1>8. parser' = parser
  BY <1>5, <1>7 DEF AfterStatus
<1> QED
  BY <1>2, <1>5, <1>6, <1>7, <1>8

LEMMA StatusIInv == IInv /\ (ReadStatus \/ StatusLineEnds) => IInv'
<1> SUFFICES ASSUME IInv, ReadStatus \/ StatusLineEnds PROVE IInv'
  OBVIOUS
<1>1. TypeOK' /\ TypeOK
  BY StatusType DEF IInv, ResponseStatusCode
<1>2. status = 0 /\ pc = "status" /\ Take /\ UNCHANGED <<clean, answer, net, cut>>
  BY DEF IInv, NoStatusYet, ReadStatus, StatusLineEnds, Unread
<1>3. NoStatusYet'
  BY <1>2 DEF NoStatusYet, ReadStatus, StatusLineEnds, Returns, callVars
<1>4. CASE clean # "yes"
  BY <1>1, <1>2, <1>3, <1>4 DEF IInv, StatusIsOfRequest
<1>5. CASE clean = "yes"
  <2>1. PICK c \in Firsts, q \in Seq(Tokens) :
          /\ AfterLine(c, q) /\ AtToken(c, q)
          /\ c \in Codes /\ c \in Tokens /\ c \notin {"CR", "LF"}
          /\ IsInformational(Code(c)) <=> c = "100"
          /\ Line(q) \in Seq(Tokens) /\ Cons("LF", q) \in Seq(Tokens) /\ Cons(c, Line(q)) \in Seq(Tokens)
    BY <1>2, <1>5, AtStatusFacts
  <2>2. "CR" \in Tokens /\ "LF" \in Tokens /\ "HTTP/" \in Tokens
    BY TokenFacts
  <2>3. parser \in Parsers
    BY <1>1 DEF TypeOK, ParserOK
  <2>4. ASSUME pc' = "status", status' = 0, AtToken(c, q)'
        PROVE  IInv'
    <3>1. AtStatus'
      BY <1>2, <2>1, <2>4 DEF AtStatus, AfterLine, Firsts
    <3> QED
      BY <1>1, <1>3, <2>4, <3>1 DEF IInv, AtCall, Behind, StatusIsOfRequest
  <2>5. CASE parser.state = "eRequestSent" /\ parser.code = 0 /\ Left(Cons("HTTP/", Cons(c, Line(q))))
    <3>1. ReadStatus
      BY <2>5 DEF StatusLineEnds
    <3>2. parser' = [parser EXCEPT !.state = "eReadingStatusCode"] /\ pc' = "status" /\ status' = 0
      BY <1>2, <2>5, <3>1 DEF ReadStatus, AfterStatus, callVars
    <3>3. Follows(Cons(c, Line(q)), Stream', cut')
      BY <1>1, <1>2, <2>1, <2>2, <2>5, Taken
    <3>4. AtToken(c, q)'
      BY <2>3, <2>5, <3>2, <3>3 DEF AtToken, Left, Parsers
    <3> QED
      BY <2>4, <3>2, <3>4
  <2>6. CASE parser.state = "eRequestSent" /\ c = "100" /\ Left(q)
    <3>1. Head(q) = "CR"
      <4>1. answer.code # "100"
        BY <1>1, FirstCodes
      <4> QED
        BY <2>1, <2>6, <4>1 DEF AfterLine
    <3>2. Head(rx) = "CR"
      BY <1>1, <1>2, <2>6, <3>1, TakenSome
    <3> QED
      BY <2>6, <3>2 DEF ReadStatus, StatusLineEnds
  <2>7. CASE parser.state = "eReadingStatusCode" /\ parser.code = 0 /\ Left(Cons(c, Line(q)))
    <3>1. Head(rx) = c /\ Follows(Line(q), Stream', cut')
      BY <1>1, <1>2, <2>1, <2>7, Taken
    <3>2. ReadStatus
      BY <2>1, <3>1 DEF StatusLineEnds
    <3>3. parser' = [parser EXCEPT !.code = Code(c)] /\ pc' = "status" /\ status' = 0
      BY <1>2, <2>1, <2>7, <3>1, <3>2 DEF ReadStatus, AfterStatus, callVars
    <3>4. AtToken(c, q)'
      BY <2>3, <2>7, <3>1, <3>3 DEF AtToken, Left, Parsers
    <3> QED
      BY <2>4, <3>3, <3>4
  <2>8. CASE parser.state = "eReadingStatusCode" /\ parser.code = Code(c) /\ Left(Line(q))
    <3>1. Head(rx) = "CR" /\ Follows(Cons("LF", q), Stream', cut')
      BY <1>1, <1>2, <2>1, <2>2, <2>8, Taken DEF Line
    <3>2. ReadStatus
      BY <3>1 DEF StatusLineEnds
    <3>3. parser' = [parser EXCEPT !.state = "eStatusCodeRead"] /\ pc' = "status" /\ status' = 0
      BY <1>2, <2>8, <3>1, <3>2 DEF ReadStatus, AfterStatus, callVars, Codes
    <3>4. AtToken(c, q)'
      BY <2>3, <2>8, <3>1, <3>3 DEF AtToken, Left, Parsers
    <3> QED
      BY <2>4, <3>3, <3>4
  <2>9. CASE parser.state = "eStatusCodeRead" /\ parser.code = Code(c) /\ Left(Cons("LF", q))
    <3>1. Head(rx) = "LF" /\ Follows(q, Stream', cut')
      BY <1>1, <1>2, <2>1, <2>2, <2>9, Taken
    <3>2. StatusLineEnds
      BY <3>1 DEF ReadStatus
    <3>3. CASE c = "100"
      <4>1. parser' = [parser EXCEPT !.state = "eRequestSent", !.code = 0] /\ pc' = "status" /\ status' = 0
        BY <1>2, <2>1, <2>9, <3>2, <3>3 DEF StatusLineEnds, callVars
      <4>2. parser'.state = "eRequestSent"
        BY <2>3, <4>1 DEF Parsers
      <4>3. AtToken(c, q)'
        BY <3>1, <3>3, <4>2 DEF AtToken, Left
      <4> QED
        BY <2>4, <4>1, <4>3
    <3>4. CASE c # "100"
      <4>1. pc' = "skip"
        BY <2>1, <2>9, <3>2, <3>4 DEF StatusLineEnds, Returns
      <4>2. status' = Code(answer'.code) /\ parser'.state \notin Idle
        BY <1>2, <1>5, <3>2, <4>1, LineEnds DEF Idle
      <4> QED
        BY <1>1, <1>3, <4>1, <4>2 DEF IInv, AtCall, AtStatus, Behind, StatusIsOfRequest
    <3> QED
      BY <3>3, <3>4
  <2> QED
    BY <2>1, <2>5, <2>6, <2>7, <2>8, <2>9 DEF AtToken
<1> QED
  BY <1>4, <1>5

LEMMA HeaderIInv == IInv /\ ContentLength => IInv'
<1> SUFFICES ASSUME IInv, ContentLength PROVE IInv'
  OBVIOUS
<1>1. TypeOK' /\ TypeOK
  BY HeaderType DEF IInv
<1>2. UNCHANGED <<answer, status>> /\ pc = "skip" /\ pc' \in {"skip", "body"} /\ clean' \in {clean, "no"}
  BY DEF ContentLength, ReadHeader, SkipTimeout, SkipDone, Unread, callVars
<1>3. NoStatusYet' /\ StatusIsOfRequest'
  BY <1>2 DEF IInv, NoStatusYet, StatusIsOfRequest
<1>4. ASSUME clean' = "yes" PROVE Behind'
  <2>1. clean = "yes" /\ parser.state \notin Idle
    BY <1>2, <1>4 DEF IInv, Behind
  <2>2. CASE SkipDone
    BY <1>2, <2>2 DEF SkipDone, EndOfHeadersReached, Behind
  <2>3. CASE ReadHeader
    <3>1. parser \in Parsers
      BY <1>1 DEF TypeOK, ParserOK
    <3> DEFINE t == Head(rx)
    <3>2. parser' = AfterHeader(t) /\ pc' = "skip"
      BY <1>2, <2>3 DEF ReadHeader
    <3> HIDE DEF t
    <3>3. AtLineStart(t).state \notin Idle /\ AtLineStart(t) \in Parsers
      BY <3>1 DEF AtLineStart, Parsers, Idle, HeaderStates
    <3>4. parser.state = "eReadingContentLength" => InContentLength(t).state \notin Idle
      BY <3>1 DEF InContentLength, Parsers, Idle
    <3>5. parser'.state \notin Idle
      <4>1. parser' \in Parsers
        BY <1>1 DEF TypeOK, ParserOK
      <4> QED
        BY <2>1, <3>1, <3>2, <3>3, <3>4, <4>1 DEF AfterHeader, Idle, Parsers
    <3> QED
      BY <3>2, <3>5 DEF Behind
  <2>4. CASE SkipTimeout
    BY <1>4, <2>4 DEF SkipTimeout
  <2> QED
    BY <2>2, <2>3, <2>4 DEF ContentLength
<1> QED
  BY <1>1, <1>2, <1>3, <1>4 DEF IInv, AtCall, AtStatus

LEMMA BodyIInv == IInv /\ ResponseBody => IInv'
<1> SUFFICES ASSUME IInv, ResponseBody PROVE IInv'
  OBVIOUS
<1>1. TypeOK' /\ TypeOK
  BY BodyType DEF IInv
<1>2. UNCHANGED <<answer, status, clean>> /\ pc = "body" /\ pc' \in {"body", "stop", "idle"}
  BY DEF ResponseBody, ReadByte, ReadChunkByte, ReadChunkLength, BodyDone, BodyTimeout, Finish, Reading, Unread, callVars
<1>3. NoStatusYet' /\ StatusIsOfRequest'
  BY <1>2 DEF IInv, NoStatusYet, StatusIsOfRequest
<1>4. ASSUME parser.state \in BodyStates PROVE parser'.state \in BodyStates
  <2>1. parser \in Parsers
    BY <1>1 DEF TypeOK, ParserOK
  <2>2. Counted(parser) \in Parsers /\ Counted(parser).state = parser.state
    BY <2>1 DEF Counted, Parsers
  <2>3. CASE ReadByte \/ BodyDone \/ BodyTimeout
    BY <1>4, <2>2, <2>3 DEF ReadByte, BodyDone, BodyTimeout, Finish
  <2>4. CASE ReadChunkByte
    BY <1>4, <2>2, <2>4 DEF ReadChunkByte, Parsers, BodyStates
  <2>5. CASE ReadChunkLength
    BY <1>4, <2>1, <2>5 DEF ReadChunkLength, AfterChunkLength, Parsers, BodyStates
  <2> QED
    BY <2>3, <2>4, <2>5 DEF ResponseBody
<1>5. clean' = "yes" => Behind'
  BY <1>2, <1>4 DEF IInv, Behind
<1> QED
  BY <1>1, <1>2, <1>3, <1>5 DEF IInv, AtCall, AtStatus

LEMMA StopIInv == IInv /\ Stop => IInv'
<1> SUFFICES ASSUME IInv, Stop PROVE IInv'
  OBVIOUS
<1>1. TypeOK'
  BY StopType DEF IInv
<1>2. UNCHANGED <<answer, status, clean>> /\ pc' = "idle" /\ parser'.state = "eIdle"
  BY DEF Stop, callVars, history, ResetState
<1> QED
  BY <1>1, <1>2 DEF IInv, NoStatusYet, StatusIsOfRequest, AtCall, AtStatus, Behind

\* What the network does never puts other tokens in front of the parser.
LEMMA NetworkIInv == IInv /\ (Arrive \/ ServerCloses) => IInv'
<1> SUFFICES ASSUME IInv, Arrive \/ ServerCloses PROVE IInv'
  OBVIOUS
<1>1. TypeOK' /\ TypeOK
  BY NetworkType DEF IInv
<1>2. UNCHANGED <<pc, parser, status, answer, clean>>
  BY DEF Arrive, ServerCloses, callVars, history
<1>3. ASSUME NEW w \in Seq(Tokens), Left(w) PROVE Follows(w, Stream', cut')
  BY <1>1, <1>3, NetworkFollows
<1>4. AtCall => AtCall'
  <2>1. Wire(answer) \in Seq(Tokens)
    BY <1>1, WireOpens DEF TypeOK, NetOK
  <2> QED
    BY <1>2, <1>3, <2>1 DEF AtCall, Left
<1>5. ASSUME clean = "yes" PROVE AtStatus'
  <2> SUFFICES ASSUME pc = "status" PROVE AtStatus'
    BY <1>2 DEF AtStatus
  <2>1. PICK c \in Firsts, q \in Seq(Tokens) :
          /\ AfterLine(c, q) /\ AtToken(c, q) /\ c \in Tokens
          /\ Line(q) \in Seq(Tokens) /\ Cons("LF", q) \in Seq(Tokens) /\ Cons(c, Line(q)) \in Seq(Tokens)
    BY <1>5, AtStatusFacts
  <2>2. Cons("HTTP/", Cons(c, Line(q))) \in Seq(Tokens)
    BY <2>1, TokenFacts, ConsTokens
  <2>3. AtToken(c, q)'
    BY <1>2, <1>3, <2>1, <2>2 DEF AtToken, Left
  <2> QED
    BY <1>2, <2>1, <2>3 DEF AtStatus, AfterLine, Firsts
<1> QED
  BY <1>1, <1>2, <1>4, <1>5 DEF IInv, NoStatusYet, StatusIsOfRequest, Behind

LEMMA StutterIInv == IInv /\ UNCHANGED vars => IInv'
BY StutterType
   DEF IInv, vars, callVars, netVars, history, NoStatusYet, StatusIsOfRequest, AtCall, AtStatus, AtToken,
       AfterLine, Behind, Left, Stream, Firsts

LEMMA StepIInv == IInv /\ [Next]_vars => IInv'
BY RequestIInv, CallIInv, MismatchIInv, StatusIInv, HeaderIInv, BodyIInv, StopIInv, NetworkIInv, StutterIInv
   DEF Next, Sketch, ResponseStatusCode

(***************************************************************************)
(* responseStatusCode never returns the code of an interim response or of  *)
(* an earlier request's response: a positive result is the final status of *)
(* the response to the request that was sent last.                         *)
(***************************************************************************)
THEOREM StatusIsOfRequestCorrect == Spec => []StatusIsOfRequest
<1>1. IInv => StatusIsOfRequest
  BY DEF IInv
<1> QED
  BY <1>1, InitIInv, StepIInv, PTL DEF Spec
-----------------------------------------------------------------------------
(* The inductive invariant of the body, of sketches that start each request *)
(* with no length, count or flag of an earlier response.                    *)

Fresh == parser.length = kNoContentLengthHeader /\ parser.consumed = 0 /\ parser.chunked = "no"

IdleFresh ==
    /\ parser.state \in Idle => Fresh
    /\ pc = "idle" /\ sketch = "stops" => parser.state = "eIdle"

Unfinished ==
    /\ pc \in {"call", "status", "skip"} => response = <<>>
    /\ pc \in {"call", "status", "skip", "body"} => outcome = "none"

\* The parser knows how the body is delimited.
Announced ==
    /\ parser.length = IF answer.framing = "length" THEN Len(Body(answer)) ELSE kNoContentLengthHeader
    /\ parser.chunked = IF answer.framing = "chunked" THEN "yes" ELSE "no"

\* While the headers are read, and w is ahead.
InLength(w) ==
    /\ parser.state = "eReadingContentLength"
    /\ answer.framing = "length" /\ parser.chunked = "no"
    /\ \E d \in Seq(Digits) : /\ ReadsAs(d, 10, parser.length, Len(Body(answer)))
                              /\ w = d \o Line(Line(Payload(answer)))

InHeader(w) ==
    \/ parser.state = "eSkipToEndOfHeader" /\ w = Line(Line(Payload(answer)))
    \/ parser.state = "eSkipToEndOfHeader" /\ w = Cons("LF", Line(Payload(answer)))
    \/ parser.state = "eStatusCodeRead" /\ w = Line(Payload(answer))
    \/ parser.state = "eLineStartingCRFound" /\ w = Cons("LF", Payload(answer))

BodyStarts(w) ==
    /\ w = Payload(answer)
    /\ IF answer.framing = "chunked" THEN parser.state = "eReadingChunkLength" /\ parser.chunk = 0
                                     ELSE parser.state = "eReadingBody"

HeaderAt(w) ==
    \/ parser.state = "eStatusCodeRead" /\ Fresh /\ w = Rest(answer)
    \/ parser.consumed = 0 /\ InLength(w)
    \/ parser.consumed = 0 /\ Announced /\ (InHeader(w) \/ BodyStarts(w))

\* While the body is read, and w is ahead: of a body that is not in chunks,
PlainAt(w) ==
    /\ answer.framing # "chunked" /\ parser.state = "eReadingBody"
    /\ parser.consumed = IF answer.framing = "length" THEN Len(response) ELSE 0
    /\ Body(answer) = response \o w

\* or of one that is: data is left of this chunk, and cs are those behind it.
BetweenChunks(cs, data, w) ==
    /\ parser.state = "eReadingChunkLength" /\ parser.chunk = 0 /\ data = <<>>
    /\ \E z \in Seq({"CR", "LF"}) : w = z \o Chunked(cs)

InChunkLength(cs, data, w) ==
    /\ parser.state = "eReadingChunkLength" /\ data # <<>>
    /\ \/ \E d \in Seq(HexDigits) : /\ ReadsAs(d, 16, parser.chunk, Len(data))
                                    /\ w = d \o Line(data \o Line(Chunked(cs)))
       \/ parser.chunk = Len(data) /\ w = Cons("LF", data \o Line(Chunked(cs)))

InChunk(cs, data, w) ==
    /\ parser.state = "eReadingBodyChunk" /\ data # <<>>
    /\ parser.chunk = Len(data) /\ w = data \o Line(Chunked(cs))

AtLastChunk(cs, data, w) ==
    /\ parser.state = "eReadingChunkLength" /\ parser.chunk = 0
    /\ data = <<>> /\ cs = <<>> /\ w \in Seq({"0", "CR", "LF"})

ChunkAt(cs, data, w) ==
    /\ Body(answer) = response \o (data \o FlattenSeq(cs))
    /\ \/ BetweenChunks(cs, data, w) \/ InChunkLength(cs, data, w)
       \/ InChunk(cs, data, w) \/ AtLastChunk(cs, data, w)

ChunkedAt(w) ==
    /\ answer.framing = "chunked" /\ parser.consumed = 0
    /\ \E cs \in Seq(Seq(Tokens) \ {<<>>}), data \in Seq(Tokens) : ChunkAt(cs, data, w)

BodyAt(w) == Announced /\ bodyLength = parser.length /\ (PlainAt(w) \/ ChunkedAt(w))

AtResponse ==
    /\ pc \in {"call", "status"} => Fresh
    /\ pc = "skip" => \E w \in Seq(Tokens) : Left(w) /\ HeaderAt(w)
    /\ pc = "body" => \E w \in Seq(Tokens) : Left(w) /\ BodyAt(w)

BInv == sketch # "headers" =>
    /\ IdleFresh
    /\ Unfinished
    /\ clean = "yes" => AtResponse
    /\ BodyIsOfResponse

-----------------------------------------------------------------------------
(* The body: what one token changes.                                       *)

\* The first token of two sequences is that of the one in front.
LEMMA HeadOfConcat ==
    \A s, u \in Seq(Tokens) : s # <<>> =>
        /\ Head(s) \in Tokens /\ Tail(s) \in Seq(Tokens)
        /\ s \o u # <<>> /\ Head(s \o u) = Head(s) /\ Tail(s \o u) = Tail(s) \o u
<1> TAKE s, u \in Seq(Tokens)
<1> HAVE s # <<>>
<1>1. Head(s) \in Tokens /\ Tail(s) \in Seq(Tokens) /\ s = Cons(Head(s), Tail(s))
  BY ConsOfHead
<1> DEFINE a == Head(s)
           r == Tail(s)
<1>2. a \in Tokens /\ r \in Seq(Tokens) /\ s = Cons(a, r)
  BY <1>1
<1> HIDE DEF a, r
<1>3. Cons(a, r) \o u = Cons(a, r \o u)
  BY <1>2, ConsConcat, Zenon
<1>4. r \o u \in Seq(Tokens)
  BY <1>2, Concat
<1>5. Cons(a, r \o u) # <<>> /\ Head(Cons(a, r \o u)) = a /\ Tail(Cons(a, r \o u)) = r \o u
  BY <1>2, <1>4, ConsTokens
<1>6. s \o u = Cons(a, r \o u)
  BY <1>2, <1>3
<1> QED
  BY <1>1, <1>5, <1>6 DEF a, r

LEMMA LineHead ==
    \A q \in Seq(Tokens) :
        /\ Line(q) # <<>> /\ Head(Line(q)) = "CR" /\ Tail(Line(q)) = Cons("LF", q)
        /\ Cons("LF", q) # <<>> /\ Head(Cons("LF", q)) = "LF" /\ Tail(Cons("LF", q)) = q
<1> TAKE q \in Seq(Tokens)
<1>1. "CR" \in Tokens /\ "LF" \in Tokens /\ Cons("LF", q) \in Seq(Tokens)
  BY TokenFacts, LineTokens
<1> QED
  BY <1>1, ConsTokens DEF Line

\* The header that delimits the body.
LEMMA FramingRead ==
    ASSUME TypeOK, ReadHeader, NEW w, Head(rx) = Head(w),
           parser.state = "eStatusCodeRead", Fresh, w = Rest(answer)
    PROVE  HeaderAt(Tail(w))'
<1>0. PICK end, n : end = Line(Line(Payload(answer))) /\ n = Numeral(Len(Body(answer)), 10)
  OBVIOUS
<1>1. parser \in Parsers /\ answer \in Responses /\ answer' = answer
  BY DEF TypeOK, ParserOK, NetOK, ReadHeader, Unread
<1>2. /\ end \in Seq(Tokens) /\ answer.framing \in {"length", "chunked", "close"}
      /\ answer.framing = "length" => /\ n \in Seq(Digits) /\ n \in Seq(Tokens)
                                      /\ w = Cons("Content-Length: ", n \o end)
      /\ answer.framing = "chunked" => w = Cons("Transfer-Encoding: chunked", end)
      /\ answer.framing = "close" => w = Cons("x", end)
      /\ Len(Body(answer)) \in Nat
  BY <1>0, <1>1, RestIs, PayloadTokens
<1>3. end = Line(Line(Payload(answer')))
  BY <1>0, <1>1
<1>4. parser' = AfterHeader(Head(w))
  BY DEF ReadHeader
<1>5. CASE answer.framing = "length"
  <2>1. n \o end \in Seq(Tokens) /\ "Content-Length: " \in Tokens
    BY <1>2, <1>5, Concat, TokenFacts
  <2>2. Head(w) = "Content-Length: " /\ Tail(w) = n \o end
    BY <1>2, <1>5, <2>1, ConsTokens
  <2>3. parser' = [parser EXCEPT !.state = "eReadingContentLength", !.length = 0, !.consumed = 0]
    BY <1>4, <2>2 DEF AfterHeader, AtLineStart
  <2>4. /\ parser'.state = "eReadingContentLength" /\ parser'.length = 0 /\ parser'.consumed = 0
        /\ parser'.chunked = "no"
    BY <1>1, <2>3 DEF Parsers, Fresh
  <2>5. ReadsAs(n, 10, 0, Len(Body(answer)))
    BY <1>0, <1>2, NumeralReads
  <2>6. InLength(n \o end)'
    BY <1>1, <1>2, <1>3, <1>5, <2>4, <2>5 DEF InLength
  <2> QED
    BY <1>1, <2>2, <2>4, <2>6 DEF HeaderAt
<1>6. CASE answer.framing # "length"
  <2> DEFINE a == IF answer.framing = "chunked" THEN "Transfer-Encoding: chunked" ELSE "x"
  <2>1. a \in Tokens /\ w = Cons(a, end)
    BY <1>2, <1>6, TokenFacts
  <2>2. Head(w) = a /\ Tail(w) = end
    BY <1>2, <2>1, ConsTokens
  <2>3. parser' = IF answer.framing = "chunked"
                  THEN [parser EXCEPT !.state = "eSkipToEndOfHeader", !.chunked = "yes"]
                  ELSE [parser EXCEPT !.state = "eSkipToEndOfHeader"]
    BY <1>4, <2>2 DEF AfterHeader, AtLineStart
  <2>4. /\ parser'.state = "eSkipToEndOfHeader" /\ parser'.consumed = 0
        /\ parser'.length = kNoContentLengthHeader
        /\ parser'.chunked = IF answer.framing = "chunked" THEN "yes" ELSE "no"
    BY <1>1, <2>3 DEF Parsers, Fresh
  <2>5. Announced'
    BY <1>1, <1>6, <2>4 DEF Announced
  <2>6. InHeader(end)'
    BY <1>3, <2>4 DEF InHeader
  <2> QED
    BY <1>1, <2>2, <2>4, <2>5, <2>6 DEF HeaderAt
<1> QED
  BY <1>5, <1>6

\* The length of the body.
LEMMA LengthRead ==
    ASSUME TypeOK, ReadHeader, NEW w \in Seq(Tokens), Head(rx) = Head(w),
           parser.consumed = 0, InLength(w)
    PROVE  HeaderAt(Tail(w))'
<1>0. PICK end, lf, t : /\ end = Line(Line(Payload(answer)))
                        /\ lf = Cons("LF", Line(Payload(answer)))
                        /\ t = Head(w)
  OBVIOUS
<1>1. parser \in Parsers /\ answer \in Responses /\ answer' = answer
  BY DEF TypeOK, ParserOK, NetOK, ReadHeader, Unread
<1>2. Payload(answer) \in Seq(Tokens) /\ Line(Payload(answer)) \in Seq(Tokens) /\ Len(Body(answer)) \in Nat
  BY <1>1, PayloadTokens, LineTokens
<1>3. end \in Seq(Tokens) /\ Head(end) = "CR" /\ Tail(end) = lf
  BY <1>0, <1>2, LineTokens, LineHead
<1>4. /\ parser.state = "eReadingContentLength" /\ parser.length \in Nat
      /\ answer.framing = "length" /\ parser.chunked = "no"
  BY DEF InLength, TypeOK, ParserOK, Parsers
<1>5. PICK d \in Seq(Digits) : ReadsAs(d, 10, parser.length, Len(Body(answer))) /\ w = d \o end
  BY <1>0 DEF InLength
<1>6. Digits \subseteq HexDigits /\ HexDigits \subseteq Tokens /\ "CR" \notin HexDigits /\ "LF" \notin HexDigits
  BY DigitFacts
<1>7. d \in Seq(HexDigits) /\ d \in Seq(Tokens)
  BY <1>6, SeqMonotonic
<1>8. parser' = AfterHeader(t)
  BY <1>0 DEF ReadHeader
<1>9. CASE d = <<>>
  <2>1. w = end
    BY <1>3, <1>5, <1>9, Concat
  <2>2. t = "CR" /\ Tail(w) = lf
    BY <1>0, <1>3, <2>1
  <2>3. parser' = [parser EXCEPT !.state = "eSkipToEndOfHeader"]
    BY <1>4, <1>6, <1>8, <2>2 DEF AfterHeader, InContentLength
  <2>4. parser.length = Len(Body(answer))
    BY <1>5, <1>9, ReadsNothing
  <2>5. /\ parser'.state = "eSkipToEndOfHeader" /\ parser'.consumed = 0
        /\ parser'.length = Len(Body(answer)) /\ parser'.chunked = "no"
    BY <1>1, <1>4, <2>3, <2>4 DEF Parsers
  <2>6. Announced'
    BY <1>1, <1>4, <2>5 DEF Announced
  <2>7. InHeader(lf)'
    BY <1>0, <1>1, <2>5 DEF InHeader
  <2> QED
    BY <1>1, <2>2, <2>5, <2>6, <2>7 DEF HeaderAt
<1>10. CASE d # <<>>
  <2>1. t = Head(d) /\ Tail(w) = Tail(d) \o end
    BY <1>0, <1>3, <1>5, <1>7, <1>10, HeadOfConcat
  <2>2. Head(d) \in Digits /\ Tail(d) \in Seq(Digits)
    BY <1>10
  <2>3. t \in Digits /\ t # "LF"
    BY <1>6, <2>1, <2>2
  <2>4. parser' = [parser EXCEPT !.length = @ * 10 + Digit(t)]
    BY <1>4, <1>8, <2>3 DEF AfterHeader, InContentLength
  <2>5. /\ parser'.state = "eReadingContentLength" /\ parser'.consumed = 0
        /\ parser'.length = parser.length * 10 + Digit(t) /\ parser'.chunked = "no"
    BY <1>1, <1>4, <2>4 DEF Parsers
  <2>6. ReadsAs(Tail(d), 10, parser'.length, Len(Body(answer)))
    BY <1>4, <1>5, <1>7, <1>10, <2>1, <2>5, ReadsNext
  <2>7. InLength(Tail(d) \o end)'
    BY <1>0, <1>1, <1>4, <2>2, <2>5, <2>6 DEF InLength
  <2> QED
    BY <1>1, <2>1, <2>5, <2>7 DEF HeaderAt
<1> QED
  BY <1>9, <1>10

\* The rest of the headers.
LEMMA HeaderEndRead ==
    ASSUME TypeOK, ReadHeader, NEW w \in Seq(Tokens), Head(rx) = Head(w),
           parser.consumed = 0, Announced, InHeader(w)
    PROVE  HeaderAt(Tail(w))'
<1>0. PICK p, t : p = Payload(answer) /\ t = Head(w)
  OBVIOUS
<1>1. parser \in Parsers /\ answer \in Responses /\ answer' = answer
  BY DEF TypeOK, ParserOK, NetOK, ReadHeader, Unread
<1>2. p \in Seq(Tokens) /\ Line(p) \in Seq(Tokens)
  BY <1>0, <1>1, PayloadTokens, LineTokens
<1>3. parser' = AfterHeader(t)
  BY <1>0 DEF ReadHeader
<1>4. ASSUME NEW s, parser' = [parser EXCEPT !.state = s]
      PROVE  parser'.state = s /\ parser'.consumed = 0 /\ Announced'
  BY <1>1, <1>4 DEF Announced, Parsers
<1>5. CASE parser.state = "eSkipToEndOfHeader" /\ w = Line(Line(p))
  <2>1. t = "CR" /\ Tail(w) = Cons("LF", Line(p))
    BY <1>0, <1>2, <1>5, LineHead
  <2>2. parser' = parser
    BY <1>3, <1>5, <2>1 DEF AfterHeader
  <2>3. Announced' /\ parser'.consumed = 0 /\ parser'.state = "eSkipToEndOfHeader"
    BY <1>1, <1>5, <2>2 DEF Announced
  <2>4. InHeader(Cons("LF", Line(p)))'
    BY <1>0, <1>1, <2>3 DEF InHeader
  <2> QED
    BY <1>1, <2>1, <2>3, <2>4 DEF HeaderAt
<1>6. CASE parser.state = "eSkipToEndOfHeader" /\ w = Cons("LF", Line(p))
  <2>1. t = "LF" /\ Tail(w) = Line(p)
    BY <1>0, <1>2, <1>6, LineHead
  <2>2. parser' = [parser EXCEPT !.state = "eStatusCodeRead"]
    BY <1>3, <1>6, <2>1 DEF AfterHeader
  <2>3. Announced' /\ parser'.consumed = 0 /\ parser'.state = "eStatusCodeRead"
    BY <1>4, <2>2
  <2>4. InHeader(Line(p))'
    BY <1>0, <1>1, <2>3 DEF InHeader
  <2> QED
    BY <1>1, <2>1, <2>3, <2>4 DEF HeaderAt
<1>7. CASE parser.state = "eStatusCodeRead" /\ w = Line(p)
  <2>1. t = "CR" /\ Tail(w) = Cons("LF", p)
    BY <1>0, <1>2, <1>7, LineHead
  <2>2. parser' = [parser EXCEPT !.state = "eLineStartingCRFound"]
    BY <1>3, <1>7, <2>1 DEF AfterHeader, AtLineStart
  <2>3. Announced' /\ parser'.consumed = 0 /\ parser'.state = "eLineStartingCRFound"
    BY <1>4, <2>2
  <2>4. InHeader(Cons("LF", p))'
    BY <1>0, <1>1, <2>3 DEF InHeader
  <2> QED
    BY <1>1, <2>1, <2>3, <2>4 DEF HeaderAt
<1>8. CASE parser.state = "eLineStartingCRFound" /\ w = Cons("LF", p)
  <2>1. t = "LF" /\ Tail(w) = p
    BY <1>0, <1>2, <1>8, LineHead
  <2>2. parser.chunked = IF answer.framing = "chunked" THEN "yes" ELSE "no"
    BY DEF Announced
  <2>3. parser' = IF answer.framing = "chunked"
                  THEN [parser EXCEPT !.state = "eReadingChunkLength", !.chunk = 0]
                  ELSE [parser EXCEPT !.state = "eReadingBody"]
    BY <1>3, <1>8, <2>1, <2>2 DEF AfterHeader
  <2>4. parser'.consumed = 0 /\ parser'.length = parser.length /\ parser'.chunked = parser.chunked
    BY <1>1, <2>3 DEF Parsers
  <2>5. Announced'
    BY <1>1, <2>4 DEF Announced
  <2>6. IF answer.framing = "chunked" THEN parser'.state = "eReadingChunkLength" /\ parser'.chunk = 0
                                      ELSE parser'.state = "eReadingBody"
    BY <1>1, <2>3 DEF Parsers
  <2>7. BodyStarts(p)'
    BY <1>0, <1>1, <2>6 DEF BodyStarts
  <2> QED
    BY <1>1, <2>1, <2>4, <2>5, <2>7 DEF HeaderAt
<1> QED
  BY <1>0, <1>5, <1>6, <1>7, <1>8 DEF InHeader

LEMMA HeaderRead ==
    ASSUME TypeOK, ReadHeader, NEW w \in Seq(Tokens), Head(rx) = Head(w), HeaderAt(w)
    PROVE  HeaderAt(Tail(w))'
<1>1. ~ BodyStarts(w)
  BY DEF BodyStarts, ReadHeader, EndOfHeadersReached, BodyStates
<1>2. CASE parser.state = "eStatusCodeRead" /\ Fresh /\ w = Rest(answer)
  BY <1>2, FramingRead
<1>3. CASE parser.consumed = 0 /\ InLength(w)
  BY <1>3, LengthRead
<1>4. CASE parser.consumed = 0 /\ Announced /\ InHeader(w)
  BY <1>4, HeaderEndRead
<1> QED
  BY <1>1, <1>2, <1>3, <1>4 DEF HeaderAt

\* The headers have been read: nothing of the body yet.
LEMMA BodyReached ==
    ASSUME TypeOK, SkipDone, response = <<>>, NEW w \in Seq(Tokens), HeaderAt(w)
    PROVE  BodyAt(w)'
<1>1. /\ UNCHANGED <<parser, answer, response>> /\ bodyLength' = parser.length
      /\ answer \in Responses /\ parser.state \in BodyStates
  BY DEF SkipDone, Unread, TypeOK, NetOK, EndOfHeadersReached
<1>2. parser.consumed = 0 /\ Announced /\ BodyStarts(w)
  BY <1>1 DEF HeaderAt, InLength, InHeader, BodyStates
<1>3. Announced'
  BY <1>1, <1>2 DEF Announced
<1>4. Body(answer) \in Seq(Tokens) /\ answer.chunks \in Seq(Seq(Tokens) \ {<<>>}) /\ <<>> \in Seq(Tokens)
  BY <1>1, PayloadTokens, Concat
<1>5. \A s \in Seq(Tokens) : <<>> \o s = s
  BY Concat
<1>6. CASE answer.framing # "chunked"
  <2>1. w = Body(answer)
    BY <1>2, <1>6 DEF BodyStarts, Payload
  <2>2. PlainAt(w)'
    <3>1. Len(response) = 0
      OBVIOUS
    <3>2. Body(answer) = response \o w
      BY <1>4, <1>5, <2>1
    <3> QED
      BY <1>1, <1>2, <1>6, <3>1, <3>2 DEF PlainAt, BodyStarts
  <2> QED
    BY <1>1, <1>3, <2>2 DEF BodyAt
<1>7. CASE answer.framing = "chunked"
  <2>0. PICK cs \in Seq(Seq(Tokens) \ {<<>>}) : cs = answer.chunks
    BY <1>4
  <2>1. w = Chunked(cs) /\ Chunked(cs) \in Seq(Tokens)
    BY <1>2, <1>7, <2>0, ChunkedIs DEF BodyStarts, Payload
  <2>2. Body(answer) = FlattenSeq(cs) /\ FlattenSeq(cs) \in Seq(Tokens)
    BY <1>4, <2>0 DEF Body
  <2>3. Body(answer) = response \o (<<>> \o FlattenSeq(cs))
    BY <1>5, <2>2
  <2>4. <<>> \in Seq({"CR", "LF"}) /\ w = <<>> \o Chunked(cs)
    BY <1>5, <2>1
  <2>5. parser'.state = "eReadingChunkLength" /\ parser'.chunk = 0
    BY <1>1, <1>2, <1>7 DEF BodyStarts
  <2>6. BetweenChunks(cs, <<>>, w)'
    BY <2>4, <2>5 DEF BetweenChunks
  <2>7. ChunkAt(cs, <<>>, w)'
    BY <1>1, <2>3, <2>6 DEF ChunkAt
  <2>8. ChunkedAt(w)'
    BY <1>1, <1>2, <1>4, <1>7, <2>7 DEF ChunkedAt
  <2> QED
    BY <1>1, <1>3, <2>8 DEF BodyAt
<1> QED
  BY <1>6, <1>7

\* A token moves from the front of what is ahead to the end of what was read.
LEMMA MoveToken ==
    \A s, u \in Seq(Tokens) : u # <<>> =>
        /\ Append(s, Head(u)) \in Seq(Tokens) /\ Tail(u) \in Seq(Tokens)
        /\ Len(Append(s, Head(u))) = Len(s) + 1
        /\ s \o u = Append(s, Head(u)) \o Tail(u)
<1> TAKE s, u \in Seq(Tokens)
<1> HAVE u # <<>>
<1>1. PICK a \in Tokens, r \in Seq(Tokens) : a = Head(u) /\ r = Tail(u) /\ u = Cons(a, r)
  BY ConsOfHead
<1>2. <<a>> \in Seq(Tokens)
  OBVIOUS
<1>3. Append(s, a) = s \o <<a>> /\ Append(s, a) \in Seq(Tokens) /\ Len(Append(s, a)) = Len(s) + 1
  BY AppendIsConcat
<1>4. (s \o <<a>>) \o r = s \o (<<a>> \o r)
  BY <1>2, Assoc, Zenon
<1>5. u = <<a>> \o r
  BY <1>1 DEF Cons
<1> QED
  BY <1>1, <1>3, <1>4, <1>5

\* What stays as it is while the body is read.
LEMMA ReadKeeps ==
    ASSUME TypeOK, ReadByte \/ ReadChunkByte \/ ReadChunkLength, Announced, bodyLength = parser.length
    PROVE  /\ parser \in Parsers /\ answer \in Responses /\ answer' = answer
           /\ response \in Seq(Tokens) /\ Body(answer) \in Seq(Tokens)
           /\ parser'.length = parser.length /\ Announced' /\ bodyLength' = parser'.length
<1>1. parser \in Parsers /\ answer \in Responses /\ response \in Seq(Tokens)
  BY DEF TypeOK, ParserOK, NetOK, CallOK
<1>2. answer' = answer /\ bodyLength' = bodyLength
  BY DEF ReadByte, ReadChunkByte, ReadChunkLength, Unread, callVars
<1>3. /\ Counted(parser) \in Parsers
      /\ Counted(parser).length = parser.length /\ Counted(parser).chunked = parser.chunked
  BY <1>1 DEF Counted, Parsers
<1>4. parser'.length = parser.length /\ parser'.chunked = parser.chunked
  <2>1. CASE ReadByte
    BY <1>3, <2>1 DEF ReadByte
  <2>2. CASE ReadChunkByte
    BY <1>3, <2>2 DEF ReadChunkByte, Parsers
  <2>3. CASE ReadChunkLength
    BY <1>1, <2>3 DEF ReadChunkLength, AfterChunkLength, Parsers
  <2> QED
    BY <2>1, <2>2, <2>3
<1>5. Announced'
  BY <1>2, <1>4 DEF Announced
<1>6. Body(answer) \in Seq(Tokens)
  BY <1>1, PayloadTokens
<1> QED
  BY <1>1, <1>2, <1>4, <1>5, <1>6

\* A byte of a body that is not in chunks.
LEMMA PlainRead ==
    ASSUME TypeOK, ReadByte, NEW w \in Seq(Tokens), w # <<>>, Head(rx) = Head(w),
           Announced, bodyLength = parser.length, PlainAt(w)
    PROVE  BodyAt(Tail(w))'
<1>1. /\ parser \in Parsers /\ answer' = answer /\ response \in Seq(Tokens) /\ Body(answer) \in Seq(Tokens)
      /\ parser'.length = parser.length /\ Announced' /\ bodyLength' = parser'.length
  BY ReadKeeps
<1>2. response' = Append(response, Head(w)) /\ parser' = Counted(parser)
  BY DEF ReadByte
<1>3. PICK r \in Seq(Tokens) : r = response
  BY <1>1
<1>4. /\ Tail(w) \in Seq(Tokens) /\ r \o w = Append(r, Head(w)) \o Tail(w)
      /\ Len(Append(r, Head(w))) = Len(r) + 1
  BY <1>3, MoveToken
<1>5. Body(answer) = response' \o Tail(w) /\ Len(response') = Len(response) + 1
  BY <1>2, <1>3, <1>4 DEF PlainAt
<1>6. /\ parser'.state = "eReadingBody"
      /\ parser'.consumed = IF parser.length > 0 THEN parser.consumed + 1 ELSE parser.consumed
  BY <1>1, <1>2 DEF Counted, EndOfHeadersReached, BodyStates, Parsers, PlainAt
<1>7. answer.framing = "length" => parser.length > 0
  <2>1. Len(r \o w) = Len(r) + Len(w) /\ Len(r) \in Nat /\ Len(w) \in Nat /\ Len(w) > 0
    BY Concat
  <2>2. answer.framing = "length" => parser.length = Len(r \o w)
    BY <1>3 DEF Announced, PlainAt
  <2> QED
    BY <2>1, <2>2
<1>8. answer.framing # "length" => ~ (parser.length > 0)
  BY DEF Announced, kNoContentLengthHeader
<1>9. parser'.consumed = IF answer.framing = "length" THEN Len(response') ELSE 0
  BY <1>5, <1>6, <1>7, <1>8 DEF PlainAt
<1>10. PlainAt(Tail(w))'
  BY <1>1, <1>5, <1>6, <1>9 DEF PlainAt
<1> QED
  BY <1>1, <1>10 DEF BodyAt

\* Where in a chunked body the parser can be; a chunk starts with its length.
LEMMA ChunkForms ==
    ASSUME TypeOK, NEW w \in Seq(Tokens), ChunkedAt(w)
    PROVE  \E cs \in Seq(Seq(Tokens) \ {<<>>}), data \in Seq(Tokens) :
             /\ Body(answer) = response \o (data \o FlattenSeq(cs))
             /\ \/ /\ BetweenChunks(cs, data, w)
                   /\ \E z \in Seq({"CR", "LF"}) : z # <<>> /\ w = z \o Chunked(cs)
                \/ InChunkLength(cs, data, w)
                \/ InChunk(cs, data, w)
                \/ AtLastChunk(cs, data, w)
<1>1. PICK cs \in Seq(Seq(Tokens) \ {<<>>}), data \in Seq(Tokens) : ChunkAt(cs, data, w)
  BY DEF ChunkedAt
<1>2. CASE BetweenChunks(cs, data, w)
  <2>1. PICK z \in Seq({"CR", "LF"}) : w = z \o Chunked(cs)
    BY <1>2 DEF BetweenChunks
  <2>2. parser.state = "eReadingChunkLength" /\ parser.chunk = 0 /\ data = <<>>
    BY <1>2 DEF BetweenChunks
  <2>3. Chunked(cs) \in Seq(Tokens) /\ FlattenSeq(cs) \in Seq(Tokens)
    BY ChunkedIs, BodyTokens
  <2>4. CASE z # <<>>
    BY <1>1, <1>2, <2>1, <2>4 DEF ChunkAt
  <2>5. CASE z = <<>>
    <3>1. w = Chunked(cs)
      BY <2>1, <2>3, <2>5, Concat
    <3>2. CASE cs = <<>>
      <4>1. w \in Seq({"0", "CR", "LF"})
        BY <3>1, <3>2, ChunkedIs
      <4>2. AtLastChunk(cs, data, w)
        BY <2>2, <3>2, <4>1 DEF AtLastChunk
      <4> QED
        BY <1>1, <4>2 DEF ChunkAt
    <3>3. CASE cs # <<>>
      <4>1. PICK first \in Seq(Tokens), rest \in Seq(Seq(Tokens) \ {<<>>}) :
              /\ first # <<>> /\ FlattenSeq(cs) = first \o FlattenSeq(rest)
              /\ Chunked(cs) = Chunk(first) \o Chunked(rest)
        BY <3>3, ChunkedIs
      <4>2. Chunked(rest) \in Seq(Tokens)
        BY ChunkedIs
      <4>3. PICK n \in Seq(HexDigits) :
              /\ n = Numeral(Len(first), 16)
              /\ Chunk(first) \o Chunked(rest) = n \o Line(first \o Line(Chunked(rest)))
        BY <4>2, ChunkIs
      <4>4. ReadsAs(n, 16, 0, Len(first))
        <5>1. Len(first) \in Nat
          OBVIOUS
        <5> QED
          BY <4>3, <5>1, NumeralReads
      <4>5. InChunkLength(rest, first, w)
        BY <2>2, <3>1, <4>1, <4>3, <4>4 DEF InChunkLength
      <4>6. Body(answer) = response \o (first \o FlattenSeq(rest))
        <5>1. <<>> \o FlattenSeq(cs) = FlattenSeq(cs)
          BY <2>3, Concat
        <5> QED
          BY <1>1, <2>2, <4>1, <5>1 DEF ChunkAt
      <4> QED
        BY <4>5, <4>6
    <3> QED
      BY <3>2, <3>3
  <2> QED
    BY <2>4, <2>5
<1>3. CASE ~ BetweenChunks(cs, data, w)
  BY <1>1, <1>3 DEF ChunkAt
<1> QED
  BY <1>2, <1>3

\* A byte of a chunk's length, of the line behind it or behind a chunk.
LEMMA ChunkLengthRead ==
    ASSUME TypeOK, ReadChunkLength, NEW w \in Seq(Tokens), w # <<>>, Head(rx) = Head(w), ChunkedAt(w)
    PROVE  ChunkedAt(Tail(w))'
<1>1. /\ parser \in Parsers /\ parser.chunk \in Nat /\ parser.state = "eReadingChunkLength"
      /\ answer' = answer /\ response' = response /\ parser' = AfterChunkLength(Head(w))
  BY DEF TypeOK, ParserOK, Parsers, ReadChunkLength, Unread, callVars
<1>2. PICK t : t = Head(w)
  OBVIOUS
<1>3. answer.framing = "chunked" /\ parser.consumed = 0
  BY DEF ChunkedAt
<1>4. PICK cs \in Seq(Seq(Tokens) \ {<<>>}), data \in Seq(Tokens) :
         /\ Body(answer) = response \o (data \o FlattenSeq(cs))
         /\ \/ /\ BetweenChunks(cs, data, w)
               /\ \E z \in Seq({"CR", "LF"}) : z # <<>> /\ w = z \o Chunked(cs)
            \/ InChunkLength(cs, data, w)
            \/ InChunk(cs, data, w)
            \/ AtLastChunk(cs, data, w)
  BY ChunkForms
<1>5. /\ "CR" \notin HexDigits /\ "LF" \notin HexDigits /\ "0" \in HexDigits /\ Digit("0") = 0
      /\ HexDigits \subseteq Tokens
      /\ \A u \in HexDigits : Digit(u) \in Nat
  <2>1. /\ "CR" \notin HexDigits /\ "LF" \notin HexDigits /\ HexDigits \subseteq Tokens
    BY DigitFacts
  <2>2. DigitOf(0) = "0" /\ DigitOf(0) \in HexDigits /\ Digit(DigitOf(0)) = 0
    <3>1. 0 \in 0 .. 15
      OBVIOUS
    <3> QED
      BY <3>1, DigitFacts
  <2>3. "0" \in HexDigits /\ Digit("0") = 0
    BY <2>2, Zenon
  <2> QED
    BY <2>1, <2>3, CodesAndDigits
<1>6. SUFFICES parser'.consumed = 0 /\ ChunkAt(cs, data, Tail(w))'
  BY <1>1, <1>3 DEF ChunkedAt
<1>7. SUFFICES /\ parser'.consumed = 0
               /\ \/ BetweenChunks(cs, data, Tail(w))' \/ InChunkLength(cs, data, Tail(w))'
                  \/ InChunk(cs, data, Tail(w))' \/ AtLastChunk(cs, data, Tail(w))'
  BY <1>1, <1>4 DEF ChunkAt
<1>8. CASE /\ BetweenChunks(cs, data, w)
           /\ \E z \in Seq({"CR", "LF"}) : z # <<>> /\ w = z \o Chunked(cs)
  <2>1. PICK z \in Seq({"CR", "LF"}) : z # <<>> /\ w = z \o Chunked(cs)
    BY <1>8
  <2>2. Head(z) \in {"CR", "LF"} /\ Tail(z) \in Seq({"CR", "LF"})
    BY <2>1
  <2>3. z \in Seq(Tokens) /\ Chunked(cs) \in Seq(Tokens)
    <3>1. {"CR", "LF"} \subseteq Tokens
      BY TokenFacts
    <3> QED
      BY <3>1, SeqMonotonic, ChunkedIs
  <2>4. t = Head(z) /\ Tail(w) = Tail(z) \o Chunked(cs)
    BY <1>2, <2>1, <2>3, HeadOfConcat
  <2>5. parser.chunk = 0 /\ data = <<>>
    BY <1>8 DEF BetweenChunks
  <2>6. parser' = parser
    BY <1>1, <1>2, <1>5, <2>2, <2>4, <2>5 DEF AfterChunkLength
  <2>7. BetweenChunks(cs, data, Tail(w))'
    BY <1>1, <2>2, <2>4, <2>5, <2>6 DEF BetweenChunks
  <2> QED
    BY <1>3, <2>6, <2>7
<1>9. CASE InChunkLength(cs, data, w)
  <2>0. PICK lf, end : lf = Cons("LF", data \o Line(Chunked(cs))) /\ end = Line(data \o Line(Chunked(cs)))
    OBVIOUS
  <2>1. data \o Line(Chunked(cs)) \in Seq(Tokens) /\ Len(data) \in Nat /\ Len(data) > 0 /\ data # <<>>
    <3>1. Line(Chunked(cs)) \in Seq(Tokens)
      BY ChunkedIs, LineTokens
    <3>2. data \o Line(Chunked(cs)) \in Seq(Tokens)
      BY <3>1, Concat
    <3>3. data # <<>>
      BY <1>9 DEF InChunkLength
    <3> QED
      BY <3>2, <3>3
  <2>2. /\ end \in Seq(Tokens) /\ Head(end) = "CR" /\ Tail(end) = lf
        /\ Head(lf) = "LF" /\ Tail(lf) = data \o Line(Chunked(cs))
    BY <2>0, <2>1, LineTokens, LineHead
  <2>3. CASE parser.chunk = Len(data) /\ w = lf
    <3>1. t = "LF" /\ Tail(w) = data \o Line(Chunked(cs))
      BY <1>2, <2>2, <2>3
    <3>2. parser' = [parser EXCEPT !.state = "eReadingBodyChunk"]
      BY <1>1, <1>2, <1>5, <2>1, <2>3, <3>1 DEF AfterChunkLength
    <3>3. parser'.state = "eReadingBodyChunk" /\ parser'.chunk = Len(data) /\ parser'.consumed = 0
      BY <1>1, <1>3, <2>3, <3>2 DEF Parsers
    <3>4. InChunk(cs, data, Tail(w))'
      BY <2>1, <3>1, <3>3 DEF InChunk
    <3> QED
      BY <3>3, <3>4
  <2>4. CASE w # lf \/ parser.chunk # Len(data)
    <3>1. PICK d \in Seq(HexDigits) : ReadsAs(d, 16, parser.chunk, Len(data)) /\ w = d \o end
      BY <1>9, <2>0, <2>4 DEF InChunkLength
    <3>2. d \in Seq(Tokens)
      BY <1>5, SeqMonotonic
    <3>3. CASE d = <<>>
      <4>1. w = end /\ parser.chunk = Len(data)
        BY <2>2, <3>1, <3>3, Concat, ReadsNothing
      <4>2. t = "CR" /\ Tail(w) = lf
        BY <1>2, <2>2, <4>1
      <4>3. parser' = parser
        BY <1>1, <1>2, <1>5, <4>2 DEF AfterChunkLength
      <4>4. InChunkLength(cs, data, Tail(w))'
        BY <1>1, <2>0, <2>1, <4>1, <4>2, <4>3 DEF InChunkLength
      <4> QED
        BY <1>3, <4>3, <4>4
    <3>4. CASE d # <<>>
      <4>1. t = Head(d) /\ Tail(w) = Tail(d) \o end
        BY <1>2, <2>2, <3>1, <3>2, <3>4, HeadOfConcat
      <4>2. t \in HexDigits /\ Tail(d) \in Seq(HexDigits)
        BY <3>4, <4>1
      <4>3. parser' = [parser EXCEPT !.chunk = @ * 16 + Digit(t)]
        <5>1. t # "LF"
          BY <1>5, <4>2
        <5> QED
          BY <1>1, <1>2, <4>2, <5>1 DEF AfterChunkLength
      <4>4. /\ parser'.state = "eReadingChunkLength" /\ parser'.consumed = 0
            /\ parser'.chunk = parser.chunk * 16 + Digit(t)
        BY <1>1, <1>3, <4>3 DEF Parsers
      <4>5. ReadsAs(Tail(d), 16, parser'.chunk, Len(data))
        BY <1>1, <3>1, <3>4, <4>1, <4>4, ReadsNext
      <4>6. InChunkLength(cs, data, Tail(w))'
        BY <2>0, <2>1, <4>1, <4>2, <4>4, <4>5 DEF InChunkLength
      <4> QED
        BY <4>4, <4>6
    <3> QED
      BY <3>3, <3>4
  <2> QED
    BY <2>3, <2>4
<1>10. CASE InChunk(cs, data, w)
  BY <1>1, <1>10 DEF InChunk
<1>11. CASE AtLastChunk(cs, data, w)
  <2>1. w \in Seq({"0", "CR", "LF"}) /\ parser.chunk = 0 /\ data = <<>> /\ cs = <<>>
    BY <1>11 DEF AtLastChunk
  <2>2. t \in {"0", "CR", "LF"} /\ Tail(w) \in Seq({"0", "CR", "LF"})
    BY <1>2, <2>1
  <2>3. CASE t = "0"
    <3>1. parser' = [parser EXCEPT !.chunk = @ * 16 + Digit(t)]
      BY <1>1, <1>2, <1>5, <2>3 DEF AfterChunkLength
    <3>2. parser'.state = "eReadingChunkLength" /\ parser'.consumed = 0 /\ parser'.chunk = 0
      <4>1. parser.chunk * 16 + Digit(t) = 0
        BY <1>5, <2>1, <2>3
      <4> QED
        BY <1>1, <1>3, <3>1, <4>1 DEF Parsers
    <3>3. AtLastChunk(cs, data, Tail(w))'
      BY <2>1, <2>2, <3>2 DEF AtLastChunk
    <3> QED
      BY <3>2, <3>3
  <2>4. CASE t # "0"
    <3>1. parser' = parser
      BY <1>1, <1>2, <1>5, <2>1, <2>2, <2>4 DEF AfterChunkLength
    <3>2. AtLastChunk(cs, data, Tail(w))'
      BY <1>1, <2>1, <2>2, <3>1 DEF AtLastChunk
    <3> QED
      BY <1>3, <3>1, <3>2
  <2> QED
    BY <2>3, <2>4
<1> QED
  BY <1>4, <1>8, <1>9, <1>10, <1>11

\* A byte of a chunk.
LEMMA ChunkByteRead ==
    ASSUME TypeOK, ReadChunkByte, NEW w \in Seq(Tokens), w # <<>>, Head(rx) = Head(w),
           ~ (parser.length > 0), ChunkedAt(w)
    PROVE  ChunkedAt(Tail(w))'
<1>1. /\ parser \in Parsers /\ parser.state = "eReadingBodyChunk"
      /\ answer' = answer /\ response' = Append(response, Head(w)) /\ response \in Seq(Tokens)
  BY DEF TypeOK, ParserOK, CallOK, ReadChunkByte, Unread
<1>2. answer.framing = "chunked" /\ parser.consumed = 0
  BY DEF ChunkedAt
<1>3. PICK cs \in Seq(Seq(Tokens) \ {<<>>}), data \in Seq(Tokens) :
         Body(answer) = response \o (data \o FlattenSeq(cs)) /\ InChunk(cs, data, w)
  BY <1>1 DEF ChunkedAt, ChunkAt, BetweenChunks, InChunkLength, AtLastChunk
<1>4. PICK end \in Seq(Tokens), f \in Seq(Tokens) : end = Line(Chunked(cs)) /\ f = FlattenSeq(cs)
  BY ChunkedIs, LineTokens, BodyTokens
<1>5. data # <<>> /\ parser.chunk = Len(data) /\ w = data \o end
  BY <1>3, <1>4 DEF InChunk
<1>6. /\ Head(w) = Head(data) /\ Tail(w) = Tail(data) \o end
      /\ Tail(data) \in Seq(Tokens) /\ Head(data) \in Tokens
  BY <1>5, HeadOfConcat
<1>7. /\ Len(data) \in Nat /\ Len(data) > 0 /\ Len(Tail(data)) = Len(data) - 1
      /\ (Len(data) = 1 <=> Tail(data) = <<>>)
  <2>1. Len(data) \in Nat /\ Len(data) > 0 /\ Len(Tail(data)) = Len(data) - 1
    BY <1>5
  <2>2. Len(Tail(data)) = 0 <=> Tail(data) = <<>>
    BY <1>6, EmptySeq
  <2> QED
    BY <2>1, <2>2
<1>8. Body(answer) = response' \o (Tail(data) \o f)
  <2>1. /\ data \o f \in Seq(Tokens) /\ data \o f # <<>>
        /\ Head(data \o f) = Head(data) /\ Tail(data \o f) = Tail(data) \o f
    BY <1>4, <1>5, HeadOfConcat, Concat
  <2>2. PICK r \in Seq(Tokens) : r = response
    BY <1>1
  <2>3. r \o (data \o f) = Append(r, Head(data \o f)) \o Tail(data \o f)
    BY <2>1, MoveToken
  <2> QED
    BY <1>1, <1>3, <1>4, <1>6, <2>1, <2>2, <2>3
<1>9. Counted(parser) = parser
  BY DEF Counted
<1>10. /\ parser'.state = IF Len(data) = 1 THEN "eReadingChunkLength" ELSE "eReadingBodyChunk"
       /\ parser'.chunk = Len(data) - 1 /\ parser'.consumed = 0
  BY <1>1, <1>2, <1>5, <1>9 DEF ReadChunkByte, Parsers
<1>11. BetweenChunks(cs, Tail(data), Tail(w))' \/ InChunk(cs, Tail(data), Tail(w))'
  <2>1. CASE Len(data) = 1
    <3>1. Tail(data) = <<>> /\ Tail(w) = end
      BY <1>4, <1>6, <1>7, <2>1, Concat
    <3>2. <<"CR", "LF">> \in Seq({"CR", "LF"})
      OBVIOUS
    <3>3. end = <<"CR", "LF">> \o Chunked(cs)
      BY <1>4, ChunkedIs, LineEnd
    <3>4. parser'.state = "eReadingChunkLength" /\ parser'.chunk = 0
      BY <1>10, <2>1
    <3>5. BetweenChunks(cs, Tail(data), Tail(w))'
      BY <3>1, <3>2, <3>3, <3>4, Zenon DEF BetweenChunks
    <3> QED
      BY <3>5
  <2>2. CASE Len(data) # 1
    <3>1. Tail(data) # <<>>
      BY <1>7, <2>2
    <3> QED
      BY <1>4, <1>6, <1>7, <1>10, <2>2, <3>1 DEF InChunk
  <2> QED
    BY <2>1, <2>2
<1>12. ChunkAt(cs, Tail(data), Tail(w))'
  BY <1>1, <1>4, <1>8, <1>11 DEF ChunkAt
<1> QED
  BY <1>1, <1>2, <1>6, <1>10, <1>12 DEF ChunkedAt

LEMMA BodyRead ==
    ASSUME TypeOK, ReadByte \/ ReadChunkByte \/ ReadChunkLength,
           NEW w \in Seq(Tokens), w # <<>>, Head(rx) = Head(w), BodyAt(w)
    PROVE  BodyAt(Tail(w))'
<1>1. Announced /\ bodyLength = parser.length
  BY DEF BodyAt
<1>2. Announced' /\ bodyLength' = parser'.length
  BY <1>1, ReadKeeps
<1>3. CASE PlainAt(w)
  <2>1. ReadByte
    BY <1>3 DEF PlainAt, ReadChunkByte, ReadChunkLength
  <2> QED
    BY <1>1, <1>3, <2>1, PlainRead
<1>4. CASE ChunkedAt(w)
  <2>1. parser.state \in {"eReadingChunkLength", "eReadingBodyChunk"}
    BY <1>4 DEF ChunkedAt, ChunkAt, BetweenChunks, InChunkLength, InChunk, AtLastChunk
  <2>2. ~ (parser.length > 0)
    BY <1>1, <1>4 DEF Announced, ChunkedAt, kNoContentLengthHeader
  <2>3. CASE ReadChunkByte
    BY <1>2, <1>4, <2>2, <2>3, ChunkByteRead DEF BodyAt
  <2>4. CASE ReadChunkLength
    BY <1>2, <1>4, <2>4, ChunkLengthRead DEF BodyAt
  <2> QED
    BY <2>1, <2>3, <2>4 DEF ReadByte
<1> QED
  BY <1>3, <1>4 DEF BodyAt

-----------------------------------------------------------------------------
(* The body: the steps of the system.                                      *)

LEMMA InitBInv == Init => BInv
<1> SUFFICES ASSUME Init PROVE BInv
  OBVIOUS
<1>1. IdleFresh /\ Unfinished
  BY DEF Init, IdleFresh, Fresh, Unfinished, Idle
<1> QED
  BY <1>1 DEF Init, BInv, BodyIsOfResponse

\* A request starts with a parser that remembers nothing.
LEMMA StartedFresh ==
    ASSUME TypeOK, pc = "idle", sketch # "headers", IdleFresh, Started.state \in Idle
    PROVE  /\ Started.length = kNoContentLengthHeader /\ Started.consumed = 0 /\ Started.chunked = "no"
           /\ sketch = "stops" => Started.state = "eRequestStarted"
<1>1. parser \in Parsers
  BY DEF TypeOK, ParserOK
<1>2. sketch \in {"simple", "stops"}
  BY SketchesAssumption DEF TypeOK, CallOK
<1>3. CASE sketch = "simple"
  <2>1. Begun = parser
    BY <1>3 DEF Begun
  <2>2. CASE parser.state \in BodyStates
    BY <1>3, <2>1, <2>2 DEF Started, ResetState
  <2>3. CASE parser.state \notin BodyStates
    BY <1>3, <2>1, <2>3 DEF Started, IdleFresh, Fresh
  <2> QED
    BY <2>2, <2>3
<1>4. CASE sketch = "stops"
  <2>1. Fresh
    BY <1>4 DEF IdleFresh, Idle
  <2>2. Begun = [parser EXCEPT !.state = "eRequestStarted"]
    BY <1>4 DEF Begun
  <2>3. /\ Begun.state = "eRequestStarted" /\ Begun.length = kNoContentLengthHeader
        /\ Begun.consumed = 0 /\ Begun.chunked = "no"
    BY <1>1, <2>1, <2>2 DEF Parsers, Fresh
  <2>4. Started = Begun
    BY <2>3 DEF Started, BodyStates
  <2> QED
    BY <2>3, <2>4
<1> QED
  BY <1>2, <1>3, <1>4

LEMMA RequestBInv == IInv /\ BInv /\ Request => BInv'
<1> SUFFICES ASSUME IInv, BInv, Request, sketch' # "headers" PROVE BInv'
  BY DEF BInv
<1>1. TypeOK /\ StartRound /\ pc = "idle" /\ pc' = "call" /\ response' = <<>> /\ outcome' = "none"
  BY DEF IInv, Request, RefuseRequest, ConnectFails, RequestOnNewConnection, RequestOnOpenConnection, StartRound
<1>2. sketch' = sketch /\ IdleFresh /\ Started \in Parsers
  BY <1>1, StartedType DEF BInv, StartRound
<1>3. Unfinished' /\ BodyIsOfResponse'
  BY <1>1 DEF Unfinished, BodyIsOfResponse
<1>4. ASSUME Started.state \in Idle,
             parser' = Started \/ parser' = [Started EXCEPT !.state = "eRequestSent"]
      PROVE  Fresh'
  <2>1. /\ Started.length = kNoContentLengthHeader /\ Started.consumed = 0 /\ Started.chunked = "no"
    BY <1>1, <1>2, <1>4, StartedFresh
  <2> QED
    BY <1>2, <1>4, <2>1 DEF Fresh, Parsers
<1>5. CASE RefuseRequest
  <2>1. Started.state \notin Idle /\ UNCHANGED <<parser, clean>>
    BY <1>5 DEF RefuseRequest, history
  <2>2. IdleFresh'
    BY <1>1, <1>2, <2>1 DEF IdleFresh, Fresh
  <2>3. clean' # "yes"
    <3>1. ASSUME clean = "yes" PROVE FALSE
      <4>1. parser.state \in BodyStates \cup {"eIdle"} /\ parser \in Parsers
        BY <1>1, <3>1 DEF IInv, Behind, TypeOK, ParserOK
      <4>2. Begun.state \in BodyStates \cup {"eIdle", "eRequestStarted"}
        BY <4>1 DEF Begun, Parsers
      <4>3. Started.state \in Idle
        BY <4>2 DEF Started, ResetState, Idle, BodyStates
      <4> QED
        BY <2>1, <4>3
    <3> QED
      BY <2>1, <3>1
  <2> QED
    BY <1>3, <2>2, <2>3 DEF BInv
<1>6. CASE ~ RefuseRequest
  <2>1. /\ Started.state \in Idle
        /\ (parser' = Started \/ parser' = [Started EXCEPT !.state = "eRequestSent"])
    BY <1>6 DEF Request, ConnectFails, RequestOnNewConnection, RequestOnOpenConnection, SendRequest
  <2>2. Fresh'
    BY <1>4, <2>1
  <2>3. IdleFresh'
    BY <1>1, <2>2 DEF IdleFresh
  <2>4. AtResponse'
    BY <1>1, <2>2 DEF AtResponse
  <2> QED
    BY <1>3, <2>3, <2>4 DEF BInv
<1> QED
  BY <1>5, <1>6

\* The status line says nothing of the body.
LEMMA StatusKeeps ==
    ASSUME TypeOK, ResponseStatusCode
    PROVE  /\ parser'.length = parser.length /\ parser'.consumed = parser.consumed
           /\ parser'.chunked = parser.chunked
           /\ parser'.state \in Idle => parser.state \in Idle
<1> DEFINE Kept(p) == /\ p.length = parser.length /\ p.consumed = parser.consumed
                      /\ p.chunked = parser.chunked
                      /\ p.state \in Idle => parser.state \in Idle
<1>1. parser \in Parsers
  BY DEF TypeOK, ParserOK
<1>2. Kept(parser)
  OBVIOUS
<1>3. ASSUME NEW s \in HeaderStates PROVE Kept([parser EXCEPT !.state = s])
  BY <1>1, <1>3 DEF Parsers, HeaderStates, Idle
<1>4. ASSUME NEW c PROVE Kept([parser EXCEPT !.code = c])
  BY <1>1 DEF Parsers
<1>5. Kept([parser EXCEPT !.state = "eRequestSent", !.code = 0])
  BY <1>1 DEF Parsers, Idle
<1>6. \A t : Kept(AfterStatus(t))
  <2> TAKE t
  <2>1. \/ AfterStatus(t) = parser \/ AfterStatus(t) = [parser EXCEPT !.state = "eReadingStatusCode"]
        \/ AfterStatus(t) = [parser EXCEPT !.code = Code(t)]
        \/ AfterStatus(t) = [parser EXCEPT !.state = "eStatusCodeRead"]
    BY DEF AfterStatus
  <2>2. "eReadingStatusCode" \in HeaderStates /\ "eStatusCodeRead" \in HeaderStates
    BY DEF HeaderStates
  <2> HIDE DEF Kept
  <2> QED
    BY <1>2, <1>3, <1>4, <2>1, <2>2
<1>7. \/ parser' = parser \/ parser' = [parser EXCEPT !.state = "eRequestSent", !.code = 0]
      \/ \E t : parser' = AfterStatus(t)
  BY DEF ResponseStatusCode, CallStatus, StatusMismatch, ReadStatus, StatusLineEnds, StatusTimeout
<1>8. Kept(parser')
  <2> HIDE DEF Kept
  <2> QED
    BY <1>2, <1>5, <1>6, <1>7
<1> QED
  BY <1>8

LEMMA StatusBInv == IInv /\ BInv /\ ResponseStatusCode => BInv'
<1> SUFFICES ASSUME IInv, BInv, ResponseStatusCode, sketch' # "headers" PROVE BInv'
  BY DEF BInv
<1>1. /\ TypeOK /\ parser \in Parsers /\ UNCHANGED <<sketch, answer, response, outcome>>
      /\ pc \in {"call", "status"} /\ pc' \in {"status", "skip"}
  BY DEF IInv, TypeOK, ParserOK, ResponseStatusCode, CallStatus, StatusMismatch, ReadStatus, StatusLineEnds,
         StatusTimeout, Returns, callVars, history, Unread
<1>2. IdleFresh /\ Unfinished
  BY <1>1 DEF BInv
<1>3. Unfinished' /\ BodyIsOfResponse'
  BY <1>1, <1>2 DEF Unfinished, BodyIsOfResponse
<1>4. /\ parser'.length = parser.length /\ parser'.consumed = parser.consumed
      /\ parser'.chunked = parser.chunked
      /\ parser'.state \in Idle => parser.state \in Idle
  BY <1>1, StatusKeeps
<1>5. (Fresh => Fresh') /\ IdleFresh'
  BY <1>1, <1>2, <1>4 DEF Fresh, IdleFresh
<1>6. ASSUME clean' = "yes" PROVE AtResponse'
  <2>1. clean = "yes" /\ Fresh'
    BY <1>1, <1>5, <1>6
       DEF BInv, AtResponse, ResponseStatusCode, CallStatus, StatusMismatch, ReadStatus, StatusLineEnds, StatusTimeout,
           history
  <2>2. CASE pc' = "status"
    BY <2>1, <2>2 DEF AtResponse
  <2>3. CASE pc' = "skip"
    <3>1. StatusLineEnds \/ CallStatus
      BY <1>6, <2>3 DEF ResponseStatusCode, StatusMismatch, ReadStatus, StatusTimeout
    <3>2. ~ CallStatus
      BY <2>1, <2>3 DEF IInv, AtCall, CallStatus, Idle
    <3>3. parser.state = "eStatusCodeRead" /\ parser' = parser /\ Follows(Rest(answer), Stream', cut')
      BY <2>1, <2>3, <3>1, <3>2, LineEnds
    <3>4. PICK w \in Seq(Tokens) : w = Rest(answer)
      BY <1>1, RestIs DEF TypeOK, NetOK
    <3>5. Left(w)' /\ HeaderAt(w)'
      BY <1>1, <2>1, <3>3, <3>4 DEF Left, HeaderAt
    <3> QED
      BY <2>3, <3>5 DEF AtResponse
  <2> QED
    BY <1>1, <2>2, <2>3
<1> QED
  BY <1>3, <1>5, <1>6 DEF BInv

LEMMA HeaderBInv == IInv /\ BInv /\ ContentLength => BInv'
<1> SUFFICES ASSUME IInv, BInv, ContentLength, sketch' # "headers" PROVE BInv'
  BY DEF BInv
<1>1. /\ TypeOK /\ parser \in Parsers /\ UNCHANGED <<sketch, answer, response, outcome, net, cut>>
      /\ pc = "skip" /\ pc' \in {"skip", "body"}
  BY DEF IInv, TypeOK, ParserOK, ContentLength, ReadHeader, SkipTimeout, SkipDone, callVars, Unread
<1>2. IdleFresh /\ Unfinished
  BY <1>1 DEF BInv
<1>3. Unfinished' /\ BodyIsOfResponse'
  BY <1>1, <1>2 DEF Unfinished, BodyIsOfResponse
<1>4. IdleFresh'
  <2>1. CASE parser' = parser
    BY <1>1, <1>2, <2>1 DEF IdleFresh, Fresh
  <2>2. CASE parser' # parser
    <3>1. (ReadHeader /\ parser.state \notin Idle) \/ parser'.state = "eStatusCodeRead"
      BY <1>1, <2>2 DEF ContentLength, ReadHeader, SkipTimeout, SkipDone, AfterHeader, Idle, Parsers
    <3>2. ASSUME ReadHeader, parser.state \notin Idle PROVE parser'.state \notin Idle
      <4> DEFINE t == Head(rx)
      <4>1. parser' = AfterHeader(t)
        BY <3>2 DEF ReadHeader
      <4> HIDE DEF t
      <4>2. AtLineStart(t).state \notin Idle /\ AtLineStart(t) \in Parsers
        BY <1>1 DEF AtLineStart, Parsers, Idle, HeaderStates
      <4>3. parser.state = "eReadingContentLength" => InContentLength(t).state \notin Idle
        BY <1>1 DEF InContentLength, Parsers, Idle
      <4>4. parser' \in Parsers
        BY <1>1, HeaderType DEF TypeOK, ParserOK
      <4> QED
        BY <1>1, <3>2, <4>1, <4>2, <4>3, <4>4 DEF AfterHeader, Idle, Parsers
    <3>3. parser'.state \notin Idle
      BY <3>1, <3>2 DEF Idle
    <3> QED
      BY <1>1, <3>3 DEF IdleFresh
  <2> QED
    BY <2>1, <2>2
<1>5. ASSUME clean' = "yes" PROVE AtResponse'
  <2>1. clean = "yes" /\ ~ SkipTimeout
    BY <1>5 DEF ContentLength, ReadHeader, SkipTimeout, SkipDone
  <2>2. PICK w \in Seq(Tokens) : Left(w) /\ HeaderAt(w)
    BY <1>1, <2>1 DEF BInv, AtResponse
  <2>3. CASE ReadHeader
    <3>1. Take /\ pc' = "skip"
      BY <1>1, <2>3 DEF ReadHeader
    <3>2. Tail(w) \in Seq(Tokens) /\ Head(rx) = Head(w) /\ Follows(Tail(w), Stream', cut')
      BY <1>1, <2>2, <3>1, TakenSome
    <3>3. HeaderAt(Tail(w))'
      BY <1>1, <2>2, <2>3, <3>2, HeaderRead
    <3>4. Left(Tail(w))'
      BY <3>2 DEF Left
    <3> QED
      BY <3>1, <3>2, <3>3, <3>4 DEF AtResponse
  <2>4. CASE SkipDone
    <3>1. pc' = "body" /\ rx' = rx
      BY <2>4 DEF SkipDone
    <3>2. Left(w)'
      BY <1>1, <2>2, <3>1 DEF Left, Stream
    <3>3. BodyAt(w)'
      BY <1>1, <1>2, <2>2, <2>4, BodyReached DEF Unfinished
    <3> QED
      BY <3>1, <3>2, <3>3 DEF AtResponse
  <2> QED
    BY <2>1, <2>3, <2>4 DEF ContentLength
<1> QED
  BY <1>3, <1>4, <1>5 DEF BInv

\* How a body that has been read to its end, or as far as it came, is returned.
LEMMA FinishBody ==
    ASSUME TypeOK, BodyDone \/ BodyTimeout, NEW w \in Seq(Tokens), Left(w), BodyAt(w)
    PROVE  BodyIsOfResponse'
<1>1. /\ answer \in Responses /\ response \in Seq(Tokens) /\ rx \in Seq(Tokens) /\ net \in Seq(Tokens)
      /\ answer' = answer /\ response' = response /\ clean' = clean
      /\ outcome' = IF bodyLength > 0 /\ bodyLength # Len(response) THEN "null" ELSE "string"
  BY DEF TypeOK, NetOK, CallOK, BodyDone, BodyTimeout, Finish, Unread
<1>2. Body(answer) \in Seq(Tokens) /\ Len(Body(answer)) \in Nat
  BY <1>1, PayloadTokens
<1>3. /\ bodyLength = IF answer.framing = "length" THEN Len(Body(answer)) ELSE kNoContentLengthHeader
      /\ bodyLength = parser.length
  BY DEF BodyAt, Announced
<1>4. PICK u \in Seq(Tokens) : Body(answer) = response \o u /\ (w = <<>> => u = <<>>)
  <2>1. CASE PlainAt(w)
    BY <2>1 DEF PlainAt
  <2>2. CASE ChunkedAt(w)
    <3>1. PICK cs \in Seq(Seq(Tokens) \ {<<>>}), data \in Seq(Tokens) :
             /\ Body(answer) = response \o (data \o FlattenSeq(cs))
             /\ \/ /\ BetweenChunks(cs, data, w)
                   /\ \E z \in Seq({"CR", "LF"}) : z # <<>> /\ w = z \o Chunked(cs)
                \/ InChunkLength(cs, data, w)
                \/ InChunk(cs, data, w)
                \/ AtLastChunk(cs, data, w)
      BY <2>2, ChunkForms
    <3>2. FlattenSeq(cs) \in Seq(Tokens) /\ Chunked(cs) \in Seq(Tokens) /\ Line(Chunked(cs)) \in Seq(Tokens)
      BY BodyTokens, ChunkedIs, LineTokens
    <3>3. data \o FlattenSeq(cs) \in Seq(Tokens)
      BY <3>2, Concat
    <3>4. PICK f, end, lf \in Seq(Tokens) :
             /\ f = data \o Line(Chunked(cs)) /\ end = Line(f) /\ lf = Cons("LF", f)
             /\ end # <<>> /\ lf # <<>>
      <4>1. PICK f \in Seq(Tokens) : f = data \o Line(Chunked(cs))
        BY <3>2, Concat
      <4>2. Line(f) \in Seq(Tokens) /\ Cons("LF", f) \in Seq(Tokens)
        BY LineTokens
      <4>3. Line(f) # <<>> /\ Cons("LF", f) # <<>>
        BY LineHead
      <4> QED
        BY <4>1, <4>2, <4>3, Zenon
    <3>5. ASSUME w = <<>> PROVE data \o FlattenSeq(cs) = <<>>
      <4>1. ~ (\E z \in Seq({"CR", "LF"}) : z # <<>> /\ w = z \o Chunked(cs))
        <5> SUFFICES ASSUME NEW z \in Seq({"CR", "LF"}), z # <<>>, w = z \o Chunked(cs) PROVE FALSE
          OBVIOUS
        <5>1. z \in Seq(Tokens)
          BY TokenFacts, SeqMonotonic
        <5> QED
          BY <3>2, <3>5, <5>1, HeadOfConcat
      <4>2. ~ InChunkLength(cs, data, w)
        <5> SUFFICES ASSUME NEW d \in Seq(HexDigits), w = d \o end PROVE FALSE
          BY <3>4, <3>5 DEF InChunkLength
        <5>1. d \in Seq(Tokens)
          BY TokenFacts, SeqMonotonic
        <5>2. d \o end = <<>> /\ end # <<>> /\ end \in Seq(Tokens)
          BY <3>4, <3>5
        <5> QED
          BY <5>1, <5>2, Concat, Zenon
      <4>3. ~ InChunk(cs, data, w)
        <5>1. data # <<>> => data \o Line(Chunked(cs)) # <<>>
          BY <3>2, HeadOfConcat
        <5> QED
          BY <3>5, <5>1 DEF InChunk
      <4>4. data = <<>> /\ cs = <<>>
        BY <3>1, <4>1, <4>2, <4>3 DEF AtLastChunk
      <4>5. FlattenSeq(cs) = <<>>
        BY <4>4, ChunkedIs
      <4> QED
        BY <4>4, <4>5, Concat
    <3> QED
      BY <3>1, <3>3, <3>5
  <2> QED
    BY <2>1, <2>2 DEF BodyAt
<1>5. PICK r \in Seq(Tokens) : r = response
  BY <1>1
<1>6. /\ Len(Body(answer)) = Len(response) + Len(u) /\ Len(response) \in Nat /\ Len(u) \in Nat
      /\ Len(u) = 0 <=> u = <<>>
      /\ u = <<>> => response = Body(answer)
  <2>1. Len(r \o u) = Len(r) + Len(u) /\ r \o <<>> = r /\ Len(r) \in Nat /\ Len(u) \in Nat
    BY Concat
  <2>2. Len(u) = 0 <=> u = <<>>
    BY EmptySeq
  <2> QED
    BY <1>4, <1>5, <2>1, <2>2
<1>7. IsPrefix(response, Body(answer))
  <2>1. Len(r) <= Len(r \o u) /\ SubSeq(r, 1, Len(r)) = r /\ SubSeq(r \o u, 1, Len(r)) = r
    BY SubSeqFull, ConcatProperties
  <2> QED
    BY <1>4, <1>5, <2>1 DEF IsPrefix
<1>8. ASSUME cut' = "no" PROVE u = <<>>
  <2>1. CASE BodyTimeout
    <3>1. rx = <<>> /\ net = <<>> /\ cut = "no"
      BY <1>8, <2>1 DEF BodyTimeout
    <3>2. Stream = <<>>
      BY <3>1, Concat DEF Stream
    <3>3. w = <<>>
      BY <3>1, <3>2, Concat DEF Left, Follows
    <3> QED
      BY <1>4, <3>3
  <2>2. CASE BodyDone
    <3>1. parser.consumed = bodyLength
      BY <2>2 DEF BodyDone
    <3>2. PlainAt(w) /\ answer.framing = "length"
      <4>1. bodyLength \in {0, Len(response)} => answer.framing = "length"
        BY <1>3, <1>6 DEF kNoContentLengthHeader
      <4>2. ChunkedAt(w) => parser.consumed = 0 /\ answer.framing = "chunked"
        BY DEF ChunkedAt
      <4>3. PlainAt(w) => parser.consumed \in {0, Len(response)}
        BY DEF PlainAt
      <4> QED
        BY <3>1, <4>1, <4>2, <4>3 DEF BodyAt
    <3>3. Len(response) = Len(Body(answer))
      BY <1>3, <3>1, <3>2 DEF PlainAt
    <3> QED
      BY <1>6, <3>3
  <2> QED
    BY <2>1, <2>2
<1>9. u = <<>> => outcome' = "string"
  BY <1>1, <1>3, <1>6 DEF kNoContentLengthHeader
<1>10. answer.framing = "length" /\ outcome' = "string" => u = <<>>
  BY <1>1, <1>3, <1>6
<1> QED
  BY <1>1, <1>6, <1>7, <1>8, <1>9, <1>10 DEF BodyIsOfResponse

LEMMA BodyBInv == IInv /\ BInv /\ ResponseBody => BInv'
<1> SUFFICES ASSUME IInv, BInv, ResponseBody, sketch' # "headers" PROVE BInv'
  BY DEF BInv
<1>1. TypeOK /\ parser \in Parsers /\ UNCHANGED <<sketch, answer, clean, net>> /\ pc = "body"
  BY DEF IInv, TypeOK, ParserOK, ResponseBody, ReadByte, ReadChunkByte, ReadChunkLength, BodyDone, BodyTimeout,
         Finish, Reading, callVars, Unread
<1>2. IdleFresh /\ Unfinished /\ outcome = "none"
  BY <1>1 DEF BInv, Unfinished
<1>3. IdleFresh'
  <2>1. parser' = parser \/ parser'.state \in BodyStates
    <3>1. /\ Counted(parser) \in Parsers /\ Counted(parser).state = parser.state
          /\ parser.state \notin BodyStates => Counted(parser) = parser
      BY <1>1 DEF Counted, EndOfHeadersReached, Parsers
    <3>2. CASE ReadByte \/ BodyDone \/ BodyTimeout
      BY <3>1, <3>2 DEF ReadByte, BodyDone, BodyTimeout, Finish
    <3>3. CASE ReadChunkByte
      BY <3>1, <3>3 DEF ReadChunkByte, Parsers, BodyStates
    <3>4. CASE ReadChunkLength
      BY <1>1, <3>4 DEF ReadChunkLength, AfterChunkLength, Parsers, BodyStates
    <3> QED
      BY <3>2, <3>3, <3>4 DEF ResponseBody
  <2>2. pc' = "idle" => sketch # "stops"
    BY <1>1 DEF ResponseBody, ReadByte, ReadChunkByte, ReadChunkLength, BodyDone, BodyTimeout, Finish
  <2>3. parser'.state \in BodyStates => parser'.state \notin Idle
    BY DEF BodyStates, Idle
  <2> QED
    BY <1>1, <1>2, <2>1, <2>2, <2>3 DEF IdleFresh, Fresh
<1>4. CASE ReadByte \/ ReadChunkByte \/ ReadChunkLength
  <2>1. pc' = "body" /\ outcome' = "none" /\ Take /\ cut' = cut
    BY <1>1, <1>2, <1>4 DEF ReadByte, ReadChunkByte, ReadChunkLength, callVars
  <2>2. Unfinished' /\ BodyIsOfResponse'
    BY <2>1 DEF Unfinished, BodyIsOfResponse
  <2>3. ASSUME clean' = "yes" PROVE AtResponse'
    <3>1. PICK w \in Seq(Tokens) : Left(w) /\ BodyAt(w)
      BY <1>1, <2>3 DEF BInv, AtResponse
    <3>2. w # <<>> /\ Tail(w) \in Seq(Tokens) /\ Head(rx) = Head(w) /\ Follows(Tail(w), Stream', cut')
      BY <1>1, <2>1, <3>1, TakenSome
    <3>3. BodyAt(Tail(w))'
      BY <1>1, <1>4, <3>1, <3>2, BodyRead
    <3>4. Left(Tail(w))'
      BY <3>2 DEF Left
    <3> QED
      BY <2>1, <3>2, <3>3, <3>4 DEF AtResponse
  <2> QED
    BY <1>3, <2>2, <2>3 DEF BInv
<1>5. CASE BodyDone \/ BodyTimeout
  <2>1. pc' \in {"stop", "idle"}
    BY <1>5 DEF BodyDone, BodyTimeout, Finish
  <2>2. Unfinished' /\ AtResponse'
    BY <2>1 DEF Unfinished, AtResponse
  <2>3. BodyIsOfResponse'
    <3>1. CASE clean = "yes"
      <4>1. PICK w \in Seq(Tokens) : Left(w) /\ BodyAt(w)
        BY <1>1, <3>1 DEF BInv, AtResponse
      <4> QED
        BY <1>1, <1>5, <4>1, FinishBody
    <3>2. CASE clean # "yes"
      BY <1>1, <3>2 DEF BodyIsOfResponse
    <3> QED
      BY <3>1, <3>2
  <2> QED
    BY <1>3, <2>2, <2>3 DEF BInv
<1> QED
  BY <1>4, <1>5 DEF ResponseBody

LEMMA StopBInv == BInv /\ Stop => BInv'
<1> SUFFICES ASSUME BInv, Stop, sketch' # "headers" PROVE BInv'
  BY DEF BInv
<1>1. /\ UNCHANGED <<sketch, response, outcome, answer, clean, cut>> /\ pc' = "idle"
      /\ parser'.state = "eIdle" /\ Fresh'
  BY DEF Stop, callVars, history, ResetState, Fresh
<1> QED
  BY <1>1 DEF BInv, IdleFresh, Unfinished, AtResponse, BodyIsOfResponse

\* What does not move with the bytes.
LEMMA SameParser ==
    ASSUME UNCHANGED <<parser, answer, response, bodyLength>>, NEW w
    PROVE  (HeaderAt(w) => HeaderAt(w)') /\ (BodyAt(w) => BodyAt(w)') /\ (Fresh => Fresh')
<1>1. (Fresh => Fresh') /\ (Announced => Announced')
  BY DEF Fresh, Announced
<1>2. (InLength(w) => InLength(w)') /\ (InHeader(w) => InHeader(w)') /\ (BodyStarts(w) => BodyStarts(w)')
  BY DEF InLength, InHeader, BodyStarts
<1>3. HeaderAt(w) => HeaderAt(w)'
  BY <1>1, <1>2 DEF HeaderAt
<1>4. PlainAt(w) => PlainAt(w)'
  BY DEF PlainAt
<1>5. ASSUME NEW cs, NEW data PROVE ChunkAt(cs, data, w) => ChunkAt(cs, data, w)'
  <2>1. /\ BetweenChunks(cs, data, w) => BetweenChunks(cs, data, w)'
        /\ InChunkLength(cs, data, w) => InChunkLength(cs, data, w)'
    BY DEF BetweenChunks, InChunkLength
  <2>2. /\ InChunk(cs, data, w) => InChunk(cs, data, w)'
        /\ AtLastChunk(cs, data, w) => AtLastChunk(cs, data, w)'
    BY DEF InChunk, AtLastChunk
  <2> QED
    BY <2>1, <2>2 DEF ChunkAt
<1>6. ChunkedAt(w) => ChunkedAt(w)'
  BY <1>5 DEF ChunkedAt
<1>7. BodyAt(w) => BodyAt(w)'
  BY <1>1, <1>4, <1>6 DEF BodyAt
<1> QED
  BY <1>1, <1>3, <1>7

LEMMA NetworkBInv == IInv /\ BInv /\ (Arrive \/ ServerCloses) => BInv'
<1> SUFFICES ASSUME IInv, BInv, Arrive \/ ServerCloses, sketch' # "headers" PROVE BInv'
  BY DEF BInv
<1>1. /\ TypeOK /\ UNCHANGED <<pc, sketch, parser, bodyLength, response, outcome, answer, clean>>
      /\ cut' = "no" => cut = "no"
  BY DEF IInv, Arrive, ServerCloses, callVars, history
<1>2. IdleFresh' /\ Unfinished' /\ BodyIsOfResponse'
  BY <1>1 DEF BInv, IdleFresh, Fresh, Unfinished, BodyIsOfResponse
<1>3. ASSUME clean' = "yes" PROVE AtResponse'
  <2>1. AtResponse
    BY <1>1, <1>3 DEF BInv
  <2>2. ASSUME NEW w \in Seq(Tokens), Left(w) PROVE Left(w)'
    <3>1. Follows(w, Stream', cut')
      BY <1>1, <2>2, NetworkFollows
    <3> QED
      BY <3>1 DEF Left
  <2>3. CASE pc \in {"call", "status"}
    BY <1>1, <2>1, <2>3 DEF AtResponse, Fresh
  <2>4. CASE pc = "skip"
    <3>1. PICK w \in Seq(Tokens) : Left(w) /\ HeaderAt(w)
      BY <2>1, <2>4 DEF AtResponse
    <3>2. Left(w)' /\ HeaderAt(w)'
      BY <1>1, <2>2, <3>1, SameParser
    <3> QED
      BY <1>1, <2>4, <3>2 DEF AtResponse
  <2>5. CASE pc = "body"
    <3>1. PICK w \in Seq(Tokens) : Left(w) /\ BodyAt(w)
      BY <2>1, <2>5 DEF AtResponse
    <3>2. Left(w)' /\ BodyAt(w)'
      BY <1>1, <2>2, <3>1, SameParser
    <3> QED
      BY <1>1, <2>5, <3>2 DEF AtResponse
  <2>6. CASE pc \notin {"call", "status", "skip", "body"}
    BY <1>1, <2>6 DEF AtResponse
  <2> QED
    BY <2>3, <2>4, <2>5, <2>6
<1> QED
  BY <1>2, <1>3 DEF BInv

LEMMA StutterBInv == BInv /\ UNCHANGED vars => BInv'
<1> SUFFICES ASSUME BInv, UNCHANGED vars, sketch' # "headers" PROVE BInv'
  BY DEF BInv
<1>1. UNCHANGED <<pc, sketch, parser, bodyLength, response, outcome, answer, clean, cut, rx, net>>
  BY DEF vars, callVars, netVars, history
<1>2. IdleFresh' /\ Unfinished' /\ BodyIsOfResponse'
  BY <1>1 DEF BInv, IdleFresh, Fresh, Unfinished, BodyIsOfResponse
<1>3. AtResponse => AtResponse'
  <2>1. ASSUME NEW w PROVE Left(w) => Left(w)'
    BY <1>1 DEF Left, Stream
  <2> QED
    BY <1>1, <2>1, SameParser DEF AtResponse
<1> QED
  BY <1>1, <1>2, <1>3 DEF BInv

LEMMA StepBInv == IInv /\ BInv /\ [Next]_vars => BInv'
BY RequestBInv, StatusBInv, HeaderBInv, BodyBInv, StopBInv, NetworkBInv, StutterBInv DEF Next, Sketch

(***************************************************************************)
(* What responseBody returns, in sketches that call stop() after each      *)
(* response or add no headers of their own: the bytes of the body of the   *)
(* response, whatever they are, in any number of chunks of any length.     *)
(***************************************************************************)
THEOREM BodyIsOfResponseCorrect == Spec => [](sketch # "headers" => BodyIsOfResponse)
<1>1. BInv => (sketch # "headers" => BodyIsOfResponse)
  BY DEF BInv
<1> QED
  BY <1>1, InitIInv, InitBInv, StepIInv, StepBInv, PTL DEF Spec
=============================================================================

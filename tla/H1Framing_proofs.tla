-------------------------- MODULE H1Framing_proofs --------------------------
(***************************************************************************)
(* Where HTTP/1.1 messages end: what the header facts say of the lines,    *)
(* and that a response sends what its head announces.                      *)
(*                                                                         *)
(* Numbers are recursive functions over their digits.  What these compute  *)
(* is proved by induction on sets of numbers, from the least element that  *)
(* WellFoundedInduction gives of them.                                     *)
(***************************************************************************)
EXTENDS H1Framing, FiniteSetTheorems, SequenceTheorems, WellFoundedInduction, TLAPS

-----------------------------------------------------------------------------
(* Induction.                                                              *)

LEMMA Least ==
  ASSUME NEW S, S \subseteq Nat, S # {}
  PROVE  \E n \in S : \A k \in S : n <= k
<1>. DEFINE R == OpToRel(<, Nat)
<1>1. IsWellFoundedOn(R, Nat)
  BY NatLessThanWellFounded
<1>2. R = {ss \in Nat \X Nat : ss[1] < ss[2]}
  BY DEF OpToRel
<1>. HIDE DEF R
<1>3. PICK n \in S : \A k \in S : <<k, n>> \notin R
  BY <1>1, WFMin
<1>4. ASSUME NEW k \in S PROVE n <= k
  <2>1. ~(k < n) /\ k \in Nat /\ n \in Nat
    BY <1>2, <1>3
  <2>. QED BY <2>1
<1>. QED BY <1>4

LEMMA Induction ==
  ASSUME NEW S, S \subseteq Nat, 0 \in S, \A n \in S : n + 1 \in S
  PROVE  S = Nat
<1>. DEFINE T == Nat \ S
<1>1. ASSUME T # {} PROVE FALSE
  <2>1. PICK n \in T : \A k \in T : n <= k
    <3>. T \subseteq Nat OBVIOUS
    <3>. HIDE DEF T
    <3>. QED BY <1>1, Least
  <2>2. n # 0 /\ n - 1 \in Nat
    BY <2>1
  <2>3. n - 1 \in S
    BY <2>1, <2>2
  <2>. QED BY <2>1, <2>2, <2>3
<1>. QED BY <1>1

\* A set with 0 and the successors of its elements up to n has all up to n.
LEMMA InductionUpTo ==
  ASSUME NEW n \in Nat, NEW S, 0 \in S, \A i \in 0 .. n - 1 : i \in S => i + 1 \in S
  PROVE  \A i \in 0 .. n : i \in S
<1>. DEFINE N == {i \in Nat : i <= n => i \in S}
<1>1. 0 \in N /\ \A i \in N : i + 1 \in N
  <2>1. ASSUME NEW i \in N, i + 1 <= n PROVE i + 1 \in S
    BY <2>1
  <2>. QED BY <2>1
<1>2. N = Nat
  <2>. N \subseteq Nat OBVIOUS
  <2>. HIDE DEF N
  <2>. QED BY <1>1, Induction
<1>. QED BY <1>2

\* A recursion up to n has a solution.
Solves(f, n, c, F) == f[0] = c /\ \A i \in 1 .. n : f[i] = F[<<f[i - 1], i>>]

LEMMA Solved ==
  ASSUME NEW n \in Nat, NEW S, NEW c \in S, NEW F \in [S \X Nat -> S]
  PROVE  \E f \in [0 .. n -> S] : Solves(f, n, c, F)
<1>. DEFINE Sol(f, k) == Solves(f, k, c, F)
            N == {k \in Nat : \E f \in [0 .. k -> S] : Sol(f, k)}
<1>1. 0 \in N
  <2>1. [i \in 0 .. 0 |-> c] \in [0 .. 0 -> S] /\ Sol([i \in 0 .. 0 |-> c], 0)
    BY DEF Solves
  <2>. QED BY <2>1
<1>2. ASSUME NEW k \in N PROVE k + 1 \in N
  <2>1. PICK f \in [0 .. k -> S] : Sol(f, k)
    OBVIOUS
  <2>. DEFINE g == [i \in 0 .. k + 1 |-> IF i = k + 1 THEN F[<<f[k], k + 1>>] ELSE f[i]]
  <2>2. k \in Nat /\ f[k] \in S
    BY <2>1
  <2>3. g \in [0 .. k + 1 -> S]
    BY <2>2
  <2>4. Sol(g, k + 1)
    <3>1. g[0] = c
      BY <2>1, <2>2 DEF Solves
    <3>2. ASSUME NEW i \in 1 .. k + 1 PROVE g[i] = F[<<g[i - 1], i>>]
      <4>1. CASE i = k + 1
        <5>1. i \in 0 .. k + 1 /\ k \in 0 .. k + 1 /\ k # k + 1 /\ i - 1 = k
          BY <2>2, <4>1
        <5>2. g[i] = F[<<f[k], k + 1>>] /\ g[i - 1] = f[k]
          BY <4>1, <5>1
        <5>. QED BY <4>1, <5>1, <5>2
      <4>2. CASE i # k + 1
        <5>1. i \in 1 .. k /\ i \in 0 .. k + 1 /\ i - 1 \in 0 .. k + 1 /\ i - 1 # k + 1
          BY <2>2, <4>2
        <5>. QED BY <2>1, <4>2, <5>1 DEF Solves
      <4>. QED BY <4>1, <4>2
    <3>. QED BY <3>1, <3>2 DEF Solves
  <2>. HIDE DEF g
  <2>. QED BY <2>2, <2>3, <2>4
<1>3. N = Nat
  <2>. N \subseteq Nat OBVIOUS
  <2>. HIDE DEF N
  <2>. QED BY <1>1, <1>2, Induction
<1>. QED BY <1>3

-----------------------------------------------------------------------------
(* The value of a sequence of digits.                                      *)

Digits == Seq(0 .. NotADigit)

\* The numbers that Value goes through.
Values(v, f) ==
  /\ f \in [0 .. Len(v) -> Nat] /\ f[0] = 0
  /\ \A i \in 1 .. Len(v) : f[i] = f[i - 1] * 10 + v[i]

LEMMA ValueIs == \A v \in Digits : \E f : Values(v, f) /\ Value(v) = f[Len(v)]
<1> SUFFICES ASSUME NEW v \in Digits PROVE \E f : Values(v, f) /\ Value(v) = f[Len(v)]
  OBVIOUS
<1>. DEFINE n == Len(v)
            Rec(f) == [i \in 0 .. n |-> IF i = 0 THEN 0 ELSE f[i - 1] * 10 + v[i]]
            h == CHOOSE f : f = Rec(f)
<1>0. n \in Nat /\ \A i \in 1 .. n : v[i] \in Nat
  BY DEF Digits, NotADigit
<1>1. Value(v) = h[n]
  BY DEF Value
<1>2. \E f : f = Rec(f)
  <2>. DEFINE F == [p \in Nat \X Nat |-> p[1] * 10 + (IF p[2] \in 1 .. n THEN v[p[2]] ELSE 0)]
  <2>1. F \in [Nat \X Nat -> Nat]
    <3>1. ASSUME NEW a \in Nat, NEW b \in Nat
          PROVE  a * 10 + (IF b \in 1 .. n THEN v[b] ELSE 0) \in Nat
      BY <1>0
    <3>. QED BY <3>1
  <2>2. \E f \in [0 .. n -> Nat] : Solves(f, n, 0, F)
    <3>. HIDE DEF F, n
    <3>. QED BY <1>0, <2>1, Solved
  <2>3. PICK f \in [0 .. n -> Nat] : Solves(f, n, 0, F)
    BY <2>2
  <2>4. \A i \in 1 .. n : f[i] = f[i - 1] * 10 + v[i]
    <3>1. \A i \in 1 .. n : i \in Nat /\ f[i - 1] \in Nat
      BY <1>0
    <3>. QED BY <2>3, <3>1 DEF Solves
  <2>5. f = Rec(f)
    BY <2>3, <2>4 DEF Solves
  <2>. QED BY <2>5
<1>3. h = Rec(h)
  BY <1>2
<1>. HIDE DEF h
<1>4. h[0] = 0 /\ \A i \in 1 .. n : h[i] = h[i - 1] * 10 + v[i]
  BY <1>0, <1>3
<1>5. \A i \in 0 .. n : i \in {j \in 0 .. n : h[j] \in Nat}
  <2>. DEFINE S == {j \in 0 .. n : h[j] \in Nat}
  <2>1. 0 \in S
    BY <1>0, <1>4
  <2>2. ASSUME NEW i \in 0 .. n - 1, i \in S PROVE i + 1 \in S
    <3>1. i + 1 \in 1 .. n /\ (i + 1) - 1 = i /\ h[i] \in Nat /\ i + 1 \in 0 .. n
      BY <1>0, <2>2
    <3>2. h[i + 1] = h[i] * 10 + v[i + 1] /\ v[i + 1] \in Nat
      BY <1>0, <1>4, <3>1
    <3>. QED BY <3>1, <3>2
  <2>. HIDE DEF S, n
  <2>3. \A i \in 0 .. n : i \in S
    BY <1>0, <2>1, <2>2, InductionUpTo
  <2>. QED BY <2>3 DEF S
<1>6. h \in [0 .. n -> Nat]
  BY <1>3, <1>5
<1>. QED BY <1>1, <1>4, <1>6 DEF Values

\* One digit more.
Numbers == Nat \cup {TooLarge}

LEMMA DigitAppended ==
  ASSUME NEW n \in Numbers, NEW d \in 0 .. NotADigit
  PROVE  /\ Appended(n, d) \in Numbers
         /\ Appended(n, d) # TooLarge =>
              /\ n # TooLarge /\ d # NotADigit
              /\ Appended(n, d) = n * 10 + d /\ Appended(n, d) <= MaxSafe
<1>. DEFINE most == MaxSafe \div 10
            rest == MaxSafe % 10
<1>1. /\ MaxSafe \in Nat /\ most \in Nat /\ rest \in 0 .. 9
      /\ MaxSafe = 10 * most + rest
  BY MaxSafeAssumption
<1>. HIDE DEF most, rest
<1>2. CASE n = TooLarge \/ d = NotADigit \/ n > most \/ (n = most /\ d > rest)
  <2>1. Appended(n, d) = TooLarge
    BY <1>2 DEF Appended, most, rest
  <2>. QED BY <2>1 DEF Numbers
<1>3. CASE ~(n = TooLarge \/ d = NotADigit \/ n > most \/ (n = most /\ d > rest))
  <2>1. Appended(n, d) = n * 10 + d
    BY <1>3 DEF Appended, most, rest
  <2>2. n \in Nat /\ d \in 0 .. 9
    BY <1>3 DEF Numbers, NotADigit
  <2>3. n * 10 + d <= MaxSafe
    BY <1>1, <1>3, <2>2
  <2>. QED BY <1>3, <2>1, <2>2, <2>3 DEF Numbers
<1>. QED BY <1>2, <1>3

\* The numbers that parseContentLength goes through.
Parses(v, g) ==
  /\ g \in [0 .. Len(v) -> Numbers] /\ g[0] = 0
  /\ \A i \in 1 .. Len(v) : g[i] = Appended(g[i - 1], v[i])

LEMMA ParseIs ==
  \A v \in Digits : \E g : Parses(v, g) /\ ParseContentLength(v) \in {TooLarge, g[Len(v)]}
<1> SUFFICES ASSUME NEW v \in Digits
             PROVE  \E g : Parses(v, g) /\ ParseContentLength(v) \in {TooLarge, g[Len(v)]}
  OBVIOUS
<1>. DEFINE n == Len(v)
            Rec(f) == [i \in 0 .. n |-> IF i = 0 THEN 0 ELSE Appended(f[i - 1], v[i])]
            h == CHOOSE f : f = Rec(f)
<1>0. n \in Nat /\ 0 \in Numbers /\ \A i \in 1 .. n : v[i] \in 0 .. NotADigit
  BY DEF Digits, Numbers, NotADigit
<1>1. ParseContentLength(v) \in {TooLarge, h[n]}
  BY DEF ParseContentLength
<1>2. \E f : f = Rec(f)
  <2>. DEFINE F == [p \in Numbers \X Nat |->
                      IF p[2] \in 1 .. n THEN Appended(p[1], v[p[2]]) ELSE 0]
  <2>1. F \in [Numbers \X Nat -> Numbers]
    <3>1. ASSUME NEW a \in Numbers, NEW b \in Nat
          PROVE  (IF b \in 1 .. n THEN Appended(a, v[b]) ELSE 0) \in Numbers
      BY <1>0, DigitAppended
    <3>. QED BY <3>1
  <2>2. \E f \in [0 .. n -> Numbers] : Solves(f, n, 0, F)
    <3>. HIDE DEF F, n
    <3>. QED BY <1>0, <2>1, Solved
  <2>3. PICK f \in [0 .. n -> Numbers] : Solves(f, n, 0, F)
    BY <2>2
  <2>4. \A i \in 1 .. n : f[i] = Appended(f[i - 1], v[i])
    <3>1. \A i \in 1 .. n : i \in Nat /\ f[i - 1] \in Numbers
      BY <1>0
    <3>. QED BY <2>3, <3>1 DEF Solves
  <2>5. f = Rec(f)
    BY <2>3, <2>4 DEF Solves
  <2>. QED BY <2>5
<1>3. h = Rec(h)
  BY <1>2
<1>. HIDE DEF h
<1>4. h[0] = 0 /\ \A i \in 1 .. n : h[i] = Appended(h[i - 1], v[i])
  BY <1>0, <1>3
<1>5. \A i \in 0 .. n : i \in {j \in 0 .. n : h[j] \in Numbers}
  <2>. DEFINE S == {j \in 0 .. n : h[j] \in Numbers}
  <2>1. 0 \in S
    BY <1>0, <1>4
  <2>2. ASSUME NEW i \in 0 .. n - 1, i \in S PROVE i + 1 \in S
    <3>1. i + 1 \in 1 .. n /\ (i + 1) - 1 = i /\ h[i] \in Numbers /\ i + 1 \in 0 .. n
      BY <1>0, <2>2
    <3>2. h[i + 1] = Appended(h[i], v[i + 1]) /\ v[i + 1] \in 0 .. NotADigit
      BY <1>0, <1>4, <3>1
    <3>3. h[i + 1] \in Numbers
      BY <3>1, <3>2, DigitAppended
    <3>. QED BY <3>1, <3>3
  <2>. HIDE DEF S, n
  <2>3. \A i \in 0 .. n : i \in S
    BY <1>0, <2>1, <2>2, InductionUpTo
  <2>. QED BY <2>3 DEF S
<1>6. h \in [0 .. n -> Numbers]
  BY <1>3, <1>5
<1>. QED BY <1>1, <1>4, <1>6 DEF Parses

LEMMA ValueType == \A v \in Digits : Value(v) \in Nat
<1> SUFFICES ASSUME NEW v \in Digits PROVE Value(v) \in Nat
  OBVIOUS
<1>1. PICK f : Values(v, f) /\ Value(v) = f[Len(v)]
  BY ValueIs
<1>2. Len(v) \in 0 .. Len(v)
  BY DEF Digits
<1>. QED BY <1>1, <1>2 DEF Values

\* A length that parseContentLength takes is a number in digits, a safe one, and
\* the one its digits mean.
LEMMA ParseMeans ==
  ASSUME NEW v \in Digits, ParseContentLength(v) # TooLarge
  PROVE  AllDigits(v) /\ ParseContentLength(v) = Value(v) /\ Value(v) <= MaxSafe
<1>. DEFINE n == Len(v)
<1>0. n \in Nat /\ 0 <= MaxSafe /\ \A i \in 1 .. n : v[i] \in 0 .. NotADigit
  BY MaxSafeAssumption DEF Digits, NotADigit
<1>1. PICK f : Values(v, f) /\ Value(v) = f[n]
  BY ValueIs
<1>2. PICK g : Parses(v, g) /\ ParseContentLength(v) \in {TooLarge, g[n]}
  BY ParseIs
<1>. DEFINE Good(i) == /\ g[i] = f[i] /\ g[i] <= MaxSafe
                       /\ \A j \in 1 .. i : v[j] # NotADigit
            S == {i \in 0 .. n : g[i] # TooLarge => Good(i)}
<1>3. 0 \in S
  BY <1>0, <1>1, <1>2 DEF Values, Parses
<1>4. ASSUME NEW i \in 0 .. n - 1, i \in S PROVE i + 1 \in S
  <2>1. i + 1 \in 1 .. n /\ (i + 1) - 1 = i /\ i \in 0 .. n /\ i \in Nat /\ i + 1 \in 0 .. n
    BY <1>0
  <2>2. /\ g[i] \in Numbers /\ g[i + 1] = Appended(g[i], v[i + 1])
        /\ f[i] \in Nat /\ f[i + 1] = f[i] * 10 + v[i + 1]
    BY <1>1, <1>2, <2>1 DEF Values, Parses
  <2>3. ASSUME g[i + 1] # TooLarge PROVE Good(i + 1)
    <3>1. /\ g[i] # TooLarge /\ v[i + 1] # NotADigit
          /\ g[i + 1] = g[i] * 10 + v[i + 1] /\ g[i + 1] <= MaxSafe
      BY <1>0, <2>1, <2>2, <2>3, DigitAppended
    <3>2. Good(i)
      BY <1>4, <3>1
    <3>3. \A j \in 1 .. i + 1 : j \in 1 .. i \/ j = i + 1
      BY <2>1
    <3>. QED BY <2>2, <3>1, <3>2, <3>3
  <2>. QED BY <2>1, <2>3
<1>5. n \in S
  <2>1. \A i \in 0 .. n : i \in S
    <3>. HIDE DEF S, n
    <3>. QED BY <1>0, <1>3, <1>4, InductionUpTo
  <2>. QED BY <1>0, <2>1
<1>6. ParseContentLength(v) = g[n] /\ Good(n)
  BY <1>2, <1>5
<1>7. v # <<>>
  BY DEF ParseContentLength
<1>. QED BY <1>1, <1>6, <1>7 DEF AllDigits

-----------------------------------------------------------------------------
(* The facts of header lines.                                              *)

Hosts == {""} \cup {l.value : l \in Lines}

Facts ==
  [hosts : Nat, host : Hosts, lengths : Nat, first : Digits,
   badLength : BOOLEAN, conflict : BOOLEAN, length : Nat, encodings : Nat,
   badEncoding : BOOLEAN, chunked : BOOLEAN, badTrailer : BOOLEAN, nominates : BOOLEAN,
   close : BOOLEAN, expect : Seq(STRING)]

\* The lines of a name, and their values.
Where(ls, name) == {i \in 1 .. Len(ls) : ls[i].name = name}
Given(ls, name) == {ls[i].value : i \in Where(ls, name)}
Tokens(v) == {v[i] : i \in 1 .. Len(v)}

\* A fact is set.
LEMMA FactSet ==
  ASSUME NEW m \in Facts
  PROVE  /\ \A x \in Nat : /\ [m EXCEPT !.hosts = x] \in Facts
                           /\ [m EXCEPT !.lengths = x] \in Facts
                           /\ [m EXCEPT !.length = x] \in Facts
                           /\ [m EXCEPT !.encodings = x] \in Facts
         /\ \A x \in Hosts : [m EXCEPT !.host = x] \in Facts
         /\ \A x \in Digits : [m EXCEPT !.first = x] \in Facts
         /\ \A x \in BOOLEAN : /\ [m EXCEPT !.badLength = x] \in Facts
                               /\ [m EXCEPT !.conflict = x] \in Facts
                               /\ [m EXCEPT !.badEncoding = x] \in Facts
                               /\ [m EXCEPT !.chunked = x] \in Facts
  BY DEF Facts

\* What line l makes of message m.
ReadAs(m, l, n) ==
  /\ n \in Facts
  /\ n.hosts = IF l.name = "host" THEN m.hosts + 1 ELSE m.hosts
  /\ n.host = IF l.name = "host" /\ m.hosts = 0 THEN l.value ELSE m.host
  /\ IF l.name = "content-length"
     THEN /\ n.lengths = m.lengths + 1
          /\ n.badLength <=> m.badLength \/ ~AllDigits(l.value)
          /\ n.conflict <=> m.conflict \/ (m.lengths > 0 /\ l.value # m.first)
          /\ n.first = IF m.lengths = 0 THEN l.value ELSE m.first
          /\ n.length = IF AllDigits(l.value) THEN Value(l.value) ELSE 0
     ELSE /\ n.lengths = m.lengths /\ n.badLength = m.badLength
          /\ n.conflict = m.conflict /\ n.first = m.first /\ n.length = m.length
  /\ IF l.name = "transfer-encoding"
     THEN /\ n.encodings = m.encodings + Len(l.value)
          /\ n.badEncoding <=> m.badEncoding \/ Tokens(l.value) # {"chunked"}
          /\ n.chunked <=> m.chunked \/ "chunked" \in Tokens(l.value)
     ELSE /\ n.encodings = m.encodings /\ n.badEncoding = m.badEncoding
          /\ n.chunked = m.chunked
  /\ n.badTrailer <=> m.badTrailer
       \/ (l.name = "trailer" /\ Tokens(l.value) \cap FORBIDDEN_TRAILER_FIELDS # {})
  /\ n.nominates <=> m.nominates
       \/ (l.name = "connection" /\ Tokens(l.value) \cap FramingNames # {})
  /\ n.expect = IF l.name # "expect" THEN m.expect
                ELSE IF m.expect = <<"">> THEN l.value ELSE m.expect \o l.value

LEMMA LineRead ==
  ASSUME NEW m \in Facts, NEW l \in Lines, NEW n, n = WithLine(m, l)
  PROVE  ReadAs(m, l, n)
<1>0. l.name \in Names /\ TokensOf(l) = Tokens(l.value)
  BY LinesAssumption DEF TokensOf, Tokens
<1>1. CASE l.name = "host"
  <2>. DEFINE h == IF m.hosts = 0 THEN l.value ELSE m.host
  <2>1. h \in Hosts
    BY DEF Facts, Hosts
  <2>2. n = [m EXCEPT !.hosts = m.hosts + 1, !.host = h]
    BY <1>1 DEF WithLine
  <2>. HIDE DEF h
  <2>3. n \in Facts
    <3>. DEFINE a == [m EXCEPT !.hosts = m.hosts + 1]
    <3>1. m.hosts + 1 \in Nat /\ n = [a EXCEPT !.host = h]
      BY <2>2 DEF Facts
    <3>2. a \in Facts
      BY <3>1, FactSet
    <3>. HIDE DEF a
    <3>. QED BY <2>1, <3>1, <3>2, FactSet
  <2>4. /\ n.hosts = m.hosts + 1 /\ n.host = h
        /\ n.lengths = m.lengths /\ n.badLength = m.badLength
        /\ n.conflict = m.conflict /\ n.first = m.first /\ n.length = m.length
        /\ n.encodings = m.encodings /\ n.badEncoding = m.badEncoding
        /\ n.chunked = m.chunked /\ n.badTrailer = m.badTrailer
        /\ n.nominates = m.nominates /\ n.expect = m.expect
    BY <2>2 DEF Facts
  <2>. QED BY <1>1, <2>3, <2>4 DEF h, ReadAs
<1>2. CASE l.name = "content-length"
  <2>. DEFINE v == l.value
              bad == m.badLength \/ ~AllDigits(v)
              odd == m.conflict \/ (m.lengths > 0 /\ v # m.first)
              one == IF m.lengths = 0 THEN v ELSE m.first
              x == IF AllDigits(v) THEN Value(v) ELSE 0
  <2>1. /\ bad \in BOOLEAN /\ odd \in BOOLEAN /\ one \in Digits /\ x \in Nat
    <3>1. v \in Digits /\ Value(v) \in Nat
      BY <1>2, LinesAssumption, ValueType DEF Digits
    <3>. QED BY <3>1 DEF Facts
  <2>2. n = [m EXCEPT !.lengths = m.lengths + 1, !.badLength = bad, !.conflict = odd,
                      !.first = one, !.length = x]
    BY <1>2 DEF WithLine, WithLength
  <2>. HIDE DEF bad, odd, one, x
  <2>3. n \in Facts
    <3>. DEFINE a == [m EXCEPT !.lengths = m.lengths + 1]
                b == [a EXCEPT !.badLength = bad]
                c == [b EXCEPT !.conflict = odd]
                d == [c EXCEPT !.first = one]
    <3>1. m.lengths + 1 \in Nat /\ n = [d EXCEPT !.length = x]
      BY <2>2 DEF Facts
    <3>2. a \in Facts
      BY <3>1, FactSet
    <3>. HIDE DEF a
    <3>3. b \in Facts
      BY <2>1, <3>2, FactSet
    <3>. HIDE DEF b
    <3>4. c \in Facts
      BY <2>1, <3>3, FactSet
    <3>. HIDE DEF c
    <3>5. d \in Facts
      BY <2>1, <3>4, FactSet
    <3>. HIDE DEF d
    <3>. QED BY <2>1, <3>1, <3>5, FactSet
  <2>4. /\ n.lengths = m.lengths + 1 /\ n.badLength = bad /\ n.conflict = odd
        /\ n.first = one /\ n.length = x
        /\ n.hosts = m.hosts /\ n.host = m.host /\ n.encodings = m.encodings
        /\ n.badEncoding = m.badEncoding /\ n.chunked = m.chunked
        /\ n.badTrailer = m.badTrailer /\ n.nominates = m.nominates /\ n.expect = m.expect
    BY <2>2 DEF Facts
  <2>. QED BY <1>2, <2>3, <2>4 DEF bad, odd, one, x, ReadAs
<1>3. CASE l.name = "transfer-encoding"
  <2>. DEFINE bad == m.badEncoding \/ Tokens(l.value) # {"chunked"}
              c == m.chunked \/ "chunked" \in Tokens(l.value)
  <2>1. Len(l.value) \in Nat /\ bad \in BOOLEAN /\ c \in BOOLEAN
    <3>1. Len(l.value) \in Nat
      BY <1>3, LinesAssumption
    <3>2. bad \in BOOLEAN /\ c \in BOOLEAN
      BY DEF Facts
    <3>. QED BY <3>1, <3>2
  <2>2. n = [m EXCEPT !.encodings = m.encodings + Len(l.value), !.badEncoding = bad,
                      !.chunked = c]
    BY <1>0, <1>3 DEF WithLine
  <2>. HIDE DEF bad, c
  <2>3. n \in Facts
    <3>. DEFINE a == [m EXCEPT !.encodings = m.encodings + Len(l.value)]
                b == [a EXCEPT !.badEncoding = bad]
    <3>1. m.encodings + Len(l.value) \in Nat /\ n = [b EXCEPT !.chunked = c]
      BY <2>1, <2>2 DEF Facts
    <3>2. a \in Facts
      BY <3>1, FactSet
    <3>. HIDE DEF a
    <3>3. b \in Facts
      BY <2>1, <3>2, FactSet
    <3>. HIDE DEF b
    <3>. QED BY <2>1, <3>1, <3>3, FactSet
  <2>4. /\ n.encodings = m.encodings + Len(l.value)
        /\ n.badEncoding = bad /\ n.chunked = c
        /\ n.hosts = m.hosts /\ n.host = m.host /\ n.lengths = m.lengths
        /\ n.badLength = m.badLength /\ n.conflict = m.conflict /\ n.first = m.first
        /\ n.length = m.length /\ n.badTrailer = m.badTrailer
        /\ n.nominates = m.nominates /\ n.expect = m.expect
    BY <2>2 DEF Facts
  <2>. QED BY <1>3, <2>3, <2>4 DEF bad, c, ReadAs
<1>4. CASE l.name = "trailer"
  <2>1. n = [m EXCEPT !.badTrailer = m.badTrailer
                         \/ Tokens(l.value) \cap FORBIDDEN_TRAILER_FIELDS # {}]
    BY <1>0, <1>4 DEF WithLine
  <2>. QED BY <1>4, <2>1 DEF Facts, ReadAs
<1>5. CASE l.name = "connection"
  <2>1. n = [m EXCEPT !.close = m.close \/ Tokens(l.value) \cap {"close", "upgrade"} # {},
                      !.nominates = m.nominates \/ Tokens(l.value) \cap FramingNames # {}]
    BY <1>0, <1>5 DEF WithLine
  <2>. QED BY <1>5, <2>1 DEF Facts, ReadAs
<1>6. CASE l.name = "expect"
  <2>. DEFINE e == IF m.expect = <<"">> THEN l.value ELSE m.expect \o l.value
  <2>1. l.value \in Seq(STRING) /\ m.expect \in Seq(STRING)
    BY <1>6, LinesAssumption DEF Facts
  <2>2. e \in Seq(STRING)
    BY <2>1, ConcatProperties
  <2>3. n = [m EXCEPT !.expect = e]
    BY <1>6 DEF WithLine
  <2>. HIDE DEF e
  <2>4. n \in Facts /\ n.expect = e
    BY <2>2, <2>3 DEF Facts
  <2>5. /\ n.hosts = m.hosts /\ n.host = m.host /\ n.lengths = m.lengths
        /\ n.badLength = m.badLength /\ n.conflict = m.conflict /\ n.first = m.first
        /\ n.length = m.length /\ n.encodings = m.encodings
        /\ n.badEncoding = m.badEncoding /\ n.chunked = m.chunked
        /\ n.badTrailer = m.badTrailer /\ n.nominates = m.nominates
    BY <2>3 DEF Facts
  <2>. QED BY <1>6, <2>4, <2>5 DEF e, ReadAs
<1>. QED BY <1>0, <1>1, <1>2, <1>3, <1>4, <1>5, <1>6 DEF Names

\* The lines with one more.
LEMMA LineJoins ==
  ASSUME NEW ls \in Seq(Lines), NEW l \in Lines, NEW name
  PROVE  LET ks == Append(ls, l)
             new == Len(ls) + 1
         IN /\ ks \in Seq(Lines) /\ new \notin Where(ls, name)
            /\ l.name = name => /\ Where(ks, name) = Where(ls, name) \cup {new}
                                /\ Given(ks, name) = Given(ls, name) \cup {l.value}
            /\ l.name # name => /\ Where(ks, name) = Where(ls, name)
                                /\ Given(ks, name) = Given(ls, name)
<1>. DEFINE ks == Append(ls, l)
            new == Len(ls) + 1
<1>1. /\ ks \in Seq(Lines) /\ Len(ks) = new /\ new \in Nat /\ Len(ls) \in Nat
      /\ ks[new] = l /\ \A i \in 1 .. Len(ls) : ks[i] = ls[i]
  BY AppendProperties, LenProperties
<1>. HIDE DEF ks
<1>2. 1 .. Len(ks) = 1 .. Len(ls) \cup {new} /\ new \notin 1 .. Len(ls)
  BY <1>1
<1>3. /\ new \notin Where(ls, name)
      /\ l.name = name => Where(ks, name) = Where(ls, name) \cup {new}
      /\ l.name # name => Where(ks, name) = Where(ls, name)
  BY <1>1, <1>2 DEF Where
<1>4. \A i \in Where(ls, name) : ks[i] = ls[i]
  BY <1>1 DEF Where
<1>5. /\ l.name = name => Given(ks, name) = Given(ls, name) \cup {l.value}
      /\ l.name # name => Given(ks, name) = Given(ls, name)
  BY <1>1, <1>3, <1>4 DEF Given
<1>. QED BY <1>1, <1>3, <1>5 DEF ks

\* What the lines of one name have as values.
LEMMA GivenType ==
  ASSUME NEW ls \in Seq(Lines)
  PROVE  /\ \A name : IsFiniteSet(Where(ls, name)) /\ IsFiniteSet(Given(ls, name))
         /\ \A name : Given(ls, name) = {} <=> Where(ls, name) = {}
         /\ Given(ls, "content-length") \subseteq Digits
         /\ \A name \in Names \ {"host", "content-length"} :
              Given(ls, name) \subseteq Seq(STRING) \ {<<>>}
<1>1. ASSUME NEW name PROVE IsFiniteSet(Where(ls, name)) /\ IsFiniteSet(Given(ls, name))
  <2>1. IsFiniteSet(Where(ls, name))
    <3>1. IsFiniteSet(1 .. Len(ls)) /\ Where(ls, name) \subseteq 1 .. Len(ls)
      BY FS_Interval, LenProperties DEF Where
    <3>. QED BY <3>1, FS_Subset
  <2>. DEFINE f == [i \in Where(ls, name) |-> ls[i].value]
  <2>2. f \in Surjection(Where(ls, name), Given(ls, name))
    BY DEF Given, Surjection
  <2>. HIDE DEF f
  <2>. QED BY <2>1, <2>2, FS_Surjection
<1>2. \A name : Given(ls, name) = {} <=> Where(ls, name) = {}
  BY DEF Given
<1>3. \A name : \A v \in Given(ls, name) : \E l \in Lines : l.name = name /\ v = l.value
  BY ElementOfSeq DEF Given, Where
<1>4. Given(ls, "content-length") \subseteq Digits
  BY <1>3, LinesAssumption DEF Digits
<1>5. ASSUME NEW name \in Names \ {"host", "content-length"}
      PROVE  Given(ls, name) \subseteq Seq(STRING) \ {<<>>}
  BY <1>3, <1>5, LinesAssumption
<1>. QED BY <1>1, <1>2, <1>4, <1>5

\* Line l gives no length that lines ls give already.
New(ls, l) == l.name = "content-length" => l.value \notin Given(ls, l.name)

HostsFact(m, ls) ==
  /\ m.hosts = Cardinality(Where(ls, "host"))
  /\ m.hosts > 0 => m.host \in Given(ls, "host")

\* Lengths differ, so that two of them are a conflict.
LengthsFact(m, ls) ==
  LET given == Given(ls, "content-length")
  IN /\ m.lengths = Cardinality(Where(ls, "content-length"))
     /\ m.lengths = 0 <=> given = {}
     /\ m.lengths > 0 => m.first \in given
     /\ m.badLength <=> \E v \in given : ~AllDigits(v)
     /\ m.conflict <=> m.lengths > 1
     /\ \A v \in given : v = m.first \/ m.lengths > 1
     /\ given = {} => m.length = 0
     /\ given # {} => \E v \in given : m.length = IF AllDigits(v) THEN Value(v) ELSE 0

\* Encodings count the tokens of all lines.
EncodingsFact(m, ls) ==
  LET given == Given(ls, "transfer-encoding")
      where == Where(ls, "transfer-encoding")
  IN /\ m.encodings = 0 <=> given = {}
     /\ Cardinality(where) <= m.encodings
     /\ \A v \in given : Len(v) <= m.encodings
     /\ Cardinality(where) = 1 => \E v \in given : m.encodings = Len(v)
     /\ m.badEncoding <=> \E v \in given : Tokens(v) # {"chunked"}
     /\ m.chunked <=> \E v \in given : "chunked" \in Tokens(v)

TokensFact(m, ls) ==
  /\ m.badTrailer <=>
       \E v \in Given(ls, "trailer") : Tokens(v) \cap FORBIDDEN_TRAILER_FIELDS # {}
  /\ m.nominates <=> \E v \in Given(ls, "connection") : Tokens(v) \cap FramingNames # {}

\* An expectation is the values of all its lines, the empty ones before it aside.
ExpectFact(m, ls) ==
  \A v \in Given(ls, "expect") :
    \/ v = <<"">>
    \/ Len(v) <= Len(m.expect) /\ (Len(v) = Len(m.expect) => v = m.expect)

FactsInv(m, ls) ==
  /\ HostsFact(m, ls) /\ LengthsFact(m, ls) /\ EncodingsFact(m, ls)
  /\ TokensFact(m, ls) /\ ExpectFact(m, ls)

LEMMA NoLines == EmptyMessage \in Facts /\ FactsInv(EmptyMessage, <<>>)
<1>1. \A name : Where(<<>>, name) = {} /\ Given(<<>>, name) = {}
  BY DEF Where, Given
<1>2. \A name : Cardinality(Where(<<>>, name)) = 0
  BY <1>1, FS_EmptySet, Zenon
<1>3. <<>> \in Digits /\ "" \in Hosts /\ <<>> \in Seq(STRING)
  BY DEF Digits, Hosts
<1>4. EmptyMessage \in Facts
  BY <1>3 DEF EmptyMessage, Facts
<1>5. HostsFact(EmptyMessage, <<>>)
  BY <1>1, <1>2 DEF EmptyMessage, HostsFact
<1>6. LengthsFact(EmptyMessage, <<>>)
  BY <1>1, <1>2 DEF EmptyMessage, LengthsFact
<1>7. EncodingsFact(EmptyMessage, <<>>)
  BY <1>1, <1>2 DEF EmptyMessage, EncodingsFact
<1>8. TokensFact(EmptyMessage, <<>>) /\ ExpectFact(EmptyMessage, <<>>)
  BY <1>1 DEF EmptyMessage, TokensFact, ExpectFact
<1>. QED BY <1>4, <1>5, <1>6, <1>7, <1>8 DEF FactsInv

\* Every fact goes on saying the same of the lines.
LEMMA FactsStep ==
  ASSUME NEW m \in Facts, NEW ls \in Seq(Lines), NEW l \in Lines, FactsInv(m, ls),
         New(ls, l)
  PROVE  FactsInv(WithLine(m, l), Append(ls, l))
<1>. DEFINE n == WithLine(m, l)
            ks == Append(ls, l)
            v == l.value
<1>1. l.name \in Names
  BY LinesAssumption
<1>2. \A name : /\ l.name = name => Given(ks, name) = Given(ls, name) \cup {v}
                /\ l.name # name => /\ Given(ks, name) = Given(ls, name)
                                    /\ Where(ks, name) = Where(ls, name)
  BY LineJoins
<1>3. \A name : /\ Cardinality(Where(ls, name)) \in Nat
                /\ l.name = name =>
                     Cardinality(Where(ks, name)) = Cardinality(Where(ls, name)) + 1
  <2>. SUFFICES ASSUME NEW name
                PROVE  /\ Cardinality(Where(ls, name)) \in Nat
                       /\ l.name = name =>
                            Cardinality(Where(ks, name)) = Cardinality(Where(ls, name)) + 1
    OBVIOUS
  <2>1. IsFiniteSet(Where(ls, name))
    BY GivenType
  <2>2. /\ Len(ls) + 1 \notin Where(ls, name)
        /\ l.name = name => Where(ks, name) = Where(ls, name) \cup {Len(ls) + 1}
    BY LineJoins, ZenonT(60)
  <2>. QED BY <2>1, <2>2, FS_CardinalityType, FS_AddElement
<1>4. ReadAs(m, l, n)
  BY LineRead
<1>. HIDE DEF ks, n, v
<1>5. HostsFact(n, ks)
  <2>1. n.hosts = (IF l.name = "host" THEN m.hosts + 1 ELSE m.hosts) /\ m.hosts \in Nat
    BY <1>4 DEF ReadAs, Facts, v
  <2>2. n.host = IF l.name = "host" /\ m.hosts = 0 THEN v ELSE m.host
    BY <1>4 DEF ReadAs, v
  <2>3. HostsFact(m, ls)
    BY DEF FactsInv
  <2>. QED BY <1>2, <1>3, <2>1, <2>2, <2>3 DEF HostsFact
<1>6. LengthsFact(n, ks)
  <2>1. LengthsFact(m, ls) /\ m.lengths \in Nat
    BY DEF FactsInv, Facts
  <2>2. CASE l.name = "content-length"
    <3>1. /\ n.lengths = m.lengths + 1
          /\ n.badLength <=> m.badLength \/ ~AllDigits(v)
          /\ n.conflict <=> m.conflict \/ (m.lengths > 0 /\ v # m.first)
          /\ n.first = IF m.lengths = 0 THEN v ELSE m.first
          /\ n.length = IF AllDigits(v) THEN Value(v) ELSE 0
      BY <1>4, <2>2 DEF ReadAs, v
    <3>2. /\ Given(ks, "content-length") = Given(ls, "content-length") \cup {v}
          /\ Cardinality(Where(ks, "content-length"))
               = Cardinality(Where(ls, "content-length")) + 1
          /\ v \notin Given(ls, "content-length")
      BY <1>2, <1>3, <2>2 DEF New, v
    <3>3. m.lengths > 0 => v # m.first
      BY <2>1, <3>2 DEF LengthsFact
    <3>4. n.conflict <=> n.lengths > 1
      BY <2>1, <3>1, <3>3 DEF LengthsFact
    <3>. QED BY <2>1, <3>1, <3>2, <3>4 DEF LengthsFact
  <2>3. CASE l.name # "content-length"
    <3>1. /\ n.lengths = m.lengths /\ n.badLength = m.badLength
          /\ n.conflict = m.conflict /\ n.first = m.first /\ n.length = m.length
      BY <1>4, <2>3 DEF ReadAs, v
    <3>2. /\ Given(ks, "content-length") = Given(ls, "content-length")
          /\ Where(ks, "content-length") = Where(ls, "content-length")
      BY <1>2, <2>3
    <3>. QED BY <2>1, <3>1, <3>2 DEF LengthsFact
  <2>. QED BY <2>2, <2>3
<1>7. EncodingsFact(n, ks)
  <2>. DEFINE te == "transfer-encoding"
  <2>1. EncodingsFact(m, ls) /\ m.encodings \in Nat
    BY DEF FactsInv, Facts
  <2>2. CASE l.name = te
    <3>1. /\ n.encodings = m.encodings + Len(v)
          /\ n.badEncoding <=> m.badEncoding \/ Tokens(v) # {"chunked"}
          /\ n.chunked <=> m.chunked \/ "chunked" \in Tokens(v)
      BY <1>4, <2>2 DEF ReadAs, v
    <3>2. Given(ks, te) = Given(ls, te) \cup {v}
      BY <1>2, <2>2
    <3>3. Len(v) \in Nat /\ Len(v) > 0
      <4>1. v \in Seq(STRING) /\ v # <<>>
        BY <2>2, LinesAssumption DEF v
      <4>. QED BY <4>1
    <3>4. /\ Cardinality(Where(ls, te)) \in Nat
          /\ Cardinality(Where(ks, te)) = Cardinality(Where(ls, te)) + 1
      BY <1>3, <2>2
    <3>5. Cardinality(Where(ls, te)) = 0 => Given(ls, te) = {}
      BY GivenType, FS_EmptySet
    <3>6. \A w \in Given(ls, te) : Len(w) \in Nat
      BY GivenType DEF Names
    <3>. QED BY <2>1, <3>1, <3>2, <3>3, <3>4, <3>5, <3>6, SMTT(30) DEF EncodingsFact
  <2>3. CASE l.name # te
    <3>1. n.encodings = m.encodings /\ n.badEncoding = m.badEncoding /\ n.chunked = m.chunked
      BY <1>4, <2>3 DEF ReadAs, v
    <3>2. Given(ks, te) = Given(ls, te) /\ Where(ks, te) = Where(ls, te)
      BY <1>2, <2>3
    <3>. QED BY <2>1, <3>1, <3>2 DEF EncodingsFact
  <2>. QED BY <2>2, <2>3
<1>8. TokensFact(n, ks)
  <2>1. TokensFact(m, ls)
    BY DEF FactsInv
  <2>2. n.badTrailer <=> m.badTrailer
           \/ (l.name = "trailer" /\ Tokens(v) \cap FORBIDDEN_TRAILER_FIELDS # {})
    BY <1>4 DEF ReadAs, v
  <2>3. n.nominates <=> m.nominates
           \/ (l.name = "connection" /\ Tokens(v) \cap FramingNames # {})
    BY <1>4 DEF ReadAs, v
  <2>. QED BY <1>2, <2>1, <2>2, <2>3 DEF TokensFact
<1>9. ExpectFact(n, ks)
  <2>. DEFINE e == m.expect
              Blank == <<"">>
  <2>1. ExpectFact(m, ls) /\ e \in Seq(STRING)
    BY DEF FactsInv, Facts
  <2>2. CASE l.name = "expect"
    <3>1. n.expect = IF e = Blank THEN v ELSE e \o v
      BY <1>4, <2>2 DEF ReadAs, v
    <3>2. Given(ks, "expect") = Given(ls, "expect") \cup {v}
      BY <1>2, <2>2
    <3>3. v \in Seq(STRING) /\ v # <<>> /\ Len(v) \in Nat /\ Len(v) > 0
      <4>1. v \in Seq(STRING) /\ v # <<>>
        BY <2>2, LinesAssumption DEF v
      <4>. QED BY <4>1
    <3>4. \A w \in Given(ls, "expect") : Len(w) \in Nat
      BY GivenType DEF Names
    <3>5. Len(Blank) = 1
      OBVIOUS
    <3>6. \A w \in Given(ls, "expect") :
             w = Blank \/ (Len(w) <= Len(e) /\ (Len(w) = Len(e) => w = e))
      BY <2>1 DEF ExpectFact
    <3>7. Len(e \o v) = Len(e) + Len(v) /\ Len(e) \in Nat /\ (Len(e) = 0 => e \o v = v)
      <4>1. Len(e \o v) = Len(e) + Len(v) /\ Len(e) \in Nat
        BY <2>1, <3>3, ConcatProperties, LenProperties
      <4>2. Len(e) = 0 => e \o v = v
        BY <2>1, <3>3, EmptySeq, ConcatEmptySeq
      <4>. QED BY <4>1, <4>2
    <3>8. SUFFICES \A w \in Given(ls, "expect") \cup {v} :
             w = Blank \/ (Len(w) <= Len(n.expect) /\ (Len(w) = Len(n.expect) => w = n.expect))
      BY <3>2 DEF ExpectFact
    <3>. HIDE DEF e, Blank
    <3>9. CASE e = Blank
      <4>1. \A w \in Given(ls, "expect") : w = Blank \/ Len(w) < Len(v)
        <5>1. ASSUME NEW w \in Given(ls, "expect"), w # Blank PROVE Len(w) < Len(v)
          <6>1. Len(w) \in Nat /\ Len(e) \in Nat /\ Len(w) <= Len(e) /\ Len(e) = 1
            BY <3>4, <3>5, <3>6, <3>9, <5>1
          <6>2. Len(w) # Len(e)
            BY <3>6, <3>9, <5>1
          <6>3. \A a, b \in Nat : a <= b /\ a # b /\ b = 1 => a < 1
            OBVIOUS
          <6>4. Len(w) < 1
            BY <6>1, <6>2, <6>3, Zenon
          <6>5. Len(v) \in Nat /\ Len(v) > 0
            BY <3>3
          <6>. QED BY <6>1, <6>4, <6>5
        <5>. QED BY <5>1
      <4>. QED BY <3>1, <3>3, <3>4, <3>9, <4>1
    <3>10. CASE e # Blank
      <4>. DEFINE ev == e \o v
      <4>1. Len(ev) = Len(e) + Len(v) /\ Len(e) \in Nat /\ (Len(e) = 0 => ev = v)
        BY <3>7
      <4>. HIDE DEF ev
      <4>2. \A w \in Given(ls, "expect") : w = Blank \/ Len(w) < Len(ev)
        BY <3>3, <3>4, <3>6, <4>1
      <4>3. Len(v) <= Len(ev) /\ (Len(v) = Len(ev) => v = ev)
        BY <3>3, <4>1
      <4>4. n.expect = ev
        BY <3>1, <3>10 DEF ev
      <4>. QED BY <3>4, <4>1, <4>2, <4>3, <4>4
    <3>. QED BY <3>9, <3>10
  <2>3. CASE l.name # "expect"
    <3>1. n.expect = e /\ Given(ks, "expect") = Given(ls, "expect")
      BY <1>2, <1>4, <2>3 DEF ReadAs, v
    <3>. QED BY <2>1, <3>1 DEF ExpectFact
  <2>. QED BY <2>2, <2>3
<1>. QED BY <1>5, <1>6, <1>7, <1>8, <1>9 DEF FactsInv, ks, n

-----------------------------------------------------------------------------
(* What onHeaders decides.                                                 *)

Malformed(m) ==
  \/ m.hosts # 1 \/ m.host = "" \/ m.badLength \/ m.conflict
  \/ m.lengths > 0 /\ m.encodings > 0
  \/ m.encodings > 0 /\ (m.encodings # 1 \/ m.badEncoding)
  \/ m.badTrailer \/ m.nominates

\* It finds a message malformed just when its lines are ambiguous.
LEMMA MalformedIsAmbiguous ==
  ASSUME lines \in Seq(Lines), facts \in Facts, FactsInv(facts, lines)
  PROVE  Malformed(facts) <=> ~Unambiguous
<1>. DEFINE m == facts
            te == "transfer-encoding"
<1>1. /\ \A name : Named(name) = Where(lines, name)
      /\ Declared = Given(lines, "content-length")
  BY DEF Named, Where, Declared, Given
<1>2. \A name : /\ IsFiniteSet(Named(name)) /\ Cardinality(Named(name)) \in Nat
                /\ Cardinality(Named(name)) = 0 <=> Named(name) = {}
                /\ Cardinality(Named(name)) = 1 => \E i : Named(name) = {i}
  BY <1>1, GivenType, FS_CardinalityType, FS_EmptySet, FS_Singleton
<1>3. \A name : \A v : v \in Given(lines, name) <=> \E i \in Named(name) : v = lines[i].value
  BY <1>1 DEF Given
<1>4. m.hosts # 1 \/ m.host = "" <=>
        ~(Cardinality(Named("host")) = 1 /\ \A i \in Named("host") : lines[i].value # "")
  <2>1. m.hosts = Cardinality(Named("host")) /\ (m.hosts > 0 => m.host \in Given(lines, "host"))
    BY <1>1 DEF FactsInv, HostsFact
  <2>2. CASE Cardinality(Named("host")) = 1
    <3>1. PICK i : Named("host") = {i}
      BY <1>2, <2>2
    <3>2. m.hosts = 1 /\ m.host = lines[i].value
      BY <1>3, <2>1, <2>2, <3>1
    <3>. QED BY <2>2, <3>1, <3>2
  <2>3. CASE Cardinality(Named("host")) # 1
    BY <2>1, <2>3
  <2>. QED BY <2>2, <2>3
<1>5. m.badLength \/ m.conflict <=>
        ~(Cardinality(Named("content-length")) <= 1 /\ \A v \in Declared : AllDigits(v))
  <2>1. /\ m.lengths = Cardinality(Named("content-length"))
        /\ m.badLength <=> \E v \in Declared : ~AllDigits(v)
        /\ m.conflict <=> m.lengths > 1
        /\ m.lengths \in Nat
    BY <1>1 DEF FactsInv, LengthsFact, Facts
  <2>. QED BY <2>1
<1>6. m.lengths > 0 /\ m.encodings > 0 <=> ~(Declared # {} => Named(te) = {})
  <2>1. m.lengths = 0 <=> Declared = {}
    BY <1>1 DEF FactsInv, LengthsFact
  <2>2. m.encodings = 0 <=> Named(te) = {}
    BY <1>1, GivenType DEF FactsInv, EncodingsFact
  <2>. QED BY <2>1, <2>2 DEF Facts
<1>7. m.encodings > 0 /\ (m.encodings # 1 \/ m.badEncoding) <=>
        ~(Cardinality(Named(te)) <= 1 /\ \A i \in Named(te) : lines[i].value = <<"chunked">>)
  <2>. DEFINE given == Given(lines, te)
              c == Cardinality(Named(te))
  <2>1. /\ m.encodings = 0 <=> given = {}
        /\ c <= m.encodings /\ m.encodings \in Nat /\ c \in Nat
        /\ \A v \in given : Len(v) <= m.encodings
        /\ c = 1 => \E v \in given : m.encodings = Len(v)
        /\ m.badEncoding <=> \E v \in given : Tokens(v) # {"chunked"}
    BY <1>1, <1>2 DEF FactsInv, EncodingsFact, Facts
  <2>2. c = 0 <=> given = {}
    BY <1>2, <1>3
  <2>3. \A v \in given : v \in Seq(STRING) /\ Len(v) \in Nat /\ Len(v) > 0
    <3>1. \A v \in given : v \in Seq(STRING) /\ v # <<>>
      BY GivenType DEF Names
    <3>. QED BY <3>1
  <2>4. \A v \in given : v = <<"chunked">> <=> Len(v) = 1 /\ Tokens(v) = {"chunked"}
    <3>1. ASSUME NEW v \in given, Len(v) = 1, Tokens(v) = {"chunked"}
          PROVE  v = <<"chunked">>
      BY <2>3, <3>1 DEF Tokens
    <3>2. Tokens(<<"chunked">>) = {"chunked"} /\ Len(<<"chunked">>) = 1
      BY DEF Tokens
    <3>. QED BY <3>1, <3>2
  <2>. DEFINE plain == \A v \in given : v = <<"chunked">>
              x == m.encodings
              bad == m.badEncoding
  <2>5. plain <=> \A i \in Named(te) : lines[i].value = <<"chunked">>
    BY <1>3
  <2>6. SUFFICES x > 0 /\ (x # 1 \/ bad) <=> ~(c <= 1 /\ plain)
    BY <2>5
  <2>7. \A v \in given : Len(v) = 1 => (v = <<"chunked">> <=> Tokens(v) = {"chunked"})
    BY <2>4
  <2>8. CASE x = 0
    <3>1. c = 0 /\ given = {}
      BY <2>1, <2>8
    <3>. QED BY <2>8, <3>1
  <2>9. CASE x = 1
    <3>1. \A v \in given : Len(v) = 1
      <4>1. \A a, b \in Nat : a > 0 /\ a <= b /\ b = 1 => a = 1
        OBVIOUS
      <4>2. x \in Nat /\ \A v \in given : Len(v) <= x
        BY <2>1
      <4>. HIDE DEF given, x
      <4>. QED BY <2>3, <2>9, <4>1, <4>2, Zenon
    <3>2. bad <=> ~plain
      BY <2>1, <2>7, <3>1
    <3>3. c <= 1
      BY <2>1, <2>9
    <3>. HIDE DEF x, bad, plain, c
    <3>. QED BY <2>9, <3>2, <3>3
  <2>10. CASE x \notin {0, 1}
    <3>1. ASSUME c <= 1, plain PROVE FALSE
      <4>1. c = 1
        BY <2>1, <2>2, <2>10, <3>1
      <4>2. PICK v \in given : x = Len(v)
        BY <2>1, <4>1
      <4>. QED BY <2>4, <2>10, <3>1, <4>2
    <3>2. x > 0
      BY <2>1, <2>10
    <3>. HIDE DEF x, bad, plain, c
    <3>. QED BY <2>10, <3>1, <3>2
  <2>. QED BY <2>8, <2>9, <2>10
<1>8. m.badTrailer <=>
        ~ \A i \in Named("trailer") : TokensOf(lines[i]) \cap FORBIDDEN_TRAILER_FIELDS = {}
  BY <1>3 DEF FactsInv, TokensFact, Tokens, TokensOf
<1>9. m.nominates <=>
        ~ \A i \in Named("connection") : TokensOf(lines[i]) \cap FramingNames = {}
  BY <1>3 DEF FactsInv, TokensFact, Tokens, TokensOf
<1>. QED BY <1>4, <1>5, <1>6, <1>7, <1>8, <1>9 DEF Malformed, Unambiguous

\* The parser refused the message for a second length.
Refused == verdict = "400" /\ step = "over" /\ ~Unambiguous

\* The message that is being read is what its lines say, and a verdict is that of
\* this message.
ReadInv ==
  /\ lines \in Seq(Lines) /\ facts \in Facts
  /\ verdict # "none" => step \in {"message", "over"}
  /\ \/ /\ FactsInv(facts, lines)
        /\ verdict # "none" => verdict = Verdict(facts, Bodyless(method))
     \/ Refused

LEMMA VerdictMeans ==
  ASSUME NEW b \in BOOLEAN, verdict = Verdict(facts, b)
  PROVE  /\ Malformed(facts) => verdict = "400"
         /\ verdict = "accepted" =>
              ~(MaxBody > 0 /\ facts.length > MaxBody) /\ ~(b /\ HasBody(facts))
         /\ ~Malformed(facts) /\ verdict = "400" =>
              b /\ HasBody(facts) /\ facts.expect \in {<<>>, <<"">>, <<"100-continue">>}
<1>1. CASE Malformed(facts)
  <2>1. Verdict(facts, b) = "400"
    BY <1>1 DEF Verdict, Malformed
  <2>. QED BY <1>1, <2>1
<1>2. CASE ~Malformed(facts)
  <2>1. Verdict(facts, b) =
          IF MaxBody > 0 /\ facts.length > MaxBody THEN "413"
          ELSE IF facts.expect \notin {<<>>, <<"">>, <<"100-continue">>} THEN "417"
          ELSE IF b /\ HasBody(facts) THEN "400"
          ELSE "accepted"
    BY <1>2 DEF Verdict, Malformed
  <2>. QED BY <1>2, <2>1
<1>. QED BY <1>1, <1>2

LEMMA ReadIsUnambiguous == ReadInv => AcceptedIsUnambiguous
<1> SUFFICES ASSUME ReadInv, verdict # "none", ~Refused PROVE AcceptedIsUnambiguous
  BY DEF AcceptedIsUnambiguous, Refused
<1>. DEFINE m == facts
            te == "transfer-encoding"
<1>1. lines \in Seq(Lines) /\ m \in Facts /\ FactsInv(m, lines)
  BY DEF ReadInv
<1>2. Malformed(m) <=> ~Unambiguous
  BY <1>1, MalformedIsAmbiguous
<1>3. /\ Malformed(m) => verdict = "400"
      /\ verdict = "accepted" =>
           ~(MaxBody > 0 /\ m.length > MaxBody) /\ ~(Bodyless(method) /\ HasBody(m))
      /\ ~Malformed(m) /\ verdict = "400" =>
           Bodyless(method) /\ HasBody(m) /\ m.expect \in {<<>>, <<"">>, <<"100-continue">>}
  <2>1. Bodyless(method) \in BOOLEAN /\ verdict = Verdict(m, Bodyless(method))
    BY DEF ReadInv, Bodyless
  <2>. HIDE DEF m
  <2>. QED BY <2>1, VerdictMeans DEF m
<1>4. ASSUME ~Malformed(m)
      PROVE  /\ \A v \in Declared : m.length = Value(v)
             /\ Declared = {} => m.length = 0
  <2>1. Declared = Given(lines, "content-length") /\ ~m.badLength /\ ~m.conflict
    BY <1>4 DEF Malformed, Declared, Named, Given, Where
  <2>2. /\ \A v \in Declared : AllDigits(v) /\ v = m.first
        /\ Declared = {} => m.length = 0
        /\ Declared # {} => \E v \in Declared : m.length = IF AllDigits(v) THEN Value(v) ELSE 0
    BY <1>1, <2>1 DEF FactsInv, LengthsFact
  <2>. QED BY <2>2
<1>5. ASSUME ~Malformed(m) PROVE m.chunked <=> Named(te) # {}
  <2>1. Named(te) = Where(lines, te) /\ (m.encodings = 0 \/ ~m.badEncoding)
    <3>1. ~Malformed(m) /\ m.encodings \in Nat
      BY <1>1, <1>5 DEF Facts
    <3>2. ~(m.encodings > 0 /\ m.badEncoding)
      BY <3>1, Zenon DEF Malformed
    <3>3. m.encodings = 0 \/ m.encodings > 0
      BY <3>1
    <3>. QED BY <3>2, <3>3, Zenon DEF Named, Where
  <2>2. /\ m.encodings = 0 <=> Given(lines, te) = {}
        /\ m.badEncoding <=> \E v \in Given(lines, te) : Tokens(v) # {"chunked"}
        /\ m.chunked <=> \E v \in Given(lines, te) : "chunked" \in Tokens(v)
    BY <1>1 DEF FactsInv, EncodingsFact
  <2>3. Given(lines, te) = {} <=> Named(te) = {}
    BY <1>1, <2>1, GivenType
  <2>. QED BY <2>1, <2>2, <2>3
<1>6. ASSUME ~Malformed(m) PROVE HasBody(m) <=> NamesBody
  <2>1. m.length > 0 <=> \E v \in Declared : Value(v) > 0
    <3>1. CASE Declared = {}
      BY <1>4, <1>6, <3>1
    <3>2. CASE Declared # {}
      BY <1>4, <1>6, <3>2
    <3>. QED BY <3>1, <3>2
  <2>. QED BY <1>5, <1>6, <2>1, Zenon DEF HasBody, NamesBody
<1>7. ASSUME verdict = "accepted"
      PROVE  /\ \A v \in Declared : m.length = Value(v) /\ (MaxBody > 0 => Value(v) <= MaxBody)
             /\ m.chunked <=> Named(te) # {}
             /\ Bodyless(method) => ~NamesBody
  <2>1. ~Malformed(m)
    BY <1>3, <1>7
  <2>2. MaxBody > 0 => m.length <= MaxBody
    BY <1>1, <1>3, <1>7, MaxBodyAssumption DEF Facts
  <2>3. Bodyless(method) => ~NamesBody
    BY <1>3, <1>6, <1>7, <2>1
  <2>. QED BY <1>4, <1>5, <2>1, <2>2, <2>3
<1>8. ASSUME Unambiguous, verdict = "400"
      PROVE  /\ Bodyless(method) /\ NamesBody
             /\ Asks \subseteq {<<"">>, <<"100-continue">>}
  <2>. DEFINE Blank == <<"">>
              Continue == <<"100-continue">>
  <2>1. /\ Bodyless(method) /\ NamesBody
        /\ m.expect \in {<<>>, Blank, Continue}
    BY <1>2, <1>3, <1>6, <1>8
  <2>2. Asks = Given(lines, "expect")
    BY DEF Asks, Named, Given, Where
  <2>3. ASSUME NEW v \in Asks PROVE v \in {Blank, Continue}
    <3>1. v = Blank \/ (Len(v) <= Len(m.expect) /\ (Len(v) = Len(m.expect) => v = m.expect))
      BY <1>1, <2>2, <2>3 DEF FactsInv, ExpectFact
    <3>2. v \in Seq(STRING) /\ v # <<>>
      BY <1>1, <2>2, <2>3, GivenType DEF Names
    <3>3. Len(v) \in Nat /\ Len(v) > 0
      BY <3>2
    <3>4. Len(<<>>) = 0 /\ Len(Blank) = 1 /\ Len(Continue) = 1
      OBVIOUS
    <3>5. \A a, b \in Nat : a > 0 /\ a <= b /\ b \in {0, 1} => a = b
      OBVIOUS
    <3>6. Len(m.expect) \in {0, 1} /\ (m.expect = <<>> => Len(m.expect) = 0)
      BY <2>1, <3>4
    <3>. HIDE DEF Blank, Continue
    <3>7. v = Blank \/ Len(v) = Len(m.expect)
      <4>1. 0 \in Nat /\ 1 \in Nat
        OBVIOUS
      <4>. QED BY <3>1, <3>3, <3>5, <3>6, <4>1, Zenon
    <3>8. v = Blank \/ (v = m.expect /\ m.expect # <<>>)
      BY <3>1, <3>2, <3>7
    <3>. QED BY <2>1, <3>8
  <2>. QED BY <2>1, <2>3
<1>9. verdict \in {"accepted", "413", "417"} => Unambiguous
  BY <1>2, <1>3
<1>. QED BY <1>7, <1>8, <1>9 DEF AcceptedIsUnambiguous

FramingSpec == FramingInit /\ [][FramingNext]_framingVars

LEMMA ReadInit == FramingInit => ReadInv
<1> SUFFICES ASSUME FramingInit PROVE ReadInv
  OBVIOUS
<1>1. lines = <<>> /\ facts = EmptyMessage /\ verdict = "none"
  BY DEF FramingInit
<1>2. <<>> \in Seq(Lines)
  OBVIOUS
<1>. QED BY <1>1, <1>2, NoLines DEF ReadInv

LEMMA SameLines == UNCHANGED lines => (Unambiguous' <=> Unambiguous)
<1> SUFFICES ASSUME UNCHANGED lines PROVE Unambiguous' <=> Unambiguous
  OBVIOUS
<1>1. \A name : Named(name)' = Named(name)
  BY DEF Named
<1>2. Declared' = Declared /\ \A name : \A i \in Named(name) : lines[i]' = lines[i]
  BY <1>1 DEF Declared
<1>3. \A i : TokensOf(lines[i])' = TokensOf(lines[i])
  BY DEF TokensOf
<1>. QED BY <1>1, <1>2, <1>3 DEF Unambiguous

LEMMA RefusalStep == ASSUME ReadInv, NEW line \in Lines, OnParseError(line) PROVE ReadInv'
<1>. DEFINE ks == Append(lines, line)
            cl == "content-length"
<1>1. /\ lines \in Seq(Lines) /\ facts \in Facts
      /\ line.name = cl /\ Declared # {} /\ lines' = ks
      /\ facts' = facts /\ verdict' = "400" /\ step' = "over"
  BY DEF ReadInv, OnParseError
<1>2. /\ ks \in Seq(Lines) /\ Where(ks, cl) = Where(lines, cl) \cup {Len(lines) + 1}
      /\ Len(lines) + 1 \notin Where(lines, cl)
  <2>1. lines \in Seq(Lines) /\ line.name = cl
    BY <1>1
  <2>. HIDE DEF cl
  <2>. QED BY <2>1, LineJoins, ZenonT(60)
<1>3. IsFiniteSet(Where(lines, cl)) /\ Where(lines, cl) # {}
  BY <1>1, GivenType DEF Declared, Named, Where
<1>4. Cardinality(Where(lines, cl)) \in Nat \ {0}
  BY <1>3, FS_CardinalityType, FS_EmptySet
<1>5. Cardinality(Where(ks, cl)) = Cardinality(Where(lines, cl)) + 1
  BY <1>2, <1>3, FS_AddElement
<1>6. Named("content-length")' = Where(ks, cl)
  BY <1>1 DEF Named, Where
<1>7. ~Unambiguous'
  <2>. DEFINE c == Cardinality(Named("content-length"))
  <2>1. c' \in Nat /\ c' > 1
    <3>. HIDE DEF ks, cl
    <3>. QED BY <1>4, <1>5, <1>6
  <2>2. Unambiguous' => c' <= 1
    BY Zenon DEF Unambiguous
  <2>. QED BY <2>1, <2>2
<1>. QED BY <1>1, <1>2, <1>7 DEF ReadInv, Refused

LEMMA ReadStep == ReadInv /\ [FramingNext]_framingVars => ReadInv'
<1> SUFFICES ASSUME ReadInv, [FramingNext]_framingVars PROVE ReadInv'
  OBVIOUS
<1>1. ASSUME NEW line \in Lines, OnHeaderValue(line) PROVE ReadInv'
  <2>1. /\ step = "headers" /\ verdict' = verdict
        /\ facts' = WithLine(facts, line) /\ lines' = Append(lines, line)
    BY <1>1 DEF OnHeaderValue
  <2>2. /\ lines \in Seq(Lines) /\ facts \in Facts /\ FactsInv(facts, lines)
        /\ verdict = "none" /\ New(lines, line)
    <3>1. New(lines, line)
      BY <1>1 DEF OnHeaderValue, Repeats, New, Declared, Named, Given, Where
    <3>. QED BY <2>1, <3>1 DEF ReadInv, Refused
  <2>3. WithLine(facts, line) \in Facts /\ Append(lines, line) \in Seq(Lines)
    <3>1. ReadAs(facts, line, WithLine(facts, line))
      BY <2>2, LineRead
    <3>. QED BY <2>2, <3>1, AppendProperties DEF ReadAs
  <2>4. FactsInv(WithLine(facts, line), Append(lines, line))
    BY <2>2, FactsStep
  <2>. QED BY <2>1, <2>2, <2>3, <2>4 DEF ReadInv
<1>2. ASSUME NEW m \in {"GET", "HEAD", "POST"}, OnHeaders(m) PROVE ReadInv'
  <2>1. /\ step = "headers" /\ facts' = facts /\ lines' = lines /\ method' = m
        /\ verdict' = Verdict(facts, Bodyless(m)) /\ step' \in {"message", "over"}
    BY <1>2 DEF OnHeaders
  <2>2. lines \in Seq(Lines) /\ facts \in Facts /\ FactsInv(facts, lines)
    BY <2>1 DEF ReadInv, Refused
  <2>3. verdict' = Verdict(facts, Bodyless(method))'
    BY <2>1 DEF Verdict, HasBody, Bodyless
  <2>4. FactsInv(facts, lines)'
    BY <2>1, <2>2
  <2>. QED BY <2>1, <2>2, <2>3, <2>4 DEF ReadInv
<1>3. CASE OnMessageComplete
  <2>1. facts' = EmptyMessage /\ lines' = <<>> /\ verdict' = "none"
    BY <1>3 DEF OnMessageComplete
  <2>2. <<>> \in Seq(Lines)
    OBVIOUS
  <2>. QED BY <2>1, <2>2, NoLines DEF ReadInv
<1>4. CASE /\ step \notin {"headers", "message", "over"}
           /\ UNCHANGED requestVars
  <2>1. verdict = "none" /\ UNCHANGED <<facts, lines, verdict>>
    BY <1>4 DEF ReadInv, Refused, requestVars
  <2>. QED BY <2>1 DEF ReadInv, Refused
<1>5. CASE UNCHANGED <<requestVars, step>>
  <2>1. Refused' <=> Refused
    BY <1>5, SameLines DEF Refused, requestVars
  <2>2. Verdict(facts, Bodyless(method))' = Verdict(facts, Bodyless(method))
    BY <1>5 DEF Verdict, HasBody, Bodyless, requestVars
  <2>3. FactsInv(facts, lines)' <=> FactsInv(facts, lines)
    BY <1>5 DEF requestVars
  <2>4. UNCHANGED <<facts, lines, verdict, step>>
    BY <1>5 DEF requestVars
  <2>. QED BY <2>1, <2>2, <2>3, <2>4 DEF ReadInv
<1>0. ASSUME NEW line \in Lines, OnParseError(line) PROVE ReadInv'
  BY <1>0, RefusalStep
<1>6. ASSUME NEW r \in Responses, WriteHead(r) PROVE ReadInv'
  BY <1>4, <1>6 DEF WriteHead
<1>7. ASSUME NEW n \in Chunks, WriteChunk(n) PROVE ReadInv'
  BY <1>4, <1>7 DEF WriteChunk
<1>8. CASE BodyBegins \/ SourceEnds \/ SourceFails
  BY <1>4, <1>8 DEF BodyBegins, SourceEnds, SourceFails
<1>9. CASE Drain \/ DrainFails \/ NextExchange
  BY <1>4, <1>9 DEF Drain, DrainFails, NextExchange, Waits
<1>10. CASE SocketGone
  BY <1>5, <1>10 DEF SocketGone
<1>11. CASE UNCHANGED framingVars
  BY <1>5, <1>11 DEF framingVars, requestVars
<1>. QED BY <1>0, <1>1, <1>2, <1>3, <1>6, <1>7, <1>8, <1>9, <1>10, <1>11 DEF FramingNext

\* A request is judged by all of its header lines and by nothing of an earlier
\* message (lib/h1/parser.js, onHeaders in lib/h1/connection.js, README "malformed
\* framing is rejected rather than guessed").  Lines that name no host or two, two
\* ends of the body, two lengths, equal or not, or a length that is no number are
\* answered with 400, other lines only for a GET or a HEAD that they give a body; a
\* body that is accepted is as long as they say, and is not that of a GET or a HEAD.
\* That the vendored parser refuses a length given twice is what the repository's
\* tests say of it, and assumed.
THEOREM RequestsUnambiguous == FramingSpec => []AcceptedIsUnambiguous
<1>1. FramingInit => ReadInv
  BY ReadInit
<1>2. ReadInv /\ [FramingNext]_framingVars => ReadInv'
  BY ReadStep
<1>3. ReadInv => AcceptedIsUnambiguous
  BY ReadIsUnambiguous
<1>. QED BY <1>1, <1>2, <1>3, PTL DEF FramingSpec

-----------------------------------------------------------------------------
(* The response.                                                           *)

Heads == {"none", "bare", "chunked", "length"}
Outs == [head : Heads, sent : Nat, terminal : BOOLEAN]

LEMMA ResponseType ==
  ASSUME NEW r \in Responses
  PROVE  /\ r.status \in {"ok", "bare", "reset"} /\ r.body \in BOOLEAN
         /\ r.declares \in BOOLEAN /\ r.trailers \in BOOLEAN
         /\ r.status # "ok" => ~r.body
         /\ r.length \in Digits /\ Expected(r) \in Numbers
<1>1. /\ r.status \in {"ok", "bare", "reset"} /\ r.body \in BOOLEAN
      /\ r.declares \in BOOLEAN /\ r.trailers \in BOOLEAN
      /\ r.status # "ok" => ~r.body
      /\ r.length \in Lengths \cup {<<>>}
  BY DEF Responses
<1>2. r.length \in Digits
  <2>1. <<>> \in Digits /\ \A v \in Lengths : v \in Digits
    BY LengthsAssumption DEF Digits
  <2>. QED BY <1>1, <2>1
<1>3. Expected(r) \in Numbers
  <2>1. PICK g : Parses(r.length, g)
                 /\ ParseContentLength(r.length) \in {TooLarge, g[Len(r.length)]}
    BY <1>2, ParseIs
  <2>2. Len(r.length) \in 0 .. Len(r.length)
    BY <1>2 DEF Digits
  <2>. QED BY <2>1, <2>2 DEF Parses, Expected, Numbers
<1>. QED BY <1>1, <1>2, <1>3

\* What may be sent of response r when the connection is at a step of it.
SentOf(r) ==
  /\ r \in Responses /\ ~Unserializable(r) /\ out.head = Framing(r)
  /\ OmitsBody(r) => out.sent = 0 /\ ~out.terminal
  /\ r.declares => out.sent <= Expected(r)

\* All of it is sent.
SentAll(r) ==
  CASE out.head = "length"  -> out.sent = (IF r.declares THEN Expected(r) ELSE 0)
    [] out.head = "chunked" -> out.terminal
    [] OTHER                -> FALSE

SentInv ==
  /\ out \in Outs
  /\ out.head = "none" => out.sent = 0 /\ ~out.terminal
  /\ out.head # "none" => SentOf(resp)
  /\ out.terminal => source = "finished"

AtStep ==
  /\ step \in {"headers", "message", "respond"} => out = NothingSent
  /\ step \in {"head", "headWait"} => out.head # "none" /\ out.sent = 0 /\ ~out.terminal
  /\ step \in {"pump", "pumpWait"} =>
       out.head # "none" /\ resp.body /\ ~OmitsBody(resp) /\ ~out.terminal
  /\ step \in {"done", "doneWait"} =>
       out.head # "none" /\ (~OmitsBody(resp) => SentAll(resp))

ResponseInv == SentInv /\ AtStep

LEMMA SentIsFramed == ResponseInv => ResponseFramed
<1> SUFFICES ASSUME ResponseInv PROVE ResponseFramed
  OBVIOUS
<1>1. /\ out \in Outs
      /\ out.head = "none" => out.sent = 0 /\ ~out.terminal
      /\ out.head # "none" => SentOf(resp)
      /\ out.terminal => source = "finished"
      /\ step = "done" => out.head # "none" /\ (~OmitsBody(resp) => SentAll(resp))
  BY DEF ResponseInv, SentInv, AtStep
<1>2. ASSUME out.head # "none", resp.declares
      PROVE  /\ AllDigits(resp.length) /\ Expected(resp) = Value(resp.length)
             /\ Value(resp.length) <= MaxSafe /\ out.sent <= Expected(resp)
  <2>1. /\ resp \in Responses /\ out.sent <= Expected(resp)
        /\ ParseContentLength(resp.length) # TooLarge
    BY <1>1, <1>2 DEF SentOf, Unserializable, Expected
  <2>2. resp.length \in Digits
    BY <2>1, ResponseType
  <2>. QED BY <2>1, <2>2, ParseMeans DEF Expected
<1>3. OmitsBody(resp) => out.sent = 0 /\ ~out.terminal
  BY <1>1 DEF SentOf
<1>4. ASSUME step = "done", ~OmitsBody(resp)
      PROVE  CASE out.head = "length"  ->
                    out.sent = (IF resp.declares THEN Value(resp.length) ELSE 0)
               [] out.head = "chunked" -> out.terminal
               [] out.head = "bare"    -> FALSE
  <2>1. out.head \in {"bare", "chunked", "length"} /\ SentAll(resp)
    BY <1>1, <1>4 DEF Outs, Heads
  <2>2. resp.declares => Expected(resp) = Value(resp.length)
    BY <1>2, <2>1
  <2>. QED BY <2>1, <2>2 DEF SentAll
<1>. QED BY <1>1, <1>2, <1>3, <1>4 DEF ResponseFramed

LEMMA ResponseInit == FramingInit => ResponseInv
  BY DEF FramingInit, NothingSent, ResponseInv, SentInv, AtStep, Outs, Heads

\* A step that sends nothing leaves what was sent as it was.
LEMMA NothingMore ==
  ASSUME SentInv, UNCHANGED <<method, resp, out>>, out.terminal => source' = "finished"
  PROVE  /\ SentInv'
         /\ OmitsBody(resp)' <=> OmitsBody(resp)
         /\ SentAll(resp)' <=> SentAll(resp)
<1>1. OmitsBody(resp)' <=> OmitsBody(resp)
  BY DEF OmitsBody
<1>2. Expected(resp)' = Expected(resp) /\ Framing(resp)' = Framing(resp)
  BY DEF Expected, Framing
<1>3. Unserializable(resp)' <=> Unserializable(resp)
  BY DEF Unserializable, Expected
<1>4. SentAll(resp)' <=> SentAll(resp)
  BY DEF SentAll, Expected
<1>5. SentOf(resp)' <=> SentOf(resp)
  BY <1>1, <1>2, <1>3 DEF SentOf
<1>. QED BY <1>1, <1>4, <1>5 DEF SentInv

\* The head goes out.
LEMMA HeadStep == ASSUME ResponseInv, NEW r \in Responses, WriteHead(r) PROVE ResponseInv'
<1>1. /\ step = "respond" /\ resp' = r /\ method' = method /\ out = NothingSent
      /\ r.status # "ok" => ~r.body
  BY ResponseType DEF WriteHead, requestVars, ResponseInv, AtStep
<1>2. CASE Unserializable(r) /\ Fail /\ UNCHANGED out
  BY <1>1, <1>2 DEF Fail, ResponseInv, SentInv, AtStep, NothingSent, Outs, Heads
<1>3. CASE /\ ~Unserializable(r) /\ out' = [NothingSent EXCEPT !.head = Framing(r)]
           /\ step' \in {"head", "headWait"}
  <2>1. out' = [head |-> Framing(r), sent |-> 0, terminal |-> FALSE]
    BY <1>3 DEF NothingSent
  <2>2. Framing(r) \in {"bare", "chunked", "length"}
    BY DEF Framing
  <2>3. SentOf(resp)'
    <3>1. r.declares => 0 <= Expected(r)
      <4>1. Expected(r) \in Numbers /\ (r.declares => Expected(r) # TooLarge)
        BY <1>3, ResponseType DEF Unserializable
      <4>. QED BY <4>1 DEF Numbers
    <3>2. /\ Unserializable(resp)' <=> Unserializable(r)
          /\ Framing(resp)' = Framing(r) /\ Expected(resp)' = Expected(r)
      BY <1>1 DEF Unserializable, Framing, Expected
    <3>. QED BY <1>1, <1>3, <2>1, <3>1, <3>2 DEF SentOf
  <2>4. SentInv'
    <3>1. out' \in Outs
      BY <2>1, <2>2 DEF Outs, Heads
    <3>2. ~out'.terminal /\ out'.head # "none"
      BY <2>1, <2>2
    <3>. QED BY <2>3, <3>1, <3>2 DEF SentInv
  <2>. QED BY <1>3, <2>1, <2>2, <2>4 DEF ResponseInv, AtStep
<1>. QED BY <1>2, <1>3 DEF WriteHead, Goes

\* A chunk goes out.
LEMMA ChunkStep == ASSUME ResponseInv, NEW n \in Chunks, WriteChunk(n) PROVE ResponseInv'
<1>1. /\ step = "pump" /\ n \in Nat /\ resp' = resp /\ method' = method /\ SentInv
      /\ out.head # "none" /\ resp.body /\ ~OmitsBody(resp) /\ ~out.terminal
  BY ChunksAssumption DEF WriteChunk, requestVars, ResponseInv, AtStep
<1>2. CASE Fail /\ UNCHANGED out
  <2>1. SentInv'
    BY <1>1, <1>2, NothingMore
  <2>. QED BY <1>2, <2>1 DEF Fail, ResponseInv, AtStep
<1>3. CASE /\ ~TooLong(out.sent + n) /\ out' = [out EXCEPT !.sent = @ + n]
           /\ step' \in {"pump", "pumpWait"} /\ UNCHANGED source
  <2>1. /\ out'.head = out.head /\ out'.terminal = out.terminal /\ out'.sent = out.sent + n
        /\ out' \in Outs /\ out.sent \in Nat /\ SentOf(resp)
    <3>1. out \in Outs /\ SentOf(resp)
      BY <1>1 DEF SentInv
    <3>. QED BY <1>1, <1>3, <3>1 DEF Outs
  <2>2. OmitsBody(resp)' <=> OmitsBody(resp)
    BY <1>1 DEF OmitsBody
  <2>3. SentOf(resp)'
    <3>1. resp.declares => out.sent + n <= Expected(resp)
      <4>1. Expected(resp) \in Int
        BY <2>1, ResponseType DEF SentOf, Numbers, TooLarge
      <4>. QED BY <1>1, <1>3, <2>1, <4>1 DEF TooLong
    <3>2. /\ Unserializable(resp)' <=> Unserializable(resp)
          /\ Framing(resp)' = Framing(resp) /\ Expected(resp)' = Expected(resp)
      BY <1>1 DEF Unserializable, Framing, Expected
    <3>. QED BY <1>1, <2>1, <2>2, <3>1, <3>2 DEF SentOf
  <2>4. SentInv'
    BY <1>1, <2>1, <2>3 DEF SentInv
  <2>. QED BY <1>1, <1>3, <2>1, <2>2, <2>4 DEF ResponseInv, AtStep
<1>. QED BY <1>2, <1>3 DEF WriteChunk, Goes

\* After the head comes the body, if one is to be sent.
LEMMA BodyStep == ASSUME ResponseInv, BodyBegins PROVE ResponseInv'
<1>1. /\ step = "head" /\ resp' = resp /\ method' = method /\ out' = out /\ SentInv
      /\ out.head # "none" /\ out.sent = 0 /\ ~out.terminal
  BY DEF BodyBegins, requestVars, ResponseInv, AtStep
<1>2. /\ SentInv' /\ (OmitsBody(resp)' <=> OmitsBody(resp))
      /\ SentAll(resp)' <=> SentAll(resp)
  BY <1>1, NothingMore
<1>3. CASE resp.body /\ ~OmitsBody(resp) /\ step' = "pump"
  BY <1>1, <1>2, <1>3 DEF ResponseInv, AtStep
<1>4. CASE resp.body /\ OmitsBody(resp) /\ step' = "done"
  BY <1>1, <1>2, <1>4 DEF ResponseInv, AtStep
<1>5. CASE ~resp.body /\ step' = "done"
  <2>1. ASSUME ~OmitsBody(resp) PROVE SentAll(resp)
    <3>1. SentOf(resp) /\ resp.status = "ok" /\ method # "HEAD"
      BY <1>1, <2>1 DEF SentInv, OmitsBody
    <3>2. out.head = "length"
      BY <1>5, <3>1 DEF SentOf, Framing
    <3>3. resp.declares => Expected(resp) = 0
      BY <1>5, <3>1 DEF SentOf, Unserializable
    <3>. QED BY <1>1, <3>2, <3>3 DEF SentAll
  <2>. QED BY <1>1, <1>2, <1>5, <2>1 DEF ResponseInv, AtStep
<1>. QED BY <1>3, <1>4, <1>5 DEF BodyBegins

\* The source of the body ends.
LEMMA SourceStep == ASSUME ResponseInv, SourceEnds PROVE ResponseInv'
<1>1. /\ step = "pump" /\ resp' = resp /\ method' = method /\ source' = "finished" /\ SentInv
      /\ out.head # "none" /\ resp.body /\ ~OmitsBody(resp) /\ ~out.terminal /\ SentOf(resp)
  BY DEF SourceEnds, requestVars, ResponseInv, AtStep, SentInv
<1>2. CASE Fail /\ UNCHANGED out
  <2>1. SentInv'
    BY <1>1, <1>2, NothingMore
  <2>. QED BY <1>2, <2>1 DEF Fail, ResponseInv, AtStep
<1>3. CASE ~TooShort /\ out.head = "length" /\ step' = "done" /\ UNCHANGED out
  <2>1. SentInv' /\ (SentAll(resp)' <=> SentAll(resp))
    BY <1>1, <1>3, NothingMore
  <2>2. resp.declares
    BY <1>1, <1>3 DEF SentOf, Framing
  <2>3. SentAll(resp)
    BY <1>3, <2>2 DEF SentAll, TooShort
  <2>. QED BY <1>1, <1>3, <2>1, <2>3 DEF ResponseInv, AtStep
<1>4. CASE /\ out.head = "chunked" /\ out' = [out EXCEPT !.terminal = TRUE]
           /\ step' \in {"done", "doneWait"}
  <2>1. /\ out'.head = "chunked" /\ out'.sent = out.sent /\ out.sent \in Nat
        /\ out'.terminal /\ out' \in Outs
    <3>1. out \in Outs
      BY <1>1 DEF SentInv
    <3>. QED BY <1>4, <3>1 DEF Outs
  <2>2. OmitsBody(resp)' <=> OmitsBody(resp)
    BY <1>1 DEF OmitsBody
  <2>3. SentOf(resp)'
    <3>1. /\ Unserializable(resp)' <=> Unserializable(resp)
          /\ Framing(resp)' = Framing(resp) /\ Expected(resp)' = Expected(resp)
      BY <1>1 DEF Unserializable, Framing, Expected
    <3>. QED BY <1>1, <1>4, <2>1, <2>2, <3>1 DEF SentOf
  <2>4. SentAll(resp)'
    BY <2>1 DEF SentAll
  <2>5. SentInv'
    BY <1>1, <2>1, <2>3 DEF SentInv
  <2>. QED BY <1>1, <1>4, <2>1, <2>4, <2>5 DEF ResponseInv, AtStep
<1>. QED BY <1>2, <1>3, <1>4 DEF SourceEnds, Goes

LEMMA ResponseStep == ResponseInv /\ [FramingNext]_framingVars => ResponseInv'
<1> SUFFICES ASSUME ResponseInv, [FramingNext]_framingVars PROVE ResponseInv'
  OBVIOUS
<1>1. SentInv /\ AtStep
  BY DEF ResponseInv
<1>2. CASE /\ step \in {"headers", "message"} /\ step' \in {"headers", "message", "over", "respond"}
           /\ UNCHANGED responseVars
  <2>1. out = NothingSent /\ out' = out /\ resp' = resp
    BY <1>1, <1>2 DEF AtStep, responseVars
  <2>2. SentInv'
    BY <2>1 DEF SentInv, NothingSent, Outs, Heads
  <2>. QED BY <1>2, <2>1, <2>2 DEF ResponseInv, AtStep
<1>3. ASSUME NEW line \in Lines, OnHeaderValue(line) PROVE ResponseInv'
  BY <1>2, <1>3 DEF OnHeaderValue
<1>17. ASSUME NEW line \in Lines, OnParseError(line) PROVE ResponseInv'
  BY <1>2, <1>17 DEF OnParseError
<1>4. ASSUME NEW m \in {"GET", "HEAD", "POST"}, OnHeaders(m) PROVE ResponseInv'
  BY <1>2, <1>4 DEF OnHeaders
<1>5. CASE OnMessageComplete
  BY <1>2, <1>5 DEF OnMessageComplete
<1>6. ASSUME NEW r \in Responses, WriteHead(r) PROVE ResponseInv'
  BY <1>6, HeadStep
<1>7. ASSUME NEW n \in Chunks, WriteChunk(n) PROVE ResponseInv'
  BY <1>7, ChunkStep
<1>8. CASE BodyBegins
  BY <1>8, BodyStep
<1>9. CASE SourceEnds
  BY <1>9, SourceStep
<1>10. CASE SourceFails
  <2>1. /\ step = "pump" /\ UNCHANGED <<method, resp, out>> /\ step' = "over" /\ ~out.terminal
    BY <1>1, <1>10 DEF SourceFails, Fail, requestVars, AtStep
  <2>2. SentInv'
    BY <1>1, <2>1, NothingMore
  <2>. QED BY <2>1, <2>2 DEF ResponseInv, AtStep
<1>11. CASE Drain
  <2>1. /\ UNCHANGED <<method, resp, out, source>>
        /\ \/ step = "headWait" /\ step' = "head"
           \/ step = "pumpWait" /\ step' = "pump"
           \/ step = "doneWait" /\ step' = "done"
    BY <1>11 DEF Drain, Waits, requestVars, responseVars
  <2>2. /\ SentInv' /\ (OmitsBody(resp)' <=> OmitsBody(resp))
        /\ SentAll(resp)' <=> SentAll(resp)
    BY <1>1, <2>1, NothingMore DEF SentInv
  <2>. QED BY <1>1, <2>1, <2>2 DEF ResponseInv, AtStep
<1>12. CASE DrainFails
  <2>1. /\ UNCHANGED <<method, resp, out>> /\ step' = "over"
        /\ step = "pumpWait" \/ source' = source
    BY <1>12 DEF DrainFails, Fail, requestVars
  <2>2. out.terminal => source' = "finished"
    BY <1>1, <2>1 DEF SentInv, AtStep
  <2>3. SentInv'
    BY <1>1, <2>1, <2>2, NothingMore
  <2>. QED BY <2>1, <2>3 DEF ResponseInv, AtStep
<1>13. CASE NextExchange
  <2>1. CASE step' = "headers" /\ out' = NothingSent
    BY <2>1 DEF NothingSent, ResponseInv, SentInv, AtStep, Outs, Heads
  <2>2. CASE step' = "over" /\ UNCHANGED responseVars
    <3>1. UNCHANGED <<method, resp, out, source>>
      BY <1>13, <2>2 DEF NextExchange, requestVars, responseVars
    <3>2. SentInv'
      BY <1>1, <3>1, NothingMore DEF SentInv
    <3>. QED BY <2>2, <3>2 DEF ResponseInv, AtStep
  <2>. QED BY <1>13, <2>1, <2>2 DEF NextExchange
<1>14. CASE UNCHANGED <<method, resp, out, source, step>>
  <2>1. /\ SentInv' /\ (OmitsBody(resp)' <=> OmitsBody(resp))
        /\ SentAll(resp)' <=> SentAll(resp)
    BY <1>1, <1>14, NothingMore DEF SentInv
  <2>. QED BY <1>1, <1>14, <2>1 DEF ResponseInv, AtStep
<1>15. CASE SocketGone
  BY <1>14, <1>15 DEF SocketGone, requestVars, responseVars
<1>16. CASE UNCHANGED framingVars
  BY <1>14, <1>16 DEF framingVars
<1>. QED
  BY <1>3, <1>4, <1>5, <1>6, <1>7, <1>8, <1>9, <1>10, <1>11, <1>12, <1>13, <1>15, <1>16,
     <1>17 DEF FramingNext

\* What is sent of a response is the body that its head announces (writeResponse,
\* lib/h1/serializer.js): a declared length is a safe number in digits, it is never
\* exceeded, and it is reached when writeResponse resolves; the last chunk follows
\* only a source that was read to its end.
THEOREM ResponsesFramed == FramingSpec => []ResponseFramed
<1>1. FramingInit => ResponseInv
  BY ResponseInit
<1>2. ResponseInv /\ [FramingNext]_framingVars => ResponseInv'
  BY ResponseStep
<1>3. ResponseInv => ResponseFramed
  BY SentIsFramed
<1>. QED BY <1>1, <1>2, <1>3, PTL DEF FramingSpec
=============================================================================

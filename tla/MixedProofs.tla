----------------------------- MODULE MixedProofs -----------------------------
(***************************************************************************)
(* The codec of Mixed.tla gives back what it was given, for bytes and words  *)
(* of any size, any area, any values, schemas and calls; a buffer that ends   *)
(* too early is refused, and the two unpackers agree on any bytes.           *)
(*                                                                          *)
(* First what Digits, Unsigned and Signed do to a number; then what the two   *)
(* unpackers make of any bytes, and that they agree; then what pack_value     *)
(* writes for a value (Code), and that both unpackers read it back; then the  *)
(* same for sequences of values, one code after another (Places); at last the *)
(* stream, whose invariant says that this is what the area holds.            *)
(*                                                                          *)
(* The loops of the code are recursive functions.  Their properties are      *)
(* proved by induction over a set of numbers (NatSetInduction), and that     *)
(* there are such functions follows from Iteration.                         *)
(***************************************************************************)
EXTENDS MixedStream, ModularArithmetic, SequenceTheorems, WellFoundedInduction, TLAPS

-----------------------------------------------------------------------------
(* Induction and recursion over natural numbers.                            *)

LessThan == {p \in Nat \X Nat : p[1] < p[2]}

LEMMA LessThanWellFounded == IsWellFoundedOn(LessThan, Nat)
<1>1. LessThan = OpToRel(<, Nat)
  BY DEF LessThan, OpToRel
<1>2. QED
  BY <1>1, NatLessThanWellFounded

LEMMA NatSetInduction ==
  ASSUME NEW P, 0 \in P, \A n \in Nat : n \in P => n + 1 \in P
  PROVE  \A n \in Nat : n \in P
<1> SUFFICES ASSUME \E n \in Nat : n \notin P PROVE FALSE
  OBVIOUS
<1> DEFINE T == Nat \ P
<1>1. T \subseteq Nat /\ T # {}
  OBVIOUS
<1>2. \E x \in T : \A y \in T : ~ (<<y, x>> \in LessThan)
  <2> HIDE DEF T
  <2>1. QED
    BY <1>1, LessThanWellFounded, WFMin
<1>3. PICK x \in T : \A y \in T : ~ (<<y, x>> \in LessThan)
  BY <1>2
<1>4. x # 0 /\ x \in Nat /\ x - 1 \in Nat /\ x - 1 + 1 = x
  OBVIOUS
<1>5. <<x - 1, x>> \in LessThan
  BY <1>4 DEF LessThan
<1>6. x - 1 \in P
  BY <1>3, <1>4, <1>5
<1>7. QED
  BY <1>4, <1>6

\* Up to n it is enough to get from each number below n to the next.
LEMMA IntervalInduction ==
  ASSUME NEW n \in Nat, NEW P, 0 \in P, \A i \in 1 .. n : i - 1 \in P => i \in P
  PROVE  \A i \in 0 .. n : i \in P
<1> DEFINE Q == {i \in Nat : i <= n => i \in P}
<1>1. 0 \in Q
  OBVIOUS
<1>2. \A i \in Nat : i \in Q => i + 1 \in Q
  <2> SUFFICES ASSUME NEW i \in Nat, i \in Q, i + 1 <= n PROVE i + 1 \in P
    OBVIOUS
  <2>1. i + 1 \in 1 .. n /\ i + 1 - 1 = i /\ i \in P
    OBVIOUS
  <2>2. QED
    BY <2>1
<1>3. \A i \in Nat : i \in Q
  <2> HIDE DEF Q
  <2>1. QED
    BY <1>1, <1>2, NatSetInduction
<1>4. QED
  BY <1>3

\* f runs through what F makes of v, round after round.
Iterates(f, n, v, F) == f[0] = v /\ \A i \in 1 .. n : f[i] = F[i][f[i - 1]]

LEMMA Iteration ==
  ASSUME NEW n \in Nat, NEW V, NEW v \in V, NEW F \in [1 .. n -> [V -> V]]
  PROVE  \E f \in [0 .. n -> V] : Iterates(f, n, v, F)
<1> DEFINE P == {m \in 0 .. n : \E f \in [0 .. m -> V] : Iterates(f, m, v, F)}
<1>1. 0 \in P
  <2>1. [i \in 0 .. 0 |-> v] \in [0 .. 0 -> V] /\ Iterates([i \in 0 .. 0 |-> v], 0, v, F)
    BY DEF Iterates
  <2>2. QED
    BY <2>1
<1>2. ASSUME NEW m \in 1 .. n, m - 1 \in P PROVE m \in P
  <2>1. PICK f \in [0 .. m - 1 -> V] : Iterates(f, m - 1, v, F)
    BY <1>2
  <2> DEFINE g == [i \in 0 .. m |-> IF i = m THEN F[m][f[m - 1]] ELSE f[i]]
  <2>2. g \in [0 .. m -> V]
    OBVIOUS
  <2>3. g[0] = v
    BY <2>1 DEF Iterates
  <2>4. ASSUME NEW i \in 1 .. m PROVE g[i] = F[i][g[i - 1]]
    <3>1. i - 1 \in 0 .. m /\ i - 1 # m /\ g[i - 1] = f[i - 1]
      OBVIOUS
    <3>2. CASE i = m
      BY <3>1, <3>2
    <3>3. CASE i # m
      BY <2>1, <3>1, <3>3 DEF Iterates
    <3>4. QED
      BY <3>2, <3>3
  <2>5. Iterates(g, m, v, F)
    <3> HIDE DEF g
    <3>1. QED
      BY <2>3, <2>4 DEF Iterates
  <2>6. QED
    BY <2>2, <2>5
<1>3. n \in P
  <2> HIDE DEF P
  <2>1. \A i \in 1 .. n : i - 1 \in P => i \in P
    BY <1>2
  <2>2. \A i \in 0 .. n : i \in P
    BY <1>1, <2>1, IntervalInduction
  <2>3. QED
    BY <2>2
<1>4. QED
  BY <1>3

-----------------------------------------------------------------------------
(* Numbers.                                                                 *)

LEMMA Widths ==
  /\ Base \in Nat /\ Base > 1 /\ Word \in Nat /\ Long \in Nat
  /\ 1 \in 0 .. Long /\ Word \in 0 .. Long /\ Long \in 0 .. Long /\ Word > 1 /\ Word < Long
BY WidthAssumption

LEMMA ProductType ==
  ASSUME NEW x \in Nat \ {0}, NEW y \in Nat \ {0}
  PROVE  x * y \in Nat \ {0}
OBVIOUS

LEMMA SpanFacts ==
  /\ Span \in [0 .. Long -> Nat \ {0}]
  /\ Span[0] = 1
  /\ \A w \in 1 .. Long : Span[w] = Base * Span[w - 1]
<1> DEFINE V == Nat \ {0}
           F == [w \in 1 .. Long |-> [v \in V |-> Base * v]]
<1>1. F \in [1 .. Long -> [V -> V]]
  <2>1. \A v \in V : Base * v \in V
    BY Widths, ProductType
  <2>2. QED
    BY <2>1
<1>2. \A w \in 1 .. Long, v \in V : F[w][v] = Base * v
  OBVIOUS
<1>3. PICK f \in [0 .. Long -> V] : Iterates(f, Long, 1, F)
  <2>1. 1 \in V /\ Long \in Nat
    BY Widths
  <2> HIDE DEF F, V
  <2>2. QED
    BY <1>1, <2>1, Iteration, Zenon
<1>4. f[0] = 1 /\ \A w \in 1 .. Long : f[w] = Base * f[w - 1]
  <2>1. \A w \in 1 .. Long : w - 1 \in 0 .. Long /\ f[w - 1] \in V
    BY Widths
  <2> HIDE DEF F
  <2>2. QED
    BY <1>2, <1>3, <2>1 DEF Iterates
<1>5. f = [w \in 0 .. Long |-> IF w = 0 THEN 1 ELSE Base * f[w - 1]]
  BY <1>4
<1>6. Span = [w \in 0 .. Long |-> IF w = 0 THEN 1 ELSE Base * Span[w - 1]]
  BY <1>5 DEF Span
<1>7. Span[0] = 1 /\ \A w \in 1 .. Long : Span[w] = Base * Span[w - 1]
  <2>1. 0 \in 0 .. Long /\ \A w \in 1 .. Long : w \in 0 .. Long /\ w # 0
    BY Widths
  <2>2. QED
    BY <1>6, <2>1
<1> DEFINE P == {w \in 0 .. Long : Span[w] \in V}
<1>8. 0 \in P /\ \A w \in 1 .. Long : w - 1 \in P => w \in P
  <2>1. ASSUME NEW w \in 1 .. Long, Span[w - 1] \in V PROVE Span[w] \in V
    <3>1. Base \in Nat \ {0} /\ Span[w] = Base * Span[w - 1]
      BY <1>7, Widths
    <3>2. QED
      BY <2>1, <3>1, ProductType
  <2>2. 0 \in 0 .. Long /\ \A w \in 1 .. Long : w \in 0 .. Long
    BY Widths
  <2>3. QED
    BY <1>7, <2>1, <2>2
<1>9. \A w \in 0 .. Long : w \in P
  <2> HIDE DEF P
  <2>1. QED
    BY <1>8, Widths, IntervalInduction
<1>10. \A w \in 0 .. Long : Span[w] \in V
  BY <1>9
<1>11. Span \in [0 .. Long -> V]
  BY <1>6, <1>10
<1>12. QED
  BY <1>7, <1>11

\* What the loop of Unsigned goes through.
LEMMA UnsignedSums ==
  ASSUME NEW b \in Seq(Byte), Len(b) <= Long
  PROVE  \E s : /\ s[0] = 0
                /\ \A i \in 1 .. Len(b) : s[i] = s[i - 1] + b[i] * Span[i - 1]
                /\ \A i \in 0 .. Len(b) : s[i] \in Nat
                /\ Unsigned(b) = s[Len(b)]
<1> DEFINE n == Len(b)
           F == [i \in 1 .. n |-> [v \in Nat |-> v + b[i] * Span[i - 1]]]
<1>1. n \in Nat /\ \A i \in 1 .. n : i - 1 \in 0 .. n /\ i \in 0 .. n /\ i # 0
  OBVIOUS
<1>2. \A i \in 1 .. n, v \in Nat : v + b[i] * Span[i - 1] \in Nat
  <2>1. \A i \in 1 .. n : b[i] \in Nat /\ Span[i - 1] \in Nat
    <3>1. ASSUME NEW i \in 1 .. n PROVE b[i] \in Nat /\ Span[i - 1] \in Nat
      <4>1. b[i] \in Byte /\ i - 1 \in 0 .. Long
        BY Widths
      <4>2. QED
        BY <4>1, SpanFacts DEF Byte
    <3>2. QED
      BY <3>1
  <2>2. \A x, y, v \in Nat : v + x * y \in Nat
    OBVIOUS
  <2>3. QED
    BY <2>1, <2>2
<1>3. F \in [1 .. n -> [Nat -> Nat]]
  BY <1>2
<1>4. \A i \in 1 .. n, v \in Nat : F[i][v] = v + b[i] * Span[i - 1]
  OBVIOUS
<1>5. PICK f \in [0 .. n -> Nat] : Iterates(f, n, 0, F)
  <2>1. 0 \in Nat
    OBVIOUS
  <2> HIDE DEF F, n
  <2>2. QED
    BY <1>1, <1>3, <2>1, Iteration, Zenon
<1>6. f[0] = 0 /\ \A i \in 1 .. n : f[i] = f[i - 1] + b[i] * Span[i - 1]
  <2>1. \A i \in 1 .. n : f[i - 1] \in Nat
    BY <1>1
  <2> HIDE DEF F, n
  <2>2. QED
    BY <1>4, <1>5, <2>1 DEF Iterates
<1>7. f = [i \in 0 .. n |-> IF i = 0 THEN 0 ELSE f[i - 1] + b[i] * Span[i - 1]]
  BY <1>6
<1> DEFINE sum[i \in 0 .. Len(b)] == IF i = 0 THEN 0 ELSE sum[i - 1] + b[i] * Span[i - 1]
<1>8. sum = [i \in 0 .. n |-> IF i = 0 THEN 0 ELSE sum[i - 1] + b[i] * Span[i - 1]]
  BY <1>7
<1>9. Unsigned(b) = sum[n]
  BY DEF Unsigned
<1> HIDE DEF sum
<1>10. sum[0] = 0 /\ \A i \in 1 .. n : sum[i] = sum[i - 1] + b[i] * Span[i - 1]
  BY <1>1, <1>8
<1> DEFINE P == {i \in 0 .. n : sum[i] \in Nat}
<1>11. 0 \in P /\ \A i \in 1 .. n : i - 1 \in P => i \in P
  <2>1. ASSUME NEW i \in 1 .. n, sum[i - 1] \in Nat PROVE sum[i] \in Nat
    BY <1>2, <1>10, <2>1
  <2>2. QED
    BY <1>1, <1>10, <2>1
<1>12. \A i \in 0 .. n : i \in P
  <2> HIDE DEF P
  <2>1. QED
    BY <1>1, <1>11, IntervalInduction
<1>13. \A i \in 0 .. n : sum[i] \in Nat
  BY <1>12
<1> HIDE DEF P, F
<1>14. QED
  BY <1>9, <1>10, <1>13

LEMMA DivUnique ==
  ASSUME NEW M \in Nat \ {0}, NEW q \in Int, NEW r \in 0 .. M - 1
  PROVE  (M * q + r) \div M = q
<1> DEFINE a == M * q + r
           d == q - (a \div M)
<1>1. a \in Int /\ a \div M \in Int /\ a % M \in 0 .. M - 1 /\ a = M * (a \div M) + (a % M)
  <2>1. a \in Int
    OBVIOUS
  <2>2. QED
    BY <2>1, DivMod
<1>2. M * d = (a % M) - r /\ d \in Int
  BY <1>1
<1>3. -M < M * d /\ M * d < M
  BY <1>1, <1>2
<1>4. d = 0
  <2> HIDE DEF d
  <2>1. QED
    BY <1>2, <1>3, SmallMultiple
<1>5. QED
  BY <1>1, <1>4

\* The next digit of a number.
LEMMA NextDigit ==
  ASSUME NEW n \in Int, NEW M \in Nat \ {0}, NEW C \in Nat \ {0}
  PROVE  /\ (n \div M) % C \in 0 .. C - 1
         /\ n \div M = C * (n \div (C * M)) + ((n \div M) % C)
<1> DEFINE q == n \div M
           r == n % M
           e == q \div C
           d == q % C
           R == M * d + r
<1>1. q \in Int /\ r \in 0 .. M - 1 /\ n = M * q + r
  BY DivMod
<1>2. e \in Int /\ d \in 0 .. C - 1 /\ q = C * e + d
  <2> HIDE DEF q
  <2>1. QED
    BY <1>1, DivMod
<1> HIDE DEF q, r, e, d
<1>3. M * q = (C * M) * e + M * d
  <2>1. M * (C * e + d) = (C * M) * e + M * d
    BY <1>2
  <2>2. QED
    BY <1>2, <2>1
<1>4. n = (C * M) * e + R
  <2>1. (C * M) * e \in Int /\ M * d \in Int
    BY <1>2
  <2>2. QED
    BY <1>1, <1>3, <2>1
<1>5. R \in 0 .. C * M - 1
  <2>1. M * d <= M * (C - 1) /\ M * d >= 0 /\ M * d \in Int
    <3>1. (C - 1) - d \in Nat /\ M \in Nat /\ d \in Nat
      BY <1>2
    <3>2. M * ((C - 1) - d) \in Nat /\ M * d \in Nat
      BY <3>1
    <3>3. M * ((C - 1) - d) = M * (C - 1) - M * d
      BY <3>1
    <3>4. QED
      BY <3>1, <3>2, <3>3
  <2>2. M * (C - 1) = C * M - M
    OBVIOUS
  <2>3. C * M \in Nat
    OBVIOUS
  <2>4. QED
    BY <1>1, <2>1, <2>2, <2>3
<1>6. n \div (C * M) = e
  <2>1. C * M \in Nat \ {0}
    BY ProductType
  <2> HIDE DEF R
  <2>2. QED
    BY <1>2, <1>4, <1>5, <2>1, DivUnique
<1>7. QED
  BY <1>2, <1>6 DEF q, d

LEMMA DigitsType ==
  ASSUME NEW n \in Int, NEW w \in 0 .. Long
  PROVE  Digits(n, w) \in [1 .. w -> Byte] /\ Digits(n, w) \in Seq(Byte) /\ Len(Digits(n, w)) = w
<1>1. w \in Nat /\ Base \in Nat \ {0}
  BY Widths
<1>2. ASSUME NEW i \in 1 .. w PROVE (n \div Span[i - 1]) % Base \in Byte
  <2>1. i - 1 \in 0 .. Long
    BY <1>1, Widths
  <2>2. Span[i - 1] \in Nat \ {0}
    BY <2>1, SpanFacts
  <2>3. QED
    BY <1>1, <2>2, NextDigit DEF Byte
<1>3. QED
  BY <1>1, <1>2 DEF Digits

\* The digits of a number give it back, up to what more digits would have held.
LEMMA DigitsOfNumber ==
  ASSUME NEW n \in Int, NEW w \in 0 .. Long
  PROVE  Unsigned(Digits(n, w)) = n - Span[w] * (n \div Span[w])
<1> DEFINE b == Digits(n, w)
<1>1. w \in Nat /\ Base \in Nat \ {0}
  BY Widths
<1>2. b \in Seq(Byte) /\ Len(b) = w /\ w <= Long
  BY DigitsType, Widths
<1>3. \A i \in 1 .. w : b[i] = (n \div Span[i - 1]) % Base
  BY DEF Digits
<1> HIDE DEF b
<1>4. PICK s : /\ s[0] = 0
               /\ \A i \in 1 .. w : s[i] = s[i - 1] + b[i] * Span[i - 1]
               /\ Unsigned(b) = s[w]
  BY <1>2, UnsignedSums
<1> DEFINE P == {i \in 0 .. w : s[i] = n - Span[i] * (n \div Span[i])}
<1>5. 0 \in P
  <2>1. n \div 1 = n
    BY DivUnique
  <2>2. QED
    BY <1>1, <1>4, <2>1, SpanFacts
<1>6. ASSUME NEW i \in 1 .. w, i - 1 \in P PROVE i \in P
  <2> DEFINE S == Span[i - 1]
             q == n \div S
             e == n \div (Base * S)
             d == q % Base
  <2>1. i - 1 \in 0 .. Long /\ i \in 1 .. Long /\ i \in 0 .. w
    BY Widths
  <2>2. S \in Nat \ {0} /\ Span[i] = Base * S
    BY <2>1, SpanFacts
  <2>3. d \in 0 .. Base - 1 /\ q = Base * e + d
    <3> HIDE DEF S
    <3>1. QED
      BY <1>1, <2>2, NextDigit
  <2>4. q \in Int /\ e \in Int
    <3>1. Base * S \in Nat \ {0}
      BY <1>1, <2>2, ProductType
    <3> HIDE DEF S
    <3>2. QED
      BY <2>2, <3>1, DivMod
  <2>5. s[i] = (n - S * q) + d * S
    BY <1>3, <1>4, <1>6
  <2> HIDE DEF S, q, e, d
  <2>6. S * q = S * (Base * e) + S * d
    <3>1. S * (Base * e + d) = S * (Base * e) + S * d
      BY <1>1, <2>2, <2>3, <2>4
    <3>2. QED
      BY <2>3, <3>1
  <2>7. S * (Base * e) = (Base * S) * e
    BY <1>1, <2>2, <2>4
  <2>8. s[i] = n - (Base * S) * e
    BY <1>1, <2>2, <2>3, <2>4, <2>5, <2>6, <2>7
  <2>9. QED
    BY <2>1, <2>2, <2>8 DEF e, S
<1>7. \A i \in 0 .. w : i \in P
  <2> HIDE DEF P
  <2>1. QED
    BY <1>1, <1>5, <1>6, IntervalInduction
<1>8. QED
  BY <1>1, <1>4, <1>7 DEF b

\* A number that fits comes back: unsigned ...
LEMMA UnsignedOfDigits ==
  ASSUME NEW w \in 0 .. Long, NEW n \in 0 .. Span[w] - 1
  PROVE  Unsigned(Digits(n, w)) = n
<1>1. Span[w] \in Nat \ {0} /\ n \in Int
  BY SpanFacts
<1>2. Span[w] * 0 + n = n /\ 0 \in Int
  BY <1>1
<1>3. n \div Span[w] = 0
  BY <1>1, <1>2, DivUnique
<1>4. QED
  BY <1>1, <1>2, <1>3, DigitsOfNumber

\* ... and in two's complement.
LEMMA SignedOfDigits ==
  ASSUME NEW w \in 0 .. Long, NEW n \in Int, -Span[w] <= 2 * n, 2 * n < Span[w]
  PROVE  Signed(Digits(n, w)) = n
<1>1. Span[w] \in Nat \ {0} /\ Len(Digits(n, w)) = w
  BY SpanFacts, DigitsType
<1>2. CASE n >= 0
  <2>1. n \in 0 .. Span[w] - 1
    BY <1>1, <1>2
  <2>2. QED
    BY <1>1, <2>1, UnsignedOfDigits DEF Signed
<1>3. CASE n < 0
  <2>1. n + Span[w] \in 0 .. Span[w] - 1 /\ Span[w] * (-1) + (n + Span[w]) = n /\ -1 \in Int
    BY <1>1, <1>3
  <2>2. n \div Span[w] = -1
    BY <1>1, <2>1, DivUnique
  <2>3. Unsigned(Digits(n, w)) = n + Span[w]
    <3>1. n - Span[w] * (-1) = n + Span[w]
      BY <1>1
    <3>2. QED
      BY <2>2, <3>1, DigitsOfNumber
  <2>4. QED
    BY <1>1, <1>3, <2>3 DEF Signed
<1>4. QED
  BY <1>2, <1>3

-----------------------------------------------------------------------------
(* The two tables of tags.                                                  *)

NumberTags == KnownTags \ {"str"}
Size(tag) ==
  IF tag \in {"bool", "u8"} THEN 1 ELSE IF tag \in {"f32", "i32", "u32"} THEN Word ELSE Long

LEMMA SizeType ==
  ASSUME NEW tag \in NumberTags
  PROVE  Size(tag) \in 1 .. Long
BY Widths DEF Size

\* unpack_one has the numbers of unpack_mixed_counted.
LEMMA OneTable ==
  ASSUME NEW data, NEW tag
  PROVE  /\ tag \in NumberTags => UnpackOne(data, tag) = OneNumber(data, tag, Size(tag))
         /\ tag = "str" => UnpackOne(data, tag) = OneStr(data)
         /\ tag \notin KnownTags => UnpackOne(data, tag) = Failed
BY DEF UnpackOne, NumberTags, KnownTags, Size

LEMMA MixedTable ==
  ASSUME NEW data, NEW tag \in KnownTags, NEW s, s.ok = TRUE
  PROVE  /\ tag \in NumberTags => NextElement(data, tag, s) = NextNumber(data, tag, Size(tag), s)
         /\ tag = "str" => NextElement(data, tag, s) = NextStr(data, s)
BY DEF NextElement, NumberTags, KnownTags, Size

-----------------------------------------------------------------------------
(* What is read from bytes.                                                 *)

Types == {"bool", "int", "float", "str"}
AnyValue == [type : Types, val : Seq(Int)]
Groups == [bare : BOOLEAN, values : Seq(AnyValue)]
State(data) ==
  [ok : BOOLEAN, cursor : 0 .. Len(data), group : Seq(AnyValue), result : Seq(Groups)]

LEMMA ValueType ==
  ASSUME NEW type \in Types, NEW v \in Seq(Int)
  PROVE  Value(type, v) \in AnyValue
BY DEF Value, AnyValue

LEMMA PieceType ==
  ASSUME NEW S, NEW data \in Seq(S), NEW c \in Nat, NEW n \in Nat, c + n <= Len(data)
  PROVE  /\ SubSeq(data, c + 1, c + n) \in Seq(S)
         /\ Len(SubSeq(data, c + 1, c + n)) = n
         /\ \A i \in 1 .. n : SubSeq(data, c + 1, c + n)[i] = data[c + i]
OBVIOUS

LEMMA UnsignedType ==
  ASSUME NEW b \in Seq(Byte), Len(b) <= Long
  PROVE  Unsigned(b) \in Nat
<1>1. Len(b) \in 0 .. Len(b)
  OBVIOUS
<1>2. QED
  BY <1>1, UnsignedSums

LEMMA NumberType ==
  ASSUME NEW tag \in NumberTags, NEW b \in Seq(Byte), Len(b) = Size(tag)
  PROVE  Number(tag, b) \in AnyValue
<1>1. Len(b) \in 1 .. Long
  BY SizeType
<1>2. Unsigned(b) \in Nat
  BY <1>1, UnsignedType, Widths
<1>3. Span[Len(b)] \in Nat
  BY <1>1, SpanFacts, Widths
<1>4. Signed(b) \in Int
  BY <1>2, <1>3 DEF Signed
<1>5. b \in Seq(Int)
  BY Widths DEF Byte
<1>6. <<Unsigned(b)>> \in Seq(Int) /\ <<Signed(b)>> \in Seq(Int) /\ <<0>> \in Seq(Int) /\ <<1>> \in Seq(Int)
  BY <1>2, <1>4
<1>7. CASE tag = "bool"
  <2>1. Number(tag, b) = Value("bool", IF b[1] # 0 THEN <<1>> ELSE <<0>>)
    BY <1>7 DEF Number
  <2>2. QED
    BY <1>6, <2>1, ValueType DEF Types
<1>8. CASE tag \in {"u8", "u32", "u64"}
  <2>1. Number(tag, b) = Value("int", <<Unsigned(b)>>)
    BY <1>8 DEF Number
  <2>2. QED
    BY <1>6, <2>1, ValueType DEF Types
<1>9. CASE tag \in {"int", "i32", "i64"}
  <2>1. Number(tag, b) = Value("int", <<Signed(b)>>)
    BY <1>9 DEF Number
  <2>2. QED
    BY <1>6, <2>1, ValueType DEF Types
<1>10. CASE tag \in {"float", "f32", "f64"}
  <2>1. Number(tag, b) = Value("float", b)
    BY <1>10 DEF Number
  <2>2. QED
    BY <1>5, <2>1, ValueType DEF Types
<1>11. QED
  BY <1>7, <1>8, <1>9, <1>10 DEF NumberTags, KnownTags

LEMMA LossyType ==
  ASSUME NEW b \in Seq(Byte)
  PROVE  Value("str", Lossy(b)) \in AnyValue
<1>1. \A i \in 1 .. Len(b) : b[i] \in Int
  BY Widths DEF Byte
<1>2. Lossy(b) \in Seq(Int)
  BY <1>1 DEF Lossy, Replacement
<1>3. QED
  BY <1>2, ValueType DEF Types

\* A step of the loop that takes n bytes for the value v.
LEMMA AdvancedType ==
  ASSUME NEW data, Len(data) \in Nat, NEW s \in State(data), NEW v \in AnyValue,
         NEW n \in Nat, s.cursor + n <= Len(data)
  PROVE  /\ Advanced(s, v, n) \in State(data)
         /\ Advanced(s, v, n).ok = s.ok
         /\ Advanced(s, v, n).cursor = s.cursor + n
         /\ Advanced(s, v, n).group = Append(s.group, v)
         /\ Advanced(s, v, n).result = s.result
<1>1. s.cursor + n \in 0 .. Len(data) /\ Append(s.group, v) \in Seq(AnyValue)
  BY DEF State
<1>2. QED
  BY <1>1 DEF State, Advanced

LEMMA FailType ==
  ASSUME NEW data, NEW s \in State(data)
  PROVE  Fail(s) \in State(data) /\ Fail(s).ok = FALSE
BY DEF State, Fail

\* The prefix of a string, and where the cursor is then.
LEMMA PrefixRead ==
  ASSUME NEW data \in Seq(Byte), NEW s \in State(data), Has(data, s, Word)
  PROVE  /\ Unsigned(Slice(data, s, Word)) \in Nat
         /\ [s EXCEPT !.cursor = @ + Word] \in State(data)
         /\ [s EXCEPT !.cursor = @ + Word].cursor = s.cursor + Word
         /\ [s EXCEPT !.cursor = @ + Word].ok = s.ok
<1>1. s.cursor \in Nat /\ Len(data) \in Nat /\ s.cursor + Word \in 0 .. Len(data)
  BY Widths DEF State, Has
<1>2. Slice(data, s, Word) \in Seq(Byte) /\ Len(Slice(data, s, Word)) = Word
  <2>1. s.cursor + Word <= Len(data) /\ Word \in Nat
    BY <1>1, Widths
  <2>2. QED
    BY <1>1, <2>1, PieceType DEF Slice
<1>3. Unsigned(Slice(data, s, Word)) \in Nat
  BY <1>2, Widths, UnsignedType
<1>4. QED
  BY <1>1, <1>3 DEF State

LEMMA NextElementType ==
  ASSUME NEW data \in Seq(Byte), NEW tag \in KnownTags, NEW s \in State(data)
  PROVE  NextElement(data, tag, s) \in State(data)
<1>1. s.cursor \in Nat /\ Len(data) \in Nat
  BY DEF State
<1>2. CASE s.ok # TRUE
  BY <1>2 DEF NextElement, State
<1>3. CASE s.ok = TRUE /\ tag \in NumberTags
  <2> DEFINE w == Size(tag)
  <2>1. w \in Nat
    BY <1>3, SizeType
  <2>2. CASE Has(data, s, w)
    <3>1. Slice(data, s, w) \in Seq(Byte) /\ Len(Slice(data, s, w)) = w
      BY <1>1, <2>1, <2>2, PieceType DEF Slice, Has
    <3>2. Number(tag, Slice(data, s, w)) \in AnyValue
      BY <1>3, <3>1, NumberType
    <3>3. s.cursor + w <= Len(data)
      BY <2>2 DEF Has
    <3>4. Advanced(s, Number(tag, Slice(data, s, w)), w) \in State(data)
      BY <1>1, <2>1, <3>2, <3>3, AdvancedType
    <3>5. QED
      BY <1>3, <2>2, <3>4, MixedTable DEF NextNumber
  <2>3. CASE ~Has(data, s, w)
    BY <1>3, <2>3, MixedTable, FailType DEF NextNumber
  <2>4. QED
    BY <2>2, <2>3
<1>4. CASE s.ok = TRUE /\ tag = "str"
  <2> DEFINE len == Unsigned(Slice(data, s, Word))
             t == [s EXCEPT !.cursor = @ + Word]
  <2>1. CASE ~Has(data, s, Word)
    BY <1>4, <2>1, MixedTable, FailType DEF NextStr
  <2>2. CASE Has(data, s, Word)
    <3>1. len \in Nat /\ t \in State(data) /\ t.cursor \in Nat
      BY <1>1, <2>2, PrefixRead, Widths
    <3>2. NextElement(data, tag, s) =
            IF Has(data, t, len) THEN Advanced(t, Value("str", Lossy(Slice(data, t, len))), len)
            ELSE Fail(t)
      BY <1>4, <2>2, MixedTable DEF NextStr
    <3> HIDE DEF len, t
    <3>3. CASE ~Has(data, t, len)
      BY <3>1, <3>2, <3>3, FailType
    <3>4. CASE Has(data, t, len)
      <4>1. t.cursor + len <= Len(data)
        BY <3>4 DEF Has
      <4>2. Slice(data, t, len) \in Seq(Byte)
        BY <1>1, <3>1, <4>1, PieceType DEF Slice
      <4>3. Value("str", Lossy(Slice(data, t, len))) \in AnyValue
        BY <4>2, LossyType
      <4>4. Advanced(t, Value("str", Lossy(Slice(data, t, len))), len) \in State(data)
        BY <1>1, <3>1, <4>1, <4>3, AdvancedType
      <4>5. QED
        BY <3>2, <3>4, <4>4
    <3>5. QED
      BY <3>3, <3>4
  <2>3. QED
    BY <2>1, <2>2
<1>5. QED
  BY <1>2, <1>3, <1>4 DEF NumberTags

-----------------------------------------------------------------------------
(* Reading with unpack_one what is left, and with unpack_mixed_counted where   *)
(* its cursor is.                                                           *)

Left(data, c) == SubSeq(data, c + 1, Len(data))

LEMMA LeftType ==
  ASSUME NEW S, NEW data \in Seq(S), NEW c \in 0 .. Len(data)
  PROVE  /\ Left(data, c) \in Seq(S)
         /\ Len(Left(data, c)) = Len(data) - c
         /\ \A i \in 1 .. Len(data) - c : Left(data, c)[i] = data[c + i]
BY DEF Left

LEMMA PieceOfLeft ==
  ASSUME NEW S, NEW data \in Seq(S), NEW c \in 0 .. Len(data), NEW d \in Nat, NEW n \in Nat,
         c + d + n <= Len(data)
  PROVE  SubSeq(Left(data, c), d + 1, d + n) = SubSeq(data, (c + d) + 1, (c + d) + n)
<1> DEFINE x == SubSeq(Left(data, c), d + 1, d + n)
           y == SubSeq(data, (c + d) + 1, (c + d) + n)
<1>1. /\ Left(data, c) \in Seq(S) /\ Len(Left(data, c)) = Len(data) - c
      /\ \A i \in 1 .. Len(data) - c : Left(data, c)[i] = data[c + i]
  BY LeftType
<1>2. x \in Seq(S) /\ Len(x) = n /\ \A i \in 1 .. n : x[i] = Left(data, c)[d + i]
  <2>1. d + n <= Len(Left(data, c))
    BY <1>1
  <2>2. QED
    BY <1>1, <2>1, PieceType
<1>3. y \in Seq(S) /\ Len(y) = n /\ \A i \in 1 .. n : y[i] = data[(c + d) + i]
  BY PieceType
<1>4. \A i \in 1 .. n : d + i \in 1 .. Len(data) - c /\ c + (d + i) = (c + d) + i
  OBVIOUS
<1>5. \A i \in 1 .. n : x[i] = y[i]
  <2> HIDE DEF x, y
  <2>1. QED
    BY <1>1, <1>2, <1>3, <1>4
<1>6. QED
  <2> HIDE DEF x, y
  <2>1. x = y
    BY <1>2, <1>3, <1>5
  <2>2. QED
    BY <2>1 DEF x, y

LEMMA FrontOfLeft ==
  ASSUME NEW S, NEW data \in Seq(S), NEW c \in 0 .. Len(data), NEW n \in Nat, c + n <= Len(data)
  PROVE  SubSeq(Left(data, c), 1, n) = SubSeq(data, c + 1, c + n)
<1>1. 0 \in Nat /\ c + 0 + n <= Len(data)
  OBVIOUS
<1>2. SubSeq(Left(data, c), 0 + 1, 0 + n) = SubSeq(data, (c + 0) + 1, (c + 0) + n)
  BY <1>1, PieceOfLeft, Zenon
<1>3. 0 + 1 = 1 /\ 0 + n = n /\ c + 0 = c
  OBVIOUS
<1>4. QED
  BY <1>2, <1>3

\* unpack_one reads what the next round of unpack_mixed_counted reads, or both refuse.
Agree(one, data, s, next) ==
  \/ one = Failed /\ next.ok = FALSE
  \/ \E v \in AnyValue, n \in Nat :
       one = ReadAs(v, n) /\ s.cursor + n <= Len(data) /\ next = Advanced(s, v, n)

LEMMA NumbersAgree ==
  ASSUME NEW data \in Seq(Byte), NEW s \in State(data), s.ok = TRUE, NEW tag \in NumberTags
  PROVE  Agree(UnpackOne(Left(data, s.cursor), tag), data, s, NextElement(data, tag, s))
<1> DEFINE w == Size(tag)
           c == s.cursor
           rest == Left(data, c)
<1>1. w \in Nat /\ c \in 0 .. Len(data) /\ tag \in KnownTags
  BY SizeType DEF State, NumberTags
<1>2. UnpackOne(rest, tag) = OneNumber(rest, tag, w)
  BY OneTable
<1>3. NextElement(data, tag, s) = NextNumber(data, tag, w, s)
  BY <1>1, MixedTable
<1>4. Len(rest) = Len(data) - c
  BY <1>1, LeftType
<1>5. CASE c + w <= Len(data)
  <2>1. SubSeq(rest, 1, w) = Slice(data, s, w)
    <3>1. SubSeq(rest, 1, w) = SubSeq(data, c + 1, c + w)
      BY <1>1, <1>5, FrontOfLeft, Zenon
    <3>2. QED
      BY <3>1 DEF Slice
  <2>2. Slice(data, s, w) \in Seq(Byte) /\ Len(Slice(data, s, w)) = w
    <3>1. c \in Nat
      BY <1>1
    <3>2. QED
      BY <1>1, <1>5, <3>1, PieceType DEF Slice
  <2>3. Number(tag, Slice(data, s, w)) \in AnyValue
    BY <2>2, NumberType
  <2>4. ~(Len(rest) < w) /\ Has(data, s, w)
    BY <1>1, <1>4, <1>5 DEF Has
  <2> HIDE DEF w, rest
  <2>5. UnpackOne(rest, tag) = ReadAs(Number(tag, Slice(data, s, w)), w)
    BY <1>2, <2>1, <2>4 DEF OneNumber
  <2>6. NextElement(data, tag, s) = Advanced(s, Number(tag, Slice(data, s, w)), w)
    BY <1>3, <2>4 DEF NextNumber
  <2>7. QED
    BY <1>1, <1>5, <2>3, <2>5, <2>6 DEF Agree, rest
<1>6. CASE ~(c + w <= Len(data))
  <2>1. Len(rest) < w /\ ~Has(data, s, w)
    BY <1>1, <1>4, <1>6 DEF Has
  <2> HIDE DEF w
  <2>2. UnpackOne(rest, tag) = Failed /\ NextElement(data, tag, s) = Fail(s)
    BY <1>2, <1>3, <2>1 DEF OneNumber, NextNumber
  <2>3. QED
    BY <2>2, FailType DEF Agree
<1>7. QED
  BY <1>5, <1>6

LEMMA StringsAgree ==
  ASSUME NEW data \in Seq(Byte), NEW s \in State(data), s.ok = TRUE
  PROVE  Agree(UnpackOne(Left(data, s.cursor), "str"), data, s, NextElement(data, "str", s))
<1> DEFINE c == s.cursor
           rest == Left(data, c)
           t == [s EXCEPT !.cursor = @ + Word]
           len == Unsigned(Slice(data, s, Word))
           text == Value("str", Lossy(Slice(data, t, len)))
<1>1. c \in 0 .. Len(data) /\ Word \in Nat /\ "str" \in KnownTags /\ Len(data) \in Nat
  BY Widths DEF State, KnownTags
<1>2. UnpackOne(rest, "str") = OneStr(rest)
  BY OneTable
<1>3. NextElement(data, "str", s) = NextStr(data, s)
  BY <1>1, MixedTable
<1>4. Len(rest) = Len(data) - c
  BY <1>1, LeftType
<1>5. CASE ~(c + Word <= Len(data))
  <2>1. Len(rest) < Word /\ ~Has(data, s, Word)
    BY <1>1, <1>4, <1>5 DEF Has
  <2>2. UnpackOne(rest, "str") = Failed /\ NextElement(data, "str", s) = Fail(s)
    BY <1>2, <1>3, <2>1 DEF OneStr, NextStr
  <2>3. QED
    BY <2>2, FailType DEF Agree
<1>6. CASE c + Word <= Len(data)
  <2>1. ~(Len(rest) < Word) /\ Has(data, s, Word)
    BY <1>1, <1>4, <1>6 DEF Has
  <2>2. SubSeq(rest, 1, Word) = Slice(data, s, Word)
    <3>1. SubSeq(rest, 1, Word) = SubSeq(data, c + 1, c + Word)
      BY <1>1, <1>6, FrontOfLeft, Zenon
    <3>2. QED
      BY <3>1 DEF Slice
  <2>3. len \in Nat /\ t \in State(data) /\ t.cursor = c + Word /\ t.ok = TRUE
    BY <2>1, PrefixRead
  <2> HIDE DEF len, t, rest
  <2>4. NextElement(data, "str", s) = IF Has(data, t, len) THEN Advanced(t, text, len) ELSE Fail(t)
    BY <1>3, <2>1 DEF NextStr, len, t
  <2>5. UnpackOne(rest, "str") =
          IF Len(rest) < Word + len THEN Failed
          ELSE ReadAs(Value("str", Lossy(SubSeq(rest, Word + 1, Word + len))), Word + len)
    BY <1>2, <2>1, <2>2 DEF OneStr, len
  <2>6. CASE ~((c + Word) + len <= Len(data))
    <3>1. Len(rest) < Word + len /\ ~Has(data, t, len)
      BY <1>1, <1>4, <2>3, <2>6 DEF Has
    <3>2. UnpackOne(rest, "str") = Failed /\ NextElement(data, "str", s) = Fail(t)
      BY <2>4, <2>5, <3>1
    <3>3. QED
      BY <2>3, <3>2, FailType DEF Agree, rest
  <2>7. CASE (c + Word) + len <= Len(data)
    <3>1. ~(Len(rest) < Word + len) /\ Has(data, t, len)
      BY <1>1, <1>4, <2>3, <2>7 DEF Has
    <3>2. SubSeq(rest, Word + 1, Word + len) = Slice(data, t, len)
      <4>1. SubSeq(rest, Word + 1, Word + len) = SubSeq(data, (c + Word) + 1, (c + Word) + len)
        <5>1. c \in 0 .. Len(data) /\ Word \in Nat /\ len \in Nat /\ c + Word + len <= Len(data)
          BY <1>1, <2>3, <2>7
        <5> HIDE DEF c
        <5>2. SubSeq(Left(data, c), Word + 1, Word + len) = SubSeq(data, (c + Word) + 1, (c + Word) + len)
          BY <5>1, PieceOfLeft, Zenon
        <5>3. QED
          BY <5>2 DEF rest
      <4>2. QED
        BY <2>3, <4>1 DEF Slice
    <3>3. text \in AnyValue
      <4>1. c + Word \in Nat
        BY <1>1
      <4>2. Slice(data, t, len) \in Seq(Byte)
        BY <2>3, <2>7, <4>1, PieceType DEF Slice
      <4>3. QED
        BY <4>2, LossyType
    <3>4. Advanced(t, text, len) = Advanced(s, text, Word + len)
      <4>1. [group |-> Append(t.group, text), cursor |-> t.cursor + len].cursor = c + (Word + len)
        BY <1>1, <2>3
      <4>2. t.cursor + len = c + (Word + len)
        BY <1>1, <2>3
      <4>3. QED
        BY <4>2 DEF Advanced, t, State
    <3>5. UnpackOne(rest, "str") = ReadAs(text, Word + len)
      BY <2>5, <3>1, <3>2
    <3>6. NextElement(data, "str", s) = Advanced(s, text, Word + len)
      BY <2>4, <3>1, <3>4
    <3>7. Word + len \in Nat /\ c + (Word + len) <= Len(data)
      BY <1>1, <2>3, <2>7
    <3> HIDE DEF text
    <3>8. QED
      BY <3>3, <3>5, <3>6, <3>7 DEF Agree, rest
  <2>8. QED
    BY <2>6, <2>7
<1>7. QED
  BY <1>5, <1>6

LEMMA ElementsAgree ==
  ASSUME NEW data \in Seq(Byte), NEW s \in State(data), s.ok = TRUE, NEW tag \in KnownTags
  PROVE  Agree(UnpackOne(Left(data, s.cursor), tag), data, s, NextElement(data, tag, s))
<1>1. CASE tag \in NumberTags
  BY <1>1, NumbersAgree
<1>2. CASE tag = "str"
  BY <1>2, StringsAgree
<1>3. QED
  BY <1>1, <1>2 DEF NumberTags

-----------------------------------------------------------------------------
(* The loops of unpack_mixed_counted.                                       *)

LEMMA EmptyGroup ==
  ASSUME NEW data, NEW s \in State(data)
  PROVE  /\ [s EXCEPT !.group = <<>>] \in State(data)
         /\ [s EXCEPT !.group = <<>>].ok = s.ok
         /\ [s EXCEPT !.group = <<>>].cursor = s.cursor
         /\ [s EXCEPT !.group = <<>>].group = <<>>
         /\ [s EXCEPT !.group = <<>>].result = s.result
<1>1. <<>> \in Seq(AnyValue)
  OBVIOUS
<1>2. QED
  BY <1>1 DEF State

\* The group that has been read goes to the result.
GroupDone(s, count) ==
  [s EXCEPT !.result = Append(@, [bare |-> count = 1, values |-> s.group])]

LEMMA GroupDoneType ==
  ASSUME NEW data, NEW s \in State(data), NEW count
  PROVE  /\ GroupDone(s, count) \in State(data)
         /\ GroupDone(s, count).ok = s.ok
         /\ GroupDone(s, count).cursor = s.cursor
         /\ GroupDone(s, count).result = Append(s.result, [bare |-> count = 1, values |-> s.group])
<1>1. [bare |-> count = 1, values |-> s.group] \in Groups
  <2>1. (count = 1) \in BOOLEAN /\ s.group \in Seq(AnyValue)
    BY DEF State
  <2>2. QED
    BY <2>1 DEF Groups
<1> DEFINE g == [bare |-> count = 1, values |-> s.group]
<1> HIDE DEF g
<1>2. Append(s.result, g) \in Seq(Groups)
  BY <1>1 DEF State, g
<1>3. GroupDone(s, count) = [s EXCEPT !.result = Append(@, g)]
  BY DEF GroupDone, g
<1>4. QED
  BY <1>2, <1>3 DEF State, g

\* The states that the loop over the elements of an entry goes through.
ElementStates(r, data, tag, s, count) ==
  /\ r[0] = [s EXCEPT !.group = <<>>]
  /\ \A i \in 1 .. count : r[i] = NextElement(data, tag, r[i - 1])
  /\ \A i \in 0 .. count : r[i] \in State(data)

LEMMA EntryLoop ==
  ASSUME NEW data \in Seq(Byte), NEW s \in State(data), s.ok = TRUE,
         NEW tag \in KnownTags, NEW count \in Nat
  PROVE  \E r : /\ ElementStates(r, data, tag, s, count)
                /\ UnpackEntry(data, s, [tag |-> tag, count |-> count]) = GroupDone(r[count], count)
<1> DEFINE V == State(data)
           start == [s EXCEPT !.group = <<>>]
           entry == [tag |-> tag, count |-> count]
           F == [i \in 1 .. count |-> [v \in V |-> NextElement(data, tag, v)]]
<1>1. start \in V
  BY EmptyGroup
<1>2. F \in [1 .. count -> [V -> V]]
  BY NextElementType
<1>3. PICK f \in [0 .. count -> V] : Iterates(f, count, start, F)
  <2> HIDE DEF F, V, start
  <2>1. QED
    BY <1>1, <1>2, Iteration, Zenon
<1>4. \A i \in 1 .. count : f[i] = NextElement(data, tag, f[i - 1])
  <2>1. \A i \in 1 .. count, v \in V : F[i][v] = NextElement(data, tag, v)
    OBVIOUS
  <2>2. \A i \in 1 .. count : i - 1 \in 0 .. count
    OBVIOUS
  <2> HIDE DEF F, V, start
  <2>3. \A i \in 1 .. count : f[i - 1] \in V
    BY <2>2
  <2>4. QED
    BY <1>3, <2>1, <2>3 DEF Iterates
<1>5. f = [i \in 0 .. count |-> IF i = 0 THEN start ELSE NextElement(data, tag, f[i - 1])]
  <2> HIDE DEF F, V, start
  <2>1. QED
    BY <1>3, <1>4 DEF Iterates
<1> DEFINE read[i \in 0 .. entry.count] ==
             IF i = 0 THEN [s EXCEPT !.group = <<>>] ELSE NextElement(data, entry.tag, read[i - 1])
<1>6. read = [i \in 0 .. count |-> IF i = 0 THEN start ELSE NextElement(data, tag, read[i - 1])]
  BY <1>5
<1>7. UnpackEntry(data, s, entry) = GroupDone(read[count], count)
  BY DEF UnpackEntry, GroupDone
<1> HIDE DEF read, V
<1>8. read[0] = start /\ \A i \in 1 .. count : read[i] = NextElement(data, tag, read[i - 1])
  <2>1. 0 \in 0 .. count /\ \A i \in 1 .. count : i \in 0 .. count /\ i # 0
    OBVIOUS
  <2> HIDE DEF start
  <2>2. QED
    BY <1>6, <2>1
<1> DEFINE P == {i \in 0 .. count : read[i] \in V}
<1>9. 0 \in P /\ \A i \in 1 .. count : i - 1 \in P => i \in P
  <2>1. 0 \in P
    BY <1>1, <1>8
  <2>2. ASSUME NEW i \in 1 .. count, read[i - 1] \in V PROVE read[i] \in V
    BY <1>8, <2>2, NextElementType DEF V
  <2>3. QED
    BY <2>1, <2>2
<1>10. \A i \in 0 .. count : i \in P
  <2> HIDE DEF P
  <2>1. QED
    BY <1>9, IntervalInduction
<1>11. \A i \in 0 .. count : read[i] \in State(data)
  BY <1>10 DEF V
<1> HIDE DEF P, F
<1>12. QED
  BY <1>7, <1>8, <1>11 DEF ElementStates

Entries(T) == [tag : T, count : Nat]

LEMMA UnpackEntryType ==
  ASSUME NEW data \in Seq(Byte), NEW s \in State(data), NEW T, NEW entry \in Entries(T)
  PROVE  /\ UnpackEntry(data, s, entry) \in State(data)
         /\ s.ok = FALSE => UnpackEntry(data, s, entry).ok = FALSE
<1>0. s.ok \in BOOLEAN
  BY DEF State
<1>1. CASE s.ok # TRUE \/ entry.tag \notin KnownTags
  BY <1>0, <1>1, FailType DEF UnpackEntry
<1>2. CASE s.ok = TRUE /\ entry.tag \in KnownTags
  <2> DEFINE tag == entry.tag
             count == entry.count
  <2>1. entry = [tag |-> tag, count |-> count] /\ count \in Nat /\ tag \in KnownTags
    BY <1>2 DEF Entries
  <2> HIDE DEF tag, count
  <2>2. PICK r : /\ ElementStates(r, data, tag, s, count)
                 /\ UnpackEntry(data, s, [tag |-> tag, count |-> count]) = GroupDone(r[count], count)
    BY <1>2, <2>1, EntryLoop
  <2>3. r[count] \in State(data)
    BY <2>1, <2>2 DEF ElementStates
  <2>4. GroupDone(r[count], count) \in State(data)
    BY <2>3, GroupDoneType
  <2>5. UnpackEntry(data, s, entry) = GroupDone(r[count], count)
    BY <2>1, <2>2
  <2>6. QED
    BY <1>2, <2>4, <2>5
<1>3. QED
  BY <1>1, <1>2

\* The states that the loop over the entries goes through.
EntryStates(e, data, schema) ==
  /\ e[0] = Reading
  /\ \A k \in 1 .. Len(schema) : e[k] = UnpackEntry(data, e[k - 1], schema[k])
  /\ \A k \in 0 .. Len(schema) : e[k] \in State(data)

Outcome(s) ==
  IF s.ok THEN [ok |-> TRUE, groups |-> s.result, used |-> s.cursor]
  ELSE [ok |-> FALSE, groups |-> <<>>, used |-> 0]

LEMMA SchemaLoop ==
  ASSUME NEW data \in Seq(Byte), NEW T, NEW schema \in Seq(Entries(T))
  PROVE  \E e : EntryStates(e, data, schema) /\ UnpackMixed(data, schema) = Outcome(e[Len(schema)])
<1> DEFINE V == State(data)
           n == Len(schema)
           F == [k \in 1 .. n |-> [v \in V |-> UnpackEntry(data, v, schema[k])]]
<1>1. Reading \in V /\ n \in Nat
  <2>1. <<>> \in Seq(AnyValue) /\ <<>> \in Seq(Groups) /\ 0 \in 0 .. Len(data)
    OBVIOUS
  <2>2. QED
    BY <2>1 DEF Reading, State
<1>2. F \in [1 .. n -> [V -> V]]
  <2>1. \A k \in 1 .. n, v \in V : UnpackEntry(data, v, schema[k]) \in V
    <3>1. \A k \in 1 .. n : schema[k] \in Entries(T)
      OBVIOUS
    <3>2. QED
      BY <3>1, UnpackEntryType
  <2> HIDE DEF V
  <2>2. QED
    BY <2>1
<1>3. PICK f \in [0 .. n -> V] : Iterates(f, n, Reading, F)
  <2> HIDE DEF F, V, n
  <2>1. QED
    BY <1>1, <1>2, Iteration, Zenon
<1>4. \A k \in 1 .. n : f[k] = UnpackEntry(data, f[k - 1], schema[k])
  <2>1. \A k \in 1 .. n, v \in V : F[k][v] = UnpackEntry(data, v, schema[k])
    OBVIOUS
  <2>2. \A k \in 1 .. n : k - 1 \in 0 .. n
    BY <1>1
  <2> HIDE DEF F, V, n
  <2>3. \A k \in 1 .. n : f[k - 1] \in V
    BY <2>2
  <2>4. QED
    BY <1>3, <2>1, <2>3 DEF Iterates
<1>5. f = [k \in 0 .. n |-> IF k = 0 THEN Reading ELSE UnpackEntry(data, f[k - 1], schema[k])]
  <2> HIDE DEF F, V, n
  <2>1. QED
    BY <1>1, <1>3, <1>4 DEF Iterates
<1> DEFINE entries[i \in 0 .. Len(schema)] ==
             IF i = 0 THEN Reading ELSE UnpackEntry(data, entries[i - 1], schema[i])
<1>6. entries = [k \in 0 .. n |-> IF k = 0 THEN Reading ELSE UnpackEntry(data, entries[k - 1], schema[k])]
  BY <1>5
<1>7. UnpackMixed(data, schema) = Outcome(entries[n])
  BY DEF UnpackMixed, Outcome
<1> HIDE DEF entries, V
<1>8. entries[0] = Reading /\ \A k \in 1 .. n : entries[k] = UnpackEntry(data, entries[k - 1], schema[k])
  <2>1. 0 \in 0 .. n /\ \A k \in 1 .. n : k \in 0 .. n /\ k # 0
    BY <1>1
  <2>2. QED
    BY <1>6, <2>1
<1> DEFINE P == {k \in 0 .. n : entries[k] \in V}
<1>9. 0 \in P /\ \A k \in 1 .. n : k - 1 \in P => k \in P
  <2>1. 0 \in P
    BY <1>1, <1>8
  <2>2. ASSUME NEW k \in 1 .. n, entries[k - 1] \in V PROVE entries[k] \in V
    <3>1. schema[k] \in Entries(T)
      OBVIOUS
    <3>2. QED
      BY <1>8, <2>2, <3>1, UnpackEntryType DEF V
  <2>3. QED
    BY <2>1, <2>2
<1>10. \A k \in 0 .. n : k \in P
  <2> HIDE DEF P, n
  <2>1. QED
    BY <1>1, <1>9, IntervalInduction
<1>11. \A k \in 0 .. n : entries[k] \in State(data)
  BY <1>10 DEF V
<1> HIDE DEF P, F
<1>12. QED
  BY <1>7, <1>8, <1>11 DEF EntryStates

-----------------------------------------------------------------------------
(* Sequences of sequences.                                                  *)

Flattens(f, ss, S) ==
  /\ f[0] = <<>>
  /\ \A i \in 1 .. Len(ss) : f[i] = f[i - 1] \o ss[i]
  /\ \A i \in 0 .. Len(ss) : f[i] \in Seq(S)

LEMMA FlattenLoop ==
  ASSUME NEW S, NEW ss \in Seq(Seq(S))
  PROVE  \E f : Flattens(f, ss, S) /\ FlattenSeq(ss) = f[Len(ss)]
<1> DEFINE V == Seq(S)
           n == Len(ss)
           F == [i \in 1 .. n |-> [v \in V |-> v \o ss[i]]]
<1>1. n \in Nat /\ <<>> \in V /\ \A i \in 1 .. n : ss[i] \in V
  OBVIOUS
<1>2. F \in [1 .. n -> [V -> V]]
  <2>1. \A i \in 1 .. n, v \in V : v \o ss[i] \in V
    BY <1>1
  <2> HIDE DEF V
  <2>2. QED
    BY <2>1
<1>3. PICK f \in [0 .. n -> V] : Iterates(f, n, <<>>, F)
  <2> HIDE DEF F, V, n
  <2>1. QED
    BY <1>1, <1>2, Iteration, Zenon
<1>4. \A i \in 1 .. n : f[i] = f[i - 1] \o ss[i]
  <2>1. \A i \in 1 .. n, v \in V : F[i][v] = v \o ss[i]
    OBVIOUS
  <2>2. \A i \in 1 .. n : i - 1 \in 0 .. n
    BY <1>1
  <2> HIDE DEF F, V, n
  <2>3. \A i \in 1 .. n : f[i - 1] \in V
    BY <2>2
  <2>4. QED
    BY <1>3, <2>1, <2>3 DEF Iterates
<1>5. f[0] = <<>>
  BY <1>3 DEF Iterates
<1>6. CASE n = 0
  <2>1. ss = <<>>
    BY <1>6
  <2>2. FlattenSeq(ss) = <<>>
    BY <1>6, <2>1 DEF FlattenSeq
  <2> HIDE DEF F, V
  <2>3. \A i \in 0 .. n : f[i] \in V
    OBVIOUS
  <2>4. QED
    BY <1>4, <1>5, <1>6, <2>2, <2>3 DEF Flattens, V
<1>7. CASE n # 0
  <2> DEFINE g == [i \in 1 .. n |-> f[i]]
  <2>1. g = [i \in 1 .. n |-> IF i = 1 THEN ss[i] ELSE g[i - 1] \o ss[i]]
    <3>1. ASSUME NEW i \in 1 .. n PROVE g[i] = IF i = 1 THEN ss[i] ELSE g[i - 1] \o ss[i]
      <4>1. CASE i = 1
        <5>1. f[1] = <<>> \o ss[1]
          <6>1. 1 \in 1 .. n /\ 1 - 1 = 0
            BY <4>1
          <6>2. QED
            BY <1>4, <1>5, <6>1
        <5>2. QED
          BY <1>1, <4>1, <5>1
      <4>2. CASE i # 1
        <5>1. i - 1 \in 1 .. n
          BY <1>1, <4>2
        <5>2. QED
          BY <1>4, <4>2, <5>1
      <4>3. QED
        BY <4>1, <4>2
    <3>2. QED
      BY <3>1
  <2> DEFINE flatten[i \in 1 .. Len(ss)] == IF i = 1 THEN ss[i] ELSE flatten[i - 1] \o ss[i]
  <2>2. flatten = [i \in 1 .. n |-> IF i = 1 THEN ss[i] ELSE flatten[i - 1] \o ss[i]]
    <3> HIDE DEF g
    <3>1. \E h : h = [i \in 1 .. n |-> IF i = 1 THEN ss[i] ELSE h[i - 1] \o ss[i]]
      BY <2>1
    <3>2. QED
      BY <3>1
  <2>3. FlattenSeq(ss) = flatten[n]
    BY <1>7 DEF FlattenSeq
  <2> HIDE DEF flatten, g, F, V
  <2>4. \A i \in 1 .. n : flatten[i] = IF i = 1 THEN ss[i] ELSE flatten[i - 1] \o ss[i]
    BY <2>2
  <2> DEFINE P == {i \in 0 .. n : i # 0 => flatten[i] = f[i]}
  <2>5. 0 \in P
    BY <1>1
  <2>6. ASSUME NEW i \in 1 .. n, i - 1 \in P PROVE i \in P
    <3>1. i \in 0 .. n
      BY <1>1
    <3>2. CASE i = 1
      <4>1. f[1] = <<>> \o ss[1]
        <5>1. 1 \in 1 .. n /\ 1 - 1 = 0
          BY <3>2
        <5>2. QED
          BY <1>4, <1>5, <5>1
      <4>2. ss[1] \in Seq(S)
        BY <1>1, <3>2 DEF V
      <4>3. QED
        BY <2>4, <3>1, <3>2, <4>1, <4>2
    <3>3. CASE i # 1
      <4>1. i - 1 # 0
        BY <1>1, <3>3
      <4>2. flatten[i - 1] = f[i - 1]
        BY <2>6, <4>1
      <4>3. flatten[i] = f[i]
        BY <1>4, <2>4, <3>3, <4>2
      <4>4. QED
        BY <3>1, <4>3
    <3>4. QED
      BY <3>2, <3>3
  <2>7. \A i \in 0 .. n : i \in P
    <3> HIDE DEF P, n
    <3>1. QED
      BY <1>1, <2>5, <2>6, IntervalInduction
  <2>8. FlattenSeq(ss) = f[n]
    BY <1>1, <1>7, <2>3, <2>7
  <2>9. \A i \in 0 .. n : f[i] \in V
    OBVIOUS
  <2>10. QED
    BY <1>4, <1>5, <2>8, <2>9 DEF Flattens, V
<1>8. QED
  BY <1>6, <1>7

\* What comes of the first n sequences depends on them only.
LEMMA FlattenUnique ==
  ASSUME NEW S, NEW ss \in Seq(Seq(S)), NEW tt \in Seq(Seq(S)), NEW f, NEW g,
         Flattens(f, ss, S), Flattens(g, tt, S),
         NEW n \in Nat, n <= Len(ss), n <= Len(tt), \A i \in 1 .. n : ss[i] = tt[i]
  PROVE  f[n] = g[n]
<1> DEFINE P == {i \in 0 .. n : f[i] = g[i]}
<1>1. 0 \in P
  BY DEF Flattens
<1>2. ASSUME NEW i \in 1 .. n, i - 1 \in P PROVE i \in P
  <2>1. i \in 1 .. Len(ss) /\ i \in 1 .. Len(tt) /\ i \in 0 .. n
    OBVIOUS
  <2>2. f[i - 1] = g[i - 1]
    BY <1>2
  <2>3. f[i] = g[i]
    BY <2>1, <2>2 DEF Flattens
  <2>4. QED
    BY <2>1, <2>3
<1>3. \A i \in 0 .. n : i \in P
  <2> HIDE DEF P
  <2>1. QED
    BY <1>1, <1>2, IntervalInduction
<1>4. QED
  BY <1>3

LEMMA FlattenType ==
  ASSUME NEW S, NEW ss \in Seq(Seq(S))
  PROVE  FlattenSeq(ss) \in Seq(S)
<1>1. PICK f : Flattens(f, ss, S) /\ FlattenSeq(ss) = f[Len(ss)]
  BY FlattenLoop
<1>2. Len(ss) \in 0 .. Len(ss)
  OBVIOUS
<1>3. QED
  BY <1>1, <1>2 DEF Flattens

LEMMA FlattenEmpty == FlattenSeq(<<>>) = <<>>
BY DEF FlattenSeq

LEMMA FlattenConcat ==
  ASSUME NEW S, NEW ss \in Seq(Seq(S)), NEW tt \in Seq(Seq(S))
  PROVE  FlattenSeq(ss \o tt) = FlattenSeq(ss) \o FlattenSeq(tt)
<1> DEFINE both == ss \o tt
           m == Len(ss)
           n == Len(tt)
<1>1. /\ both \in Seq(Seq(S)) /\ Len(both) = m + n /\ m \in Nat /\ n \in Nat
      /\ \A i \in 1 .. m : both[i] = ss[i]
      /\ \A i \in 1 .. n : both[m + i] = tt[i]
  OBVIOUS
<1>2. PICK f : Flattens(f, ss, S) /\ FlattenSeq(ss) = f[m]
  BY FlattenLoop
<1>3. PICK g : Flattens(g, tt, S) /\ FlattenSeq(tt) = g[n]
  BY FlattenLoop
<1> HIDE DEF both
<1>4. PICK h : Flattens(h, both, S) /\ FlattenSeq(both) = h[Len(both)]
  BY <1>1, FlattenLoop
<1>5. h[m] = f[m]
  <2>1. m <= Len(both) /\ m <= Len(ss)
    BY <1>1
  <2>2. \A i \in 1 .. m : both[i] = ss[i]
    BY <1>1
  <2> HIDE DEF m
  <2>3. Flattens(h, both, S) /\ Flattens(f, ss, S) /\ both \in Seq(Seq(S)) /\ m \in Nat
    BY <1>1, <1>2, <1>4
  <2>4. QED
    BY <2>1, <2>2, <2>3, FlattenUnique
<1>6. f[m] \in Seq(S)
  BY <1>1, <1>2 DEF Flattens
<1> HIDE DEF m, n
<1> DEFINE P == {i \in 0 .. n : h[m + i] = f[m] \o g[i]}
<1>7. 0 \in P
  <2>1. m + 0 = m /\ 0 \in 0 .. n
    BY <1>1
  <2>2. g[0] = <<>> /\ f[m] \o <<>> = f[m]
    BY <1>3, <1>6 DEF Flattens
  <2>3. QED
    BY <1>5, <2>1, <2>2
<1>8. ASSUME NEW i \in 1 .. n, i - 1 \in P PROVE i \in P
  <2>1. m + i \in 1 .. Len(both) /\ (m + i) - 1 = m + (i - 1) /\ i \in 0 .. n /\ i - 1 \in 0 .. n
    BY <1>1
  <2>2. h[m + i] = h[m + (i - 1)] \o tt[i]
    BY <1>1, <1>4, <2>1 DEF Flattens
  <2>3. h[m + (i - 1)] = f[m] \o g[i - 1]
    BY <1>8
  <2>4. g[i] = g[i - 1] \o tt[i] /\ g[i - 1] \in Seq(S)
    BY <1>3, <2>1 DEF Flattens, n
  <2>5. tt[i] \in Seq(S)
    BY DEF n
  <2>6. (f[m] \o g[i - 1]) \o tt[i] = f[m] \o (g[i - 1] \o tt[i])
    <3> DEFINE a == f[m]
               b == g[i - 1]
               c == tt[i]
    <3>1. a \in Seq(S) /\ b \in Seq(S) /\ c \in Seq(S)
      BY <1>6, <2>4, <2>5
    <3> HIDE DEF a, b, c
    <3>2. (a \o b) \o c = a \o (b \o c)
      BY <3>1, SMTT(30)
    <3>3. QED
      BY <3>2 DEF a, b, c
  <2>7. QED
    BY <2>1, <2>2, <2>3, <2>4, <2>6
<1>9. \A i \in 0 .. n : i \in P
  <2> HIDE DEF P
  <2>1. QED
    BY <1>1, <1>7, <1>8, IntervalInduction
<1>10. h[m + n] = f[m] \o g[n]
  <2>1. n \in 0 .. n
    BY <1>1
  <2>2. QED
    BY <1>9, <2>1
<1>11. QED
  BY <1>1, <1>2, <1>3, <1>4, <1>10 DEF both

LEMMA FlattenOne ==
  ASSUME NEW S, NEW x \in Seq(S)
  PROVE  FlattenSeq(<<x>>) = x
<1> DEFINE ss == <<x>>
<1>1. ss \in Seq(Seq(S)) /\ Len(ss) = 1 /\ ss[1] = x
  OBVIOUS
<1> HIDE DEF ss
<1>2. PICK f : Flattens(f, ss, S) /\ FlattenSeq(ss) = f[Len(ss)]
  BY <1>1, FlattenLoop
<1>3. f[1] = f[0] \o ss[1] /\ f[0] = <<>>
  <2>1. 1 \in 1 .. Len(ss) /\ 1 - 1 = 0
    BY <1>1
  <2>2. QED
    BY <1>2, <2>1 DEF Flattens
<1>4. QED
  BY <1>1, <1>2, <1>3 DEF ss

-----------------------------------------------------------------------------
(* Two entries of one element each.                                         *)

OneEntry(one, data, s, u) ==
  \/ one = Failed /\ u.ok = FALSE
  \/ \E v \in AnyValue, n \in Nat :
       /\ one = ReadAs(v, n) /\ s.cursor + n <= Len(data)
       /\ u.ok = TRUE /\ u.cursor = s.cursor + n
       /\ u.result = Append(s.result, [bare |-> TRUE, values |-> <<v>>])

LEMMA EntryOfOne ==
  ASSUME NEW data \in Seq(Byte), NEW s \in State(data), s.ok = TRUE, NEW tag
  PROVE  OneEntry(UnpackOne(Left(data, s.cursor), tag), data, s,
                  UnpackEntry(data, s, [tag |-> tag, count |-> 1]))
<1> DEFINE u == UnpackEntry(data, s, [tag |-> tag, count |-> 1])
           one == UnpackOne(Left(data, s.cursor), tag)
<1>1. CASE tag \notin KnownTags
  <2>1. u = Fail(s)
    BY <1>1 DEF UnpackEntry
  <2>2. u.ok = FALSE
    BY <2>1, FailType
  <2>3. one = Failed
    BY <1>1, OneTable
  <2>4. QED
    BY <2>2, <2>3 DEF OneEntry
<1>2. CASE tag \in KnownTags
  <2>1. PICK r : ElementStates(r, data, tag, s, 1) /\ u = GroupDone(r[1], 1)
    BY <1>2, EntryLoop
  <2> DEFINE s0 == [s EXCEPT !.group = <<>>]
  <2>2. /\ s0 \in State(data) /\ s0.ok = TRUE /\ s0.cursor = s.cursor
        /\ s0.group = <<>> /\ s0.result = s.result
    BY EmptyGroup
  <2>3. r[1] = NextElement(data, tag, s0) /\ r[1] \in State(data)
    <3>1. 1 \in 1 .. 1 /\ 1 - 1 = 0 /\ 1 \in 0 .. 1
      OBVIOUS
    <3>2. QED
      BY <2>1, <3>1 DEF ElementStates
  <2> HIDE DEF u, one, s0
  <2>4. /\ u.ok = r[1].ok /\ u.cursor = r[1].cursor
        /\ u.result = Append(r[1].result, [bare |-> TRUE, values |-> r[1].group])
    <3>1. (1 = 1) = TRUE
      OBVIOUS
    <3>2. QED
      BY <2>1, <2>3, <3>1, GroupDoneType
  <2>5. Agree(UnpackOne(Left(data, s0.cursor), tag), data, s0, NextElement(data, tag, s0))
    BY <1>2, <2>2, ElementsAgree
  <2>6. Agree(one, data, s0, r[1])
    BY <2>2, <2>3, <2>5 DEF one
  <2>7. CASE one = Failed /\ r[1].ok = FALSE
    BY <2>4, <2>7 DEF OneEntry, u, one
  <2>8. CASE ~(one = Failed /\ r[1].ok = FALSE)
    <3>1. PICK v \in AnyValue, n \in Nat :
            one = ReadAs(v, n) /\ s0.cursor + n <= Len(data) /\ r[1] = Advanced(s0, v, n)
      BY <2>6, <2>8 DEF Agree
    <3>2. Len(data) \in Nat
      OBVIOUS
    <3>3. /\ r[1].ok = TRUE /\ r[1].cursor = s0.cursor + n
          /\ r[1].group = Append(s0.group, v) /\ r[1].result = s0.result
      BY <2>2, <3>1, <3>2, AdvancedType
    <3>4. Append(<<>>, v) = <<v>>
      OBVIOUS
    <3>5. s.cursor + n <= Len(data) /\ u.ok = TRUE /\ u.cursor = s.cursor + n
      BY <2>2, <2>4, <3>1, <3>3
    <3>6. u.result = Append(s.result, [bare |-> TRUE, values |-> <<v>>])
      BY <2>2, <2>4, <3>3, <3>4
    <3>7. OneEntry(one, data, s, u)
      BY <3>1, <3>5, <3>6 DEF OneEntry
    <3>8. QED
      BY <3>7 DEF one, u
  <2>9. QED
    BY <2>7, <2>8
<1>3. QED
  BY <1>1, <1>2

LEMMA LeftAll ==
  ASSUME NEW S, NEW data \in Seq(S)
  PROVE  Left(data, 0) = data
BY DEF Left

LEMMA Pair ==
  ASSUME NEW x, NEW y
  PROVE  Append(<<x>>, y) = <<x, y>> /\ <<x>> \o <<y>> = <<x, y>>
<1> DEFINE S == {x, y}
           a == <<x>>
           p == <<x, y>>
<1>1. /\ a \in Seq(S) /\ Len(a) = 1 /\ a[1] = x
      /\ p \in Seq(S) /\ Len(p) = 2 /\ p[1] = x /\ p[2] = y
      /\ x \in S /\ y \in S
  OBVIOUS
<1> HIDE DEF S, a, p
<1>2. a \in Seq(S) /\ y \in S
  BY <1>1
<1>3. /\ Append(a, y) \in Seq(S) /\ Len(Append(a, y)) = Len(a) + 1 
      /\ Append(a, y)[Len(a) + 1] = y /\ \A i \in 1 .. Len(a) : Append(a, y)[i] = a[i]
  <2>1. Append(a, y) \in Seq(S) /\ Len(Append(a, y)) = Len(a) + 1 
    BY <1>2, AppendProperties
  <2>2. Append(a, y)[Len(a) + 1] = y 
    BY <1>2, AppendProperties, Zenon
  <2>3. \A i \in 1 .. Len(a) : Append(a, y)[i] = a[i]
    BY <1>2, SMTT(30)
  <2>4. QED
    BY <2>1, <2>2, <2>3
<1>4. Append(a, y) = p
  <2>1. 1 \in 1 .. Len(a) /\ Len(a) + 1 = 2
    BY <1>1
  <2>2. Append(a, y)[1] = p[1] /\ Append(a, y)[2] = p[2]
    BY <1>1, <1>3, <2>1, Zenon
  <2>3. Len(Append(a, y)) = 2
    BY <1>3, <2>1
  <2>4. \A i \in 1 .. 2 : i = 1 \/ i = 2
    OBVIOUS
  <2>5. \A i \in 1 .. Len(p) : Append(a, y)[i] = p[i]
    BY <1>1, <2>2, <2>4, Zenon
  <2>6. QED
    BY <1>1, <1>3, <2>3, <2>5, SeqEqual, Zenon
<1>5. Append(a, y) = a \o <<y>>
  BY <1>1, AppendIsConcat
<1>6. QED
  BY <1>4, <1>5 DEF a, p

\* Both unpackers make the same of any bytes and any two tags.
Same(one, two, both) ==
  /\ both.ok = (one.ok /\ two.ok)
  /\ both.ok => /\ Flat(both.groups) = one.values \o two.values
                /\ both.used = one.used + two.used

LEMMA TwoGroups ==
  ASSUME NEW x \in AnyValue, NEW y \in AnyValue
  PROVE  Flat(<<[bare |-> TRUE, values |-> <<x>>], [bare |-> TRUE, values |-> <<y>>]>>)
           = <<x>> \o <<y>>
<1> DEFINE g == <<[bare |-> TRUE, values |-> <<x>>], [bare |-> TRUE, values |-> <<y>>]>>
           X == <<x>>
           Y == <<y>>
<1>1. [i \in 1 .. Len(g) |-> g[i].values] = <<X, Y>>
  OBVIOUS
<1>2. X \in Seq(AnyValue) /\ Y \in Seq(AnyValue)
  OBVIOUS
<1>3. Flat(g) = FlattenSeq(<<X, Y>>)
  BY <1>1 DEF Flat
<1> HIDE DEF X, Y, g
<1>4. <<X>> \in Seq(Seq(AnyValue)) /\ <<Y>> \in Seq(Seq(AnyValue)) /\ <<X, Y>> = <<X>> \o <<Y>>
  <2>1. <<X>> \in Seq(Seq(AnyValue)) /\ <<Y>> \in Seq(Seq(AnyValue))
    BY <1>2
  <2>2. QED
    BY <2>1, Pair
<1>5. FlattenSeq(<<X>> \o <<Y>>) = FlattenSeq(<<X>>) \o FlattenSeq(<<Y>>)
  BY <1>4, FlattenConcat
<1>6. FlattenSeq(<<X>>) = X /\ FlattenSeq(<<Y>>) = Y
  BY <1>2, FlattenOne
<1>7. QED
  BY <1>3, <1>4, <1>5, <1>6 DEF g, X, Y

LEMMA TwoAgree ==
  ASSUME NEW data \in Seq(Byte), NEW s, NEW t
  PROVE  LET one == UnpackOne(data, s)
             two == UnpackOne(Left(data, one.used), t)
         IN  Same(one, two, UnpackMixed(data, <<[tag |-> s, count |-> 1], [tag |-> t, count |-> 1]>>))
<1> DEFINE one == UnpackOne(data, s)
           two == UnpackOne(Left(data, one.used), t)
           E1 == [tag |-> s, count |-> 1]
           E2 == [tag |-> t, count |-> 1]
           schema == <<E1, E2>>
           both == UnpackMixed(data, schema)
<1>1. schema \in Seq(Entries({s, t})) /\ Len(schema) = 2 /\ schema[1] = E1 /\ schema[2] = E2
  BY DEF Entries
<1>2. PICK e : EntryStates(e, data, schema) /\ both = Outcome(e[2])
  <2> HIDE DEF schema
  <2>1. QED
    BY <1>1, SchemaLoop
<1>3. /\ e[0] = Reading /\ e[1] = UnpackEntry(data, e[0], E1) /\ e[2] = UnpackEntry(data, e[1], E2)
      /\ e[0] \in State(data) /\ e[1] \in State(data) /\ e[2] \in State(data)
  <2>1. 1 \in 1 .. 2 /\ 2 \in 1 .. 2 /\ 0 \in 0 .. 2 /\ 1 \in 0 .. 2 /\ 2 \in 0 .. 2 /\ 1 - 1 = 0 /\ 2 - 1 = 1
    OBVIOUS
  <2> HIDE DEF schema, E1, E2
  <2>2. QED
    BY <1>1, <1>2, <2>1 DEF EntryStates
<1>4. e[0].ok = TRUE /\ e[0].cursor = 0 /\ e[0].result = <<>>
  BY <1>3 DEF Reading
<1>5. OneEntry(one, data, e[0], e[1])
  <2>1. OneEntry(UnpackOne(Left(data, e[0].cursor), s), data, e[0], UnpackEntry(data, e[0], E1))
    BY <1>3, <1>4, EntryOfOne
  <2> HIDE DEF E1
  <2>2. QED
    BY <1>3, <1>4, <2>1, LeftAll
<1> HIDE DEF one, two, both, schema
<1>6. CASE one = Failed /\ e[1].ok = FALSE
  <2>1. e[2].ok = FALSE
    <3>1. E2 \in Entries({s, t})
      BY DEF Entries
    <3> HIDE DEF E2
    <3>2. QED
      BY <1>3, <1>6, <3>1, UnpackEntryType
  <2>2. both.ok = FALSE /\ one.ok = FALSE
    BY <1>2, <1>6, <2>1 DEF Outcome, Failed
  <2>3. Same(one, two, both)
    BY <2>2 DEF Same
  <2>4. QED
    BY <2>3 DEF one, two, both, schema
<1>7. CASE ~(one = Failed /\ e[1].ok = FALSE)
  <2>1. PICK v \in AnyValue, n \in Nat :
          /\ one = ReadAs(v, n) /\ e[0].cursor + n <= Len(data)
          /\ e[1].ok = TRUE /\ e[1].cursor = e[0].cursor + n
          /\ e[1].result = Append(e[0].result, [bare |-> TRUE, values |-> <<v>>])
    BY <1>5, <1>7 DEF OneEntry
  <2>2. one.ok = TRUE /\ one.used = n /\ one.values = <<v>> /\ e[1].cursor = n
    BY <1>4, <2>1 DEF ReadAs
  <2>3. e[1].result = <<[bare |-> TRUE, values |-> <<v>>]>>
    BY <1>4, <2>1
  <2>4. OneEntry(two, data, e[1], e[2])
    <3>1. OneEntry(UnpackOne(Left(data, e[1].cursor), t), data, e[1], UnpackEntry(data, e[1], E2))
      BY <1>3, <2>1, EntryOfOne
    <3> HIDE DEF E2
    <3>2. QED
      BY <1>3, <2>2, <3>1 DEF two
  <2>5. CASE two = Failed /\ e[2].ok = FALSE
    <3>1. both.ok = FALSE /\ two.ok = FALSE
      BY <1>2, <2>5 DEF Outcome, Failed
    <3>2. Same(one, two, both)
      BY <3>1 DEF Same
    <3>3. QED
      BY <3>2 DEF one, two, both, schema
  <2>6. CASE ~(two = Failed /\ e[2].ok = FALSE)
    <3>1. PICK w \in AnyValue, m \in Nat :
            /\ two = ReadAs(w, m)
            /\ e[2].ok = TRUE /\ e[2].cursor = e[1].cursor + m
            /\ e[2].result = Append(e[1].result, [bare |-> TRUE, values |-> <<w>>])
      BY <2>4, <2>6 DEF OneEntry
    <3>2. two.ok = TRUE /\ two.used = m /\ two.values = <<w>> /\ e[2].cursor = n + m
      BY <2>2, <3>1 DEF ReadAs
    <3> DEFINE G == [bare |-> TRUE, values |-> <<v>>]
               H == [bare |-> TRUE, values |-> <<w>>]
    <3>3. e[2].result = <<G, H>>
      <4>1. Append(<<G>>, H) = <<G, H>>
        BY Pair
      <4>2. QED
        BY <2>3, <3>1, <4>1
    <3>4. Flat(<<G, H>>) = <<v>> \o <<w>>
      BY TwoGroups
    <3> HIDE DEF G, H
    <3>5. both.ok = TRUE /\ both.groups = <<G, H>> /\ both.used = n + m
      BY <1>2, <3>1, <3>2, <3>3 DEF Outcome
    <3>6. Same(one, two, both)
      BY <2>2, <3>2, <3>4, <3>5 DEF Same
    <3>7. QED
      BY <3>6 DEF one, two, both, schema
  <2>7. QED
    BY <2>5, <2>6
<1>8. QED
  BY <1>6, <1>7

-----------------------------------------------------------------------------
(* The code of what is read, and what the unpackers make of it.             *)

\* What a reader can be given: a value with the tag of its type, or a byte of bytes.
PackTags == {"bool", "int", "float", "str"}
Readable ==
  {r \in [tag : PackTags, value : PyValue] : r.value.type = r.tag /\ PackValue(r.value).ok} \cup
  [tag : {"u8"}, value : [type : {"int"}, val : [1 .. 1 -> Byte]]]
Code(r) == IF r.tag = "u8" THEN r.value.val ELSE PackValue(r.value).bytes

LEMMA FunctionSequence ==
  ASSUME NEW S, NEW n \in Nat, NEW f \in [1 .. n -> S]
  PROVE  f \in Seq(S) /\ Len(f) = n
<1> DEFINE g == [i \in 1 .. n |-> f[i]]
<1>1. f = g /\ \A i \in 1 .. n : f[i] \in S
  OBVIOUS
<1>2. g \in Seq(S) /\ Len(g) = n
  BY <1>1
<1>3. QED
  BY <1>1, <1>2

LEMMA OnlyElement ==
  ASSUME NEW S, NEW f \in [1 .. 1 -> S]
  PROVE  f = <<f[1]>> /\ f[1] \in S /\ f \in Seq(S) /\ Len(f) = 1
<1>1. f \in Seq(S) /\ Len(f) = 1 /\ f[1] \in S
  <2>1. 1 \in Nat /\ 1 \in 1 .. 1
    OBVIOUS
  <2>2. f \in Seq(S) /\ Len(f) = 1
    BY <2>1, FunctionSequence, Zenon
  <2>3. QED
    BY <2>1, <2>2
<1>2. <<f[1]>> \in Seq(S) /\ Len(<<f[1]>>) = 1 /\ <<f[1]>>[1] = f[1]
  OBVIOUS
<1>3. \A i \in 1 .. 1 : <<f[1]>>[i] = f[i]
  BY <1>2
<1>4. QED
  BY <1>1, <1>2, <1>3, SeqEqual

LEMMA CodeOfByte ==
  ASSUME NEW r \in Readable, r.tag = "u8"
  PROVE  \E b \in Byte : r.value = Value("int", <<b>>) /\ Code(r) = <<b>>
<1>1. r.value \in [type : {"int"}, val : [1 .. 1 -> Byte]]
  BY DEF Readable, PackTags
<1>2. r.value.val \in [1 .. 1 -> Byte] /\ r.value = [type |-> "int", val |-> r.value.val]
  BY <1>1
<1>3. r.value.val = <<r.value.val[1]>> /\ r.value.val[1] \in Byte
  BY <1>2, OnlyElement
<1>4. QED
  BY <1>2, <1>3 DEF Code, Value

LEMMA CodeOfBool ==
  ASSUME NEW r \in Readable, r.tag = "bool"
  PROVE  \E b \in {0, 1} : r.value = Value("bool", <<b>>) /\ Code(r) = <<b>>
<1>1. r.value \in PyValue /\ r.value.type = "bool"
  BY DEF Readable
<1>2. r.value.val \in {<<0>>, <<1>>} /\ r.value = [type |-> "bool", val |-> r.value.val]
  BY <1>1 DEF PyValue
<1>3. Code(r) = r.value.val
  BY <1>1 DEF Code, PackValue, Is, Packed
<1>4. QED
  BY <1>2, <1>3 DEF Value

LEMMA CodeOfInt ==
  ASSUME NEW r \in Readable, r.tag = "int"
  PROVE  \E n \in Int : /\ r.value = Value("int", <<n>>) /\ Code(r) = Digits(n, Long)
                        /\ -Span[Long] <= 2 * n /\ 2 * n < Span[Long]
<1>1. r.value \in PyValue /\ r.value.type = "int" /\ PackValue(r.value).ok
  BY DEF Readable
<1>2. r.value.val \in [1 .. 1 -> Int] /\ r.value = [type |-> "int", val |-> r.value.val]
  BY <1>1 DEF PyValue
<1>3. r.value.val = <<r.value.val[1]>> /\ r.value.val[1] \in Int
  BY <1>2, OnlyElement
<1>4. PackValue(r.value) = PackInt(r.value)
  BY <1>1 DEF PackValue, Is
<1>5. IsI64(r.value.val[1]) /\ PackInt(r.value) = Packed(Digits(r.value.val[1], Long))
  BY <1>1, <1>4 DEF PackInt, NotPacked
<1>6. Code(r) = Digits(r.value.val[1], Long)
  BY <1>4, <1>5 DEF Code, Packed
<1>7. QED
  BY <1>2, <1>3, <1>5, <1>6 DEF Value, IsI64

LEMMA CodeOfFloat ==
  ASSUME NEW r \in Readable, r.tag = "float"
  PROVE  r.value = Value("float", Code(r)) /\ Code(r) \in [1 .. Long -> Byte]
<1>1. r.value \in PyValue /\ r.value.type = "float"
  BY DEF Readable
<1>2. r.value.val \in [1 .. Long -> Byte] /\ r.value = [type |-> "float", val |-> r.value.val]
  BY <1>1 DEF PyValue
<1>3. Code(r) = r.value.val
  BY <1>1 DEF Code, PackValue, Is, Packed
<1>4. QED
  BY <1>2, <1>3 DEF Value

LEMMA CodeOfStr ==
  ASSUME NEW r \in Readable, r.tag = "str"
  PROVE  \E b \in Text : r.value = Value("str", b) /\ Code(r) = Digits(Len(b), Word) \o b
<1>1. r.value \in PyValue /\ r.value.type = "str"
  BY DEF Readable
<1>2. r.value.val \in Text /\ r.value = [type |-> "str", val |-> r.value.val]
  BY <1>1 DEF PyValue
<1>3. Code(r) = Digits(Len(r.value.val), Word) \o r.value.val
  BY <1>1 DEF Code, PackValue, Is, Packed
<1>4. QED
  BY <1>2, <1>3 DEF Value

LEMMA ReadableTags ==
  ASSUME NEW r \in Readable
  PROVE  r.tag \in {"bool", "int", "float", "str", "u8"}
BY DEF Readable, PackTags

LEMMA SequenceParts ==
  ASSUME NEW S, NEW b \in Seq(S)
  PROVE  Len(b) \in Nat /\ (\A i \in 1 .. Len(b) : b[i] \in S) /\ b = [i \in 1 .. Len(b) |-> b[i]]
OBVIOUS

LEMMA TextBytes ==
  ASSUME NEW b \in Text
  PROVE  /\ b \in Seq(Byte) /\ Len(b) \in 0 .. Span[Word] - 1
         /\ \A i \in 1 .. Len(b) : b[i] \in 0 .. Base - 2
<1>1. b \in Seq(0 .. Base - 2) /\ Len(b) < Span[Word]
  BY DEF Text
<1>2. Base \in Nat /\ Base > 1 /\ Span[Word] \in Nat
  BY Widths, SpanFacts
<1>3. Len(b) \in Nat /\ \A i \in 1 .. Len(b) : b[i] \in 0 .. Base - 2
  BY <1>1, SequenceParts, Zenon
<1>4. \A i \in 1 .. Len(b) : b[i] \in Byte
  BY <1>2, <1>3 DEF Byte
<1>5. b = [i \in 1 .. Len(b) |-> b[i]]
  BY <1>1
<1>6. b \in [1 .. Len(b) -> Byte]
  BY <1>4, <1>5
<1>7. b \in Seq(Byte)
  BY <1>3, <1>6, FunctionSequence, Zenon
<1>8. QED
  BY <1>1, <1>2, <1>3, <1>7

LEMMA CodeOfStrType ==
  ASSUME NEW b \in Text
  PROVE  /\ Digits(Len(b), Word) \in Seq(Byte) /\ Len(Digits(Len(b), Word)) = Word
         /\ Unsigned(Digits(Len(b), Word)) = Len(b)
         /\ Digits(Len(b), Word) \o b \in Seq(Byte)
         /\ Len(Digits(Len(b), Word) \o b) = Word + Len(b)
<1>1. Word \in 0 .. Long /\ Len(b) \in 0 .. Span[Word] - 1 /\ Len(b) \in Int /\ b \in Seq(Byte)
  BY Widths, TextBytes
<1>2. Digits(Len(b), Word) \in Seq(Byte) /\ Len(Digits(Len(b), Word)) = Word
  BY <1>1, DigitsType
<1>3. Unsigned(Digits(Len(b), Word)) = Len(b)
  BY <1>1, UnsignedOfDigits
<1> DEFINE d == Digits(Len(b), Word)
<1> HIDE DEF d
<1>4. ASSUME d \in Seq(Byte) PROVE d \o b \in Seq(Byte) /\ Len(d \o b) = Len(d) + Len(b)
  BY <1>1, <1>4
<1>5. QED
  BY <1>2, <1>3, <1>4 DEF d

LEMMA CodeType ==
  ASSUME NEW r \in Readable
  PROVE  Code(r) \in Seq(Byte)
<1>1. CASE r.tag = "u8"
  <2>1. PICK b \in Byte : Code(r) = <<b>>
    BY <1>1, CodeOfByte
  <2>2. QED
    BY <2>1
<1>2. CASE r.tag = "bool"
  <2>1. PICK b \in {0, 1} : Code(r) = <<b>>
    BY <1>2, CodeOfBool
  <2>2. b \in Byte
    BY Widths DEF Byte
  <2>3. QED
    BY <2>1, <2>2
<1>3. CASE r.tag = "int"
  <2>1. PICK n \in Int : Code(r) = Digits(n, Long)
    BY <1>3, CodeOfInt
  <2>2. QED
    BY <2>1, Widths, DigitsType
<1>4. CASE r.tag = "float"
  BY <1>4, CodeOfFloat, Widths, FunctionSequence
<1>5. CASE r.tag = "str"
  <2>1. PICK b \in Text : Code(r) = Digits(Len(b), Word) \o b
    BY <1>5, CodeOfStr
  <2>2. QED
    BY <2>1, CodeOfStrType
<1>6. QED
  BY <1>1, <1>2, <1>3, <1>4, <1>5, ReadableTags

LEMMA ByteDecodes ==
  ASSUME NEW b \in Byte
  PROVE  Unsigned(<<b>>) = b
<1> DEFINE s == <<b>>
<1>1. s \in Seq(Byte) /\ Len(s) = 1 /\ s[1] = b /\ b \in Nat
  BY Widths DEF Byte
<1> HIDE DEF s
<1>2. Len(s) <= Long /\ 1 \in 1 .. Len(s) /\ 1 - 1 = 0
  BY <1>1, Widths
<1>3. PICK sum : sum[0] = 0 /\ sum[1] = sum[0] + s[1] * Span[0] /\ Unsigned(s) = sum[1]
  BY <1>1, <1>2, UnsignedSums
<1>4. QED
  BY <1>1, <1>3, SpanFacts DEF s

\* A number's bytes are as many as its tag says, and are read as the number.
LEMMA NumberDecodes ==
  ASSUME NEW r \in Readable, r.tag # "str", NEW tag \in {r.tag, Alias(r.tag)}
  PROVE  tag \in NumberTags /\ Len(Code(r)) = Size(tag) /\ Number(tag, Code(r)) = r.value
<1>1. CASE r.tag = "u8"
  <2>1. PICK b \in Byte : r.value = Value("int", <<b>>) /\ Code(r) = <<b>>
    BY <1>1, CodeOfByte
  <2>2. tag = "u8"
    BY <1>1 DEF Alias
  <2>3. Number("u8", <<b>>) = Value("int", <<Unsigned(<<b>>)>>)
    BY DEF Number
  <2>4. QED
    BY <2>1, <2>2, <2>3, ByteDecodes DEF NumberTags, KnownTags, Size
<1>2. CASE r.tag = "bool"
  <2>1. PICK b \in {0, 1} : r.value = Value("bool", <<b>>) /\ Code(r) = <<b>>
    BY <1>2, CodeOfBool
  <2>2. tag = "bool"
    BY <1>2 DEF Alias
  <2>3. Number("bool", <<b>>) = Value("bool", <<b>>)
    BY DEF Number
  <2>4. QED
    BY <2>1, <2>2, <2>3 DEF NumberTags, KnownTags, Size
<1>3. CASE r.tag = "int"
  <2>1. PICK n \in Int : /\ r.value = Value("int", <<n>>) /\ Code(r) = Digits(n, Long)
                         /\ -Span[Long] <= 2 * n /\ 2 * n < Span[Long]
    BY <1>3, CodeOfInt
  <2>2. tag \in {"int", "i64"}
    BY <1>3 DEF Alias
  <2>3. Len(Digits(n, Long)) = Long /\ Signed(Digits(n, Long)) = n
    BY <2>1, Widths, DigitsType, SignedOfDigits
  <2>4. Number(tag, Digits(n, Long)) = Value("int", <<Signed(Digits(n, Long))>>)
    BY <2>2 DEF Number
  <2>5. tag \in NumberTags /\ Size(tag) = Long
    BY <2>2 DEF NumberTags, KnownTags, Size
  <2>6. QED
    BY <2>1, <2>3, <2>4, <2>5
<1>4. CASE r.tag = "float"
  <2>1. r.value = Value("float", Code(r)) /\ Code(r) \in [1 .. Long -> Byte]
    BY <1>4, CodeOfFloat
  <2>2. tag \in {"float", "f64"}
    BY <1>4 DEF Alias
  <2>3. Len(Code(r)) = Long
    BY <2>1, Widths, FunctionSequence
  <2>4. Number(tag, Code(r)) = Value("float", Code(r))
    BY <2>2 DEF Number
  <2>5. tag \in NumberTags /\ Size(tag) = Long
    BY <2>2 DEF NumberTags, KnownTags, Size
  <2>6. QED
    BY <2>1, <2>3, <2>4, <2>5
<1>5. QED
  BY <1>1, <1>2, <1>3, <1>4, ReadableTags

LEMMA ReadableValue ==
  ASSUME NEW r \in Readable
  PROVE  r.value \in AnyValue
<1>1. CASE r.tag = "str"
  <2>1. PICK b \in Text : r.value = Value("str", b)
    BY <1>1, CodeOfStr
  <2>2. Lossy(b) = b
    <3>1. b \in Seq(Byte) /\ \A i \in 1 .. Len(b) : b[i] # Base - 1
      BY TextBytes, Widths
    <3>2. QED
      BY <3>1 DEF Lossy
  <2>3. Value("str", Lossy(b)) \in AnyValue
    BY TextBytes, LossyType
  <2>4. QED
    BY <2>1, <2>2, <2>3
<1>2. CASE r.tag # "str"
  <2>1. r.tag \in NumberTags /\ Len(Code(r)) = Size(r.tag) /\ Number(r.tag, Code(r)) = r.value
    BY <1>2, NumberDecodes
  <2>2. QED
    BY <2>1, CodeType, NumberType
<1>3. QED
  BY <1>1, <1>2

-----------------------------------------------------------------------------
(* Reading at a place where a code is, and where only a part of one is.     *)

\* At c there is as much of the code as the data has.
Begins(data, c, code) ==
  \A j \in 1 .. Len(code) : c + j <= Len(data) => data[c + j] = code[j]

\* n bytes of the code from d on are in the data, which has the code at c.
Inside(data, c, code, d, n) == d + n <= Len(code) /\ c + d + n <= Len(data)
SamePiece(data, c, code, d, n) ==
  SubSeq(data, (c + d) + 1, (c + d) + n) = SubSeq(code, d + 1, d + n)

LEMMA CodePiece ==
  ASSUME NEW data \in Seq(Byte), NEW c \in Nat, NEW code \in Seq(Byte), Begins(data, c, code),
         NEW d \in Nat, NEW n \in Nat, Inside(data, c, code, d, n)
  PROVE  SamePiece(data, c, code, d, n)
<1>0. d + n <= Len(code) /\ c + d + n <= Len(data)
  BY DEF Inside
<1> DEFINE x == SubSeq(data, (c + d) + 1, (c + d) + n)
           y == SubSeq(code, d + 1, d + n)
<1>1. /\ x \in Seq(Byte) /\ Len(x) = n /\ \A i \in 1 .. n : x[i] = data[(c + d) + i]
  <2>1. c + d \in Nat /\ (c + d) + n <= Len(data)
    BY <1>0
  <2>2. QED
    BY <2>1, PieceType
<1>2. /\ y \in Seq(Byte) /\ Len(y) = n /\ \A i \in 1 .. n : y[i] = code[d + i]
  BY <1>0, PieceType
<1> HIDE DEF x, y
<1>3. ASSUME NEW i \in 1 .. n PROVE x[i] = y[i]
  <2>1. d + i \in 1 .. Len(code) /\ c + (d + i) <= Len(data) /\ c + (d + i) = (c + d) + i
    BY <1>0, SequenceParts
  <2>2. data[c + (d + i)] = code[d + i]
    BY <2>1 DEF Begins
  <2>3. QED
    BY <1>1, <1>2, <2>1, <2>2
<1>4. x = y
  BY <1>1, <1>2, <1>3, SeqEqual
<1>5. QED
  BY <1>4 DEF x, y, SamePiece

LEMMA WholePiece ==
  ASSUME NEW data \in Seq(Byte), NEW c \in Nat, NEW code \in Seq(Byte), Begins(data, c, code),
         c + Len(code) <= Len(data)
  PROVE  SubSeq(data, c + 1, c + Len(code)) = code
<1>1. 0 \in Nat /\ Len(code) \in Nat /\ Inside(data, c, code, 0, Len(code))
  BY DEF Inside
<1>2. SamePiece(data, c, code, 0, Len(code))
  BY <1>1, CodePiece
<1>3. SubSeq(code, 1, Len(code)) = code
  OBVIOUS
<1>4. c + 0 = c /\ 0 + 1 = 1 /\ 0 + Len(code) = Len(code)
  BY <1>1
<1>5. QED
  BY <1>2, <1>3, <1>4 DEF SamePiece

\* The next element where the code of a value begins: the value, or a failure.
Decodes(data, s, r, next) ==
  IF s.cursor + Len(Code(r)) <= Len(data) THEN next = Advanced(s, r.value, Len(Code(r)))
  ELSE next.ok = FALSE

LEMMA DecodeNumber ==
  ASSUME NEW data \in Seq(Byte), NEW s \in State(data), s.ok = TRUE, NEW r \in Readable,
         r.tag # "str", NEW tag \in {r.tag, Alias(r.tag)}, Begins(data, s.cursor, Code(r))
  PROVE  Decodes(data, s, r, NextElement(data, tag, s))
<1> DEFINE code == Code(r)
           c == s.cursor
           next == NextElement(data, tag, s)
<1>1. tag \in NumberTags /\ Len(code) = Size(tag) /\ Number(tag, code) = r.value
  BY NumberDecodes
<1>2. code \in Seq(Byte) /\ c \in Nat
  BY CodeType DEF State
<1>3. next = NextNumber(data, tag, Size(tag), s)
  <2>1. tag \in KnownTags
    BY <1>1 DEF NumberTags
  <2>2. QED
    BY <1>1, <2>1, MixedTable
<1>4. next = IF c + Len(code) <= Len(data)
             THEN Advanced(s, Number(tag, SubSeq(data, c + 1, c + Len(code))), Len(code))
             ELSE Fail(s)
  BY <1>1, <1>3 DEF NextNumber, Has, Slice
<1> HIDE DEF next
<1>5. CASE c + Len(code) <= Len(data)
  <2>1. SubSeq(data, c + 1, c + Len(code)) = code
    BY <1>2, <1>5, WholePiece
  <2>2. next = Advanced(s, r.value, Len(code))
    BY <1>1, <1>4, <1>5, <2>1
  <2>3. QED
    BY <1>5, <2>2 DEF Decodes, next
<1>6. CASE ~(c + Len(code) <= Len(data))
  <2>1. next.ok = FALSE
    BY <1>4, <1>6, FailType
  <2>2. QED
    BY <1>6, <2>1 DEF Decodes, next
<1>7. QED
  BY <1>5, <1>6

LEMMA SameState ==
  ASSUME NEW data, NEW x \in State(data), NEW y \in State(data),
         x.ok = y.ok, x.cursor = y.cursor, x.group = y.group, x.result = y.result
  PROVE  x = y
BY DEF State

LEMMA DecodeStr ==
  ASSUME NEW data \in Seq(Byte), NEW s \in State(data), s.ok = TRUE, NEW r \in Readable,
         r.tag = "str", Begins(data, s.cursor, Code(r))
  PROVE  Decodes(data, s, r, NextElement(data, "str", s))
<1> DEFINE code == Code(r)
           c == s.cursor
           next == NextElement(data, "str", s)
           t == [s EXCEPT !.cursor = @ + Word]
<1>1. PICK b \in Text : r.value = Value("str", b) /\ code = Digits(Len(b), Word) \o b
  BY CodeOfStr
<1> DEFINE d == Digits(Len(b), Word)
           n == Len(b)
<1>2. /\ b \in Seq(Byte) /\ n \in Nat /\ d \in Seq(Byte) /\ Len(d) = Word /\ Unsigned(d) = n
      /\ code \in Seq(Byte) /\ Len(code) = Word + n /\ c \in Nat /\ Word \in Nat
  BY <1>1, CodeOfStrType, CodeType, TextBytes, Widths DEF State
<1>3. next = NextStr(data, s)
  BY MixedTable DEF KnownTags
<1>B. Begins(data, c, code)
  OBVIOUS
<1> HIDE DEF next, code, d, c
<1>4. CASE ~ (c + Word <= Len(data))
  <2>1. next = Fail(s)
    BY <1>3, <1>4 DEF NextStr, Has, c
  <2>2. next.ok = FALSE
    BY <2>1, FailType
  <2>3. Len(data) \in Nat /\ ~ (c + Len(code) <= Len(data))
    BY <1>2, <1>4
  <2>4. QED
    BY <2>2, <2>3 DEF Decodes, next, code, c
<1>5. CASE c + Word <= Len(data)
  <2>1. t \in State(data) /\ t.cursor = c + Word /\ t.ok = s.ok
    <3>1. Has(data, s, Word)
      BY <1>5 DEF Has, c
    <3>2. QED
      BY <3>1, PrefixRead DEF c
  <2>2. SubSeq(code, 1, Word) = d /\ SubSeq(code, Word + 1, Word + n) = b
    <3>1. ASSUME d \in Seq(Byte), b \in Seq(Byte), Len(d) = Word, Len(b) = n, code = d \o b
          PROVE  SubSeq(code, 1, Word) = d /\ SubSeq(code, Word + 1, Word + n) = b
      <4>1. SubSeq(code, 1, Word) = d
        BY <3>1, SMTT(30)
      <4>2. SubSeq(code, Word + 1, Word + n) = b
        BY <3>1, SMTT(30)
      <4>3. QED
        BY <4>1, <4>2
    <3>2. code = d \o b
      BY <1>1 DEF d, code
    <3>3. QED
      BY <1>2, <3>1, <3>2
  <2>3. SubSeq(data, c + 1, c + Word) = d
    <3>1. /\ 0 \in Nat /\ Inside(data, c, code, 0, Word)
          /\ c + 0 = c /\ 0 + 1 = 1 /\ 0 + Word = Word
      BY <1>2, <1>5 DEF Inside
    <3>2. SamePiece(data, c, code, 0, Word)
      BY <1>2, <1>B, <3>1, CodePiece
    <3>3. QED
      BY <2>2, <3>1, <3>2 DEF SamePiece
  <2>4. Unsigned(Slice(data, s, Word)) = n
    BY <1>2, <2>3 DEF Slice, c
  <2> HIDE DEF t, n
  <2>5. next = IF Has(data, t, n) THEN Advanced(t, Value("str", Lossy(Slice(data, t, n))), n)
               ELSE Fail(t)
    BY <1>3, <1>5, <2>4 DEF NextStr, Has, t, c
  <2>6. CASE c + Len(code) <= Len(data)
    <3>1. (c + Word) + n <= Len(data) /\ Inside(data, c, code, Word, n)
      BY <1>2, <2>6 DEF Inside
    <3>2. SubSeq(data, (c + Word) + 1, (c + Word) + n) = b
      <4>1. SamePiece(data, c, code, Word, n)
        BY <1>2, <1>B, <3>1, CodePiece
      <4>2. QED
        BY <2>2, <4>1 DEF SamePiece
    <3>3. Lossy(b) = b
      <4>1. \A i \in 1 .. Len(b) : b[i] # Base - 1
        BY TextBytes, Widths
      <4>2. QED
        BY <1>2, <4>1 DEF Lossy
    <3>4. next = Advanced(t, r.value, n)
      BY <1>1, <2>1, <2>5, <3>1, <3>2, <3>3 DEF Has, Slice
    <3>5. Advanced(t, r.value, n) = Advanced(s, r.value, Word + n)
      <4> DEFINE x == Advanced(t, r.value, n)
                 y == Advanced(s, r.value, Word + n)
      <4>1. r.value \in AnyValue /\ Len(data) \in Nat /\ n \in Nat /\ Word + n \in Nat
        BY <1>2, ReadableValue
      <4>2. t.cursor + n <= Len(data) /\ s.cursor + (Word + n) <= Len(data)
            /\ t.cursor + n = s.cursor + (Word + n)
        BY <1>2, <2>1, <3>1, <4>1 DEF c
      <4>3. t.group = s.group /\ t.result = s.result
        BY DEF State, t
      <4>4. /\ x \in State(data) /\ x.ok = t.ok /\ x.cursor = t.cursor + n
            /\ x.group = Append(t.group, r.value) /\ x.result = t.result
        BY <2>1, <4>1, <4>2, AdvancedType
      <4>5. /\ y \in State(data) /\ y.ok = s.ok /\ y.cursor = s.cursor + (Word + n)
            /\ y.group = Append(s.group, r.value) /\ y.result = s.result
        BY <4>1, <4>2, AdvancedType
      <4> HIDE DEF x, y
      <4>6. x = y
        BY <2>1, <4>2, <4>3, <4>4, <4>5, SameState
      <4>7. QED
        BY <4>6 DEF x, y
    <3>6. next = Advanced(s, r.value, Len(code))
      BY <1>2, <3>4, <3>5
    <3>7. QED
      BY <2>6, <3>6 DEF Decodes, next, code, c
  <2>7. CASE ~ (c + Len(code) <= Len(data))
    <3>1. ~ Has(data, t, n)
      BY <1>2, <2>1, <2>7 DEF Has
    <3>2. next.ok = FALSE
      BY <2>1, <2>5, <3>1, FailType
    <3>3. QED
      BY <2>7, <3>2 DEF Decodes, next, code, c
  <2>8. QED
    BY <2>6, <2>7
<1>6. QED
  BY <1>4, <1>5

LEMMA DecodeElement ==
  ASSUME NEW data \in Seq(Byte), NEW s \in State(data), s.ok = TRUE, NEW r \in Readable,
         NEW tag \in {r.tag, Alias(r.tag)}, Begins(data, s.cursor, Code(r))
  PROVE  Decodes(data, s, r, NextElement(data, tag, s))
<1>1. CASE r.tag # "str"
  BY <1>1, DecodeNumber
<1>2. CASE r.tag = "str"
  <2>1. tag = "str"
    BY <1>2 DEF Alias
  <2>2. QED
    BY <1>2, <2>1, DecodeStr
<1>3. QED
  BY <1>1, <1>2

-----------------------------------------------------------------------------
(* Where the codes of a sequence of values are in its bytes.                *)

\* The code of reads[i] is between p[i - 1] and p[i].
Places(p, reads, bytes) ==
  /\ p \in [0 .. Len(reads) -> Nat] /\ p[0] = 0 /\ p[Len(reads)] = Len(bytes)
  /\ \A i \in 1 .. Len(reads) : /\ p[i] = p[i - 1] + Len(Code(reads[i]))
                                /\ p[i] <= Len(bytes)
                                /\ Begins(bytes, p[i - 1], Code(reads[i]))

Coded(reads, bytes) ==
  reads \in Seq(Readable) /\ bytes \in Seq(Byte) /\ \E p : Places(p, reads, bytes)

LEMMA BeginsFront ==
  ASSUME NEW a \in Seq(Byte), NEW b \in Seq(Byte), NEW code \in Seq(Byte), NEW c \in Nat,
         Begins(a, c, code), c + Len(code) <= Len(a)
  PROVE  Begins(a \o b, c, code)
<1> SUFFICES ASSUME NEW j \in 1 .. Len(code) PROVE (a \o b)[c + j] = code[j]
  BY DEF Begins
<1>1. c + j \in 1 .. Len(a) /\ c + j <= Len(a)
  BY SequenceParts
<1>2. a[c + j] = code[j]
  BY <1>1 DEF Begins
<1>3. (a \o b)[c + j] = a[c + j]
  BY <1>1
<1>4. QED
  BY <1>2, <1>3

LEMMA BeginsBack ==
  ASSUME NEW a \in Seq(Byte), NEW b \in Seq(Byte), NEW code \in Seq(Byte), NEW c \in Nat,
         Begins(b, c, code), c + Len(code) <= Len(b)
  PROVE  Begins(a \o b, Len(a) + c, code)
<1> SUFFICES ASSUME NEW j \in 1 .. Len(code) PROVE (a \o b)[Len(a) + c + j] = code[j]
  BY DEF Begins
<1>1. c + j \in 1 .. Len(b) /\ c + j <= Len(b) /\ Len(a) \in Nat
  BY SequenceParts
<1>2. b[c + j] = code[j]
  BY <1>1 DEF Begins
<1>3. (a \o b)[Len(a) + (c + j)] = b[c + j]
  BY <1>1
<1>4. Len(a) + c + j = Len(a) + (c + j)
  BY <1>1
<1>5. QED
  BY <1>2, <1>3, <1>4

\* Places of both, which are p as far as the first goes.
Extended(p, s, t, a, b) ==
  \E r : Places(r, s \o t, a \o b) /\ \A i \in 0 .. Len(s) : r[i] = p[i]

LEMMA PlacesJoin ==
  ASSUME NEW s \in Seq(Readable), NEW t \in Seq(Readable), NEW a \in Seq(Byte), NEW b \in Seq(Byte),
         NEW p, Places(p, s, a), NEW q, Places(q, t, b)
  PROVE  Extended(p, s, t, a, b)
<1> DEFINE m == Len(s)
           n == Len(t)
           k == Len(a)
           l == Len(b)
           both == s \o t
           bytes == a \o b
           r == [i \in 0 .. m + n |-> IF i <= m THEN p[i] ELSE k + q[i - m]]
<1>1. /\ m \in Nat /\ n \in Nat /\ k \in Nat /\ l \in Nat
      /\ Len(both) = m + n /\ Len(bytes) = k + l
  OBVIOUS
<1>2. /\ \A i \in 1 .. m : both[i] = s[i] /\ s[i] \in Readable
      /\ \A i \in m + 1 .. m + n : both[i] = t[i - m] /\ t[i - m] \in Readable
  OBVIOUS
<1>3. /\ p \in [0 .. m -> Nat] /\ p[0] = 0 /\ p[m] = k
      /\ \A i \in 1 .. m : /\ p[i] = p[i - 1] + Len(Code(s[i])) /\ p[i] <= k
                           /\ Begins(a, p[i - 1], Code(s[i]))
  BY DEF Places
<1>4. /\ q \in [0 .. n -> Nat] /\ q[0] = 0 /\ q[n] = l
      /\ \A i \in 1 .. n : /\ q[i] = q[i - 1] + Len(Code(t[i])) /\ q[i] <= l
                           /\ Begins(b, q[i - 1], Code(t[i]))
  BY DEF Places
<1>5. \A i \in 0 .. m : r[i] = p[i]
  BY <1>1
<1>6. \A i \in 0 .. n : r[m + i] = k + q[i]
  <2> TAKE i \in 0 .. n
  <2>1. CASE i = 0
    BY <1>1, <1>3, <1>4, <2>1
  <2>2. CASE i # 0
    <3>1. m + i \in 0 .. m + n /\ ~ (m + i <= m) /\ (m + i) - m = i
      BY <1>1, <2>2
    <3>2. QED
      BY <3>1
  <2>3. QED
    BY <2>1, <2>2
<1>7. r \in [0 .. m + n -> Nat]
  <2>1. \A i \in 0 .. m : p[i] \in Nat
    BY <1>3
  <2>2. \A i \in 0 .. n : k + q[i] \in Nat
    <3>1. \A i \in 0 .. n : q[i] \in Nat
      BY <1>4, Zenon
    <3> HIDE DEF k, n
    <3>2. QED
      BY <1>1, <3>1
  <2>3. ASSUME NEW i \in 0 .. m + n, ~ (i <= m) PROVE i - m \in 0 .. n
    BY <1>1, <2>3
  <2>4. QED
    BY <1>1, <2>1, <2>2, <2>3
<1> HIDE DEF m, n, k, l, both, bytes, r
<1>8. ASSUME NEW i \in 1 .. m
      PROVE  /\ r[i] = r[i - 1] + Len(Code(both[i])) /\ r[i] <= Len(bytes)
             /\ Begins(bytes, r[i - 1], Code(both[i]))
  <2>1. i \in 0 .. m /\ i - 1 \in 0 .. m
    BY <1>1
  <2>2. /\ p[i] = p[i - 1] + Len(Code(s[i])) /\ p[i] <= k /\ p[i - 1] \in Nat /\ p[i] \in Nat
        /\ Begins(a, p[i - 1], Code(s[i]))
    BY <1>3, <2>1
  <2>3. Code(s[i]) \in Seq(Byte) /\ p[i - 1] + Len(Code(s[i])) <= Len(a)
    BY <1>2, <2>2, CodeType DEF k
  <2>4. Begins(bytes, p[i - 1], Code(s[i]))
    BY <2>2, <2>3, BeginsFront DEF bytes
  <2>5. r[i] = p[i] /\ r[i - 1] = p[i - 1] /\ both[i] = s[i] /\ p[i] <= Len(bytes)
    BY <1>1, <1>2, <1>5, <2>1, <2>2
  <2>6. QED
    BY <2>2, <2>4, <2>5
<1>9. ASSUME NEW i \in 1 .. n
      PROVE  /\ r[m + i] = r[(m + i) - 1] + Len(Code(both[m + i])) /\ r[m + i] <= Len(bytes)
             /\ Begins(bytes, r[(m + i) - 1], Code(both[m + i]))
  <2>1. /\ i \in 0 .. n /\ i - 1 \in 0 .. n /\ (m + i) - 1 = m + (i - 1)
        /\ m + i \in m + 1 .. m + n /\ (m + i) - m = i
    BY <1>1
  <2>2. /\ q[i] = q[i - 1] + Len(Code(t[i])) /\ q[i] <= l /\ q[i - 1] \in Nat /\ q[i] \in Nat
        /\ Begins(b, q[i - 1], Code(t[i]))
    BY <1>4, <2>1
  <2>3. both[m + i] = t[i] /\ t[i] \in Readable
    BY <1>2, <2>1
  <2>4. Code(t[i]) \in Seq(Byte) /\ q[i - 1] + Len(Code(t[i])) <= Len(b)
    BY <2>2, <2>3, CodeType DEF l
  <2>5. Begins(bytes, k + q[i - 1], Code(t[i]))
    BY <2>2, <2>4, BeginsBack DEF bytes, k
  <2>6. r[m + i] = k + q[i] /\ r[(m + i) - 1] = k + q[i - 1]
    BY <1>6, <2>1
  <2>7. Len(Code(t[i])) \in Nat
    BY <2>4
  <2>8. k + q[i] = (k + q[i - 1]) + Len(Code(t[i])) /\ k + q[i] <= k + l
    BY <1>1, <2>2, <2>7
  <2>9. QED
    BY <1>1, <2>3, <2>5, <2>6, <2>8
<1>10. r[0] = 0 /\ r[m + n] = k + l
  <2>1. 0 \in 0 .. m /\ n \in 0 .. n
    BY <1>1
  <2>2. QED
    BY <1>3, <1>4, <1>5, <1>6, <2>1
<1>11. ASSUME NEW i \in 1 .. m + n
       PROVE  /\ r[i] = r[i - 1] + Len(Code(both[i])) /\ r[i] <= Len(bytes)
              /\ Begins(bytes, r[i - 1], Code(both[i]))
  <2>1. CASE i <= m
    <3>1. i \in 1 .. m
      BY <1>1, <2>1
    <3>2. QED
      BY <1>8, <3>1
  <2>2. CASE ~ (i <= m)
    <3>1. i - m \in 1 .. n /\ m + (i - m) = i
      BY <1>1, <2>2
    <3>2. QED
      BY <1>9, <3>1
  <2>3. QED
    BY <2>1, <2>2
<1>12. Places(r, both, bytes)
  BY <1>1, <1>7, <1>10, <1>11 DEF Places
<1>13. QED
  BY <1>5, <1>12 DEF Extended, both, bytes, m

LEMMA CodedEmpty == Coded(<<>>, <<>>)
<1> DEFINE p == [i \in 0 .. 0 |-> 0]
<1>1. p \in [0 .. 0 -> Nat] /\ p[0] = 0
  OBVIOUS
<1>2. /\ <<>> \in Seq(Readable) /\ <<>> \in Seq(Byte)
      /\ Len(<<>>) = 0 /\ \A i \in 1 .. 0 : FALSE
  OBVIOUS
<1> HIDE DEF p
<1>3. Places(p, <<>>, <<>>)
  BY <1>1, <1>2 DEF Places
<1>4. QED
  BY <1>2, <1>3 DEF Coded

LEMMA CodedJoin ==
  ASSUME NEW s, NEW t, NEW a, NEW b, Coded(s, a), Coded(t, b)
  PROVE  Coded(s \o t, a \o b)
<1>1. s \in Seq(Readable) /\ t \in Seq(Readable) /\ a \in Seq(Byte) /\ b \in Seq(Byte)
  BY DEF Coded
<1>2. PICK p : Places(p, s, a)
  BY DEF Coded
<1>3. PICK q : Places(q, t, b)
  BY DEF Coded
<1>4. \E r : Places(r, s \o t, a \o b)
  <2>1. Extended(p, s, t, a, b)
    BY <1>1, <1>2, <1>3, PlacesJoin
  <2>2. QED
    BY <2>1 DEF Extended
<1>5. s \o t \in Seq(Readable) /\ a \o b \in Seq(Byte)
  BY <1>1
<1>6. QED
  BY <1>4, <1>5 DEF Coded

LEMMA CodedOne ==
  ASSUME NEW r \in Readable
  PROVE  Coded(<<r>>, Code(r))
<1> DEFINE s == <<r>>
           code == Code(r)
           p == [i \in 0 .. 1 |-> IF i = 0 THEN 0 ELSE Len(code)]
<1>1. s \in Seq(Readable) /\ Len(s) = 1 /\ s[1] = r
  OBVIOUS
<1>2. code \in Seq(Byte) /\ Len(code) \in Nat
  <2>1. code \in Seq(Byte)
    BY CodeType
  <2> HIDE DEF code
  <2>2. QED
    BY <2>1
<1> HIDE DEF s, code
<1>3. p \in [0 .. 1 -> Nat] /\ p[0] = 0 /\ p[1] = Len(code)
  BY <1>2
<1> HIDE DEF p
<1>4. p[1] = p[0] + Len(code) /\ p[1] <= Len(code)
  BY <1>2, <1>3
<1>5. Begins(code, p[0], code)
  BY <1>2, <1>3 DEF Begins
<1>6. \A i \in 1 .. 1 : i = 1 /\ i - 1 = 0
  OBVIOUS
<1>7. Code(s[1]) = code
  BY <1>1 DEF code
<1>8. ASSUME NEW i \in 1 .. Len(s)
      PROVE  /\ p[i] = p[i - 1] + Len(Code(s[i])) /\ p[i] <= Len(code)
             /\ Begins(code, p[i - 1], Code(s[i]))
  <2>1. i = 1 /\ i - 1 = 0
    BY <1>1, <1>6
  <2>2. QED
    BY <1>4, <1>5, <1>7, <2>1
<1>9. Places(p, s, code)
  BY <1>1, <1>3, <1>8 DEF Places
<1>10. QED
  BY <1>1, <1>2, <1>9 DEF Coded, s, code

\* Bytes have no prefix: each is read as a u8.
LEMMA CodedBytes ==
  ASSUME NEW b \in Seq(Byte)
  PROVE  Coded([i \in 1 .. Len(b) |-> Reads("u8", Value("int", <<b[i]>>))], b)
<1> DEFINE n == Len(b)
           s == [i \in 1 .. n |-> Reads("u8", Value("int", <<b[i]>>))]
           p == [i \in 0 .. n |-> i]
<1>1. n \in Nat /\ \A i \in 1 .. n : b[i] \in Byte
  BY SequenceParts
<1>2. ASSUME NEW x \in Byte
      PROVE  /\ Reads("u8", Value("int", <<x>>)) \in Readable
             /\ Code(Reads("u8", Value("int", <<x>>))) = <<x>>
  BY DEF Readable, Reads, Value, Code
<1>3. s \in Seq(Readable) /\ Len(s) = n /\ \A i \in 1 .. n : Code(s[i]) = <<b[i]>>
  <2>1. s \in [1 .. n -> Readable]
    BY <1>1, <1>2
  <2>2. \A i \in 1 .. n : Code(s[i]) = <<b[i]>>
    BY <1>1, <1>2
  <2> HIDE DEF s
  <2>3. QED
    BY <1>1, <2>1, <2>2, FunctionSequence
<1>4. p \in [0 .. n -> Nat] /\ \A i \in 0 .. n : p[i] = i
  BY <1>1
<1> HIDE DEF s, p, n
<1>5. ASSUME NEW i \in 1 .. n
      PROVE  /\ p[i] = p[i - 1] + Len(Code(s[i])) /\ p[i] <= Len(b)
             /\ Begins(b, p[i - 1], Code(s[i]))
  <2>1. i \in 0 .. n /\ i - 1 \in 0 .. n
    BY <1>1
  <2>2. p[i] = i /\ p[i - 1] = i - 1 /\ Code(s[i]) = <<b[i]>>
    BY <1>3, <1>4, <2>1
  <2>3. Len(<<b[i]>>) = 1 /\ \A j \in 1 .. 1 : j = 1 /\ <<b[i]>>[j] = b[i]
    OBVIOUS
  <2>4. (i - 1) + 1 = i /\ i <= n
    BY <1>1
  <2>5. Begins(b, i - 1, <<b[i]>>)
    BY <2>3, <2>4 DEF Begins
  <2>6. QED
    BY <2>2, <2>3, <2>4, <2>5 DEF n
<1>6. p[0] = 0 /\ p[n] = Len(b)
  <2>1. 0 \in 0 .. n /\ n \in 0 .. n
    BY <1>1
  <2>2. QED
    BY <1>4, <2>1 DEF n
<1>7. Places(p, s, b)
  BY <1>3, <1>4, <1>5, <1>6 DEF Places
<1>8. QED
  BY <1>3, <1>7 DEF Coded, s, n

LEMMA CodedValue ==
  ASSUME NEW v \in PyValue, PackValue(v).ok
  PROVE  Coded(AsRead(v), PackValue(v).bytes)
<1>1. CASE v.type \in {"bytes", "bytearray"}
  <2>1. v.val \in Seq(Byte)
    BY <1>1 DEF PyValue
  <2>2. PackValue(v).bytes = v.val
    BY <1>1 DEF PackValue, Is, Packed
  <2>3. AsRead(v) = [i \in 1 .. Len(v.val) |-> Reads("u8", Value("int", <<v.val[i]>>))]
    BY <1>1 DEF AsRead
  <2>4. QED
    BY <2>1, <2>2, <2>3, CodedBytes
<1>2. CASE v.type \notin {"bytes", "bytearray"}
  <2>1. v.type \in PackTags
    <3>1. v.type \in {"bool", "int", "float", "str", "bytes", "bytearray", "none"}
      BY DEF PyValue
    <3>2. v.type # "none"
      BY DEF PackValue, Is, NotPacked
    <3>3. QED
      BY <1>2, <3>1, <3>2 DEF PackTags
  <2>2. Reads(v.type, v) \in Readable
    BY <2>1 DEF Reads, Readable
  <2>3. Code(Reads(v.type, v)) = PackValue(v).bytes
    BY <2>1 DEF Code, Reads, PackTags
  <2>4. AsRead(v) = <<Reads(v.type, v)>>
    BY <1>2 DEF AsRead
  <2>5. QED
    BY <2>2, <2>3, <2>4, CodedOne
<1>3. QED
  BY <1>1, <1>2

\* The bytes of a list are those of its values, one after the other.
LEMMA CodedMixed ==
  ASSUME NEW items \in Seq(Seq(PyValue)), PackMixed(items).ok
  PROVE  Coded(ListAsRead(items), PackMixed(items).bytes)
<1> DEFINE values == FlattenSeq(items)
           n == Len(values)
           packed == [i \in 1 .. n |-> PackValue(values[i])]
           bs == [i \in 1 .. n |-> packed[i].bytes]
           rs == [i \in 1 .. n |-> AsRead(values[i])]
<1>1. values \in Seq(PyValue)
  BY FlattenType
<1>2. n \in Nat /\ \A i \in 1 .. n : values[i] \in PyValue
  <2> HIDE DEF values
  <2>1. QED
    BY <1>1, SequenceParts
<1>3. /\ \A i \in 1 .. n : PackValue(values[i]).ok
      /\ PackMixed(items).bytes = FlattenSeq(bs)
  BY DEF PackMixed, Packed, NotPacked
<1>4. ListAsRead(items) = FlattenSeq(rs)
  BY DEF ListAsRead
<1>5. \A i \in 1 .. n : bs[i] = PackValue(values[i]).bytes /\ rs[i] = AsRead(values[i])
  OBVIOUS
<1> HIDE DEF values, n, packed
<1>6. \A i \in 1 .. n : Coded(rs[i], bs[i])
  BY <1>2, <1>3, <1>5, CodedValue
<1>7. \A i \in 1 .. n : rs[i] \in Seq(Readable) /\ bs[i] \in Seq(Byte)
  BY <1>6 DEF Coded
<1>8. bs \in Seq(Seq(Byte)) /\ Len(bs) = n /\ rs \in Seq(Seq(Readable)) /\ Len(rs) = n
  <2>1. bs \in [1 .. n -> Seq(Byte)] /\ rs \in [1 .. n -> Seq(Readable)]
    BY <1>7
  <2> HIDE DEF bs, rs
  <2>2. QED
    BY <1>2, <2>1, FunctionSequence
<1> HIDE DEF bs, rs
<1>9. PICK f : Flattens(f, rs, Readable) /\ FlattenSeq(rs) = f[Len(rs)]
  BY <1>8, FlattenLoop
<1>10. PICK g : Flattens(g, bs, Byte) /\ FlattenSeq(bs) = g[Len(bs)]
  BY <1>8, FlattenLoop
<1> DEFINE P == {i \in 0 .. n : Coded(f[i], g[i])}
<1>11. 0 \in P
  BY <1>2, <1>9, <1>10, CodedEmpty DEF Flattens
<1>12. ASSUME NEW i \in 1 .. n, i - 1 \in P PROVE i \in P
  <2>1. f[i] = f[i - 1] \o rs[i] /\ g[i] = g[i - 1] \o bs[i]
    BY <1>8, <1>9, <1>10 DEF Flattens
  <2>2. Coded(f[i - 1], g[i - 1]) /\ Coded(rs[i], bs[i])
    BY <1>6, <1>12
  <2>3. Coded(f[i], g[i])
    BY <2>1, <2>2, CodedJoin
  <2>4. i \in 0 .. n
    BY <1>2
  <2>5. QED
    BY <2>3, <2>4
<1>13. \A i \in 0 .. n : i \in P
  <2> HIDE DEF P
  <2>1. QED
    BY <1>2, <1>11, <1>12, IntervalInduction
<1>14. n \in 0 .. n
  BY <1>2
<1>15. Coded(f[n], g[n])
  BY <1>13, <1>14
<1>16. QED
  BY <1>3, <1>4, <1>8, <1>9, <1>10, <1>15

-----------------------------------------------------------------------------
(* An entry of a schema where the codes of its values lie.                  *)

\* The code of reads[i] begins at p[i - 1], as far as the data goes.
Lies(p, reads, data) ==
  /\ p \in [0 .. Len(reads) -> Nat] /\ p[0] = 0
  /\ \A i \in 1 .. Len(reads) : /\ p[i] = p[i - 1] + Len(Code(reads[i]))
                                /\ Begins(data, p[i - 1], Code(reads[i]))

LEMMA LiesInOrder ==
  ASSUME NEW reads \in Seq(Readable), NEW data, NEW p, Lies(p, reads, data),
         NEW i \in 0 .. Len(reads), NEW j \in i .. Len(reads)
  PROVE  p[i] <= p[j]
<1> DEFINE n == Len(reads) - i
           P == {k \in 0 .. n : p[i] <= p[i + k]}
<1>1. n \in Nat /\ Len(reads) \in Nat /\ i \in Nat
  OBVIOUS
<1>2. p \in [0 .. Len(reads) -> Nat]
  BY DEF Lies
<1>3. 0 \in P
  <2>1. i + 0 = i /\ 0 \in 0 .. n /\ p[i] \in Nat
    BY <1>1, <1>2
  <2>2. QED
    BY <2>1
<1>4. ASSUME NEW k \in 1 .. n, k - 1 \in P PROVE k \in P
  <2>1. i + k \in 1 .. Len(reads) /\ (i + k) - 1 = i + (k - 1) /\ k \in 0 .. n
        /\ i + k \in 0 .. Len(reads) /\ i + (k - 1) \in 0 .. Len(reads)
    BY <1>1
  <2>2. p[i + k] = p[i + (k - 1)] + Len(Code(reads[i + k]))
    BY <2>1 DEF Lies
  <2>3. Len(Code(reads[i + k])) \in Nat
    <3>1. Code(reads[i + k]) \in Seq(Byte)
      BY <2>1, SequenceParts, CodeType
    <3>2. QED
      BY <3>1, SequenceParts
  <2>4. p[i] <= p[i + (k - 1)] /\ p[i] \in Nat /\ p[i + k] \in Nat /\ p[i + (k - 1)] \in Nat
    BY <1>2, <1>4, <2>1
  <2>5. p[i] <= p[i + k]
    BY <2>2, <2>3, <2>4
  <2>6. QED
    BY <2>1, <2>5
<1>5. \A k \in 0 .. n : k \in P
  <2> HIDE DEF P, n
  <2>1. QED
    BY <1>1, <1>3, <1>4, IntervalInduction
<1>6. j - i \in 0 .. n /\ i + (j - i) = j
  BY <1>1
<1>7. QED
  BY <1>5, <1>6

\* The values of the reads from m + 1 to m + n.
ValuesAt(reads, m, n) == [i \in 1 .. n |-> reads[m + i].value]

LEMMA ValuesType ==
  ASSUME NEW reads \in Seq(Readable), NEW m \in Nat, NEW n \in Nat, m + n <= Len(reads)
  PROVE  ValuesAt(reads, m, n) \in Seq(AnyValue) /\ Len(ValuesAt(reads, m, n)) = n
<1>1. ASSUME NEW i \in 1 .. n PROVE reads[m + i].value \in AnyValue
  <2>1. m + i \in 1 .. Len(reads)
    BY SequenceParts
  <2>2. reads[m + i] \in Readable
    BY <2>1, SequenceParts
  <2>3. QED
    BY <2>2, ReadableValue
<1>2. ValuesAt(reads, m, n) \in [1 .. n -> AnyValue]
  BY <1>1 DEF ValuesAt
<1>3. QED
  BY <1>2, FunctionSequence

LEMMA ConcatParts ==
  ASSUME NEW S, NEW a \in Seq(S), NEW b \in Seq(S)
  PROVE  /\ a \o b \in Seq(S) /\ Len(a \o b) = Len(a) + Len(b)
         /\ \A i \in 1 .. Len(a) : (a \o b)[i] = a[i]
         /\ \A i \in 1 .. Len(b) : (a \o b)[Len(a) + i] = b[i]
<1>1. a \o b \in Seq(S) /\ Len(a \o b) = Len(a) + Len(b)
  OBVIOUS
<1>2. \A i \in 1 .. Len(a) : (a \o b)[i] = a[i]
  OBVIOUS
<1>3. \A i \in 1 .. Len(b) : (a \o b)[Len(a) + i] = b[i]
  OBVIOUS
<1>4. QED
  BY <1>1, <1>2, <1>3

Joined(S, a, b) ==
  /\ a \o b \in Seq(S) /\ Len(a \o b) = Len(a) + Len(b)
  /\ \A i \in 1 .. Len(a) : (a \o b)[i] = a[i]
  /\ \A i \in 1 .. Len(b) : (a \o b)[Len(a) + i] = b[i]

LEMMA ConcatJoined ==
  ASSUME NEW S, NEW a \in Seq(S), NEW b \in Seq(S)
  PROVE  Joined(S, a, b)
BY ConcatParts DEF Joined

ValuesMeet(reads, m, n, k) ==
  ValuesAt(reads, m, n) \o ValuesAt(reads, m + n, k) = ValuesAt(reads, m, n + k)

LEMMA ValuesJoin ==
  ASSUME NEW reads \in Seq(Readable), NEW m \in Nat, NEW n \in Nat, NEW k \in Nat,
         m + n + k <= Len(reads)
  PROVE  ValuesMeet(reads, m, n, k)
<1> DEFINE a == ValuesAt(reads, m, n)
           b == ValuesAt(reads, m + n, k)
           c == ValuesAt(reads, m, n + k)
<1>1. m + n \in Nat /\ n + k \in Nat /\ m + n <= Len(reads) /\ m + (n + k) <= Len(reads)
      /\ (m + n) + k <= Len(reads)
  BY SequenceParts
<1>2. /\ a \in Seq(AnyValue) /\ Len(a) = n /\ b \in Seq(AnyValue) /\ Len(b) = k
      /\ c \in Seq(AnyValue) /\ Len(c) = n + k
  BY <1>1, ValuesType
<1>3. /\ \A i \in 1 .. n : a[i] = reads[m + i].value
      /\ \A i \in 1 .. k : b[i] = reads[(m + n) + i].value
      /\ \A i \in 1 .. n + k : c[i] = reads[m + i].value
  BY DEF ValuesAt
<1> HIDE DEF a, b, c
<1>4. ASSUME NEW i \in 1 .. n + k PROVE (a \o b)[i] = c[i]
  <2>1. CASE i <= n
    <3>1. i \in 1 .. n
      BY <1>1, <2>1
    <3>2. (a \o b)[i] = a[i]
      BY <1>2, <3>1
    <3>3. QED
      BY <1>3, <3>1, <3>2
  <2>2. CASE ~ (i <= n)
    <3>1. i - n \in 1 .. k /\ (m + n) + (i - n) = m + i
      BY <1>1, <2>2
    <3>2. (a \o b)[i] = b[i - n]
      <4>1. \A j \in 1 .. k : (a \o b)[n + j] = b[j]
        BY <1>2, ConcatParts
      <4>2. (a \o b)[n + (i - n)] = b[i - n]
        BY <3>1, <4>1, Zenon
      <4>3. n + (i - n) = i
        BY <1>1
      <4>4. QED
        BY <4>2, <4>3
    <3>3. b[i - n] = reads[m + i].value
      BY <1>3, <3>1
    <3>4. QED
      BY <1>3, <3>2, <3>3
  <2>3. QED
    BY <2>1, <2>2
<1>5. a \o b \in Seq(AnyValue) /\ Len(a \o b) = n + k
  BY <1>2, ConcatParts
<1>6. a \o b = c
  BY <1>2, <1>4, <1>5, SeqEqual
<1>7. QED
  BY <1>6 DEF a, b, c, ValuesMeet

LEMMA ValuesNext ==
  ASSUME NEW reads \in Seq(Readable), NEW m \in Nat, NEW n \in Nat, m + n + 1 <= Len(reads)
  PROVE  Append(ValuesAt(reads, m, n), reads[m + n + 1].value) = ValuesAt(reads, m, n + 1)
<1> DEFINE a == ValuesAt(reads, m, n)
           b == ValuesAt(reads, m + n, 1)
           v == reads[(m + n) + 1].value
<1>1. m + n \in Nat /\ m + n <= Len(reads) /\ (m + n) + 1 <= Len(reads) /\ 1 \in Nat
      /\ (m + n) + 1 \in 1 .. Len(reads)
  BY SequenceParts
<1>2. a \in Seq(AnyValue) /\ b \in Seq(AnyValue) /\ Len(b) = 1
  BY <1>1, ValuesType
<1>3. v \in AnyValue
  BY <1>1, SequenceParts, ReadableValue
<1>4. b[1] = v
  BY DEF ValuesAt
<1> HIDE DEF a, b, v
<1>5. b = <<v>>
  <2>1. b \in [1 .. 1 -> AnyValue]
    BY <1>2
  <2>2. b = <<b[1]>>
    BY <2>1, OnlyElement
  <2>3. QED
    BY <1>4, <2>2
<1>6. Append(a, v) = a \o <<v>>
  BY <1>2, <1>3, AppendIsConcat
<1>7. a \o b = ValuesAt(reads, m, n + 1)
  <2>1. ValuesMeet(reads, m, n, 1)
    BY <1>1, ValuesJoin
  <2>2. QED
    BY <2>1 DEF a, b, ValuesMeet
<1>8. Append(a, v) = ValuesAt(reads, m, n + 1)
  BY <1>5, <1>6, <1>7
<1>9. QED
  BY <1>8 DEF a, v

\* After m values, count values of one tag lie in the data.
Ahead(data, reads, p, m, count, tag) ==
  /\ Lies(p, reads, data)
  /\ m + count <= Len(reads) /\ p[m + count] <= Len(data)
  /\ \A j \in 1 .. count : reads[m + j].tag = tag

\* The elements of an entry, one after the other.
\* From s on, n elements after the m-th are read.
ReadOn(t, s, p, reads, m, n) ==
  /\ t.ok = TRUE /\ t.cursor = p[m + n]
  /\ t.group = ValuesAt(reads, m, n) /\ t.result = s.result

LEMMA ElementsDecode ==
  ASSUME NEW data \in Seq(Byte), NEW reads \in Seq(Readable), NEW p, NEW m \in Nat,
         NEW count \in Nat, NEW tag, Ahead(data, reads, p, m, count, tag),
         NEW s \in State(data), s.ok = TRUE, s.cursor = p[m],
         NEW r, ElementStates(r, data, tag, s, count)
  PROVE  ReadOn(r[count], s, p, reads, m, count)
<1>0. /\ Lies(p, reads, data) /\ m + count <= Len(reads) /\ p[m + count] <= Len(data)
      /\ \A j \in 1 .. count : reads[m + j].tag = tag
  BY DEF Ahead
<1> DEFINE P == {i \in 0 .. count : ReadOn(r[i], s, p, reads, m, i)}
<1>1. 0 \in P
  <2>1. /\ r[0].ok = s.ok /\ r[0].cursor = s.cursor /\ r[0].group = <<>>
        /\ r[0].result = s.result
    BY EmptyGroup DEF ElementStates
  <2>2. m + 0 = m /\ 0 \in 0 .. count
    OBVIOUS
  <2>3. ValuesAt(reads, m, 0) = <<>>
    BY DEF ValuesAt
  <2>4. QED
    BY <2>1, <2>2, <2>3 DEF ReadOn
<1>2. ASSUME NEW i \in 1 .. count, i - 1 \in P PROVE i \in P
  <2> DEFINE t == r[i - 1]
             x == reads[m + i]
             k == Len(Code(x))
  <2>1. /\ i \in 0 .. count /\ i - 1 \in 0 .. count /\ i - 1 \in Nat /\ m + i \in 1 .. Len(reads)
        /\ (m + i) - 1 = m + (i - 1) /\ (i - 1) + 1 = i /\ m + (i - 1) + 1 = m + i
        /\ m + (i - 1) + 1 <= Len(reads)
        /\ m + i \in 0 .. Len(reads) /\ m + count \in m + i .. Len(reads)
        /\ m + (i - 1) \in 0 .. Len(reads)
    BY <1>0, SequenceParts
  <2>2. t \in State(data) /\ t.ok = TRUE /\ t.cursor = p[m + (i - 1)]
        /\ t.group = ValuesAt(reads, m, i - 1) /\ t.result = s.result
    BY <1>2, <2>1 DEF ElementStates, ReadOn
  <2>3. x \in Readable /\ x.tag = tag
    BY <1>0, <2>1, SequenceParts
  <2>4. p[m + i] = p[m + (i - 1)] + k /\ Begins(data, p[m + (i - 1)], Code(x))
    BY <1>0, <2>1 DEF Lies
  <2>5. r[i] = NextElement(data, tag, t)
    BY DEF ElementStates
  <2>6. p[m + i] <= Len(data)
    <3>1. p[m + i] <= p[m + count]
      BY <1>0, <2>1, LiesInOrder
    <3>2. p \in [0 .. Len(reads) -> Nat] /\ m + count \in 0 .. Len(reads)
      BY <1>0, SequenceParts DEF Lies
    <3>3. p[m + i] \in Nat /\ p[m + count] \in Nat /\ Len(data) \in Nat
      BY <2>1, <3>2, SequenceParts
    <3>4. QED
      BY <1>0, <3>1, <3>3
  <2> HIDE DEF t, x
  <2>7. Decodes(data, t, x, NextElement(data, tag, t))
    BY <2>2, <2>3, <2>4, DecodeElement
  <2>8. r[i] = Advanced(t, x.value, k)
    BY <2>2, <2>4, <2>5, <2>6, <2>7 DEF Decodes
  <2>9. x.value \in AnyValue /\ k \in Nat /\ Len(data) \in Nat /\ t.cursor + k <= Len(data)
    <3>1. Code(x) \in Seq(Byte) /\ x.value \in AnyValue
      BY <2>3, CodeType, ReadableValue
    <3>2. QED
      BY <2>2, <2>4, <2>6, <3>1, SequenceParts
  <2>10. /\ r[i].ok = TRUE /\ r[i].cursor = p[m + i] /\ r[i].result = s.result
         /\ r[i].group = Append(ValuesAt(reads, m, i - 1), x.value)
    <3>1. /\ Advanced(t, x.value, k).ok = t.ok /\ Advanced(t, x.value, k).cursor = t.cursor + k
          /\ Advanced(t, x.value, k).group = Append(t.group, x.value)
          /\ Advanced(t, x.value, k).result = t.result
      BY <2>2, <2>9, AdvancedType
    <3> HIDE DEF k
    <3>2. QED
      BY <2>2, <2>4, <2>8, <3>1
  <2>11. Append(ValuesAt(reads, m, i - 1), x.value) = ValuesAt(reads, m, i)
    <3>1. Append(ValuesAt(reads, m, i - 1), reads[m + (i - 1) + 1].value) = ValuesAt(reads, m, (i - 1) + 1)
      BY <2>1, ValuesNext
    <3>2. QED
      BY <2>1, <3>1 DEF x
  <2>12. QED
    BY <2>1, <2>10, <2>11 DEF ReadOn
<1>3. \A i \in 0 .. count : i \in P
  <2> HIDE DEF P
  <2>1. QED
    BY <1>1, <1>2, IntervalInduction
<1>4. count \in 0 .. count
  OBVIOUS
<1>5. QED
  BY <1>3, <1>4

EntryRead(u, s, p, reads, m, count) ==
  /\ u.ok = TRUE /\ u.cursor = p[m + count]
  /\ u.result = Append(s.result, [bare |-> count = 1, values |-> ValuesAt(reads, m, count)])

LEMMA EntryDecodes ==
  ASSUME NEW data \in Seq(Byte), NEW reads \in Seq(Readable), NEW p, NEW m \in Nat,
         NEW count \in Nat, NEW tag \in KnownTags, Ahead(data, reads, p, m, count, tag),
         NEW s \in State(data), s.ok = TRUE, s.cursor = p[m],
         NEW u, u = UnpackEntry(data, s, [tag |-> tag, count |-> count])
  PROVE  EntryRead(u, s, p, reads, m, count)
<1>1. PICK r : ElementStates(r, data, tag, s, count) /\ u = GroupDone(r[count], count)
  <2>1. \E r : /\ ElementStates(r, data, tag, s, count)
               /\ UnpackEntry(data, s, [tag |-> tag, count |-> count]) = GroupDone(r[count], count)
    BY EntryLoop
  <2>2. QED
    BY <2>1
<1>2. /\ r[count].ok = TRUE /\ r[count].cursor = p[m + count]
      /\ r[count].group = ValuesAt(reads, m, count) /\ r[count].result = s.result
  <2>1. ReadOn(r[count], s, p, reads, m, count)
    BY <1>1, ElementsDecode
  <2>2. QED
    BY <2>1 DEF ReadOn
<1>3. r[count] \in State(data)
  <2>1. count \in 0 .. count
    OBVIOUS
  <2>2. QED
    BY <1>1, <2>1 DEF ElementStates
<1>4. /\ u.ok = r[count].ok /\ u.cursor = r[count].cursor
      /\ u.result = Append(r[count].result, [bare |-> count = 1, values |-> r[count].group])
  <2> DEFINE t == r[count]
  <2> HIDE DEF t
  <2>1. /\ GroupDone(t, count).ok = t.ok /\ GroupDone(t, count).cursor = t.cursor
        /\ GroupDone(t, count).result = Append(t.result, [bare |-> count = 1, values |-> t.group])
    BY <1>3, GroupDoneType DEF t
  <2>2. u = GroupDone(t, count)
    BY <1>1 DEF t
  <2>3. QED
    BY <2>1, <2>2 DEF t
<1>5. QED
  BY <1>2, <1>4 DEF EntryRead

\* An entry of one element whose code does not end within the data.
LEMMA EntryCut ==
  ASSUME NEW data \in Seq(Byte), NEW reads \in Seq(Readable), NEW p, Lies(p, reads, data),
         NEW m \in 1 .. Len(reads), ~ (p[m] <= Len(data)),
         NEW s \in State(data), s.ok = TRUE, s.cursor = p[m - 1],
         NEW u, u = UnpackEntry(data, s, [tag |-> reads[m].tag, count |-> 1])
  PROVE  u.ok = FALSE
<1> DEFINE x == reads[m]
           tag == reads[m].tag
           s0 == [s EXCEPT !.group = <<>>]
<1>1. x \in Readable /\ tag \in KnownTags
  <2>1. x \in Readable
    BY SequenceParts
  <2>2. QED
    BY <2>1, ReadableTags DEF KnownTags
<1>2. PICK r : ElementStates(r, data, tag, s, 1) /\ u = GroupDone(r[1], 1)
  <2>1. 1 \in Nat /\ u = UnpackEntry(data, s, [tag |-> tag, count |-> 1])
    OBVIOUS
  <2> HIDE DEF tag
  <2>2. \E r : /\ ElementStates(r, data, tag, s, 1)
               /\ UnpackEntry(data, s, [tag |-> tag, count |-> 1]) = GroupDone(r[1], 1)
    BY <1>1, <2>1, EntryLoop
  <2>3. QED
    BY <2>1, <2>2
<1>3. s0 \in State(data) /\ s0.ok = TRUE /\ s0.cursor = p[m - 1]
  BY EmptyGroup
<1>4. r[1] = NextElement(data, tag, s0) /\ r[1] \in State(data)
  <2>1. 1 \in 1 .. 1 /\ 1 - 1 = 0 /\ 1 \in 0 .. 1
    OBVIOUS
  <2>2. QED
    BY <1>2, <2>1 DEF ElementStates
<1>5. p[m] = p[m - 1] + Len(Code(x)) /\ Begins(data, p[m - 1], Code(x))
  BY DEF Lies
<1> HIDE DEF s0
<1>6. Decodes(data, s0, x, NextElement(data, tag, s0))
  BY <1>1, <1>3, <1>5, DecodeElement
<1>7. r[1].ok = FALSE
  BY <1>3, <1>4, <1>5, <1>6 DEF Decodes
<1>8. u.ok = r[1].ok
  <2> DEFINE t == r[1]
  <2> HIDE DEF t
  <2>1. GroupDone(t, 1).ok = t.ok
    BY <1>4, GroupDoneType DEF t
  <2>2. QED
    BY <1>2, <2>1 DEF t
<1>9. QED
  BY <1>7, <1>8

-----------------------------------------------------------------------------
(* A schema that fits what lies in the data.                                *)

\* What ss[k] becomes a part of.
PartOf(f, ss, k) ==
  /\ Len(f[k]) = Len(f[k - 1]) + Len(ss[k]) /\ Len(f[k]) <= Len(f[Len(ss)])
  /\ \A j \in 1 .. Len(ss[k]) : f[Len(ss)][Len(f[k - 1]) + j] = ss[k][j]

LEMMA FlattenParts ==
  ASSUME NEW S, NEW ss \in Seq(Seq(S)), NEW f, Flattens(f, ss, S), NEW k \in 1 .. Len(ss)
  PROVE  PartOf(f, ss, k)
<1> DEFINE n == Len(ss) - k
           P == {i \in 0 .. n : /\ Len(f[k]) <= Len(f[k + i])
                                /\ \A j \in 1 .. Len(f[k]) : f[k + i][j] = f[k][j]}
<1>1. n \in Nat /\ k + n = Len(ss) /\ k \in Nat /\ Len(ss) \in Nat
  OBVIOUS
<1>2. \A i \in 0 .. Len(ss) : f[i] \in Seq(S) /\ Len(f[i]) \in Nat
  <2>1. \A i \in 0 .. Len(ss) : f[i] \in Seq(S)
    BY DEF Flattens
  <2>2. QED
    BY <2>1, SequenceParts
<1>3. \A i \in 1 .. Len(ss) : ss[i] \in Seq(S)
  BY SequenceParts
<1>4. 0 \in P
  <2>1. k + 0 = k /\ 0 \in 0 .. n /\ k \in 0 .. Len(ss)
    BY <1>1
  <2>2. QED
    BY <1>2, <2>1
<1>5. ASSUME NEW i \in 1 .. n, i - 1 \in P PROVE i \in P
  <2>1. k + i \in 1 .. Len(ss) /\ (k + i) - 1 = k + (i - 1) /\ i \in 0 .. n
        /\ k + (i - 1) \in 0 .. Len(ss) /\ k + i \in 0 .. Len(ss) /\ k \in 0 .. Len(ss)
    BY <1>1
  <2> DEFINE a == f[k + (i - 1)]
             b == ss[k + i]
  <2>2. f[k + i] = a \o b /\ a \in Seq(S) /\ b \in Seq(S)
    BY <1>2, <1>3, <2>1 DEF Flattens
  <2>3. Len(f[k]) <= Len(a) /\ \A j \in 1 .. Len(f[k]) : a[j] = f[k][j]
    BY <1>5
  <2> HIDE DEF a, b
  <2>4. Len(a) \in Nat /\ Len(b) \in Nat /\ Len(f[k]) \in Nat
    BY <1>2, <2>1, <2>2, SequenceParts
  <2>5. Len(a \o b) = Len(a) + Len(b) /\ \A j \in 1 .. Len(a) : (a \o b)[j] = a[j]
    BY <2>2, ConcatParts
  <2>6. Len(f[k]) <= Len(a \o b)
    BY <2>3, <2>4, <2>5
  <2>7. ASSUME NEW j \in 1 .. Len(f[k]) PROVE (a \o b)[j] = f[k][j]
    <3>1. j \in 1 .. Len(a)
      BY <2>3, <2>4
    <3>2. QED
      BY <2>3, <2>5, <3>1
  <2>8. QED
    BY <2>1, <2>2, <2>6, <2>7
<1>6. \A i \in 0 .. n : i \in P
  <2> HIDE DEF P, n
  <2>1. QED
    BY <1>1, <1>4, <1>5, IntervalInduction
<1>7. /\ Len(f[k]) <= Len(f[Len(ss)])
      /\ \A j \in 1 .. Len(f[k]) : f[Len(ss)][j] = f[k][j]
  <2>1. n \in 0 .. n
    BY <1>1
  <2>2. n \in P
    BY <1>6, <2>1
  <2>3. QED
    BY <1>1, <2>2
<1> HIDE DEF P, n
<1> DEFINE a == f[k - 1]
           b == ss[k]
<1>8. f[k] = a \o b /\ a \in Seq(S) /\ b \in Seq(S) /\ Len(a) \in Nat /\ Len(b) \in Nat
  <2>1. k - 1 \in 0 .. Len(ss)
    BY <1>1
  <2>2. f[k] = a \o b /\ a \in Seq(S) /\ b \in Seq(S)
    BY <1>2, <1>3, <2>1 DEF Flattens
  <2>3. QED
    BY <2>2, SequenceParts
<1> HIDE DEF a, b
<1>9. Len(f[k]) = Len(a) + Len(b) /\ \A j \in 1 .. Len(b) : f[k][Len(a) + j] = b[j]
  BY <1>8, ConcatParts
<1>10. ASSUME NEW j \in 1 .. Len(b) PROVE f[Len(ss)][Len(a) + j] = b[j]
  <2>1. Len(a) + j \in 1 .. Len(f[k])
    BY <1>8, <1>9
  <2>2. QED
    BY <1>7, <1>9, <2>1
<1>11. QED
  BY <1>7, <1>9, <1>10 DEF a, b, PartOf

LEMMA FlatAppend ==
  ASSUME NEW groups \in Seq(Groups), NEW values \in Seq(AnyValue), NEW bare \in BOOLEAN
  PROVE  Flat(Append(groups, [bare |-> bare, values |-> values])) = Flat(groups) \o values
<1> DEFINE g == [bare |-> bare, values |-> values]
           n == Len(groups)
           a == [i \in 1 .. n |-> groups[i].values]
           more == Append(groups, g)
           b == [i \in 1 .. Len(more) |-> more[i].values]
           one == <<values>>
<1>1. g \in Groups /\ g.values = values
  BY DEF Groups
<1> HIDE DEF g
<1>2. n \in Nat /\ \A i \in 1 .. n : groups[i] \in Groups /\ groups[i].values \in Seq(AnyValue)
  <2>1. n \in Nat /\ \A i \in 1 .. n : groups[i] \in Groups
    BY SequenceParts
  <2>2. \A x \in Groups : x.values \in Seq(AnyValue)
    BY DEF Groups
  <2>3. QED
    BY <2>1, <2>2
<1>3. /\ more \in Seq(Groups) /\ Len(more) = n + 1 /\ more[n + 1] = g
      /\ \A i \in 1 .. n : more[i] = groups[i]
  <2>1. Len(more) = n + 1 /\ more \in Seq(Groups) /\ more[n + 1] = g
    BY <1>1, AppendProperties, Zenon
  <2>2. \A i \in 1 .. n : more[i] = groups[i]
    <3> HIDE DEF g
    <3>1. g \in Groups
      BY <1>1
    <3>2. QED
      BY <3>1
  <2>3. QED
    BY <2>1, <2>2
<1>4. a \in Seq(Seq(AnyValue)) /\ Len(a) = n /\ \A i \in 1 .. n : a[i] = groups[i].values
  <2>1. a \in [1 .. n -> Seq(AnyValue)] /\ \A i \in 1 .. n : a[i] = groups[i].values
    BY <1>2
  <2> HIDE DEF a, n
  <2>2. QED
    BY <1>2, <2>1, FunctionSequence
<1>5. one \in Seq(Seq(AnyValue)) /\ Len(one) = 1 /\ one[1] = values
  OBVIOUS
<1> HIDE DEF one, more, a, n
<1>6. b \in Seq(Seq(AnyValue)) /\ Len(b) = n + 1 /\ \A i \in 1 .. n + 1 : b[i] = more[i].values
  <2>1. n + 1 \in Nat /\ \A i \in 1 .. n + 1 : more[i] \in Groups
    BY <1>2, <1>3, SequenceParts
  <2>2. \A x \in Groups : x.values \in Seq(AnyValue)
    BY DEF Groups
  <2>3. b \in [1 .. n + 1 -> Seq(AnyValue)] /\ \A i \in 1 .. n + 1 : b[i] = more[i].values
    BY <1>3, <2>1, <2>2
  <2> HIDE DEF b
  <2>4. QED
    BY <2>1, <2>3, FunctionSequence
<1> HIDE DEF b
<1>7. /\ a \o one \in Seq(Seq(AnyValue)) /\ Len(a \o one) = n + 1
      /\ \A i \in 1 .. n : (a \o one)[i] = a[i]
      /\ (a \o one)[n + 1] = values
  <2>1. /\ a \o one \in Seq(Seq(AnyValue)) /\ Len(a \o one) = Len(a) + Len(one)
        /\ \A i \in 1 .. Len(a) : (a \o one)[i] = a[i]
        /\ \A i \in 1 .. Len(one) : (a \o one)[Len(a) + i] = one[i]
    <3>1. a \in Seq(Seq(AnyValue)) /\ one \in Seq(Seq(AnyValue))
      BY <1>4, <1>5
    <3>2. a \o one \in Seq(Seq(AnyValue)) /\ Len(a \o one) = Len(a) + Len(one)
      BY <3>1
    <3>3. \A i \in 1 .. Len(a) : (a \o one)[i] = a[i]
      BY <3>1
    <3>4. \A i \in 1 .. Len(one) : (a \o one)[Len(a) + i] = one[i]
      BY <3>1
    <3>5. QED
      BY <3>2, <3>3, <3>4
  <2>2. 1 \in 1 .. Len(one)
    BY <1>5
  <2>3. QED
    BY <1>4, <1>5, <2>1, <2>2
<1>8. ASSUME NEW i \in 1 .. n + 1 PROVE b[i] = (a \o one)[i]
  <2>1. CASE i \in 1 .. n
    BY <1>3, <1>4, <1>6, <1>7, <2>1
  <2>2. CASE i \notin 1 .. n
    <3>1. i = n + 1
      BY <1>2, <2>2
    <3>2. QED
      BY <1>1, <1>3, <1>6, <1>7, <3>1
  <2>3. QED
    BY <2>1, <2>2
<1>9. b = a \o one
  BY <1>6, <1>7, <1>8, SeqEqual
<1>10. FlattenSeq(a \o one) = FlattenSeq(a) \o FlattenSeq(one)
  BY <1>4, <1>5, FlattenConcat
<1>11. FlattenSeq(one) = values
  BY FlattenOne DEF one
<1>12. Flat(more) = FlattenSeq(b) /\ Flat(groups) = FlattenSeq(a)
  BY DEF Flat, a, b, n
<1>13. QED
  BY <1>9, <1>10, <1>11, <1>12 DEF more, g

\* The tags of a schema, entry by entry.
Repeated(schema) ==
  [i \in 1 .. Len(schema) |-> [j \in 1 .. schema[i].count |-> schema[i].tag]]

LEMMA RepeatedType ==
  ASSUME NEW T, NEW schema \in Seq(Entries(T))
  PROVE  /\ Repeated(schema) \in Seq(Seq(T)) /\ Len(Repeated(schema)) = Len(schema)
         /\ TagsOf(schema) = FlattenSeq(Repeated(schema))
         /\ \A i \in 1 .. Len(schema) :
              /\ schema[i].count \in Nat /\ schema[i].tag \in T
              /\ schema[i] = [tag |-> schema[i].tag, count |-> schema[i].count]
              /\ Len(Repeated(schema)[i]) = schema[i].count
              /\ \A j \in 1 .. schema[i].count : Repeated(schema)[i][j] = schema[i].tag
<1>1. Len(schema) \in Nat /\ \A i \in 1 .. Len(schema) : schema[i] \in Entries(T)
  BY SequenceParts
<1>2. ASSUME NEW e \in Entries(T)
      PROVE  e.count \in Nat /\ e.tag \in T /\ e = [tag |-> e.tag, count |-> e.count]
  BY DEF Entries
<1>3. ASSUME NEW c \in Nat, NEW t \in T
      PROVE  LET r == [j \in 1 .. c |-> t]
             IN  r \in Seq(T) /\ Len(r) = c /\ \A j \in 1 .. c : r[j] = t
  <2> DEFINE r == [j \in 1 .. c |-> t]
  <2>1. r \in [1 .. c -> T] /\ \A j \in 1 .. c : r[j] = t
    OBVIOUS
  <2> HIDE DEF r
  <2>2. r \in Seq(T) /\ Len(r) = c /\ \A j \in 1 .. c : r[j] = t
    BY <2>1, FunctionSequence
  <2>3. QED
    BY <2>2 DEF r
<1> DEFINE R == Repeated(schema)
<1>4. \A i \in 1 .. Len(schema) : R[i] = [j \in 1 .. schema[i].count |-> schema[i].tag]
  BY DEF Repeated
<1>5. \A i \in 1 .. Len(schema) :
              /\ schema[i].count \in Nat /\ schema[i].tag \in T
              /\ schema[i] = [tag |-> schema[i].tag, count |-> schema[i].count]
  BY <1>1, <1>2
<1>6. \A i \in 1 .. Len(schema) :
              /\ R[i] \in Seq(T) /\ Len(R[i]) = schema[i].count
              /\ \A j \in 1 .. schema[i].count : R[i][j] = schema[i].tag
  <2> TAKE i \in 1 .. Len(schema)
  <2> DEFINE c == schema[i].count
             t == schema[i].tag
  <2>1. c \in Nat /\ t \in T /\ R[i] = [j \in 1 .. c |-> t]
    BY <1>4, <1>5
  <2> HIDE DEF c, t, R
  <2>2. QED
    BY <1>3, <2>1 DEF c, t
<1>7. R \in Seq(Seq(T)) /\ Len(R) = Len(schema)
  <2>1. R = [i \in 1 .. Len(schema) |-> R[i]]
    BY DEF Repeated
  <2> HIDE DEF R
  <2>2. R \in [1 .. Len(schema) -> Seq(T)]
    BY <1>6, <2>1
  <2>3. QED
    BY <1>1, <2>2, FunctionSequence
<1>8. TagsOf(schema) = FlattenSeq(R)
  BY DEF TagsOf, Repeated
<1>9. QED
  BY <1>5, <1>6, <1>7, <1>8

\* read_mixed gives the values whose tags its schema has.
Fits(data, reads, p, schema) ==
  LET n == Len(TagsOf(schema)) IN
  /\ Lies(p, reads, data) /\ n <= Len(reads) /\ p[n] <= Len(data)
  /\ \A i \in 1 .. n : TagsOf(schema)[i] = reads[i].tag

LEMMA SchemaDecodes ==
  ASSUME NEW data \in Seq(Byte), NEW reads \in Seq(Readable), NEW p,
         NEW schema \in Seq(Entries(KnownTags)), Fits(data, reads, p, schema)
  PROVE  LET n == Len(TagsOf(schema))
             x == UnpackMixed(data, schema)
         IN  x.ok = TRUE /\ x.used = p[n] /\ Flat(x.groups) = ValuesAt(reads, 0, n)
<1> DEFINE R == Repeated(schema)
           m == Len(schema)
<1>1. /\ R \in Seq(Seq(KnownTags)) /\ Len(R) = m /\ TagsOf(schema) = FlattenSeq(R)
      /\ \A i \in 1 .. m :
           /\ schema[i].count \in Nat /\ schema[i].tag \in KnownTags
           /\ schema[i] = [tag |-> schema[i].tag, count |-> schema[i].count]
           /\ Len(R[i]) = schema[i].count
           /\ \A j \in 1 .. schema[i].count : R[i][j] = schema[i].tag
  BY RepeatedType
<1>2. m \in Nat
  OBVIOUS
<1> HIDE DEF R, m
<1>3. PICK f : Flattens(f, R, KnownTags) /\ FlattenSeq(R) = f[Len(R)]
  BY <1>1, FlattenLoop
<1>4. PICK e : EntryStates(e, data, schema) /\ UnpackMixed(data, schema) = Outcome(e[m])
  BY SchemaLoop DEF m
<1> DEFINE n == Len(f[m])
<1>5. /\ Lies(p, reads, data) /\ n <= Len(reads) /\ p[n] <= Len(data)
      /\ \A i \in 1 .. n : f[m][i] = reads[i].tag
      /\ TagsOf(schema) = f[m]
  BY <1>1, <1>3 DEF Fits
<1>6. \A i \in 0 .. m : f[i] \in Seq(KnownTags) /\ Len(f[i]) \in Nat
  <2>1. \A i \in 0 .. m : f[i] \in Seq(KnownTags)
    BY <1>1, <1>3 DEF Flattens
  <2>2. QED
    BY <2>1, SequenceParts
<1>7. n \in Nat
  <2>1. m \in 0 .. m
    BY <1>2
  <2>2. QED
    BY <1>6, <2>1
<1>8. p \in [0 .. Len(reads) -> Nat] /\ p[0] = 0 /\ Len(reads) \in Nat /\ Len(data) \in Nat
  BY <1>5, SequenceParts DEF Lies
<1> DEFINE Done(s, k) == /\ s.ok = TRUE /\ s.cursor = p[k]
                         /\ Flat(s.result) = ValuesAt(reads, 0, k)
           P == {i \in 0 .. m : Done(e[i], Len(f[i]))}
<1>9. \A i \in 0 .. m : e[i] \in State(data)
  BY <1>4 DEF EntryStates, m
<1>10. 0 \in P
  <2>1. f[0] = <<>> /\ e[0] = Reading /\ 0 \in 0 .. m
    BY <1>2, <1>3, <1>4 DEF Flattens, EntryStates
  <2>2. e[0].ok = TRUE /\ e[0].cursor = 0 /\ e[0].result = <<>>
    BY <2>1 DEF Reading
  <2>3. Flat(<<>>) = <<>>
    <3>1. [i \in 1 .. Len(<<>>) |-> <<>>[i].values] = <<>>
      OBVIOUS
    <3>2. QED
      BY <3>1, FlattenEmpty DEF Flat
  <2>4. ValuesAt(reads, 0, 0) = <<>> /\ Len(<<>>) = 0
    BY DEF ValuesAt
  <2>5. QED
    BY <1>8, <2>1, <2>2, <2>3, <2>4
<1>11. ASSUME NEW i \in 1 .. m, i - 1 \in P PROVE i \in P
  <2> DEFINE s == e[i - 1]
             k == Len(f[i - 1])
             count == schema[i].count
             tag == schema[i].tag
             u == e[i]
  <2>1. i \in 0 .. m /\ i - 1 \in 0 .. m /\ i \in 1 .. Len(R) /\ m \in 0 .. m
    BY <1>1, <1>2
  <2>2. s \in State(data) /\ s.ok = TRUE /\ s.cursor = p[k] /\ Flat(s.result) = ValuesAt(reads, 0, k)
    BY <1>4, <1>9, <1>11, <2>1
  <2>3. /\ count \in Nat /\ tag \in KnownTags /\ schema[i] = [tag |-> tag, count |-> count]
        /\ Len(R[i]) = count /\ \A j \in 1 .. count : R[i][j] = tag
    BY <1>1
  <2>4. u = UnpackEntry(data, s, schema[i])
    BY <1>4 DEF EntryStates, m
  <2>5. k \in Nat /\ Len(f[i]) \in Nat
    BY <1>6, <2>1
  <2>6. /\ Len(f[i]) = k + count /\ Len(f[i]) <= n
        /\ \A j \in 1 .. count : f[m][k + j] = tag
    <3>1. /\ Len(f[i]) = k + Len(R[i]) /\ Len(f[i]) <= Len(f[Len(R)])
          /\ \A j \in 1 .. Len(R[i]) : f[Len(R)][k + j] = R[i][j]
      <4>1. PartOf(f, R, i)
        BY <1>1, <1>3, <2>1, FlattenParts
      <4>2. QED
        BY <4>1 DEF PartOf
    <3>2. QED
      BY <1>1, <2>3, <3>1
  <2> HIDE DEF s, k, count, tag, u, n, P
  <2>7. /\ k + count \in Nat /\ k + count <= n /\ k + count <= Len(reads)
        /\ k + count \in 0 .. Len(reads) /\ n \in k + count .. Len(reads)
        /\ 0 + k + count <= Len(reads) /\ 0 + k = k
    BY <1>5, <1>7, <1>8, <2>3, <2>5, <2>6
  <2>8. p[k + count] <= Len(data)
    <3>1. p[k + count] <= p[n]
      BY <1>5, <2>7, LiesInOrder
    <3>2. n \in 0 .. Len(reads)
      BY <1>5, <1>7, <1>8
    <3>3. p[k + count] \in Nat /\ p[n] \in Nat
      BY <1>8, <2>7, <3>2
    <3>4. QED
      BY <1>5, <1>8, <3>1, <3>3
  <2>9. \A j \in 1 .. count : reads[k + j].tag = tag
    <3> TAKE j \in 1 .. count
    <3>1. k + j \in 1 .. n
      BY <1>7, <2>3, <2>5, <2>7
    <3>2. f[m][k + j] = reads[k + j].tag
      BY <1>5, <3>1
    <3>3. QED
      BY <2>6, <3>2
  <2>10. Ahead(data, reads, p, k, count, tag)
    BY <1>5, <2>7, <2>8, <2>9 DEF Ahead
  <2>11. u = UnpackEntry(data, s, [tag |-> tag, count |-> count])
    BY <2>3, <2>4
  <2> DEFINE v == ValuesAt(reads, k, count)
             bare == (count = 1)
  <2>12. /\ u.ok = TRUE /\ u.cursor = p[k + count]
         /\ u.result = Append(s.result, [bare |-> bare, values |-> v])
    <3> HIDE DEF v, bare
    <3>1. EntryRead(u, s, p, reads, k, count)
      BY <2>2, <2>3, <2>5, <2>10, <2>11, EntryDecodes
    <3>2. QED
      BY <3>1 DEF EntryRead, v, bare
  <2>13. v \in Seq(AnyValue)
    BY <2>3, <2>5, <2>7, ValuesType
  <2>14. s.result \in Seq(Groups) /\ bare \in BOOLEAN
    BY <2>2 DEF State
  <2> HIDE DEF v, bare
  <2>15. Flat(u.result) = Flat(s.result) \o v
    BY <2>12, <2>13, <2>14, FlatAppend
  <2>16. ValuesAt(reads, 0, k) \o ValuesAt(reads, 0 + k, count) = ValuesAt(reads, 0, k + count)
    <3>1. 0 \in Nat
      OBVIOUS
    <3>2. QED
      <4>1. ValuesMeet(reads, 0, k, count)
        BY <2>3, <2>5, <2>7, <3>1, ValuesJoin
      <4>2. QED
        BY <4>1 DEF ValuesMeet
  <2>17. Flat(u.result) = ValuesAt(reads, 0, k + count)
    BY <2>2, <2>7, <2>15, <2>16 DEF v
  <2>18. Done(u, Len(f[i]))
    BY <2>6, <2>12, <2>17
  <2>19. QED
    BY <2>1, <2>18 DEF P, u
<1>12. \A i \in 0 .. m : i \in P
  <2> HIDE DEF P
  <2>1. QED
    BY <1>2, <1>10, <1>11, IntervalInduction
<1>13. Done(e[m], n)
  <2>1. m \in 0 .. m
    BY <1>2
  <2>2. QED
    BY <1>12, <2>1
<1>14. /\ Outcome(e[m]).ok = TRUE /\ Outcome(e[m]).used = p[n]
       /\ Outcome(e[m]).groups = e[m].result
  BY <1>13 DEF Outcome
<1> HIDE DEF n
<1>15. QED
  BY <1>4, <1>5, <1>13, <1>14 DEF n

\* Data that ends before the last code does.
LEMMA SchemaCut ==
  ASSUME NEW data \in Seq(Byte), NEW reads \in Seq(Readable), NEW p, Lies(p, reads, data),
         ~ (p[Len(reads)] <= Len(data))
  PROVE  UnpackMixed(data, [i \in 1 .. Len(reads) |-> [tag |-> reads[i].tag, count |-> 1]]).ok = FALSE
<1> DEFINE n == Len(reads)
           schema == [i \in 1 .. n |-> [tag |-> reads[i].tag, count |-> 1]]
<1>1. n \in Nat /\ Len(data) \in Nat /\ \A i \in 1 .. n : reads[i] \in Readable /\ reads[i].tag \in KnownTags
  <2>1. n \in Nat /\ Len(data) \in Nat /\ \A i \in 1 .. n : reads[i] \in Readable
    BY SequenceParts
  <2>2. QED
    BY <2>1, ReadableTags DEF KnownTags
<1>2. schema \in [1 .. n -> Entries(KnownTags)]
      /\ \A i \in 1 .. n : schema[i] = [tag |-> reads[i].tag, count |-> 1]
  BY <1>1 DEF Entries
<1>3. p \in [0 .. n -> Nat] /\ p[0] = 0
  BY DEF Lies
<1> HIDE DEF schema, n
<1>4. schema \in Seq(Entries(KnownTags)) /\ Len(schema) = n
  BY <1>1, <1>2, FunctionSequence
<1>5. PICK e : EntryStates(e, data, schema) /\ UnpackMixed(data, schema) = Outcome(e[n])
  BY <1>4, SchemaLoop
<1>6. /\ e[0] = Reading /\ \A i \in 1 .. n : e[i] = UnpackEntry(data, e[i - 1], schema[i])
      /\ \A i \in 0 .. n : e[i] \in State(data)
  BY <1>4, <1>5 DEF EntryStates
<1> DEFINE P == {i \in 0 .. n : e[i].ok = TRUE => e[i].cursor = p[i]}
<1>7. 0 \in P
  BY <1>1, <1>3, <1>6 DEF Reading
<1>8. ASSUME NEW i \in 1 .. n, i - 1 \in P PROVE i \in P
  <2> DEFINE s == e[i - 1]
             u == e[i]
             m == i - 1
             tag == reads[i].tag
  <2>1. i \in 0 .. n /\ m \in 0 .. n /\ m \in Nat /\ m + 1 = i /\ 1 \in Nat /\ m + 1 <= n
    BY <1>1
  <2>2. s \in State(data) /\ u \in State(data) /\ (s.ok = TRUE => s.cursor = p[m])
    BY <1>6, <1>8, <2>1
  <2>3. u = UnpackEntry(data, s, schema[i]) /\ schema[i] = [tag |-> tag, count |-> 1]
    BY <1>2, <1>6
  <2>4. tag \in KnownTags /\ schema[i] \in Entries(KnownTags)
    BY <1>1, <1>2
  <2>5. s.ok = FALSE => u.ok = FALSE
    BY <2>2, <2>3, <2>4, UnpackEntryType
  <2>6. s.ok \in BOOLEAN
    BY <2>2 DEF State
  <2>7. CASE s.ok = TRUE /\ p[i] <= Len(data)
    <3>1. \A j \in 1 .. 1 : reads[m + j].tag = tag
      <4>1. \A j \in 1 .. 1 : j = 1
        OBVIOUS
      <4>2. QED
        BY <2>1, <4>1
    <3> HIDE DEF s, u, m, tag
    <3>2. Ahead(data, reads, p, m, 1, tag)
      BY <2>1, <2>7, <3>1 DEF Ahead, n
    <3>3. u = UnpackEntry(data, s, [tag |-> tag, count |-> 1])
      BY <2>3
    <3>4. EntryRead(u, s, p, reads, m, 1)
      BY <2>1, <2>2, <2>4, <2>7, <3>2, <3>3, EntryDecodes
    <3>5. u.cursor = p[i]
      BY <2>1, <3>4 DEF EntryRead
    <3>6. QED
      BY <2>1, <3>5 DEF u
  <2>8. CASE s.ok = TRUE /\ ~ (p[i] <= Len(data))
    <3> HIDE DEF s, u
    <3>1. i \in 1 .. Len(reads) /\ s.cursor = p[i - 1]
      BY <2>2, <2>8 DEF n
    <3>2. u = UnpackEntry(data, s, [tag |-> reads[i].tag, count |-> 1])
      BY <2>3
    <3>3. u.ok = FALSE
      BY <2>2, <2>8, <3>1, <3>2, EntryCut
    <3>4. QED
      BY <2>1, <3>3 DEF u
  <2>9. QED
    BY <2>1, <2>5, <2>6, <2>7, <2>8
<1>9. \A i \in 0 .. n : i \in P
  <2> HIDE DEF P
  <2>1. QED
    BY <1>1, <1>7, <1>8, IntervalInduction
<1>10. n \in 0 .. n
  BY <1>1
<1>11. e[n].ok = FALSE
  <2>1. e[n] \in State(data) /\ (e[n].ok = TRUE => e[n].cursor = p[n])
    BY <1>6, <1>9, <1>10
  <2>2. e[n].ok \in BOOLEAN /\ e[n].cursor \in 0 .. Len(data)
    BY <2>1 DEF State
  <2>3. ~ (p[n] <= Len(data))
    BY DEF n
  <2>4. QED
    BY <1>1, <2>1, <2>2, <2>3
<1>12. UnpackMixed(data, schema).ok = FALSE
  BY <1>5, <1>11 DEF Outcome
<1>13. QED
  BY <1>12 DEF schema, n

\* read gives the value whose code begins at the cursor.
LEMMA OneReads ==
  ASSUME NEW data \in Seq(Byte), NEW c \in Nat, NEW r \in Readable,
         NEW tag \in {r.tag, Alias(r.tag)},
         Begins(data, c, Code(r)), c + Len(Code(r)) <= Len(data)
  PROVE  UnpackOne(Left(data, c), tag) = ReadAs(r.value, Len(Code(r)))
<1> DEFINE s == [ok |-> TRUE, cursor |-> c, group |-> <<>>, result |-> <<>>]
           k == Len(Code(r))
           one == UnpackOne(Left(data, c), tag)
           next == NextElement(data, tag, s)
<1>1. k \in Nat /\ Len(data) \in Nat /\ c \in 0 .. Len(data) /\ r.value \in AnyValue
  <2>1. Code(r) \in Seq(Byte)
    BY CodeType
  <2>2. k \in Nat /\ Len(data) \in Nat
    BY <2>1, SequenceParts
  <2> HIDE DEF k
  <2>3. c + k <= Len(data)
    BY DEF k
  <2>4. QED
    BY <2>2, <2>3, ReadableValue
<1>2. tag \in KnownTags
  BY ReadableTags DEF KnownTags, Alias
<1>3. s \in State(data) /\ s.ok = TRUE /\ s.cursor = c /\ s.group = <<>> /\ s.result = <<>>
  BY <1>1 DEF State
<1> HIDE DEF s
<1>4. Begins(data, s.cursor, Code(r)) /\ s.cursor + k <= Len(data)
  BY <1>3
<1>5. next = Advanced(s, r.value, k)
  <2>1. Decodes(data, s, r, next)
    BY <1>3, <1>4, DecodeElement
  <2>2. QED
    BY <1>4, <2>1 DEF Decodes
<1>6. Agree(one, data, s, next)
  <2>1. Agree(UnpackOne(Left(data, s.cursor), tag), data, s, next)
    BY <1>2, <1>3, ElementsAgree
  <2>2. QED
    BY <1>3, <2>1
<1> HIDE DEF next, one, k
<1>7. next.ok = TRUE /\ next.cursor = c + k /\ next.group = Append(<<>>, r.value)
  BY <1>1, <1>3, <1>4, <1>5, AdvancedType
<1>8. PICK v \in AnyValue, n \in Nat :
        one = ReadAs(v, n) /\ s.cursor + n <= Len(data) /\ next = Advanced(s, v, n)
  BY <1>6, <1>7 DEF Agree
<1>9. next.cursor = c + n /\ next.group = Append(<<>>, v)
  BY <1>1, <1>3, <1>8, AdvancedType
<1>10. n = k
  BY <1>1, <1>7, <1>8, <1>9
<1>11. v = r.value
  <2>1. Append(<<>>, v) = <<v>> /\ Append(<<>>, r.value) = <<r.value>>
    OBVIOUS
  <2>2. <<v>>[1] = v /\ <<r.value>>[1] = r.value
    OBVIOUS
  <2>3. <<v>> = <<r.value>>
    BY <1>7, <1>9, <2>1
  <2>4. QED
    BY <2>2, <2>3
<1>12. QED
  BY <1>8, <1>10, <1>11 DEF one, k

-----------------------------------------------------------------------------
(* The stream.  The inductive invariant: the bytes up to the writer's cursor *)
(* are the codes of the values sent, the reader's cursor is where the code   *)
(* of the next value begins, and it has the values before.                   *)

Filled == SubSeq(area, 1, wpos)
ReaderAt(p) == Places(p, sent, Filled) /\ rpos = p[Len(got)]
HasRead ==
  /\ got \in Seq(AnyValue) /\ Len(got) <= Len(sent)
  /\ \A i \in 1 .. Len(got) : got[i] = sent[i].value
StreamInv ==
  /\ area \in [1 .. DataSize -> Byte] /\ wpos \in 0 .. DataSize
  /\ sent \in Seq(Readable)
  /\ HasRead
  /\ \E p : ReaderAt(p)

LEMMA AreaType ==
  ASSUME area \in [1 .. DataSize -> Byte]
  PROVE  area \in Seq(Byte) /\ Len(area) = DataSize /\ DataSize \in Nat
<1>1. DataSize \in Nat
  BY StreamAssumption
<1>2. area \in Seq(Byte) /\ Len(area) = DataSize
  BY <1>1, FunctionSequence
<1>3. QED
  BY <1>1, <1>2

LEMMA FrontPart ==
  ASSUME NEW data \in Seq(Byte), NEW n \in 0 .. Len(data)
  PROVE  /\ SubSeq(data, 1, n) \in Seq(Byte) /\ Len(SubSeq(data, 1, n)) = n
         /\ \A i \in 1 .. n : SubSeq(data, 1, n)[i] = data[i]
<1>1. 0 \in Nat /\ n \in Nat /\ 0 + n <= Len(data) /\ 0 + 1 = 1 /\ 0 + n = n
      /\ \A i \in 1 .. n : 0 + i = i
  BY SequenceParts
<1> DEFINE c == 0
<1>2. /\ SubSeq(data, c + 1, c + n) \in Seq(Byte) /\ Len(SubSeq(data, c + 1, c + n)) = n
      /\ \A i \in 1 .. n : SubSeq(data, c + 1, c + n)[i] = data[c + i]
  <2> HIDE DEF c
  <2>1. c \in Nat /\ c + n <= Len(data)
    BY <1>1 DEF c
  <2>2. QED
    BY <1>1, <2>1, PieceType
<1>3. QED
  BY <1>1, <1>2

\* What lies in the front of the data lies in the data.
LEMMA BeginsIn ==
  ASSUME NEW data \in Seq(Byte), NEW n \in 0 .. Len(data), NEW c \in Nat, NEW code \in Seq(Byte),
         c + Len(code) <= n, Begins(SubSeq(data, 1, n), c, code),
         NEW m \in 0 .. Len(data)
  PROVE  Begins(SubSeq(data, 1, m), c, code) /\ Begins(data, c, code)
<1> DEFINE x == SubSeq(data, 1, n)
           y == SubSeq(data, 1, m)
<1>1. /\ Len(x) = n /\ \A i \in 1 .. n : x[i] = data[i]
      /\ Len(y) = m /\ \A i \in 1 .. m : y[i] = data[i]
      /\ n \in Nat /\ m \in Nat /\ Len(code) \in Nat
  BY FrontPart, SequenceParts
<1>2. Begins(x, c, code)
  OBVIOUS
<1> HIDE DEF x, y
<1>3. ASSUME NEW j \in 1 .. Len(code) PROVE c + j \in 1 .. n /\ data[c + j] = code[j]
  <2>1. c + j \in 1 .. n /\ c + j <= n
    BY <1>1
  <2>2. x[c + j] = code[j]
    BY <1>1, <1>2, <2>1 DEF Begins
  <2>3. QED
    BY <1>1, <2>1, <2>2
<1>4. ASSUME NEW j \in 1 .. Len(code), c + j <= m PROVE y[c + j] = code[j]
  <2>1. c + j \in 1 .. m
    BY <1>1, <1>4
  <2>2. QED
    BY <1>1, <1>3, <2>1
<1>5. Begins(y, c, code)
  BY <1>1, <1>4 DEF Begins
<1>6. Begins(data, c, code)
  BY <1>3 DEF Begins
<1>7. QED
  BY <1>5, <1>6 DEF y

\* What the invariant says of the places, and of the data up to any byte.
LEMMA PlacesFacts ==
  ASSUME area \in [1 .. DataSize -> Byte], wpos \in 0 .. DataSize, sent \in Seq(Readable),
         NEW p, Places(p, sent, Filled)
  PROVE  /\ p \in [0 .. Len(sent) -> Nat] /\ p[0] = 0 /\ p[Len(sent)] = wpos
         /\ \A i \in 1 .. Len(sent) : p[i] = p[i - 1] + Len(Code(sent[i])) /\ p[i] <= wpos
         /\ Lies(p, sent, area)
         /\ \A m \in 0 .. DataSize : Lies(p, sent, SubSeq(area, 1, m))
<1>1. area \in Seq(Byte) /\ Len(area) = DataSize /\ DataSize \in Nat
  BY AreaType
<1>2. Filled \in Seq(Byte) /\ Len(Filled) = wpos
  BY <1>1, FrontPart DEF Filled
<1>3. /\ p \in [0 .. Len(sent) -> Nat] /\ p[0] = 0 /\ p[Len(sent)] = wpos
      /\ \A i \in 1 .. Len(sent) : /\ p[i] = p[i - 1] + Len(Code(sent[i])) /\ p[i] <= wpos
                                   /\ Begins(Filled, p[i - 1], Code(sent[i]))
  BY <1>2 DEF Places
<1>4. ASSUME NEW i \in 1 .. Len(sent), NEW m \in 0 .. DataSize
      PROVE  /\ Begins(SubSeq(area, 1, m), p[i - 1], Code(sent[i]))
             /\ Begins(area, p[i - 1], Code(sent[i]))
  <2> DEFINE c == p[i - 1]
             code == Code(sent[i])
  <2>1. i - 1 \in 0 .. Len(sent)
    BY SequenceParts
  <2>2. c \in Nat /\ c + Len(code) <= wpos /\ Begins(SubSeq(area, 1, wpos), c, code)
    BY <1>3, <2>1 DEF Filled
  <2>3. code \in Seq(Byte)
    BY SequenceParts, CodeType
  <2> HIDE DEF c, code
  <2>4. Begins(SubSeq(area, 1, m), c, code) /\ Begins(area, c, code)
    BY <1>1, <2>2, <2>3, BeginsIn
  <2>5. QED
    BY <2>4 DEF c, code
<1>5. 0 \in 0 .. DataSize
  BY <1>1
<1>6. Lies(p, sent, area)
  BY <1>3, <1>4, <1>5 DEF Lies
<1>7. \A m \in 0 .. DataSize : Lies(p, sent, SubSeq(area, 1, m))
  BY <1>3, <1>4 DEF Lies
<1>8. QED
  BY <1>3, <1>6, <1>7

LEMMA InitStream == Init => StreamInv
<1> SUFFICES ASSUME Init PROVE StreamInv
  OBVIOUS
<1>1. area \in [1 .. DataSize -> Byte] /\ wpos = 0 /\ rpos = 0 /\ sent = <<>> /\ got = <<>>
  BY StreamAssumption DEF Init
<1>2. area \in Seq(Byte) /\ Len(area) = DataSize /\ DataSize \in Nat
  BY <1>1, AreaType
<1>3. wpos \in 0 .. DataSize /\ sent \in Seq(Readable) /\ HasRead
  BY <1>1, <1>2 DEF HasRead
<1>4. Filled = <<>>
  <2>1. Filled \in Seq(Byte) /\ Len(Filled) = 0
    <3>1. 0 \in 0 .. Len(area)
      BY <1>2
    <3>2. QED
      BY <1>1, <1>2, <3>1, FrontPart DEF Filled
  <2>2. QED
    BY <2>1
<1>5. PICK p : Places(p, <<>>, <<>>)
  BY CodedEmpty DEF Coded
<1>6. p[0] = 0 /\ Len(<<>>) = 0
  BY <1>5 DEF Places
<1>7. ReaderAt(p)
  BY <1>1, <1>4, <1>5, <1>6 DEF ReaderAt
<1>8. QED
  BY <1>1, <1>3, <1>7 DEF StreamInv

\* A call that writes the codes of what it says it sends.
LEMMA WrittenStep ==
  ASSUME StreamInv, NEW packed, NEW as, packed.ok => Coded(as, packed.bytes),
         Written(packed, as)
  PROVE  StreamInv'
<1> DEFINE bytes == packed.bytes
           n == Len(bytes)
<1>1. /\ area \in [1 .. DataSize -> Byte] /\ wpos \in 0 .. DataSize
      /\ sent \in Seq(Readable) /\ HasRead
  BY DEF StreamInv
<1>2. PICK p : ReaderAt(p)
  BY DEF StreamInv
<1>3. /\ Coded(as, bytes) /\ wpos + n <= DataSize
      /\ area' = [i \in 1 .. DataSize |->
                    IF i \in wpos + 1 .. wpos + n THEN bytes[i - wpos] ELSE area[i]]
      /\ wpos' = wpos + n /\ sent' = sent \o as /\ rpos' = rpos /\ got' = got
  BY DEF Written, InBounds
<1> HIDE DEF bytes, n
<1>4. as \in Seq(Readable) /\ bytes \in Seq(Byte)
  BY <1>3 DEF Coded
<1>5. n \in Nat /\ DataSize \in Nat /\ wpos \in Nat /\ \A i \in 1 .. n : bytes[i] \in Byte
  BY <1>1, <1>4, AreaType, SequenceParts DEF n
<1>6. area' \in [1 .. DataSize -> Byte] /\ wpos' \in 0 .. DataSize
  <2>1. ASSUME NEW i \in wpos + 1 .. wpos + n PROVE bytes[i - wpos] \in Byte
    <3>1. i - wpos \in 1 .. n
      BY <1>5
    <3>2. QED
      BY <1>5, <3>1
  <2>2. \A i \in 1 .. DataSize : area[i] \in Byte
    BY <1>1
  <2>3. area' \in [1 .. DataSize -> Byte]
    BY <1>3, <2>1, <2>2
  <2>4. wpos' \in 0 .. DataSize
    BY <1>3, <1>5
  <2>5. QED
    BY <2>3, <2>4
<1>7. Joined(Readable, sent, as) /\ sent' \in Seq(Readable)
  <2>1. Joined(Readable, sent, as)
    BY <1>1, <1>4, ConcatJoined
  <2>2. QED
    BY <1>3, <2>1 DEF Joined
<1>8. Filled' = Filled \o bytes
  <2>1. area \in Seq(Byte) /\ Len(area) = DataSize /\ DataSize \in Nat
    BY <1>1, AreaType
  <2>2. area' \in Seq(Byte) /\ Len(area') = DataSize
    BY <1>5, <1>6, FunctionSequence
  <2>3. /\ Filled \in Seq(Byte) /\ Len(Filled) = wpos /\ \A i \in 1 .. wpos : Filled[i] = area[i]
    BY <1>1, <2>1, FrontPart DEF Filled
  <2>4. /\ Filled' \in Seq(Byte) /\ Len(Filled') = wpos + n
        /\ \A i \in 1 .. wpos + n : Filled'[i] = area'[i]
    <3>1. wpos' \in 0 .. Len(area')
      BY <1>6, <2>2
    <3>2. /\ SubSeq(area', 1, wpos') \in Seq(Byte) /\ Len(SubSeq(area', 1, wpos')) = wpos'
          /\ \A i \in 1 .. wpos' : SubSeq(area', 1, wpos')[i] = area'[i]
      BY <2>2, <3>1, FrontPart
    <3>3. QED
      BY <1>3, <3>2 DEF Filled
  <2> DEFINE x == Filled
             y == Filled'
  <2> HIDE DEF x, y
  <2>5. /\ x \o bytes \in Seq(Byte) /\ Len(x \o bytes) = wpos + n
        /\ \A i \in 1 .. wpos : (x \o bytes)[i] = x[i]
        /\ \A i \in 1 .. n : (x \o bytes)[wpos + i] = bytes[i]
    <3>1. Joined(Byte, x, bytes)
      BY <1>4, <2>3, ConcatJoined DEF x
    <3>2. QED
      BY <2>3, <3>1 DEF Joined, n, x
  <2>6. ASSUME NEW i \in 1 .. wpos + n PROVE y[i] = (x \o bytes)[i]
    <3>1. y[i] = area'[i] /\ i \in 1 .. DataSize
      <4>1. y[i] = area'[i]
        BY <2>4 DEF y
      <4>2. i \in 1 .. DataSize
        BY <1>3, <1>5
      <4>3. QED
        BY <4>1, <4>2
    <3>2. CASE i <= wpos
      <4>1. i \in 1 .. wpos /\ i \notin wpos + 1 .. wpos + n
        BY <1>5, <3>2
      <4>2. area'[i] = area[i]
        BY <1>3, <3>1, <4>1
      <4>3. (x \o bytes)[i] = area[i]
        BY <2>3, <2>5, <4>1 DEF x
      <4>4. QED
        BY <3>1, <4>2, <4>3
    <3>3. CASE ~ (i <= wpos)
      <4>1. i \in wpos + 1 .. wpos + n /\ i - wpos \in 1 .. n /\ wpos + (i - wpos) = i
        BY <1>5, <3>3
      <4>2. area'[i] = bytes[i - wpos]
        BY <1>3, <3>1, <4>1
      <4>3. (x \o bytes)[wpos + (i - wpos)] = bytes[i - wpos]
        BY <2>5, <4>1
      <4>4. QED
        BY <3>1, <4>1, <4>2, <4>3
    <3>4. QED
      BY <3>2, <3>3
  <2>7. y \in Seq(Byte) /\ Len(y) = wpos + n
    BY <2>4 DEF y
  <2>8. y = x \o bytes
    BY <2>5, <2>6, <2>7, SeqEqual
  <2>9. QED
    BY <2>8 DEF x, y
<1>9. PICK q : Places(q, as, bytes)
  BY <1>3 DEF Coded
<1>10. Filled \in Seq(Byte)
  <2>1. wpos \in 0 .. Len(area) /\ area \in Seq(Byte)
    BY <1>1, AreaType
  <2>2. QED
    BY <2>1, FrontPart DEF Filled
<1>11. PICK r : Places(r, sent \o as, Filled \o bytes) /\ \A i \in 0 .. Len(sent) : r[i] = p[i]
  <2>1. Places(p, sent, Filled)
    BY <1>2 DEF ReaderAt
  <2> DEFINE x == Filled
  <2> HIDE DEF x
  <2>2. x \in Seq(Byte) /\ Places(p, sent, x)
    BY <1>10, <2>1 DEF x
  <2>3. Extended(p, sent, as, x, bytes)
    BY <1>1, <1>4, <1>9, <2>2, PlacesJoin
  <2>4. QED
    BY <2>3 DEF Extended, x
<1>12. Len(got) \in 0 .. Len(sent) /\ Len(sent) \in Nat
  BY <1>1, SequenceParts DEF HasRead
<1>13. ReaderAt(r)'
  BY <1>2, <1>3, <1>8, <1>11, <1>12 DEF ReaderAt
<1>14. HasRead'
  <2>1. Len(sent \o as) = Len(sent) + Len(as) /\ \A i \in 1 .. Len(sent) : (sent \o as)[i] = sent[i]
    BY <1>7 DEF Joined
  <2>2. Len(as) \in Nat
    BY <1>4, SequenceParts
  <2> DEFINE all == sent \o as
  <2> HIDE DEF all
  <2>3. Len(all) = Len(sent) + Len(as)
    BY <2>1 DEF all
  <2>4. Len(got) <= Len(all)
    <3>1. ASSUME NEW g, NEW l, NEW k \in Nat, l \in Nat, g \in 0 .. l PROVE g <= l + k
      BY <3>1
    <3>2. Len(got) <= Len(sent) + Len(as)
      BY <1>12, <2>2, <3>1
    <3>3. QED
      BY <2>3, <3>2
  <2>5. \A i \in 1 .. Len(got) : got[i] = all[i].value
    <3> TAKE i \in 1 .. Len(got)
    <3>1. i \in 1 .. Len(sent)
      BY <1>12
    <3>2. all[i] = sent[i] /\ got[i] = sent[i].value
      BY <1>1, <2>1, <3>1 DEF HasRead, all
    <3>3. QED
      BY <3>2
  <2>6. QED
    BY <1>1, <1>3, <2>4, <2>5 DEF HasRead, all
<1>15. QED
  BY <1>6, <1>7, <1>13, <1>14 DEF StreamInv

\* A call that takes the next m values.
LEMMA TakenStep ==
  ASSUME StreamInv, NEW p, ReaderAt(p), NEW m \in Nat, Len(got) + m <= Len(sent),
         rpos' = p[Len(got) + m], got' = got \o ValuesAt(sent, Len(got), m),
         area' = area, wpos' = wpos, sent' = sent
  PROVE  StreamInv'
<1> DEFINE g == Len(got)
           v == ValuesAt(sent, g, m)
<1>1. /\ area \in [1 .. DataSize -> Byte] /\ wpos \in 0 .. DataSize
      /\ sent \in Seq(Readable)
      /\ got \in Seq(AnyValue) /\ g <= Len(sent) /\ \A i \in 1 .. g : got[i] = sent[i].value
  BY DEF StreamInv, HasRead
<1>2. g \in Nat /\ Len(sent) \in Nat
  BY <1>1, SequenceParts
<1>3. v \in Seq(AnyValue) /\ Len(v) = m /\ \A i \in 1 .. m : v[i] = sent[g + i].value
  <2>1. v \in Seq(AnyValue) /\ Len(v) = m
    BY <1>1, <1>2, ValuesType
  <2>2. \A i \in 1 .. m : v[i] = sent[g + i].value
    BY DEF ValuesAt
  <2>3. QED
    BY <2>1, <2>2
<1>4. got' = got \o v
  OBVIOUS
<1>5. g + m <= Len(sent)
  OBVIOUS
<1> HIDE DEF v
<1>6. /\ got \o v \in Seq(AnyValue) /\ Len(got \o v) = g + m
      /\ \A i \in 1 .. g : (got \o v)[i] = got[i]
      /\ \A i \in 1 .. m : (got \o v)[g + i] = v[i]
  <2>1. Joined(AnyValue, got, v)
    BY <1>1, <1>3, ConcatJoined
  <2>2. QED
    BY <1>3, <2>1 DEF Joined
<1>7. rpos' = p[g + m] /\ Places(p, sent, Filled)
  BY DEF ReaderAt
<1> HIDE DEF g
<1>8. ASSUME NEW i \in 1 .. g + m PROVE (got \o v)[i] = sent[i].value
  <2>1. CASE i <= g
    <3>1. i \in 1 .. g
      BY <1>2, <2>1
    <3>2. QED
      BY <1>1, <1>6, <3>1
  <2>2. CASE ~ (i <= g)
    <3>1. i - g \in 1 .. m /\ g + (i - g) = i
      BY <1>2, <2>2
    <3>2. (got \o v)[g + (i - g)] = v[i - g] /\ v[i - g] = sent[g + (i - g)].value
      BY <1>3, <1>6, <3>1
    <3>3. QED
      BY <3>1, <3>2
  <2>3. QED
    BY <2>1, <2>2
<1>9. HasRead'
  BY <1>4, <1>5, <1>6, <1>8 DEF HasRead
<1>10. Filled' = Filled
  BY DEF Filled
<1>11. ReaderAt(p)'
  BY <1>4, <1>6, <1>7, <1>10 DEF ReaderAt
<1>12. QED
  BY <1>1, <1>9, <1>11 DEF StreamInv

\* What the reader has left of the data, and of the values.
LEMMA ReaderFacts ==
  ASSUME StreamInv, NEW p, ReaderAt(p)
  PROVE  /\ area \in Seq(Byte) /\ Len(area) = DataSize /\ DataSize \in Nat
         /\ sent \in Seq(Readable) /\ Len(sent) \in Nat /\ Len(got) \in 0 .. Len(sent)
         /\ p \in [0 .. Len(sent) -> Nat] /\ Lies(p, sent, area) /\ p[Len(sent)] = wpos
         /\ wpos \in 0 .. DataSize /\ rpos = p[Len(got)] /\ rpos \in 0 .. wpos
         /\ \A i \in 0 .. Len(sent) : p[i] <= wpos
<1>1. /\ area \in [1 .. DataSize -> Byte] /\ wpos \in 0 .. DataSize /\ sent \in Seq(Readable)
      /\ got \in Seq(AnyValue) /\ Len(got) <= Len(sent)
  BY DEF StreamInv, HasRead
<1>2. area \in Seq(Byte) /\ Len(area) = DataSize /\ DataSize \in Nat
  BY <1>1, AreaType
<1>3. Len(sent) \in Nat /\ Len(got) \in Nat
  BY <1>1, SequenceParts
<1>4. Places(p, sent, Filled) /\ rpos = p[Len(got)]
  BY DEF ReaderAt
<1>5. /\ p \in [0 .. Len(sent) -> Nat] /\ p[0] = 0 /\ p[Len(sent)] = wpos /\ Lies(p, sent, area)
      /\ \A i \in 1 .. Len(sent) : p[i] <= wpos
  BY <1>1, <1>4, PlacesFacts
<1>6. ASSUME NEW i \in 0 .. Len(sent) PROVE p[i] <= wpos
  <2>1. CASE i = 0
    BY <1>1, <1>2, <1>5, <2>1
  <2>2. CASE i # 0
    <3>1. i \in 1 .. Len(sent)
      BY <1>3, <2>2
    <3>2. QED
      BY <1>5, <3>1
  <2>3. QED
    BY <2>1, <2>2
<1>7. Len(got) \in 0 .. Len(sent)
  BY <1>1, <1>3
<1>8. p[Len(got)] \in Nat /\ p[Len(got)] <= wpos /\ wpos \in Nat
  BY <1>1, <1>2, <1>5, <1>6, <1>7
<1>9. rpos \in 0 .. wpos
  BY <1>4, <1>8
<1>10. QED
  BY <1>1, <1>2, <1>3, <1>4, <1>5, <1>6, <1>7, <1>9

LEMMA RestIsLeft ==
  ASSUME area \in Seq(Byte), Len(area) = DataSize
  PROVE  \A pos : Rest(pos) = Left(area, pos)
BY DEF Rest, Left

LEMMA UnreadFacts ==
  ASSUME sent \in Seq(Readable), Len(got) \in 0 .. Len(sent)
  PROVE  /\ Unread \in Seq(Readable) /\ Len(Unread) = Len(sent) - Len(got)
         /\ \A i \in 1 .. Len(sent) - Len(got) : Unread[i] = sent[Len(got) + i]
<1> DEFINE g == Len(got)
<1>1. g \in 0 .. Len(sent)
  OBVIOUS
<1>2. Unread = Left(sent, g)
  BY DEF Unread, Left
<1> HIDE DEF g
<1>3. /\ Left(sent, g) \in Seq(Readable) /\ Len(Left(sent, g)) = Len(sent) - g
      /\ \A i \in 1 .. Len(sent) - g : Left(sent, g)[i] = sent[g + i]
  BY <1>1, LeftType
<1>4. QED
  BY <1>2, <1>3 DEF g

LEMMA ReadStep ==
  ASSUME StreamInv, Read
  PROVE  StreamInv'
<1> DEFINE g == Len(got)
           r == sent[g + 1]
           k == Len(Code(r))
<1>1. PICK p : ReaderAt(p)
  BY DEF StreamInv
<1>2. /\ area \in Seq(Byte) /\ Len(area) = DataSize /\ DataSize \in Nat
      /\ sent \in Seq(Readable) /\ Len(sent) \in Nat /\ g \in 0 .. Len(sent)
      /\ p \in [0 .. Len(sent) -> Nat] /\ Lies(p, sent, area)
      /\ wpos \in 0 .. DataSize /\ rpos = p[g] /\ rpos \in 0 .. wpos
      /\ \A i \in 0 .. Len(sent) : p[i] <= wpos
  BY <1>1, ReaderFacts
<1>3. /\ Unread \in Seq(Readable) /\ Len(Unread) = Len(sent) - g
      /\ \A i \in 1 .. Len(sent) - g : Unread[i] = sent[g + i]
  BY <1>2, UnreadFacts
<1>4. Unread # <<>>
  BY DEF Read
<1> HIDE DEF g
<1>5. g + 1 \in 1 .. Len(sent) /\ g + 1 \in 0 .. Len(sent) /\ (g + 1) - 1 = g /\ g \in Nat
      /\ 1 \in 1 .. Len(sent) - g
  <2>1. Len(Unread) # 0
    BY <1>3, <1>4
  <2>2. QED
    BY <1>2, <1>3, <2>1
<1>6. Head(Unread) = r
  <2>1. Head(Unread) = Unread[1]
    BY <1>3, <1>4
  <2>2. QED
    BY <1>3, <1>5, <2>1
<1>7. r \in Readable
  BY <1>2, <1>5, SequenceParts
<1>8. PICK tag \in {r.tag, Alias(r.tag)} :
        Takes(UnpackOne(Rest(rpos), tag), UnpackOne(Rest(rpos), tag).values, 1)
  BY <1>6 DEF Read
<1> HIDE DEF r
<1>9. p[g + 1] = rpos + k /\ Begins(area, rpos, Code(r))
  <2>1. p[g + 1] = p[(g + 1) - 1] + Len(Code(sent[g + 1])) /\ Begins(area, p[(g + 1) - 1], Code(sent[g + 1]))
    BY <1>2, <1>5 DEF Lies
  <2>2. QED
    BY <1>2, <1>5, <2>1 DEF r
<1>10. rpos \in Nat /\ rpos + k <= Len(area)
  <2>1. p[g + 1] <= wpos /\ p[g + 1] \in Nat
    BY <1>2, <1>5
  <2> HIDE DEF k
  <2>2. QED
    BY <1>2, <1>9, <2>1
<1>11. UnpackOne(Rest(rpos), tag) = ReadAs(r.value, k)
  <2>1. UnpackOne(Left(area, rpos), tag) = ReadAs(r.value, k)
    BY <1>2, <1>7, <1>8, <1>9, <1>10, OneReads
  <2>2. Rest(rpos) = Left(area, rpos)
    BY <1>2, RestIsLeft
  <2>3. QED
    BY <2>1, <2>2
<1>12. /\ rpos' = rpos + k /\ got' = got \o <<r.value>>
       /\ area' = area /\ wpos' = wpos /\ sent' = sent
  <2>1. Takes(ReadAs(r.value, k), <<r.value>>, 1)
    <3>1. ReadAs(r.value, k).values = <<r.value>>
      BY DEF ReadAs
    <3>2. QED
      BY <1>8, <1>11, <3>1
  <2>2. ReadAs(r.value, k).ok = TRUE /\ ReadAs(r.value, k).used = k
    BY DEF ReadAs
  <2>3. QED
    BY <2>1, <2>2 DEF Takes
<1>13. <<r.value>> = ValuesAt(sent, g, 1)
  <2>1. [i \in 1 .. 1 |-> sent[g + i].value] = <<sent[g + 1].value>>
    OBVIOUS
  <2>2. QED
    BY <2>1 DEF ValuesAt, r
<1> HIDE DEF k
<1>14. got' = got \o ValuesAt(sent, g, 1) /\ rpos' = p[g + 1] /\ g + 1 <= Len(sent)
  <2>1. got' = got \o ValuesAt(sent, g, 1) /\ rpos' = p[g + 1]
    BY <1>9, <1>12, <1>13
  <2>2. g + 1 <= Len(sent)
    BY <1>2, <1>5
  <2>3. QED
    BY <2>1, <2>2
<1>15. QED
  BY <1>1, <1>12, <1>14, TakenStep DEF g

LEMMA PrefixPart ==
  ASSUME NEW S, NEW s \in Seq(S), NEW t \in Seq(S), IsPrefix(s, t)
  PROVE  Len(s) <= Len(t) /\ \A i \in 1 .. Len(s) : s[i] = t[i]
<1>1. Len(s) <= Len(t) /\ SubSeq(s, 1, Len(s)) = SubSeq(t, 1, Len(s)) /\ Len(s) \in Nat
  BY DEF IsPrefix
<1>2. ASSUME NEW i \in 1 .. Len(s)
      PROVE  SubSeq(s, 1, Len(s))[i] = s[i] /\ SubSeq(t, 1, Len(s))[i] = t[i]
  BY <1>1
<1>3. QED
  BY <1>1, <1>2

\* What lies in the data lies in the rest of it.
LEMMA BeginsLeft ==
  ASSUME NEW data \in Seq(Byte), NEW c \in 0 .. Len(data), NEW d \in Nat, NEW code \in Seq(Byte),
         Begins(data, c + d, code), c + d + Len(code) <= Len(data)
  PROVE  Begins(Left(data, c), d, code)
<1>1. /\ Len(data) \in Nat /\ Len(code) \in Nat
      /\ \A i \in 1 .. Len(data) - c : Left(data, c)[i] = data[c + i]
  BY LeftType, SequenceParts
<1>2. ASSUME NEW j \in 1 .. Len(code) PROVE Left(data, c)[d + j] = code[j]
  <2>1. d + j \in 1 .. Len(data) - c /\ c + (d + j) = (c + d) + j
    BY <1>1
  <2>2. data[(c + d) + j] = code[j]
    BY DEF Begins
  <2>3. QED
    BY <1>1, <2>1, <2>2
<1>3. QED
  BY <1>2 DEF Begins

\* The places of the values not read yet, in the data not read yet.
PlacesLeft(p) == [i \in 0 .. Len(sent) - Len(got) |-> p[Len(got) + i] - p[Len(got)]]

LEMMA UnreadLies ==
  ASSUME StreamInv, NEW p, ReaderAt(p)
  PROVE  Lies(PlacesLeft(p), Unread, Left(area, rpos))
<1> DEFINE g == Len(got)
           q == PlacesLeft(p)
           data == Left(area, rpos)
<1>1. /\ area \in Seq(Byte) /\ Len(area) = DataSize /\ DataSize \in Nat
      /\ sent \in Seq(Readable) /\ Len(sent) \in Nat /\ g \in 0 .. Len(sent)
      /\ p \in [0 .. Len(sent) -> Nat] /\ Lies(p, sent, area)
      /\ wpos \in 0 .. DataSize /\ rpos = p[g] /\ rpos \in 0 .. wpos
      /\ \A i \in 0 .. Len(sent) : p[i] <= wpos
  BY ReaderFacts
<1>2. /\ Unread \in Seq(Readable) /\ Len(Unread) = Len(sent) - g
      /\ \A i \in 1 .. Len(sent) - g : Unread[i] = sent[g + i]
  BY <1>1, UnreadFacts
<1>3. q = [i \in 0 .. Len(sent) - g |-> p[g + i] - p[g]]
  BY DEF PlacesLeft
<1> HIDE DEF g, q
<1>4. ASSUME NEW i \in 0 .. Len(sent) - g
      PROVE  q[i] \in Nat /\ p[g + i] = rpos + q[i] /\ g + i \in 0 .. Len(sent)
  <2>1. g + i \in g .. Len(sent) /\ g + i \in 0 .. Len(sent)
    BY <1>1
  <2>2. p[g] <= p[g + i]
    BY <1>1, <2>1, LiesInOrder
  <2>3. q[i] = p[g + i] - p[g] /\ p[g + i] \in Nat /\ p[g] \in Nat
    BY <1>1, <1>3, <2>1
  <2>4. QED
    BY <1>1, <2>1, <2>2, <2>3
<1>5. q \in [0 .. Len(Unread) -> Nat]
  BY <1>2, <1>3, <1>4
<1>6. q[0] = 0
  <2>1. 0 \in 0 .. Len(sent) - g /\ g + 0 = g
    BY <1>1
  <2>2. p[g + 0] = rpos + q[0] /\ q[0] \in Nat
    BY <1>4, <2>1
  <2>3. QED
    BY <1>1, <2>1, <2>2
<1>7. ASSUME NEW i \in 1 .. Len(Unread)
      PROVE  q[i] = q[i - 1] + Len(Code(Unread[i])) /\ Begins(data, q[i - 1], Code(Unread[i]))
  <2> DEFINE code == Code(sent[g + i])
  <2>1. /\ i \in 0 .. Len(sent) - g /\ i - 1 \in 0 .. Len(sent) - g
        /\ g + i \in 1 .. Len(sent) /\ (g + i) - 1 = g + (i - 1)
    BY <1>1, <1>2
  <2>2. Unread[i] = sent[g + i]
    BY <1>2
  <2>3. p[g + i] = p[(g + i) - 1] + Len(code) /\ Begins(area, p[(g + i) - 1], code)
    BY <1>1, <2>1 DEF Lies
  <2>4. code \in Seq(Byte)
    BY <1>1, <2>1, SequenceParts, CodeType
  <2> HIDE DEF code
  <2>5. /\ q[i] \in Nat /\ q[i - 1] \in Nat /\ Len(code) \in Nat /\ rpos \in Nat
        /\ p[g + i] = rpos + q[i] /\ p[g + (i - 1)] = rpos + q[i - 1] /\ p[g + i] <= wpos
    BY <1>1, <1>4, <2>1, <2>4, SequenceParts
  <2>6. rpos + q[i] = (rpos + q[i - 1]) + Len(code) /\ Begins(area, rpos + q[i - 1], code)
    BY <2>1, <2>3, <2>5
  <2>7. q[i] = q[i - 1] + Len(code) /\ rpos + q[i - 1] + Len(code) <= Len(area)
    <3>1. ASSUME NEW a \in Nat, NEW b \in Nat, NEW c \in Nat, NEW d \in Nat,
                 a + b = (a + c) + d
          PROVE  b = c + d /\ a + c + d = a + b
      BY <3>1
    <3>2. q[i] = q[i - 1] + Len(code) /\ rpos + q[i - 1] + Len(code) = rpos + q[i]
      BY <2>5, <2>6, <3>1
    <3>3. rpos + q[i] <= wpos
      BY <2>5
    <3>4. rpos + q[i] <= Len(area)
      BY <1>1, <2>5, <3>3
    <3>5. QED
      BY <3>2, <3>4
  <2>8. rpos \in 0 .. Len(area)
    BY <1>1
  <2>9. Begins(data, q[i - 1], code)
    BY <1>1, <2>4, <2>5, <2>6, <2>7, <2>8, BeginsLeft
  <2>10. QED
    BY <2>2, <2>7, <2>9 DEF code
<1>8. Lies(q, Unread, data)
  BY <1>5, <1>6, <1>7 DEF Lies
<1>9. QED
  BY <1>8 DEF q

LEMMA MixedReadStep ==
  ASSUME StreamInv, NEW schema \in Schemas, ReadMixed(schema)
  PROVE  StreamInv'
<1> DEFINE g == Len(got)
           data == Left(area, rpos)
           tags == TagsOf(schema)
           n == Len(tags)
           x == UnpackMixed(data, schema)
<1>1. PICK p : ReaderAt(p)
  BY DEF StreamInv
<1> DEFINE q == PlacesLeft(p)
<1>2. /\ area \in Seq(Byte) /\ Len(area) = DataSize /\ DataSize \in Nat
      /\ sent \in Seq(Readable) /\ Len(sent) \in Nat /\ g \in 0 .. Len(sent)
      /\ p \in [0 .. Len(sent) -> Nat]
      /\ wpos \in 0 .. DataSize /\ rpos = p[g] /\ rpos \in 0 .. wpos
      /\ \A i \in 0 .. Len(sent) : p[i] <= wpos
  BY <1>1, ReaderFacts
<1>3. /\ Unread \in Seq(Readable) /\ Len(Unread) = Len(sent) - g
      /\ \A i \in 1 .. Len(sent) - g : Unread[i] = sent[g + i]
  BY <1>2, UnreadFacts
<1>4. Lies(q, Unread, data)
  BY <1>1, UnreadLies
<1>5. data \in Seq(Byte) /\ Len(data) = DataSize - rpos
  <2>1. rpos \in 0 .. Len(area)
    BY <1>2
  <2>2. QED
    BY <1>2, <2>1, LeftType
<1>6. /\ IsPrefix(tags, [i \in 1 .. Len(Unread) |-> Unread[i].tag])
      /\ Takes(x, Flat(x.groups), n)
  <2>1. Rest(rpos) = data
    BY <1>2, RestIsLeft
  <2>2. QED
    BY <2>1 DEF ReadMixed
<1>7. schema \in Seq(Entries(KnownTags))
  BY StreamAssumption DEF Entries
<1>8. tags \in Seq(KnownTags) /\ n \in Nat
  <2>1. Repeated(schema) \in Seq(Seq(KnownTags)) /\ TagsOf(schema) = FlattenSeq(Repeated(schema))
    BY <1>7, RepeatedType
  <2>2. FlattenSeq(Repeated(schema)) \in Seq(KnownTags)
    BY <2>1, FlattenType
  <2>3. tags \in Seq(KnownTags)
    BY <2>1, <2>2
  <2> HIDE DEF tags
  <2>4. QED
    BY <2>3, SequenceParts
<1>9. q = [i \in 0 .. Len(sent) - g |-> p[g + i] - p[g]]
  BY DEF PlacesLeft
<1> HIDE DEF g, data, q, x, tags
<1>10. n <= Len(Unread) /\ \A i \in 1 .. n : tags[i] = Unread[i].tag
  <2> DEFINE us == [i \in 1 .. Len(Unread) |-> Unread[i].tag]
  <2>1. Len(Unread) \in Nat /\ \A i \in 1 .. Len(Unread) : Unread[i].tag \in KnownTags
    BY <1>3, SequenceParts, ReadableTags DEF KnownTags
  <2>2. us \in [1 .. Len(Unread) -> KnownTags] /\ \A i \in 1 .. Len(Unread) : us[i] = Unread[i].tag
    BY <2>1
  <2>3. IsPrefix(tags, us)
    BY <1>6
  <2> HIDE DEF us
  <2>4. us \in Seq(KnownTags) /\ Len(us) = Len(Unread)
    BY <2>1, <2>2, FunctionSequence
  <2>5. n <= Len(us) /\ \A i \in 1 .. n : tags[i] = us[i]
    BY <1>8, <2>3, <2>4, PrefixPart
  <2>6. \A i \in 1 .. n : i \in 1 .. Len(Unread)
    BY <1>8, <2>1, <2>4, <2>5
  <2>7. QED
    BY <2>2, <2>4, <2>5, <2>6
<1> HIDE DEF n
<1>11. /\ n \in 0 .. Len(sent) - g /\ g + n \in 0 .. Len(sent)
       /\ q[n] = p[g + n] - rpos /\ p[g + n] \in Nat /\ p[g + n] <= DataSize
  <2>1. n \in 0 .. Len(sent) - g /\ g + n \in 0 .. Len(sent)
    BY <1>2, <1>3, <1>8, <1>10
  <2>2. q[n] = p[g + n] - p[g]
    BY <1>9, <2>1
  <2>3. p[g + n] \in Nat /\ p[g + n] <= wpos
    BY <1>2, <2>1
  <2>4. p[g + n] <= DataSize
    BY <1>2, <2>3
  <2>5. QED
    BY <1>2, <2>1, <2>2, <2>3, <2>4
<1>12. q[n] <= Len(data)
  BY <1>2, <1>5, <1>11
<1>13. Fits(data, Unread, q, schema)
  BY <1>4, <1>10, <1>12 DEF Fits, n, tags
<1>14. x.ok = TRUE /\ x.used = q[n] /\ Flat(x.groups) = ValuesAt(Unread, 0, n)
  BY <1>3, <1>5, <1>7, <1>13, SchemaDecodes DEF x, n, tags
<1>15. ValuesAt(Unread, 0, n) = ValuesAt(sent, g, n)
  <2>1. \A i \in 1 .. n : 0 + i = i /\ i \in 1 .. Len(sent) - g
    BY <1>2, <1>11
  <2>2. \A i \in 1 .. n : Unread[0 + i].value = sent[g + i].value
    BY <1>3, <2>1
  <2>3. QED
    BY <2>2 DEF ValuesAt
<1>16. /\ rpos' = rpos + x.used /\ got' = got \o Flat(x.groups)
       /\ area' = area /\ wpos' = wpos /\ sent' = sent
  BY <1>6, <1>14 DEF Takes
<1>17. rpos' = p[g + n] /\ got' = got \o ValuesAt(sent, g, n) /\ n \in Nat /\ g + n <= Len(sent)
  <2>1. rpos' = rpos + (p[g + n] - rpos)
    BY <1>11, <1>14, <1>16
  <2>2. rpos + (p[g + n] - rpos) = p[g + n]
    BY <1>2, <1>11
  <2>3. QED
    <3>1. rpos' = p[g + n]
      BY <2>1, <2>2
    <3>2. got' = got \o ValuesAt(sent, g, n)
      BY <1>14, <1>15, <1>16
    <3>3. g + n <= Len(sent)
      BY <1>2, <1>11
    <3>4. QED
      BY <1>8, <3>1, <3>2, <3>3
<1>18. QED
  BY <1>1, <1>16, <1>17, TakenStep DEF g

LEMMA LeftOfLeft ==
  ASSUME NEW S, NEW data \in Seq(S), NEW c \in 0 .. Len(data), NEW d \in 0 .. Len(data) - c
  PROVE  Left(data, c + d) = Left(Left(data, c), d)
<1> DEFINE x == Left(data, c)
           y == Left(data, c + d)
           z == Left(x, d)
<1>1. Len(data) \in Nat
  BY SequenceParts
<1>2. /\ x \in Seq(S) /\ Len(x) = Len(data) - c
      /\ \A i \in 1 .. Len(data) - c : x[i] = data[c + i]
  BY LeftType
<1>3. c + d \in 0 .. Len(data) /\ d \in 0 .. Len(x)
  BY <1>1, <1>2
<1> HIDE DEF x
<1>4. /\ y \in Seq(S) /\ Len(y) = Len(data) - (c + d)
      /\ \A i \in 1 .. Len(data) - (c + d) : y[i] = data[(c + d) + i]
  BY <1>3, LeftType
<1>5. /\ z \in Seq(S) /\ Len(z) = Len(x) - d
      /\ \A i \in 1 .. Len(x) - d : z[i] = x[d + i]
  BY <1>2, <1>3, LeftType
<1> HIDE DEF y, z
<1> DEFINE n == Len(data) - (c + d)
<1>6. n \in Nat /\ Len(y) = n /\ Len(z) = n
  BY <1>1, <1>2, <1>3, <1>4, <1>5
<1>7. ASSUME NEW i \in 1 .. n PROVE y[i] = z[i]
  <2>1. /\ d + i \in 1 .. Len(data) - c /\ i \in 1 .. Len(x) - d
        /\ c + (d + i) = (c + d) + i
    BY <1>1, <1>2
  <2>2. QED
    BY <1>2, <1>4, <1>5, <2>1
<1>8. y = z
  BY <1>4, <1>5, <1>6, <1>7, SeqEqual
<1>9. QED
  BY <1>8 DEF x, y, z

LEMMA OneUses ==
  ASSUME NEW data \in Seq(Byte), NEW tag
  PROVE  UnpackOne(data, tag).used \in 0 .. Len(data)
<1> DEFINE one == UnpackOne(data, tag)
           u == UnpackEntry(data, Reading, [tag |-> tag, count |-> 1])
<1>1. Len(data) \in Nat
  BY SequenceParts
<1>2. Reading \in State(data) /\ Reading.ok = TRUE /\ Reading.cursor = 0
  BY <1>1 DEF Reading, State
<1>3. OneEntry(UnpackOne(Left(data, Reading.cursor), tag), data, Reading, u)
  BY <1>2, EntryOfOne
<1>4. Left(data, Reading.cursor) = data
  BY <1>2, LeftAll
<1>5. OneEntry(one, data, Reading, u)
  BY <1>3, <1>4
<1> HIDE DEF one, u
<1>7. ASSUME NEW v, NEW n \in Nat, one = ReadAs(v, n), Reading.cursor + n <= Len(data)
      PROVE  one.used \in 0 .. Len(data)
  <2>1. one.used = n
    BY <1>7 DEF ReadAs
  <2>2. n <= Len(data)
    BY <1>2, <1>7
  <2>3. QED
    BY <1>1, <2>1, <2>2
<1>8. one.used \in 0 .. Len(data)
  <2>1. Failed.used = 0
    BY DEF Failed
  <2>2. \/ one = Failed
        \/ \E v \in AnyValue, n \in Nat : one = ReadAs(v, n) /\ Reading.cursor + n <= Len(data)
    BY <1>5 DEF OneEntry
  <2>3. CASE one = Failed
    <3>1. one.used = 0 /\ 0 \in 0 .. Len(data)
      BY <1>1, <2>1, <2>3
    <3>2. QED
      BY <3>1
  <2>4. CASE one # Failed
    BY <1>7, <2>2, <2>4
  <2>5. QED
    BY <2>3, <2>4
<1>9. QED
  BY <1>8 DEF one

LEMMA StreamStep == StreamInv /\ [Next]_vars => StreamInv'
<1> SUFFICES ASSUME StreamInv, [Next]_vars PROVE StreamInv'
  OBVIOUS
<1>1. ASSUME NEW v \in Values, Write(v) PROVE StreamInv'
  <2>1. v \in PyValue
    BY StreamAssumption
  <2>2. PackValue(v).ok => Coded(AsRead(v), PackValue(v).bytes)
    BY <2>1, CodedValue
  <2>3. Written(PackValue(v), AsRead(v))
    BY <1>1 DEF Write
  <2>4. QED
    BY <2>2, <2>3, WrittenStep
<1>2. ASSUME NEW items \in Lists, WriteMixed(items) PROVE StreamInv'
  <2>1. items \in Seq(Seq(PyValue))
    BY StreamAssumption
  <2>2. PackMixed(items).ok => Coded(ListAsRead(items), PackMixed(items).bytes)
    BY <2>1, CodedMixed
  <2>3. Written(PackMixed(items), ListAsRead(items))
    BY <1>2 DEF WriteMixed
  <2>4. QED
    BY <2>2, <2>3, WrittenStep
<1>3. CASE Read
  BY <1>3, ReadStep
<1>4. ASSUME NEW schema \in Schemas, ReadMixed(schema) PROVE StreamInv'
  BY <1>4, MixedReadStep
<1>5. CASE UNCHANGED vars
  BY <1>5 DEF vars, StreamInv, HasRead, ReaderAt, Filled
<1>6. QED
  BY <1>1, <1>2, <1>3, <1>4, <1>5 DEF Next

\* The invariant of the stream: what is written up to the writer's cursor is the values
\* sent, one after another, and the reader is between two of them, with the values
\* before it read right, after any calls of write, write_mixed, read and read_mixed.
THEOREM StreamIsInOrder == Spec => []StreamInv
<1>1. Init => StreamInv
  BY InitStream
<1>2. StreamInv /\ [Next]_vars => StreamInv'
  BY StreamStep
<1>3. QED
  BY <1>1, <1>2, PTL DEF Spec

LEMMA StreamReads == StreamInv => ReadsWhatWasWritten
<1> SUFFICES ASSUME StreamInv PROVE ReadsWhatWasWritten
  OBVIOUS
<1>1. PICK p : ReaderAt(p)
  BY DEF StreamInv
<1>2. /\ Len(got) \in 0 .. Len(sent) /\ p[Len(sent)] = wpos
      /\ wpos \in 0 .. DataSize /\ DataSize \in Nat /\ rpos = p[Len(got)] /\ rpos \in 0 .. wpos
  BY <1>1, ReaderFacts
<1>3. got \in Seq(AnyValue) /\ \A i \in 1 .. Len(got) : got[i] = sent[i].value
  BY DEF StreamInv, HasRead
<1>4. got = [i \in 1 .. Len(got) |-> got[i]]
  BY <1>3
<1>5. got = [i \in 1 .. Len(got) |-> sent[i].value]
  BY <1>3, <1>4
<1>6. rpos <= wpos
  BY <1>2
<1>7. Len(got) = Len(sent) => rpos = wpos
  BY <1>2
<1>8. QED
  BY <1>5, <1>6, <1>7 DEF ReadsWhatWasWritten

\* What write and write_mixed put into an area, read and read_mixed give back: the same
\* values in the same order, with any bytes, numbers, strings and lists, however the two
\* sides cut them into calls; the reader never gets ahead of the writer.
THEOREM StreamReadsBack == Spec => []ReadsWhatWasWritten
BY StreamIsInOrder, StreamReads, PTL

LEMMA StreamCut == StreamInv => CutIsRefused
<1> SUFFICES ASSUME StreamInv, NEW n \in 0 .. wpos - 1
             PROVE  ~ UnpackMixed(SubSeq(area, 1, n),
                        [i \in 1 .. Len(sent) |-> [tag |-> sent[i].tag, count |-> 1]]).ok
  BY DEF CutIsRefused
<1> DEFINE data == SubSeq(area, 1, n)
<1>1. PICK p : ReaderAt(p)
  BY DEF StreamInv
<1>2. /\ area \in Seq(Byte) /\ Len(area) = DataSize /\ DataSize \in Nat
      /\ sent \in Seq(Readable) /\ wpos \in 0 .. DataSize /\ p[Len(sent)] = wpos
  BY <1>1, ReaderFacts
<1>3. n \in 0 .. DataSize /\ n \in Nat /\ ~ (wpos <= n)
  BY <1>2
<1>4. Lies(p, sent, data)
  <2>1. area \in [1 .. DataSize -> Byte] /\ Places(p, sent, Filled)
    BY <1>1 DEF StreamInv, ReaderAt
  <2>2. QED
    BY <1>2, <1>3, <2>1, PlacesFacts
<1>5. data \in Seq(Byte) /\ Len(data) = n
  BY <1>2, <1>3, FrontPart
<1> HIDE DEF data
<1>6. ~ (p[Len(sent)] <= Len(data))
  BY <1>2, <1>3, <1>5
<1>7. UnpackMixed(data,
         [i \in 1 .. Len(sent) |-> [tag |-> sent[i].tag, count |-> 1]]).ok = FALSE
  BY <1>2, <1>4, <1>5, <1>6, SchemaCut
<1>8. QED
  BY <1>7 DEF data

\* read_mixed and pop_mixed raise when the data end before the schema does, wherever
\* they end: no length prefix, number or string is read past the end or made up from
\* a part of its bytes.
THEOREM StreamRefusesCuts == Spec => []CutIsRefused
BY StreamIsInOrder, StreamCut, PTL

LEMMA StreamAgrees == StreamInv => OneAgreesWithMixed
<1> SUFFICES ASSUME StreamInv, NEW c \in {rpos, wpos}, NEW s, NEW t
             PROVE  LET one == UnpackOne(Rest(c), s)
                        two == UnpackOne(Rest(c + one.used), t)
                        both == UnpackMixed(Rest(c), <<[tag |-> s, count |-> 1], [tag |-> t, count |-> 1]>>)
                    IN  Same(one, two, both)
  BY DEF OneAgreesWithMixed, Same
<1> DEFINE data == Rest(c)
           one == UnpackOne(data, s)
           k == one.used
<1>1. PICK p : ReaderAt(p)
  BY DEF StreamInv
<1>2. /\ area \in Seq(Byte) /\ Len(area) = DataSize /\ DataSize \in Nat
      /\ wpos \in 0 .. DataSize /\ rpos \in 0 .. wpos
  BY <1>1, ReaderFacts
<1>3. c \in 0 .. Len(area)
  BY <1>2
<1>4. data = Left(area, c) /\ Rest(c + k) = Left(area, c + k)
  BY <1>2, RestIsLeft
<1>5. data \in Seq(Byte) /\ Len(data) = Len(area) - c
  BY <1>2, <1>3, <1>4, LeftType
<1> HIDE DEF data
<1>6. k \in 0 .. Len(data)
  BY <1>5, OneUses
<1>7. Rest(c + k) = Left(data, k)
  BY <1>2, <1>3, <1>4, <1>5, <1>6, LeftOfLeft
<1>8. LET two == UnpackOne(Left(data, k), t)
      IN  Same(one, two, UnpackMixed(data, <<[tag |-> s, count |-> 1], [tag |-> t, count |-> 1]>>))
  BY <1>5, TwoAgree
<1>9. QED
  BY <1>7, <1>8 DEF data

\* The two unpackers, written apart, agree: two calls of read, of any tags and at any
\* bytes, give what one read_mixed of both tags gives, and move the cursor as far, or
\* raise where it raises.
THEOREM UnpackersAgree == Spec => []OneAgreesWithMixed
BY StreamIsInOrder, StreamAgrees, PTL

=============================================================================

-------------------------- MODULE ModularArithmetic --------------------------
(***************************************************************************)
(* Facts about div and mod by any positive number, for the counters and the  *)
(* byte index of the ring (SpscProofs.tla), which are reduced modulo 2^64     *)
(* and modulo the capacity.                                                  *)
(***************************************************************************)
EXTENDS Integers, TLAPS

\* A number is its quotient and its remainder.
LEMMA DivMod ==
  ASSUME NEW a \in Int, NEW M \in Nat \ {0}
  PROVE  /\ a \div M \in Int /\ a % M \in 0 .. M - 1
         /\ a = M * (a \div M) + (a % M)
OBVIOUS

\* No multiple of M but 0 lies between -M and M.
LEMMA SmallMultiple ==
  ASSUME NEW d \in Int, NEW M \in Nat \ {0}, -M < M * d, M * d < M
  PROVE  d = 0
<1>1. CASE d >= 1
  BY <1>1
<1>2. CASE d <= -1
  BY <1>2
<1>3. QED
  BY <1>1, <1>2

\* The remainder is unique.
LEMMA ModUnique ==
  ASSUME NEW M \in Nat \ {0}, NEW q \in Int, NEW r \in 0 .. M - 1
  PROVE  (M * q + r) % M = r
<1> DEFINE a == M * q + r
           d == q - (a \div M)
<1>1. a \in Int /\ d \in Int /\ a \div M \in Int /\ a % M \in 0 .. M - 1
      /\ a = M * (a \div M) + (a % M)
  BY DivMod
<1>2. M * d = M * q - M * (a \div M)
  BY <1>1
<1>3. M * d = (a % M) - r
  BY <1>1, <1>2
<1>4. d = 0
  <2> HIDE DEF d, a
  <2>1. -M < M * d /\ M * d < M
    BY <1>1, <1>3
  <2>2. QED
    BY <1>1, <2>1, SmallMultiple
<1>5. QED
  BY <1>1, <1>3, <1>4

\* A counter may be reduced before something is added.
LEMMA ModAdd ==
  ASSUME NEW a \in Int, NEW k \in Int, NEW M \in Nat \ {0}
  PROVE  ((a % M) + k) % M = (a + k) % M
<1> DEFINE x == (a % M) + k
           q == (a \div M) + (x \div M)
           r == x % M
<1>1. /\ a \div M \in Int /\ a % M \in Int /\ a = M * (a \div M) + (a % M)
  BY DivMod
<1>2. x \in Int
  BY <1>1
<1>3. x \div M \in Int /\ r \in 0 .. M - 1 /\ x = M * (x \div M) + r
  BY <1>2, DivMod
<1>4. q \in Int /\ a + k = M * q + r
  <2> HIDE DEF r
  <2>1. M * q = M * (a \div M) + M * (x \div M) /\ q \in Int
    BY <1>1, <1>3
  <2> HIDE DEF q
  <2>2. QED
    BY <1>1, <1>3, <2>1
<1> HIDE DEF q
<1>5. QED
  BY <1>3, <1>4, ModUnique

\* What fits needs no reduction.
LEMMA ModSmall ==
  ASSUME NEW M \in Nat \ {0}, NEW r \in 0 .. M - 1
  PROVE  r % M = r
<1>1. (M * 0 + r) % M = r
  BY ModUnique
<1>2. QED
  BY <1>1

\* The wrapping difference of two reduced counters is their true difference, if that
\* is less than M.
LEMMA ModDiff ==
  ASSUME NEW a \in Int, NEW b \in Int, NEW M \in Nat \ {0}, 0 <= a - b, a - b < M
  PROVE  ((a % M) - (b % M)) % M = a - b
<1> DEFINE k == -(b % M)
<1>1. /\ b \div M \in Int /\ b % M \in Int /\ b = M * (b \div M) + (b % M)
      /\ k \in Int /\ a % M \in Int /\ a - b \in 0 .. M - 1
  BY DivMod
<1>2. a + k = M * (b \div M) + (a - b) /\ (a % M) + k = (a % M) - (b % M)
  BY <1>1
<1> HIDE DEF k
<1>3. ((a % M) + k) % M = (a + k) % M
  BY <1>1, ModAdd
<1>4. (M * (b \div M) + (a - b)) % M = a - b
  BY <1>1, ModUnique
<1>5. QED
  BY <1>2, <1>3, <1>4

\* Numbers less than M apart have different remainders.
LEMMA ModDistinct ==
  ASSUME NEW a \in Int, NEW b \in Int, NEW M \in Nat \ {0}, 0 < a - b, a - b < M
  PROVE  a % M # b % M
<1>1. SUFFICES ASSUME a % M = b % M PROVE FALSE
  OBVIOUS
<1>2. ((a % M) - (b % M)) % M = 0
  <2>1. (a % M) - (b % M) = 0
    BY <1>1, DivMod
  <2>2. 0 % M = 0
    BY ModSmall
  <2>3. QED
    BY <2>1, <2>2
<1>3. QED
  BY <1>2, ModDiff

\* If C divides M, reducing modulo M first makes no difference.
LEMMA ModMod ==
  ASSUME NEW a \in Int, NEW M \in Nat \ {0}, NEW C \in Nat \ {0}, M % C = 0
  PROVE  (a % M) % C = a % C
<1> DEFINE e == M \div C
           q == a \div M
           x == a % M
<1>1. q \in Int /\ x \in Int /\ a = M * q + x
  BY DivMod
<1>2. e \in Int /\ M = C * e
  BY DivMod
<1>3. x \div C \in Int /\ x % C \in 0 .. C - 1 /\ x = C * (x \div C) + (x % C)
  BY <1>1, DivMod
<1> DEFINE d == x \div C
           r == x % C
<1> HIDE DEF e, q, d, r
<1>4. a = C * (e * q + d) + r /\ e * q + d \in Int
  <2> HIDE DEF x
  <2>1. M * q = (C * e) * q /\ (C * e) * q = C * (e * q) /\ e * q \in Int
    BY <1>1, <1>2
  <2>2. C * (e * q + d) = C * (e * q) + C * d
    BY <2>1, <1>3 DEF d
  <2>3. QED
    BY <1>1, <1>3, <2>1, <2>2 DEF d, r
<1> DEFINE f == e * q + d
<1> HIDE DEF f
<1>5. (C * f + r) % C = r
  BY <1>3, <1>4, ModUnique DEF r, f
<1>6. QED
  BY <1>4, <1>5 DEF r, f

=============================================================================

--------------------------- MODULE WrapArithmetic ---------------------------
(***************************************************************************)
(* Facts about counters that wrap at a modulus, for the proofs about the   *)
(* frame counters and the ISO-TP sequence number.                          *)
(***************************************************************************)
EXTENDS Integers, TLAPS

\* The remainder is the only number below the modulus that differs by a multiple of it.
LEMMA RemainderUnique ==
  ASSUME NEW m \in Nat \ {0}, NEW q \in Int, NEW r \in 0 .. m - 1
  PROVE  (m * q + r) % m = r
  OBVIOUS

\* An integer is a multiple of the modulus and its remainder.
LEMMA Division ==
  ASSUME NEW m \in Nat \ {0}, NEW n \in Int
  PROVE  \E q \in Int, r \in 0 .. m - 1 : n = m * q + r /\ n % m = r
<1>1. n = m * (n \div m) + (n % m) /\ n % m \in 0 .. m - 1
  OBVIOUS
<1>2. n \div m \in Int
  OBVIOUS
<1> QED
  BY <1>1, <1>2

\* The remainder of an integer is below the modulus.
LEMMA RemainderBound ==
  ASSUME NEW m \in Nat \ {0}, NEW n \in Int
  PROVE  n % m \in 0 .. m - 1
  BY Division

\* Numbers that differ by a multiple of the modulus have the same remainder.
LEMMA Congruent ==
  ASSUME NEW m \in Nat \ {0}, NEW x \in Int, NEW y \in Int, NEW k \in Int,
         x = y + m * k
  PROVE  x % m = y % m
<1>1. PICK q \in Int, r \in 0 .. m - 1 : y = m * q + r /\ y % m = r
  BY Division
<1>2. (m * (q + k) + r) % m = r
  BY RemainderUnique
<1>3. m * (q + k) = m * q + m * k
  OBVIOUS
<1>4. m * q \in Int /\ m * k \in Int
  OBVIOUS
<1>5. m * (q + k) + r = x
  BY <1>1, <1>3, <1>4
<1> QED
  BY <1>1, <1>2, <1>5

\* Incrementing a wrapped counter is wrapping the incremented one.
LEMMA IncrementWraps ==
  ASSUME NEW m \in Nat \ {0}, NEW n \in Int
  PROVE  ((n % m) + 1) % m = (n + 1) % m
<1>1. PICK q \in Int, r \in 0 .. m - 1 : n = m * q + r /\ n % m = r
  BY Division
<1>2. m * q \in Int /\ n + 1 \in Int /\ r + 1 \in Int
  OBVIOUS
<1>3. n + 1 = (r + 1) + m * q
  BY <1>1, <1>2
<1>4. (n + 1) % m = (r + 1) % m
  BY <1>2, <1>3, Congruent
<1> QED
  BY <1>1, <1>4

\* The unsigned difference of two wrapped counters is the wrapped difference.
LEMMA DifferenceWraps ==
  ASSUME NEW m \in Nat \ {0}, NEW a \in Int, NEW b \in Int
  PROVE  ((a % m) + m - (b % m)) % m = (a - b) % m
<1>1. PICK q \in Int, r \in 0 .. m - 1 : a = m * q + r /\ a % m = r
  BY Division
<1>2. PICK p \in Int, s \in 0 .. m - 1 : b = m * p + s /\ b % m = s
  BY Division
<1>3. m * (q - p - 1) = m * q - m * p - m
  OBVIOUS
<1>4. m * q \in Int /\ m * p \in Int /\ a - b \in Int /\ r + m - s \in Int
  OBVIOUS
<1>5. a - b = (r + m - s) + m * (q - p - 1)
  BY <1>1, <1>2, <1>3, <1>4
<1>6. (a - b) % m = (r + m - s) % m
  <2>1. PICK k \in Int : k = q - p - 1
    OBVIOUS
  <2>2. a - b = (r + m - s) + m * k
    BY <1>5, <2>1
  <2>3. PICK x \in Int, y \in Int : x = a - b /\ y = r + m - s
    BY <1>4
  <2>4. x % m = y % m
    BY <2>1, <2>2, <2>3, Congruent
  <2> QED
    BY <2>3, <2>4
<1> QED
  BY <1>1, <1>2, <1>6

\* The sum of two wrapped counters wraps to the wrapped sum.
LEMMA SumWraps ==
  ASSUME NEW m \in Nat \ {0}, NEW a \in Int, NEW b \in Int
  PROVE  ((a % m) + (b % m)) % m = (a + b) % m
<1>1. PICK q \in Int, r \in 0 .. m - 1 : a = m * q + r /\ a % m = r
  BY Division
<1>2. PICK p \in Int, s \in 0 .. m - 1 : b = m * p + s /\ b % m = s
  BY Division
<1>3. m * (q + p) = m * q + m * p
  OBVIOUS
<1>4. m * q \in Int /\ m * p \in Int /\ a + b \in Int /\ r + s \in Int
  OBVIOUS
<1>5. a + b = (r + s) + m * (q + p)
  BY <1>1, <1>2, <1>3, <1>4
<1>6. (a + b) % m = (r + s) % m
  BY <1>4, <1>5, q + p \in Int, Congruent
<1> QED
  BY <1>1, <1>2, <1>6
=============================================================================

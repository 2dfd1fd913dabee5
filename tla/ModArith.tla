------------------------------- MODULE ModArith -------------------------------
(***************************************************************************)
(* Facts about division with remainder for any modulus, which the proofs   *)
(* about wrapping counters and slot indices need.                          *)
(***************************************************************************)
EXTENDS Integers, TLAPS

\* The remainder and the quotient of a division.
LEMMA ModDef ==
    ASSUME NEW a \in Int, NEW m \in Nat \ {0}
    PROVE  /\ a % m \in 0 .. m - 1
           /\ a \div m \in Int
           /\ a = m * (a \div m) + (a % m)
  OBVIOUS

\* Quotient and remainder are unique.
LEMMA ModUnique ==
    ASSUME NEW m \in Nat \ {0}, NEW q1 \in Int, NEW q2 \in Int,
           NEW r1 \in 0 .. m - 1, NEW r2 \in 0 .. m - 1,
           m * q1 + r1 = m * q2 + r2
    PROVE  q1 = q2 /\ r1 = r2
<1>1. q1 < q2 => m * (q2 - q1) >= m
  OBVIOUS
<1>2. q2 < q1 => m * (q1 - q2) >= m
  OBVIOUS
<1>3. m * (q2 - q1) = m * q2 - m * q1
  OBVIOUS
<1>4. m * (q1 - q2) = m * q1 - m * q2
  OBVIOUS
<1> QED BY <1>1, <1>2, <1>3, <1>4

\* Adding a multiple of the modulus leaves the remainder alone.
LEMMA ModAddMultiple ==
    ASSUME NEW m \in Nat \ {0}, NEW q \in Int, NEW a \in Int
    PROVE  (m * q + a) % m = a % m
<1> DEFINE x == m * q + a
           p == q + (a \div m)
<1>1. x \in Int
  OBVIOUS
<1>2. /\ a = m * (a \div m) + (a % m)
      /\ a \div m \in Int
      /\ a % m \in 0 .. m - 1
  BY ModDef
<1>3. p \in Int /\ m * p = m * q + m * (a \div m)
  BY <1>2
<1>4. x = m * p + (a % m)
  BY <1>2, <1>3
<1> HIDE DEF x, p
<1>5. /\ x = m * (x \div m) + (x % m)
      /\ x \div m \in Int
      /\ x % m \in 0 .. m - 1
  BY <1>1, ModDef
<1>6. x % m = a % m
  <2> DEFINE k == x \div m
             r == x % m
             r0 == a % m
  <2>1. k \in Int /\ p \in Int /\ r \in 0 .. m - 1 /\ r0 \in 0 .. m - 1
    BY <1>2, <1>3, <1>5
  <2>2. m * k + r = m * p + r0
    BY <1>4, <1>5
  <2> HIDE DEF k, r, r0
  <2>3. r = r0
    BY <2>1, <2>2, ModUnique
  <2> QED BY <2>3 DEF r, r0
<1> QED BY <1>6 DEF x

\* A number below the modulus is its own remainder.
LEMMA ModSmall ==
    ASSUME NEW m \in Nat \ {0}, NEW a \in 0 .. m - 1
    PROVE  a % m = a
<1>1. m * 0 + a = m * (a \div m) + (a % m) /\ a \div m \in Int /\ a % m \in 0 .. m - 1
  BY ModDef
<1> QED BY <1>1, ModUnique

\* A wrapping increment of a wrapped count wraps the incremented count.
LEMMA ModInc ==
    ASSUME NEW a \in Int, NEW m \in Nat \ {0}
    PROVE  ((a % m) + 1) % m = (a + 1) % m
<1>1. a = m * (a \div m) + (a % m) /\ a \div m \in Int /\ a % m \in Int
  BY ModDef
<1>2. a + 1 = m * (a \div m) + ((a % m) + 1)
  BY <1>1
<1>3. (a % m) + 1 \in Int
  BY <1>1
<1>4. (m * (a \div m) + ((a % m) + 1)) % m = ((a % m) + 1) % m
  BY <1>1, <1>3, ModAddMultiple
<1> QED BY <1>2, <1>4

\* A wrapping difference of wrapped counts wraps the difference.
LEMMA ModSub ==
    ASSUME NEW a \in Int, NEW b \in Int, NEW m \in Nat \ {0}
    PROVE  ((a % m) - (b % m)) % m = (a - b) % m
<1> DEFINE r == (a % m) - (b % m)
           q == (a \div m) - (b \div m)
<1>1. a = m * (a \div m) + (a % m) /\ a \div m \in Int /\ a % m \in Int
  BY ModDef
<1>2. b = m * (b \div m) + (b % m) /\ b \div m \in Int /\ b % m \in Int
  BY ModDef
<1>3. m * q = m * (a \div m) - m * (b \div m)
  BY <1>1, <1>2
<1>4. a - b = m * q + r
  BY <1>1, <1>2, <1>3
<1>5. q \in Int /\ r \in Int
  BY <1>1, <1>2
<1> HIDE DEF q, r
<1>6. (m * q + r) % m = r % m
  BY <1>5, ModAddMultiple
<1> QED BY <1>4, <1>6 DEF r

\* When c divides m, wrapping at m does not change the remainder modulo c.
LEMMA ModOfMod ==
    ASSUME NEW a \in Int, NEW m \in Nat \ {0}, NEW c \in Nat \ {0}, m % c = 0
    PROVE  (a % m) % c = a % c
<1> DEFINE k == (m \div c) * (a \div m)
<1>1. a = m * (a \div m) + (a % m) /\ a \div m \in Int /\ a % m \in Int
  BY ModDef
<1>2. m = c * (m \div c) /\ m \div c \in Int
  BY ModDef
<1>3. m * (a \div m) = c * k /\ k \in Int
  BY <1>1, <1>2
<1>4. a = c * k + (a % m)
  BY <1>1, <1>3
<1> HIDE DEF k
<1>5. (c * k + (a % m)) % c = (a % m) % c
  BY <1>1, <1>3, ModAddMultiple
<1> QED BY <1>4, <1>5

\* Two different numbers with one remainder are a modulus or more apart.
LEMMA ModApart ==
    ASSUME NEW i \in Int, NEW j \in Int, NEW c \in Nat \ {0},
           i % c = j % c, i < j
    PROVE  j - i >= c
<1>1. i = c * (i \div c) + (i % c) /\ i \div c \in Int /\ i % c \in Int
  BY ModDef
<1>2. j = c * (j \div c) + (j % c) /\ j \div c \in Int /\ j % c \in Int
  BY ModDef
<1>3. c * (j \div c) > c * (i \div c)
  BY <1>1, <1>2
<1>4. j \div c > i \div c
  BY <1>1, <1>2, <1>3
<1>5. c * ((j \div c) - (i \div c)) >= c
  BY <1>1, <1>2, <1>4
<1>6. c * ((j \div c) - (i \div c)) = c * (j \div c) - c * (i \div c)
  BY <1>1, <1>2
<1> QED BY <1>1, <1>2, <1>5, <1>6
=============================================================================

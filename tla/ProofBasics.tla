---------------------------- MODULE ProofBasics ----------------------------
(***************************************************************************)
(* Lemmas about numbers that the proofs of the project rest on: least      *)
(* elements, induction for sets of naturals, and sums modulo a number.     *)
(***************************************************************************)
EXTENDS Integers, WellFoundedInduction, TLAPS

\* A set of naturals that is not empty has a least element.
LEMMA Least ==
  ASSUME NEW T \in SUBSET Nat, T # {}
  PROVE  \E m \in T : \A k \in T : m <= k
<1>1. PICK x \in T : \A y \in T : ~ (<<y, x>> \in OpToRel(<, Nat))
  BY NatLessThanWellFounded, WFMin
<1>2. \A y \in T : ~ (y < x)
  BY <1>1 DEF OpToRel
<1> QED BY <1>2, SMT

\* Nothing is its own opposite.
LEMMA MinusZero ==
  ASSUME NEW x, x = 0
  PROVE  -x = 0
<1>1. \A y \in Int : y <= 0 /\ y >= 0 => -y = 0
  OBVIOUS
<1>2. x \in Int /\ x <= 0 /\ x >= 0
  OBVIOUS
<1> QED BY <1>1, <1>2

\* A set that contains 0 and with a number the next one is Nat.
LEMMA SetInduction ==
  ASSUME NEW S \in SUBSET Nat, 0 \in S, \A n \in S : n + 1 \in S
  PROVE  S = Nat
<1>1. SUFFICES ASSUME Nat \ S # {} PROVE FALSE
  OBVIOUS
<1>2. PICK m \in Nat \ S : \A k \in Nat \ S : m <= k
  BY Least, <1>1
<1>3. m # 0
  BY <1>2
<1>4. m - 1 \in Nat /\ m - 1 < m
  BY <1>3, <1>2
<1>5. m - 1 \in S
  BY <1>4, <1>2
<1> QED BY <1>5, <1>2, <1>4

\* Quotient and remainder.
LEMMA ModProperties ==
  ASSUME NEW M \in Nat \ {0}, NEW x \in Int
  PROVE  /\ x % M \in 0..(M - 1)
         /\ x \div M \in Int
         /\ x = M * (x \div M) + (x % M)
OBVIOUS

\* A positive multiple of M is at least M.
LEMMA MultipleIsNotLess ==
  ASSUME NEW M \in Nat \ {0}, NEW k \in Int, k >= 1
  PROVE  M * k >= M
<1>1. M * (k - 1) >= 0
  BY SMT
<1> QED BY <1>1, SMT

\* A number has one remainder.
LEMMA RemainderIsUnique ==
  ASSUME NEW M \in Nat \ {0}, NEW a \in Int, NEW b \in Int,
         NEW r \in 0..(M - 1), NEW s \in 0..(M - 1), M * a + r = M * b + s
  PROVE  r = s
<1>1. M * (a - b) = s - r
  BY SMT
<1>2. CASE a - b >= 1
  BY <1>1, <1>2, MultipleIsNotLess
<1>3. CASE b - a >= 1
  <2>1. M * (b - a) = r - s
    BY SMT
  <2> QED BY <2>1, <1>3, MultipleIsNotLess
<1>4. a = b \/ a - b >= 1 \/ b - a >= 1
  OBVIOUS
<1> QED BY <1>1, <1>2, <1>3, <1>4

\* A number that is small enough is its own remainder.
LEMMA RemainderOfSmall ==
  ASSUME NEW M \in Nat \ {0}, NEW x \in 0..(M - 1)
  PROVE  x % M = x
<1> DEFINE a == x \div M
           r == x % M
<1>1. a \in Int /\ r \in 0..(M - 1) /\ x = M * a + r
  BY ModProperties
<1> HIDE DEF a, r
<1>2. M * a + r = M * 0 + x
  BY <1>1
<1>3. r = x
  BY <1>1, <1>2, RemainderIsUnique
<1> QED BY <1>3 DEF r

\* A counter that wraps around after every addition is the sum that wraps
\* around once.
LEMMA ModOfSum ==
  ASSUME NEW M \in Nat \ {0}, NEW x \in Int, NEW d \in Int
  PROVE  ((x % M) + d) % M = (x + d) % M
<1> DEFINE y == (x % M) + d
           z == x + d
<1>1. y \in Int /\ z \in Int
  BY ModProperties
<1>2. y % M \in 0..(M - 1) /\ z % M \in 0..(M - 1)
  BY <1>1, ModProperties
<1>3. /\ y = M * (y \div M) + (y % M) /\ y \div M \in Int
      /\ z = M * (z \div M) + (z % M) /\ z \div M \in Int
  BY <1>1, ModProperties
<1>4. x = M * (x \div M) + (x % M) /\ x \div M \in Int
  BY ModProperties
<1>5. z = y + M * (x \div M)
  BY <1>4, ModProperties
<1> HIDE DEF y, z
<1> DEFINE b == (y \div M) + (x \div M)
           a == z \div M
           r == z % M
           s == y % M
<1>6. M * a + r = M * b + s
  BY <1>3, <1>4, <1>5, <1>1, <1>2, SMT
<1>7. a \in Int /\ b \in Int /\ r \in 0..(M - 1) /\ s \in 0..(M - 1)
  BY <1>2, <1>3, <1>4
<1> HIDE DEF a, b, r, s
<1>8. r = s
  BY <1>6, <1>7, RemainderIsUnique
<1> QED BY <1>8 DEF r, s, y, z
\* How far it is from n to the next number with the remainder rt.
LEMMA NextWithRemainder ==
  ASSUME NEW M \in Nat \ {0}, NEW n \in Int, NEW rt \in 0..(M - 1)
  PROVE  LET d == (rt - (n % M)) % M
         IN  /\ d \in 0..(M - 1) /\ (n + d) % M = rt
             /\ \A e \in 0..(M - 1) : (n + e) % M = rt => e = d
<1> DEFINE r == n % M
           q == n \div M
           d == (rt - r) % M
           p == (rt - r) \div M
<1>1. r \in Int /\ q \in Int /\ n = M * q + r
  BY ModProperties
<1>2. d \in 0..(M - 1) /\ p \in Int /\ rt - r = M * p + d
  <2>1. rt - r \in Int
    BY <1>1
  <2> HIDE DEF r
  <2> QED BY <2>1, ModProperties
<1> HIDE DEF r, q, d, p
<1>3. ASSUME NEW e \in 0..(M - 1)
      PROVE  \E w \in Int : n + e = M * w + ((n + e) % M) /\ (n + e) % M \in 0..(M - 1)
  <2> DEFINE x == n + e
  <2>1. x \in Int
    OBVIOUS
  <2> HIDE DEF x
  <2>2. x \div M \in Int /\ x = M * (x \div M) + (x % M) /\ x % M \in 0..(M - 1)
    BY <2>1, ModProperties
  <2> QED BY <2>2 DEF x
<1>4. n + d = M * (q - p) + rt /\ q - p \in Int
  BY <1>1, <1>2, SMT
<1>5. (n + d) % M = rt
  <2>1. PICK w \in Int : n + d = M * w + ((n + d) % M) /\ (n + d) % M \in 0..(M - 1)
    BY <1>2, <1>3
  <2>2. M * w + ((n + d) % M) = M * (q - p) + rt
    BY <1>4, <2>1
  <2> DEFINE z == (n + d) % M
  <2>3. z \in 0..(M - 1) /\ M * w + z = M * (q - p) + rt
    BY <2>1, <2>2
  <2> HIDE DEF z
  <2>4. z = rt
    BY <1>4, <2>3, RemainderIsUnique
  <2> QED BY <2>4 DEF z
<1>6. ASSUME NEW e \in 0..(M - 1), (n + e) % M = rt PROVE e = d
  <2>1. PICK w \in Int : n + e = M * w + rt
    BY <1>3, <1>6
  <2> DEFINE c == q - p
             x == M * w
             y == M * c
  <2>2. n + e = x + rt /\ n + d = y + rt /\ x \in Int /\ y \in Int
    BY <1>4, <2>1
  <2> HIDE DEF x, y
  <2>3. x + d = y + e
    BY <1>2, <2>2
  <2>4. c \in Int /\ M * w + d = M * c + e
    BY <1>4, <2>3 DEF x, y
  <2> HIDE DEF c
  <2> QED BY <1>2, <2>4, RemainderIsUnique
<1> QED BY <1>2, <1>5, <1>6 DEF d, r

=============================================================================

-------------------------- MODULE DelayListProofs ---------------------------
(***************************************************************************)
(* Lemmas about the lists with relative delays of DelayList, which the     *)
(* event queue and the coschedule queues are: the sums of the delays, and  *)
(* what linking an entry in and unlinking one does to the order and to the *)
(* times at which the other entries fire.                                  *)
(***************************************************************************)
EXTENDS DelayList, ProofBasics

\* Entries of the queue have a unit and a delay.
LEMMA EntryTypes ==
  ASSUME NEW q \in Seq(Entries)
  PROVE  /\ Len(q) \in Nat /\ DOMAIN q = 1..Len(q)
         /\ \A i \in 1..Len(q) : /\ q[i] \in Entries
                                /\ q[i].unit \in Units /\ q[i].time \in Int
<1>1. Len(q) \in Nat /\ DOMAIN q = 1..Len(q)
  OBVIOUS
<1>2. \A i \in 1..Len(q) : q[i] \in Entries
  OBVIOUS
<1>3. \A e \in Entries : e.unit \in Units /\ e.time \in Int
  BY DEF Entries
<1> QED BY <1>1, <1>2, <1>3

\* f[i] is the sum of the first i delays of q.
SumsTo(f, q, n) == /\ f \in [0..n -> Int] /\ f[0] = 0
                   /\ \A i \in 1..n : f[i] = f[i - 1] + q[i].time

\* The delays of a queue can be summed up.
LEMMA SumsExist ==
  ASSUME NEW q \in Seq(Entries)
  PROVE  \E f : SumsTo(f, q, Len(q))
<1> DEFINE g == [i \in Nat |-> IF i \in 1..Len(q) THEN q[i].time ELSE 0]
           P(n) == \E f \in [0..n -> Int] :
                     f[0] = 0 /\ \A i \in 1..n : f[i] = f[i - 1] + g[i]
           T == {n \in Nat : P(n)}
<1>0. Len(q) \in Nat /\ \A i \in 1..Len(q) : q[i].time \in Int
  BY EntryTypes
<1>1. g \in [Nat -> Int]
  BY <1>0
<1> HIDE DEF g
<1>2. 0 \in T
  <2> DEFINE z == [i \in 0..0 |-> 0]
  <2>1. z \in [0..0 -> Int] /\ z[0] = 0
    OBVIOUS
  <2>2. \A i \in 1..0 : FALSE
    OBVIOUS
  <2> HIDE DEF z
  <2>3. \E f \in [0..0 -> Int] : f[0] = 0 /\ \A i \in 1..0 : f[i] = f[i - 1] + g[i]
    BY <2>1, <2>2
  <2> QED BY <2>3
<1>3. ASSUME NEW n \in T PROVE n + 1 \in T
  <2>1. PICK f \in [0..n -> Int] :
          f[0] = 0 /\ \A i \in 1..n : f[i] = f[i - 1] + g[i]
    OBVIOUS
  <2> DEFINE h == [i \in 0..(n + 1) |-> IF i = n + 1 THEN f[n] + g[n + 1] ELSE f[i]]
  <2>2. n \in Nat /\ f[n] \in Int /\ g[n + 1] \in Int
    BY <1>1
  <2>3. h \in [0..(n + 1) -> Int]
    BY <2>2
  <2>4. h[0] = 0
    BY <2>1, <2>2
  <2>5. ASSUME NEW i \in 1..(n + 1) PROVE h[i] = h[i - 1] + g[i]
    <3>1. CASE i = n + 1
      <4>1. h[i] = f[n] + g[n + 1] /\ i - 1 = n /\ h[n] = f[n]
        BY <2>2, <3>1
      <4> QED BY <4>1, <3>1
    <3>2. CASE i # n + 1
      <4>1. i \in 1..n /\ i - 1 \in 0..n
        BY <2>2, <3>2
      <4>2. h[i] = f[i] /\ h[i - 1] = f[i - 1]
        BY <2>2, <4>1
      <4> QED BY <2>1, <4>1, <4>2
    <3> QED BY <3>1, <3>2
  <2> HIDE DEF h
  <2>6. P(n + 1)
    BY <2>3, <2>4, <2>5
  <2> HIDE DEF P
  <2> QED BY <2>2, <2>6
<1> HIDE DEF T
<1>4. T = Nat
  <2>1. T \in SUBSET Nat
    BY DEF T
  <2> QED BY <1>2, <1>3, <2>1, SetInduction
<1>5. Len(q) \in T
  BY <1>4
<1>6. PICK f \in [0..Len(q) -> Int] :
        f[0] = 0 /\ \A i \in 1..Len(q) : f[i] = f[i - 1] + g[i]
  BY <1>5 DEF T
<1>7. \A i \in 1..Len(q) : g[i] = q[i].time
  BY <1>0 DEF g
<1> QED BY <1>6, <1>7 DEF SumsTo

\* Accum is defined by a recursion; it has the values the recursion says.
LEMMA AccumSums ==
  ASSUME NEW q \in Seq(Entries)
  PROVE  SumsTo(Accum(q), q, Len(q))
<1> DEFINE F(a) == [i \in 0..Len(q) |-> IF i = 0 THEN 0 ELSE a[i - 1] + q[i].time]
<1>0. Len(q) \in Nat OBVIOUS
<1>1. PICK f : SumsTo(f, q, Len(q))
  BY SumsExist
<1>2. f = F(f)
  BY <1>1 DEF SumsTo
<1>3. Accum(q) = CHOOSE a : a = F(a)
  BY DEF Accum
<1>4. Accum(q) = F(Accum(q))
  BY <1>2, <1>3
<1> DEFINE A == Accum(q)
<1>5. A = [i \in 0..Len(q) |-> IF i = 0 THEN 0 ELSE A[i - 1] + q[i].time]
  BY <1>4
<1> HIDE DEF A, F
<1> DEFINE T == {n \in Nat : n <= Len(q) => A[n] \in Int}
<1>6. 0 \in T
  BY <1>5
<1>7. ASSUME NEW n \in T PROVE n + 1 \in T
  <2>1. SUFFICES ASSUME n + 1 <= Len(q) PROVE A[n + 1] \in Int
    OBVIOUS
  <2>2. A[n] \in Int /\ n + 1 \in 1..Len(q)
    BY <2>1
  <2>3. A[n + 1] = A[n] + q[n + 1].time
    BY <2>2, <1>5
  <2>4. q[n + 1].time \in Int
    BY <2>2, EntryTypes
  <2> QED BY <2>2, <2>3, <2>4
<1> HIDE DEF T
<1>8. T = Nat
  <2>1. T \in SUBSET Nat
    BY DEF T
  <2> QED BY <1>6, <1>7, <2>1, SetInduction
<1>9. \A n \in 0..Len(q) : A[n] \in Int
  BY <1>8 DEF T
<1>10. A \in [0..Len(q) -> Int]
  BY <1>5, <1>9
<1>11. A[0] = 0 /\ \A i \in 1..Len(q) : A[i] = A[i - 1] + q[i].time
  BY <1>5, <1>0
<1> QED BY <1>10, <1>11 DEF A, SumsTo

\* accum in the loops of scp.c, entry by entry.
LEMMA AccumProperties ==
  ASSUME NEW q \in Seq(Entries)
  PROVE  /\ \A i \in 0..Len(q) : Accum(q)[i] \in Int
         /\ Accum(q)[0] = 0
         /\ \A i \in 1..Len(q) : Accum(q)[i] = Accum(q)[i - 1] + q[i].time
BY AccumSums DEF SumsTo

\* The loop of _sim_activate stops at one place.
LEMMA InsertionPointExists ==
  ASSUME NEW q \in Seq(Entries), NEW t \in Int
  PROVE  /\ InsertionPoint(q, t) \in 0..Len(q)
         /\ \A i \in 1..InsertionPoint(q, t) : Accum(q)[i] <= t
         /\ InsertionPoint(q, t) < Len(q) => t < Accum(q)[InsertionPoint(q, t) + 1]
<1> DEFINE A == Accum(q)
           IsPoint(k) == (\A i \in 1..k : A[i] <= t) /\ (k < Len(q) => t < A[k + 1])
           T == {i \in 1..Len(q) : t < A[i]}
<1>1. Len(q) \in Nat /\ \A i \in 1..Len(q) : A[i] \in Int
  BY EntryTypes, AccumProperties
<1> HIDE DEF A
<1>2. \E k \in 0..Len(q) : IsPoint(k)
  <2>1. CASE T = {}
    <3>1. \A i \in 1..Len(q) : A[i] <= t
      BY <2>1, <1>1
    <3>2. IsPoint(Len(q))
      BY <3>1, <1>1
    <3> QED BY <3>2, <1>1
  <2>2. CASE T # {}
    <3>0. T \in SUBSET Nat
      BY <1>1
    <3>1. PICK m \in T : \A i \in T : m <= i
      <4> HIDE DEF T
      <4> QED BY <2>2, <3>0, Least
    <3>2. m \in 1..Len(q) /\ t < A[m]
      BY <3>1
    <3>3. \A i \in 1..(m - 1) : A[i] <= t
      BY <3>1, <3>2, <1>1
    <3>4. (m - 1) + 1 = m /\ m - 1 \in 0..Len(q)
      BY <3>2, <1>1
    <3>5. IsPoint(m - 1)
      BY <3>2, <3>3, <3>4
    <3> QED BY <3>4, <3>5
  <2> QED BY <2>1, <2>2
<1> DEFINE p == CHOOSE k \in 0..Len(q) : IsPoint(k)
<1>3. p \in 0..Len(q) /\ IsPoint(p)
  BY <1>2
<1>4. InsertionPoint(q, t) = p
  BY DEF InsertionPoint, A
<1> QED BY <1>3, <1>4 DEF A

\* Linking u in keeps the queue in order.
LEMMA InsertKeepsOrder ==
  ASSUME NEW q \in Seq(Entries), InOrder(q), NEW u \in Units, NEW t \in Int,
         \A i \in DOMAIN q : q[i].unit # u
  PROVE  LET r == Insert(q, InsertionPoint(q, t), u, t)
         IN  /\ r \in Seq(Entries) /\ Len(r) = Len(q) + 1
             /\ InOrder(r)
             /\ {r[i].unit : i \in DOMAIN r} = {q[i].unit : i \in DOMAIN q} \cup {u}
             /\ (t >= 0 /\ \A i \in DOMAIN q : q[i].time >= 0) =>
                  \A i \in DOMAIN r : r[i].time >= 0
<1> DEFINE k == InsertionPoint(q, t)
           A == Accum(q)
           n == Len(q)
           d == t - A[k]
           r == Insert(q, k, u, t)
<1>1. /\ n \in Nat /\ DOMAIN q = 1..n
      /\ \A i \in 1..n : q[i] \in Entries /\ q[i].unit \in Units /\ q[i].time \in Int
  BY EntryTypes
<1>2. /\ k \in 0..n /\ \A i \in 0..n : A[i] \in Int
      /\ A[0] = 0 /\ \A i \in 1..n : A[i] = A[i - 1] + q[i].time
  BY AccumProperties, InsertionPointExists
<1>3. (\A i \in 1..k : A[i] <= t) /\ (k < n => t < A[k + 1])
  BY InsertionPointExists
<1>4. r = [i \in 1..(n + 1) |->
             IF i <= k THEN q[i]
             ELSE IF i = k + 1 THEN [unit |-> u, time |-> d]
             ELSE IF i = k + 2 THEN [q[k + 1] EXCEPT !.time = @ - d]
             ELSE q[i - 1]]
  BY DEF Insert
<1> HIDE DEF k, A, n, r
<1>5. d \in Int
  BY <1>2
<1> HIDE DEF d
<1>6. /\ \A i \in 1..(n + 1) : i <= k => r[i] = q[i] /\ i \in 1..n
      /\ r[k + 1] = [unit |-> u, time |-> d] /\ k + 1 \in 1..(n + 1)
      /\ \A i \in 1..(n + 1) : i = k + 2 => r[i] = [q[k + 1] EXCEPT !.time = @ - d] /\ k + 1 \in 1..n
      /\ \A i \in 1..(n + 1) : i > k + 2 => r[i] = q[i - 1] /\ i - 1 \in 1..n
  BY <1>1, <1>2, <1>4
<1>7. ASSUME NEW i \in 1..(n + 1), i = k + 2
      PROVE  /\ r[i] \in Entries /\ r[i].unit = q[k + 1].unit
             /\ r[i].time = q[k + 1].time - d /\ r[i].time >= 0
  <2>1. k + 1 \in 1..n /\ q[k + 1] \in Entries /\ r[i] = [q[k + 1] EXCEPT !.time = @ - d]
    BY <1>1, <1>6, <1>7
  <2>2. r[i] \in Entries /\ r[i].unit = q[k + 1].unit /\ r[i].time = q[k + 1].time - d
    BY <2>1, <1>5, SMTT(30) DEF Entries
  <2>3. A[k + 1] = A[(k + 1) - 1] + q[k + 1].time /\ (k + 1) - 1 = k
    BY <2>1, <1>2
  <2>4. t < A[k + 1] /\ A[k] \in Int /\ A[k + 1] \in Int /\ q[k + 1].time \in Int
    BY <2>1, <1>1, <1>2, <1>3
  <2>5. q[k + 1].time - d = A[k + 1] - t
    BY <2>3, <2>4 DEF d
  <2> QED BY <2>2, <2>4, <2>5
<1>8. /\ r[k + 1] \in Entries /\ r[k + 1].unit = u /\ r[k + 1].time = d
      /\ k >= 1 => d >= 0
  <2>1. k >= 1 => A[k] <= t
    BY <1>2, <1>3
  <2>2. k >= 1 => d >= 0
    BY <1>2, <2>1 DEF d
  <2> QED BY <1>5, <1>6, <2>2 DEF Entries
<1>9. \A i \in 1..(n + 1) : i <= k \/ i = k + 1 \/ i = k + 2 \/ i > k + 2
  BY <1>1, <1>2
<1>10. \A i \in 1..(n + 1) : r[i] \in Entries
  BY <1>1, <1>6, <1>7, <1>8, <1>9
<1>11. r \in Seq(Entries) /\ Len(r) = n + 1 /\ DOMAIN r = 1..(n + 1)
  <2>1. r \in [1..(n + 1) -> Entries]
    BY <1>4, <1>10
  <2> QED BY <2>1, <1>1
\* Where the i-th entry of r was in q.
<1> DEFINE old(i) == IF i <= k THEN i ELSE i - 1
<1>12. \A i \in 1..(n + 1) : i # k + 1 => old(i) \in 1..n /\ r[i].unit = q[old(i)].unit
  BY <1>1, <1>2, <1>6, <1>7, <1>9
<1>13. InOrder(r)
  <2>1. ASSUME NEW i \in DOMAIN r, NEW j \in DOMAIN r, r[i].unit = r[j].unit
        PROVE  i = j
    <3>1. i \in 1..(n + 1) /\ j \in 1..(n + 1)
      BY <1>11
    <3>2. CASE i = k + 1 \/ j = k + 1
      BY <3>1, <3>2, <2>1, <1>1, <1>8, <1>12, SMTT(30)
    <3>3. CASE i # k + 1 /\ j # k + 1
      <4>1. old(i) = old(j)
        BY <3>1, <3>3, <2>1, <1>1, <1>12 DEF InOrder
      <4> QED BY <4>1, <3>1, <3>3, <1>1, <1>2
    <3> QED BY <3>2, <3>3
  <2>2. ASSUME NEW i \in DOMAIN r, i > 1 PROVE r[i].time >= 0
    <3>1. i \in 1..(n + 1)
      BY <1>11
    <3>2. CASE i <= k
      BY <3>1, <3>2, <2>2, <1>1, <1>6 DEF InOrder
    <3>3. CASE i = k + 1
      BY <3>1, <3>3, <2>2, <1>2, <1>8
    <3>4. CASE i = k + 2
      BY <3>1, <3>4, <1>7
    <3>5. CASE i > k + 2
      <4>1. r[i] = q[i - 1] /\ i - 1 \in 1..n /\ i - 1 > 1
        BY <3>1, <3>5, <1>2, <1>6
      <4> QED BY <4>1, <1>1 DEF InOrder
    <3> QED BY <3>1, <3>2, <3>3, <3>4, <3>5, <1>9
  <2> QED BY <2>1, <2>2 DEF InOrder
<1>14. {r[i].unit : i \in DOMAIN r} = {q[i].unit : i \in DOMAIN q} \cup {u}
  <2>1. ASSUME NEW i \in 1..(n + 1)
        PROVE  r[i].unit \in {q[j].unit : j \in 1..n} \cup {u}
    BY <1>8, <1>12
  <2>2. ASSUME NEW j \in 1..n
        PROVE  q[j].unit \in {r[i].unit : i \in 1..(n + 1)}
    <3> DEFINE i == IF j <= k THEN j ELSE j + 1
    <3>1. i \in 1..(n + 1) /\ i # k + 1 /\ old(i) = j
      BY <1>1, <1>2
    <3> QED BY <3>1, <1>12
  <2>3. u \in {r[i].unit : i \in 1..(n + 1)}
    BY <1>6, <1>8
  <2> QED BY <2>1, <2>2, <2>3, <1>1, <1>11
<1>15. ASSUME t >= 0, \A i \in DOMAIN q : q[i].time >= 0, NEW i \in DOMAIN r
       PROVE  r[i].time >= 0
  <2>1. i \in 1..(n + 1)
    BY <1>11
  <2>2. CASE i <= k
    BY <2>1, <2>2, <1>15, <1>1, <1>6
  <2>3. CASE i = k + 1
    BY <2>1, <2>3, <1>15, <1>2, <1>8 DEF d
  <2>4. CASE i = k + 2
    BY <2>1, <2>4, <1>7
  <2>5. CASE i > k + 2
    BY <2>1, <2>5, <1>15, <1>1, <1>6
  <2> QED BY <2>1, <2>2, <2>3, <2>4, <2>5, <1>9
<1> QED BY <1>11, <1>13, <1>14, <1>15 DEF r, k, n

\* Unlinking an entry keeps the queue in order.
LEMMA UnlinkKeepsOrder ==
  ASSUME NEW q \in Seq(Entries), InOrder(q), NEW k \in DOMAIN q
  PROVE  LET r == Unlink(q, k)
         IN  /\ r \in Seq(Entries) /\ Len(r) = Len(q) - 1
             /\ InOrder(r)
             /\ {r[i].unit : i \in DOMAIN r} = {q[i].unit : i \in DOMAIN q} \ {q[k].unit}
             /\ (\A i \in DOMAIN q : q[i].time >= 0) =>
                  \A i \in DOMAIN r : r[i].time >= 0
<1> DEFINE n == Len(q)
           r == Unlink(q, k)
<1>1. /\ n \in Nat /\ DOMAIN q = 1..n /\ k \in 1..n /\ n - 1 \in Nat
      /\ \A i \in 1..n : q[i] \in Entries /\ q[i].unit \in Units /\ q[i].time \in Int
  BY EntryTypes
<1>2. r = [i \in 1..(n - 1) |->
             IF i < k THEN q[i]
             ELSE IF i = k THEN [q[k + 1] EXCEPT !.time = @ + q[k].time]
             ELSE q[i + 1]]
  BY DEF Unlink
<1> HIDE DEF n, r
<1>3. /\ \A i \in 1..(n - 1) : i < k => r[i] = q[i] /\ i \in 1..n
      /\ \A i \in 1..(n - 1) : i > k => r[i] = q[i + 1] /\ i + 1 \in 1..n
  BY <1>1, <1>2
<1>4. ASSUME NEW i \in 1..(n - 1), i = k
      PROVE  /\ r[i] \in Entries /\ r[i].unit = q[k + 1].unit /\ k + 1 \in 1..n
             /\ r[i].time = q[k + 1].time + q[k].time
  <2>1. k + 1 \in 1..n /\ q[k + 1] \in Entries /\ r[i] = [q[k + 1] EXCEPT !.time = @ + q[k].time]
    BY <1>1, <1>2, <1>4
  <2> QED BY <2>1, <1>1, SMTT(30) DEF Entries
<1>5. \A i \in 1..(n - 1) : i < k \/ i = k \/ i > k
  BY <1>1
<1>6. \A i \in 1..(n - 1) : r[i] \in Entries
  BY <1>1, <1>3, <1>4, <1>5
<1>7. r \in Seq(Entries) /\ Len(r) = n - 1 /\ DOMAIN r = 1..(n - 1)
  <2>1. r \in [1..(n - 1) -> Entries]
    BY <1>2, <1>6
  <2> QED BY <2>1, <1>1
<1> DEFINE old(i) == IF i < k THEN i ELSE i + 1
<1>8. \A i \in 1..(n - 1) : /\ old(i) \in 1..n /\ old(i) # k
                           /\ r[i].unit = q[old(i)].unit
  BY <1>1, <1>3, <1>4, <1>5
<1>9. ASSUME NEW i \in DOMAIN r, i > 1 \/ \A j \in DOMAIN q : q[j].time >= 0
      PROVE  r[i].time >= 0
  <2>1. i \in 1..(n - 1)
    BY <1>7
  <2>2. CASE i < k
    BY <2>1, <2>2, <1>9, <1>1, <1>3 DEF InOrder
  <2>3. CASE i = k
    <3>1. k + 1 \in 1..n /\ k + 1 > 1 /\ r[i].time = q[k + 1].time + q[k].time
      BY <2>1, <2>3, <1>1, <1>4
    <3>2. q[k].time >= 0 /\ q[k + 1].time >= 0
      BY <3>1, <2>3, <1>9, <1>1 DEF InOrder
    <3> QED BY <3>1, <3>2, <1>1
  <2>4. CASE i > k
    <3>1. r[i] = q[i + 1] /\ i + 1 \in 1..n /\ i + 1 > 1
      BY <2>1, <2>4, <1>1, <1>3
    <3> QED BY <3>1, <1>1 DEF InOrder
  <2> QED BY <2>1, <2>2, <2>3, <2>4, <1>5
<1>10. InOrder(r)
  <2>1. ASSUME NEW i \in DOMAIN r, NEW j \in DOMAIN r, r[i].unit = r[j].unit
        PROVE  i = j
    <3>1. i \in 1..(n - 1) /\ j \in 1..(n - 1)
      BY <1>7
    <3>2. old(i) = old(j)
      BY <3>1, <2>1, <1>1, <1>8 DEF InOrder
    <3> QED BY <3>1, <3>2, <1>1
  <2> QED BY <2>1, <1>9 DEF InOrder
<1>11. {r[i].unit : i \in DOMAIN r} = {q[i].unit : i \in DOMAIN q} \ {q[k].unit}
  <2>1. ASSUME NEW i \in 1..(n - 1)
        PROVE  r[i].unit \in {q[j].unit : j \in 1..n} \ {q[k].unit}
    <3>1. q[old(i)].unit # q[k].unit
      BY <1>1, <1>8 DEF InOrder
    <3> QED BY <3>1, <1>8
  <2>2. ASSUME NEW j \in 1..n, q[j].unit # q[k].unit
        PROVE  q[j].unit \in {r[i].unit : i \in 1..(n - 1)}
    <3> DEFINE i == IF j < k THEN j ELSE j - 1
    <3>1. j # k
      BY <2>2
    <3>2. i \in 1..(n - 1) /\ old(i) = j
      BY <3>1, <1>1
    <3> QED BY <3>2, <1>8
  <2> QED BY <2>1, <2>2, <1>1, <1>7
<1> QED BY <1>7, <1>9, <1>10, <1>11 DEF r, n

\* Delays have no other sums than those of Accum.
LEMMA AccumIsOnlySum ==
  ASSUME NEW q \in Seq(Entries), NEW f, SumsTo(f, q, Len(q))
  PROVE  \A i \in 0..Len(q) : Accum(q)[i] = f[i]
<1> DEFINE A == Accum(q)
           T == {n \in Nat : n <= Len(q) => A[n] = f[n]}
<1>1. /\ Len(q) \in Nat /\ A[0] = 0 /\ f[0] = 0
      /\ \A i \in 1..Len(q) : A[i] = A[i - 1] + q[i].time /\ f[i] = f[i - 1] + q[i].time
  BY AccumSums, EntryTypes DEF SumsTo
<1> HIDE DEF A
<1>2. 0 \in T
  BY <1>1
<1>3. ASSUME NEW n \in T PROVE n + 1 \in T
  <2>1. SUFFICES ASSUME n + 1 <= Len(q) PROVE A[n + 1] = f[n + 1]
    OBVIOUS
  <2>2. n + 1 \in 1..Len(q) /\ (n + 1) - 1 = n /\ A[n] = f[n]
    BY <2>1, <1>1
  <2> QED BY <2>2, <1>1
<1> HIDE DEF T
<1>4. T = Nat
  <2>1. T \in SUBSET Nat
    BY DEF T
  <2> QED BY <1>2, <1>3, <2>1, SetInduction
<1> QED BY <1>1, <1>4 DEF T, A

\* The entries of a list in order fire in the order of the list.
LEMMA AccumInOrder ==
  ASSUME NEW q \in Seq(Entries), InOrder(q), NEW i \in 1..Len(q), NEW j \in 1..Len(q), i <= j
  PROVE  Accum(q)[i] <= Accum(q)[j]
<1> DEFINE A == Accum(q)
           T == {n \in Nat : i + n <= Len(q) => A[i] <= A[i + n]}
<1>1. /\ Len(q) \in Nat /\ i \in Nat /\ i >= 1
      /\ \A k \in 0..Len(q) : A[k] \in Int
      /\ \A k \in 1..Len(q) : A[k] = A[k - 1] + q[k].time /\ q[k].time \in Int
      /\ \A k \in 1..Len(q) : k > 1 => q[k].time >= 0
  BY AccumProperties, EntryTypes DEF InOrder
<1> HIDE DEF A
<1>2. 0 \in T
  BY <1>1
<1>3. ASSUME NEW n \in T PROVE n + 1 \in T
  <2>1. SUFFICES ASSUME i + (n + 1) <= Len(q) PROVE A[i] <= A[i + (n + 1)]
    OBVIOUS
  <2> DEFINE k == i + (n + 1)
  <2>2. k \in 1..Len(q) /\ k > 1 /\ k - 1 = i + n /\ k - 1 \in 0..Len(q) /\ i + n <= Len(q)
    BY <2>1, <1>1
  <2>3. A[k] = A[k - 1] + q[k].time /\ q[k].time >= 0 /\ q[k].time \in Int
    BY <2>2, <1>1
  <2>4. A[i] <= A[k - 1] /\ A[i] \in Int /\ A[k - 1] \in Int
    BY <2>2, <1>1
  <2> QED BY <2>3, <2>4
<1> HIDE DEF T
<1>4. T = Nat
  <2>1. T \in SUBSET Nat
    BY DEF T
  <2> QED BY <1>2, <1>3, <2>1, SetInduction
<1>5. j - i \in T /\ i + (j - i) = j
  BY <1>4
<1> QED BY <1>5, <1>1 DEF T, A

\* Linking an entry in leaves the others when they were.
LEMMA AccumOfInsert ==
  ASSUME NEW q \in Seq(Entries), NEW k \in 0..Len(q), NEW u \in Units, NEW t \in Int,
         Insert(q, k, u, t) \in Seq(Entries)
  PROVE  /\ Len(Insert(q, k, u, t)) = Len(q) + 1
         /\ \A i \in 1..(Len(q) + 1) :
              /\ Insert(q, k, u, t)[i].unit =
                   IF i <= k THEN q[i].unit ELSE IF i = k + 1 THEN u ELSE q[i - 1].unit
              /\ Accum(Insert(q, k, u, t))[i] =
                   IF i <= k THEN Accum(q)[i] ELSE IF i = k + 1 THEN t ELSE Accum(q)[i - 1]
<1> DEFINE A == Accum(q)
           n == Len(q)
           d == t - A[k]
           r == Insert(q, k, u, t)
           f == [i \in 0..(n + 1) |-> IF i <= k THEN A[i] ELSE IF i = k + 1 THEN t ELSE A[i - 1]]
<1>1. /\ n \in Nat /\ k \in 0..n /\ \A i \in 0..n : A[i] \in Int
      /\ A[0] = 0 /\ \A i \in 1..n : A[i] = A[i - 1] + q[i].time
      /\ \A i \in 1..n : q[i] \in Entries /\ q[i].time \in Int
  BY AccumProperties, EntryTypes
<1>2. r = [i \in 1..(n + 1) |->
             IF i <= k THEN q[i]
             ELSE IF i = k + 1 THEN [unit |-> u, time |-> d]
             ELSE IF i = k + 2 THEN [q[k + 1] EXCEPT !.time = @ - d]
             ELSE q[i - 1]]
  BY DEF Insert
<1>3. r \in Seq(Entries)
  OBVIOUS
<1> HIDE DEF A, n, r
<1>4. d \in Int /\ d = t - A[k]
  BY <1>1
<1> HIDE DEF d
<1>5. Len(r) = n + 1
  <2>1. DOMAIN r = 1..(n + 1)
    BY <1>2
  <2>2. DOMAIN r = 1..Len(r) /\ Len(r) \in Nat
    BY <1>3
  <2> QED BY <2>1, <2>2, <1>1
<1>6. \A i \in 1..(n + 1) :
        /\ i <= k => r[i] = q[i] /\ i \in 1..n
        /\ i = k + 1 => r[i] = [unit |-> u, time |-> d]
        /\ i = k + 2 => r[i] = [q[k + 1] EXCEPT !.time = @ - d] /\ k + 1 \in 1..n /\ i - 1 = k + 1
        /\ i > k + 2 => r[i] = q[i - 1] /\ i - 1 \in 1..n
  BY <1>1, <1>2, SMTT(30)
<1>7. \A i \in 1..(n + 1) : i <= k \/ i = k + 1 \/ i = k + 2 \/ i > k + 2
  BY <1>1
<1>8. \A i \in 1..(n + 1) :
        /\ i <= k => r[i].time = q[i].time /\ r[i].unit = q[i].unit
        /\ i = k + 1 => r[i].time = d /\ r[i].unit = u
        /\ i = k + 2 => r[i].time = q[i - 1].time - d /\ r[i].unit = q[i - 1].unit
        /\ i > k + 2 => r[i].time = q[i - 1].time /\ r[i].unit = q[i - 1].unit
  <2> TAKE i \in 1..(n + 1)
  <2>1. CASE i = k + 2
    <3>1. r[i] = [q[k + 1] EXCEPT !.time = @ - d] /\ q[k + 1] \in Entries /\ i - 1 = k + 1
      BY <2>1, <1>1, <1>6
    <3> QED BY <3>1, <2>1, <1>1 DEF Entries
  <2>2. CASE i # k + 2
    BY <2>2, <1>6
  <2> QED BY <2>1, <2>2
<1>9. SumsTo(f, r, n + 1)
  <2>1. f \in [0..(n + 1) -> Int]
    BY <1>1
  <2>2. f[0] = 0
    BY <1>1
  <2>3. ASSUME NEW i \in 1..(n + 1) PROVE f[i] = f[i - 1] + r[i].time
    <3>0. i \in 0..(n + 1) /\ i - 1 \in 0..(n + 1)
      BY <1>1
    <3>1. CASE i <= k
      <4>1. f[i] = A[i] /\ f[i - 1] = A[i - 1] /\ i \in 1..n
        BY <3>0, <3>1, <1>1
      <4> QED BY <4>1, <3>1, <1>1, <1>8
    <3>2. CASE i = k + 1
      <4>1. f[i] = t /\ f[i - 1] = A[k] /\ r[i].time = d /\ A[k] \in Int
        BY <3>0, <3>2, <1>1, <1>8
      <4> HIDE DEF f
      <4> QED BY <4>1, <1>4
    <3>3. CASE i = k + 2
      <4>1. f[i] = A[k + 1] /\ f[i - 1] = t /\ i - 1 = k + 1 /\ k + 1 \in 1..n
        BY <3>0, <3>3, <1>1
      <4>2. r[i].time = q[k + 1].time - d
        BY <4>1, <3>3, <1>8
      <4>3. A[k] \in Int /\ q[k + 1].time \in Int
        BY <4>1, <1>1
      <4>4. A[k + 1] = A[k] + q[k + 1].time
        <5>1. A[k + 1] = A[(k + 1) - 1] + q[k + 1].time /\ (k + 1) - 1 = k
          BY <4>1, <1>1
        <5> QED BY <5>1
      <4> HIDE DEF f
      <4>5. t + r[i].time = A[k + 1]
        BY <4>2, <4>3, <4>4, <1>4, SMTT(30)
      <4> QED BY <4>1, <4>5
    <3>4. CASE i > k + 2
      <4>1. f[i] = A[i - 1] /\ f[i - 1] = A[(i - 1) - 1] /\ i - 1 \in 1..n
        BY <3>0, <3>4, <1>1
      <4> QED BY <4>1, <3>4, <1>1, <1>8
    <3> QED BY <3>1, <3>2, <3>3, <3>4, <1>7
  <2> HIDE DEF f
  <2> QED BY <2>1, <2>2, <2>3 DEF SumsTo
<1>10. \A i \in 0..(n + 1) : Accum(r)[i] = f[i]
  <2> HIDE DEF f
  <2> QED BY <1>3, <1>5, <1>9, AccumIsOnlySum
<1>11. \A i \in 1..(n + 1) :
         Accum(r)[i] = IF i <= k THEN A[i] ELSE IF i = k + 1 THEN t ELSE A[i - 1]
  BY <1>1, <1>10
<1>12. \A i \in 1..(n + 1) :
         r[i].unit = IF i <= k THEN q[i].unit ELSE IF i = k + 1 THEN u ELSE q[i - 1].unit
  BY <1>1, <1>7, <1>8
<1> QED BY <1>5, <1>11, <1>12 DEF A, n, r

\* Unlinking an entry leaves the others when they were.
LEMMA AccumOfUnlink ==
  ASSUME NEW q \in Seq(Entries), NEW k \in DOMAIN q, Unlink(q, k) \in Seq(Entries)
  PROVE  /\ Len(Unlink(q, k)) = Len(q) - 1
         /\ \A i \in 1..(Len(q) - 1) :
              /\ Unlink(q, k)[i].unit = IF i < k THEN q[i].unit ELSE q[i + 1].unit
              /\ Accum(Unlink(q, k))[i] = IF i < k THEN Accum(q)[i] ELSE Accum(q)[i + 1]
<1> DEFINE A == Accum(q)
           n == Len(q)
           r == Unlink(q, k)
           f == [i \in 0..(n - 1) |-> IF i < k THEN A[i] ELSE A[i + 1]]
<1>1. /\ n \in Nat /\ k \in 1..n /\ \A i \in 0..n : A[i] \in Int
      /\ A[0] = 0 /\ \A i \in 1..n : A[i] = A[i - 1] + q[i].time
      /\ \A i \in 1..n : q[i] \in Entries /\ q[i].time \in Int
  BY AccumProperties, EntryTypes
<1>2. r = [i \in 1..(n - 1) |->
             IF i < k THEN q[i]
             ELSE IF i = k THEN [q[k + 1] EXCEPT !.time = @ + q[k].time]
             ELSE q[i + 1]]
  BY DEF Unlink
<1>3. r \in Seq(Entries)
  OBVIOUS
<1> HIDE DEF A, n, r
<1>5. Len(r) = n - 1
  <2>1. DOMAIN r = 1..(n - 1)
    BY <1>2
  <2>2. DOMAIN r = 1..Len(r) /\ Len(r) \in Nat
    BY <1>3
  <2> QED BY <2>1, <2>2, <1>1, SMTT(30)
<1>6. \A i \in 1..(n - 1) :
        /\ i < k => r[i].time = q[i].time /\ r[i].unit = q[i].unit
        /\ i = k => r[i].time = q[i + 1].time + q[i].time /\ r[i].unit = q[i + 1].unit
        /\ i > k => r[i].time = q[i + 1].time /\ r[i].unit = q[i + 1].unit
  <2> TAKE i \in 1..(n - 1)
  <2>1. CASE i = k
    <3>1. r[i] = [q[i + 1] EXCEPT !.time = @ + q[i].time] /\ q[i + 1] \in Entries
      BY <2>1, <1>1, <1>2, SMTT(30)
    <3> QED BY <3>1, <2>1, <1>1 DEF Entries
  <2>2. CASE i # k
    BY <2>2, <1>1, <1>2
  <2> QED BY <2>1, <2>2
<1>7. SumsTo(f, r, n - 1)
  <2>1. f \in [0..(n - 1) -> Int]
    BY <1>1
  <2>2. f[0] = 0
    BY <1>1
  <2>3. ASSUME NEW i \in 1..(n - 1) PROVE f[i] = f[i - 1] + r[i].time
    <3>0. i \in 0..(n - 1) /\ i - 1 \in 0..(n - 1) /\ i \in 1..n /\ i + 1 \in 1..n
      BY <1>1
    <3>1. CASE i < k
      BY <3>0, <3>1, <1>1, <1>6
    <3>2. CASE i = k
      <4>1. f[i] = A[i + 1] /\ f[i - 1] = A[i - 1]
        BY <3>0, <3>2, <1>1
      <4>2. A[i] = A[i - 1] + q[i].time
        BY <3>0, <1>1
      <4>5. A[i + 1] = A[(i + 1) - 1] + q[i + 1].time
        BY <3>0, <1>1
      <4>6. (i + 1) - 1 = i
        BY <3>0
      <4>3. r[i].time = q[i + 1].time + q[i].time
        BY <3>2, <1>6
      <4>4. /\ A[i - 1] \in Int /\ q[i].time \in Int /\ q[i + 1].time \in Int
        BY <3>0, <1>1
      <4> QED BY <4>1, <4>2, <4>3, <4>4, <4>5, <4>6
    <3>3. CASE i > k
      <4>1. f[i] = A[i + 1] /\ f[i - 1] = A[(i - 1) + 1] /\ (i - 1) + 1 = i
        BY <3>0, <3>3, <1>1, SMTT(30)
      <4>2. A[i + 1] = A[(i + 1) - 1] + q[i + 1].time /\ (i + 1) - 1 = i
        BY <3>0, <1>1
      <4> QED BY <4>1, <4>2, <3>3, <1>6
    <3> QED BY <3>1, <3>2, <3>3, <1>1
  <2> HIDE DEF f
  <2> QED BY <2>1, <2>2, <2>3 DEF SumsTo
<1>8. \A i \in 0..(n - 1) : Accum(r)[i] = f[i]
  <2> HIDE DEF f
  <2> QED BY <1>3, <1>5, <1>7, AccumIsOnlySum
<1>9. \A i \in 1..(n - 1) : Accum(r)[i] = IF i < k THEN A[i] ELSE A[i + 1]
  BY <1>1, <1>8
<1>10. \A i \in 1..(n - 1) : r[i].unit = IF i < k THEN q[i].unit ELSE q[i + 1].unit
  BY <1>1, <1>6
<1> QED BY <1>5, <1>9, <1>10 DEF A, n, r

\* Lists that differ in the delay of the head differ in all sums by as much.
LEMMA AccumOfShifted ==
  ASSUME NEW q \in Seq(Entries), NEW r \in Seq(Entries), Len(r) = Len(q), NEW d \in Int,
         Len(q) > 0 => r[1].time = q[1].time + d,
         \A i \in 1..Len(q) : i > 1 => r[i].time = q[i].time
  PROVE  \A i \in 1..Len(q) : Accum(r)[i] = Accum(q)[i] + d
<1> DEFINE A == Accum(q)
           n == Len(q)
           f == [i \in 0..n |-> IF i = 0 THEN 0 ELSE A[i] + d]
<1>1. /\ n \in Nat /\ \A i \in 0..n : A[i] \in Int
      /\ A[0] = 0 /\ \A i \in 1..n : A[i] = A[i - 1] + q[i].time
      /\ \A i \in 1..n : q[i].time \in Int
  BY AccumProperties, EntryTypes
<1> HIDE DEF A
<1>2. SumsTo(f, r, n)
  <2>1. f \in [0..n -> Int] /\ f[0] = 0
    BY <1>1
  <2>2. ASSUME NEW i \in 1..n PROVE f[i] = f[i - 1] + r[i].time
    <3>1. i \in 0..n /\ i - 1 \in 0..n /\ f[i] = A[i] + d /\ A[i] = A[i - 1] + q[i].time
          /\ A[i - 1] \in Int /\ q[i].time \in Int
      BY <1>1
    <3>2. CASE i = 1
      BY <3>1, <3>2, <1>1
    <3>3. CASE i # 1
      <4>1. f[i - 1] = A[i - 1] + d /\ r[i].time = q[i].time
        BY <3>1, <3>3, <1>1
      <4> QED BY <3>1, <4>1
    <3> QED BY <3>2, <3>3
  <2> HIDE DEF f
  <2> QED BY <2>1, <2>2 DEF SumsTo
<1>3. \A i \in 0..n : Accum(r)[i] = f[i]
  <2> HIDE DEF f
  <2> QED BY <1>2, AccumIsOnlySum
<1> QED BY <1>1, <1>3 DEF A

\* The entries behind the head are later by its delay.
LEMMA AccumOfTail ==
  ASSUME NEW q \in Seq(Entries), q # <<>>
  PROVE  /\ Tail(q) \in Seq(Entries) /\ Len(Tail(q)) = Len(q) - 1
         /\ \A i \in 1..(Len(q) - 1) :
              /\ Tail(q)[i] = q[i + 1]
              /\ Accum(Tail(q))[i] = Accum(q)[i + 1] - q[1].time
<1> DEFINE A == Accum(q)
           n == Len(q)
           r == Tail(q)
           h == q[1].time
           f == [i \in 0..(n - 1) |-> A[i + 1] - h]
<1>0. /\ r \in Seq(Entries) /\ Len(r) = n - 1
      /\ \A i \in 1..(n - 1) : r[i] = q[i + 1]
  OBVIOUS
<1>1. /\ n \in Nat /\ n >= 1 /\ \A i \in 0..n : A[i] \in Int
      /\ A[0] = 0 /\ \A i \in 1..n : A[i] = A[i - 1] + q[i].time
      /\ \A i \in 1..n : q[i].time \in Int
  BY AccumProperties, EntryTypes
<1> HIDE DEF A, r
<1>2. A[1] = h /\ h \in Int
  <2>1. 1 \in 1..n /\ 1 - 1 = 0
    BY <1>1
  <2> QED BY <2>1, <1>1
<1> HIDE DEF h
<1>3. SumsTo(f, r, n - 1)
  <2>1. f \in [0..(n - 1) -> Int] /\ f[0] = 0
    BY <1>1, <1>2
  <2>2. ASSUME NEW i \in 1..(n - 1) PROVE f[i] = f[i - 1] + r[i].time
    <3>1. i \in 0..(n - 1) /\ i - 1 \in 0..(n - 1) /\ i + 1 \in 1..n /\ i \in 0..n
      BY <1>1
    <3>2. f[i] = A[i + 1] - h /\ f[i - 1] = A[(i - 1) + 1] - h /\ (i - 1) + 1 = i
      BY <3>1
    <3>3. A[i + 1] = A[(i + 1) - 1] + q[i + 1].time /\ (i + 1) - 1 = i /\ r[i] = q[i + 1]
      BY <3>1, <1>0, <1>1
    <3>4. A[i] \in Int /\ q[i + 1].time \in Int
      BY <3>1, <1>1
    <3> QED BY <3>2, <3>3, <3>4, <1>2
  <2> HIDE DEF f
  <2> QED BY <2>1, <2>2 DEF SumsTo
<1>4. \A i \in 0..(n - 1) : Accum(r)[i] = f[i]
  <2> HIDE DEF f
  <2> QED BY <1>0, <1>3, AccumIsOnlySum
<1>5. \A i \in 1..(n - 1) : Accum(r)[i] = A[i + 1] - h
  BY <1>1, <1>4
<1> QED BY <1>0, <1>5 DEF A, r, h
=============================================================================

------------------------ MODULE WallclockQueueProofs -------------------------
(***************************************************************************)
(* Proofs about WallclockQueue, for any units and delays, when no unit is  *)
(* activated at the prompt.                                                *)
(***************************************************************************)
EXTENDS WallclockQueue, SequenceTheorems, ProofBasics

-----------------------------------------------------------------------------
(***************************************************************************)
(* Queues.                                                                 *)
(***************************************************************************)

\* A queue of units, each of them once, in the order of the times f.
Once(q, n) == \A i, j \in 1 .. n : q[i] = q[j] => i = j

Ascending(q, n, f) == \A i, j \in 1 .. n : i < j => f[q[i]] <= f[q[j]]

InOrder(q, f) == q \in Seq(Units) /\ Once(q, Len(q)) /\ Ascending(q, Len(q), f)

\* r is the first n of q, and u is put in at k; or what is at k is taken out.
Inserted(r, q, n, k, u) ==
  \A i \in 1 .. n + 1 : r[i] = IF i < k THEN q[i] ELSE IF i = k THEN u ELSE q[i - 1]

Removed(r, q, n, k) == \A i \in 1 .. n - 1 : r[i] = IF i < k THEN q[i] ELSE q[i + 1]

\* u comes behind all that are before k, and in front of all that are behind.
Fits(f, q, n, u, k) ==
  /\ \A i \in 1 .. k - 1 : f[q[i]] <= f[u]
  /\ k <= n => f[u] <= f[q[k]]

\* What InsertAt and RemoveAt make of a sequence.
LEMMA InsertAtElements ==
  ASSUME NEW S, NEW q \in Seq(S), NEW k \in 1 .. Len(q) + 1, NEW e \in S
  PROVE  LET r == InsertAt(q, k, e)
         IN  r \in Seq(S) /\ Len(r) = Len(q) + 1 /\ Inserted(r, q, Len(q), k, e)
<1> DEFINE a == SubSeq(q, 1, k - 1)
           b == SubSeq(q, k, Len(q))
           c == a \o <<e>>
           r == c \o b
<1>1. Len(q) \in Nat /\ k \in Int /\ \A i \in 1 .. Len(q) : q[i] \in S
  BY ElementOfSeq, LenProperties
<1>2. /\ a \in Seq(S) /\ Len(a) = k - 1
      /\ \A i \in 1 .. k - 1 : a[i] = q[i]
  <2>1. \A i \in 1 .. k - 1 : q[i] \in S
    BY <1>1
  <2>2. /\ a \in Seq(S) /\ Len(a) = IF 1 <= k - 1 THEN (k - 1) - 1 + 1 ELSE 0
        /\ \A i \in 1 .. (k - 1) - 1 + 1 : a[i] = q[1 + i - 1]
    BY <1>1, <2>1, SubSeqProperties
  <2> HIDE DEF a
  <2> QED BY <1>1, <2>2
<1>3. /\ b \in Seq(S) /\ Len(b) = Len(q) - k + 1
      /\ \A i \in 1 .. Len(q) - k + 1 : b[i] = q[k + i - 1]
  <2>1. \A i \in k .. Len(q) : q[i] \in S
    BY <1>1
  <2>2. /\ b \in Seq(S) /\ Len(b) = IF k <= Len(q) THEN Len(q) - k + 1 ELSE 0
        /\ \A i \in 1 .. Len(q) - k + 1 : b[i] = q[k + i - 1]
    BY <1>1, <2>1, SubSeqProperties
  <2> HIDE DEF b
  <2> QED BY <1>1, <2>2
<1> HIDE DEF a, b
<1>4. <<e>> \in Seq(S) /\ Len(<<e>>) = 1 /\ <<e>>[1] = e
  OBVIOUS
<1>5. /\ c \in Seq(S) /\ Len(c) = k
      /\ \A i \in 1 .. k : c[i] = IF i < k THEN q[i] ELSE e
  <2>1. /\ c \in Seq(S) /\ Len(c) = Len(a) + Len(<<e>>)
        /\ \A i \in 1 .. Len(a) + Len(<<e>>) :
             c[i] = IF i <= Len(a) THEN a[i] ELSE <<e>>[i - Len(a)]
    BY <1>2, <1>4, ConcatProperties
  <2> HIDE DEF c
  <2> QED BY <1>1, <1>2, <1>4, <2>1
<1> HIDE DEF c
<1>6. /\ r \in Seq(S) /\ Len(r) = Len(c) + Len(b)
      /\ \A i \in 1 .. Len(c) + Len(b) : r[i] = IF i <= Len(c) THEN c[i] ELSE b[i - Len(c)]
  BY <1>3, <1>5, ConcatProperties
<1>7. InsertAt(q, k, e) = r
  BY DEF InsertAt, a, b, c
<1> HIDE DEF r
<1>8. Len(r) = Len(q) + 1
  BY <1>1, <1>3, <1>5, <1>6
<1>9. ASSUME NEW i \in 1 .. Len(q) + 1
      PROVE  r[i] = IF i < k THEN q[i] ELSE IF i = k THEN e ELSE q[i - 1]
  <2>1. CASE i <= k
    BY <1>1, <1>3, <1>5, <1>6, <1>8, <2>1
  <2>2. CASE i > k
    <3>1. i - k \in 1 .. Len(q) - k + 1 /\ r[i] = b[i - k]
      BY <1>1, <1>3, <1>5, <1>6, <1>8, <2>2
    <3>2. b[i - k] = q[k + (i - k) - 1] /\ k + (i - k) - 1 = i - 1
      BY <1>1, <1>3, <3>1
    <3> QED BY <2>2, <3>1, <3>2
  <2> QED BY <1>1, <2>1, <2>2
<1> QED BY <1>6, <1>7, <1>8, <1>9 DEF Inserted

LEMMA RemoveAtElements ==
  ASSUME NEW S, NEW q \in Seq(S), NEW k \in 1 .. Len(q)
  PROVE  LET r == RemoveAt(q, k)
         IN  r \in Seq(S) /\ Len(r) = Len(q) - 1 /\ Removed(r, q, Len(q), k)
<1> DEFINE a == SubSeq(q, 1, k - 1)
           b == SubSeq(q, k + 1, Len(q))
           r == a \o b
<1>1. Len(q) \in Nat /\ k \in Int /\ \A i \in 1 .. Len(q) : q[i] \in S
  BY ElementOfSeq, LenProperties
<1>2. /\ a \in Seq(S) /\ Len(a) = k - 1
      /\ \A i \in 1 .. k - 1 : a[i] = q[i]
  <2>1. \A i \in 1 .. k - 1 : q[i] \in S
    BY <1>1
  <2>2. /\ a \in Seq(S) /\ Len(a) = IF 1 <= k - 1 THEN (k - 1) - 1 + 1 ELSE 0
        /\ \A i \in 1 .. (k - 1) - 1 + 1 : a[i] = q[1 + i - 1]
    BY <1>1, <2>1, SubSeqProperties
  <2> HIDE DEF a
  <2> QED BY <1>1, <2>2
<1>3. /\ b \in Seq(S) /\ Len(b) = Len(q) - k
      /\ \A i \in 1 .. Len(q) - k : b[i] = q[k + i]
  <2>1. \A i \in k + 1 .. Len(q) : q[i] \in S
    BY <1>1
  <2>2. /\ b \in Seq(S)
        /\ Len(b) = IF k + 1 <= Len(q) THEN Len(q) - (k + 1) + 1 ELSE 0
        /\ \A i \in 1 .. Len(q) - (k + 1) + 1 : b[i] = q[(k + 1) + i - 1]
    BY <1>1, <2>1, SubSeqProperties
  <2> HIDE DEF b
  <2>3. \A i \in 1 .. Len(q) - k : (k + 1) + i - 1 = k + i
    BY <1>1
  <2> QED BY <1>1, <2>2, <2>3
<1> HIDE DEF a, b
<1>4. /\ r \in Seq(S) /\ Len(r) = Len(a) + Len(b)
      /\ \A i \in 1 .. Len(a) + Len(b) : r[i] = IF i <= Len(a) THEN a[i] ELSE b[i - Len(a)]
  BY <1>2, <1>3, ConcatProperties
<1>5. RemoveAt(q, k) = r
  BY DEF RemoveAt, a, b
<1> HIDE DEF r
<1>6. Len(r) = Len(q) - 1
  BY <1>1, <1>2, <1>3, <1>4
<1>7. ASSUME NEW i \in 1 .. Len(q) - 1 PROVE r[i] = IF i < k THEN q[i] ELSE q[i + 1]
  <2>0. r[i] = IF i <= k - 1 THEN a[i] ELSE b[i - (k - 1)]
    BY <1>1, <1>2, <1>3, <1>4
  <2>1. CASE i < k
    <3>1. i <= k - 1 /\ i \in 1 .. k - 1
      BY <1>1, <2>1
    <3> QED BY <1>2, <2>0, <2>1, <3>1
  <2>2. CASE i >= k
    <3>1. i - (k - 1) \in 1 .. Len(q) - k /\ r[i] = b[i - (k - 1)]
      BY <1>1, <2>0, <2>2
    <3>2. b[i - (k - 1)] = q[k + (i - (k - 1))] /\ k + (i - (k - 1)) = i + 1
      BY <1>1, <1>3, <3>1
    <3> QED BY <2>2, <3>1, <3>2
  <2> QED BY <1>1, <2>1, <2>2
<1> QED BY <1>4, <1>5, <1>6, <1>7 DEF Removed

\* The elements of a queue.
LEMMA QueueElements ==
  ASSUME NEW q \in Seq(Units)
  PROVE  /\ Len(q) \in Nat /\ DOMAIN q = 1 .. Len(q)
         /\ Range(q) \subseteq Units
         /\ \A i \in 1 .. Len(q) : q[i] \in Range(q)
         /\ \A u \in Range(q) : \E i \in 1 .. Len(q) : q[i] = u
         /\ q = <<>> <=> Len(q) = 0
         /\ q # <<>> => Head(q) = q[1] /\ Len(q) >= 1
<1>1. Len(q) \in Nat /\ DOMAIN q = 1 .. Len(q) /\ \A i \in 1 .. Len(q) : q[i] \in Units
  BY ElementOfSeq, LenProperties
<1>2. q = <<>> <=> Len(q) = 0
  BY EmptySeq
<1>3. q # <<>> => Head(q) = q[1]
  OBVIOUS
<1> QED BY <1>1, <1>2, <1>3 DEF Range

LEMMA EmptyInOrder ==
  ASSUME NEW f
  PROVE  InOrder(<<>>, f) /\ Range(<<>>) = {}
<1>1. <<>> \in Seq(Units) /\ Len(<<>>) = 0 /\ DOMAIN <<>> = {}
  OBVIOUS
<1>2. Range(<<>>) = {}
  BY <1>1 DEF Range
<1>3. Once(<<>>, 0) /\ Ascending(<<>>, 0, f)
  BY DEF Once, Ascending
<1> QED BY <1>1, <1>2, <1>3 DEF InOrder

\* Only the times of the units in the queue matter.
LEMMA SameOrder ==
  ASSUME NEW q, NEW f, NEW g, InOrder(q, f), \A u \in Range(q) : g[u] = f[u]
  PROVE  InOrder(q, g)
<1>1. /\ q \in Seq(Units) /\ Len(q) \in Nat
      /\ \A i \in 1 .. Len(q) : q[i] \in Range(q)
  BY QueueElements DEF InOrder
<1>2. Ascending(q, Len(q), f)
  BY DEF InOrder
<1>3. Ascending(q, Len(q), g)
  BY <1>1, <1>2 DEF Ascending
<1> QED BY <1>3 DEF InOrder

\* The same of functions: what r is when u is put at k into the first n of q.
LEMMA InsertAmong ==
  ASSUME NEW n \in Nat, NEW k \in 1 .. n + 1, NEW q, NEW r, NEW u, NEW f,
         \A i \in 1 .. n : f[q[i]] \in Int /\ q[i] # u,
         f[u] \in Int,
         Inserted(r, q, n, k, u), Once(q, n), Ascending(q, n, f), Fits(f, q, n, u, k)
  PROVE  Once(r, n + 1) /\ Ascending(r, n + 1, f)
<1> USE DEF Inserted, Once, Ascending, Fits
<1>1. \A i \in 1 .. n : i >= k => f[u] <= f[q[i]]
  <2> SUFFICES ASSUME NEW i \in 1 .. n, i >= k PROVE f[u] <= f[q[i]]
    OBVIOUS
  <2>1. k \in 1 .. n /\ f[u] <= f[q[k]] /\ (i = k \/ f[q[k]] <= f[q[i]])
    OBVIOUS
  <2> QED BY <2>1
<1>2. ASSUME NEW i \in 1 .. n + 1
      PROVE  /\ i < k => i \in 1 .. n /\ r[i] = q[i] /\ f[r[i]] <= f[u] /\ r[i] # u
             /\ i = k => r[i] = u
             /\ i > k => /\ i - 1 \in 1 .. n /\ r[i] = q[i - 1] /\ f[u] <= f[r[i]]
                         /\ r[i] # u
  <2>1. CASE i < k
    BY <2>1
  <2>2. CASE i = k
    BY <2>2
  <2>3. CASE i > k
    <3>1. i - 1 \in 1 .. n /\ i - 1 >= k
      BY <2>3
    <3> QED BY <1>1, <2>3, <3>1
  <2> QED BY <2>1, <2>2, <2>3
<1>3. SUFFICES ASSUME NEW i \in 1 .. n + 1, NEW j \in 1 .. n + 1
               PROVE  (r[i] = r[j] => i = j) /\ (i < j => f[r[i]] <= f[r[j]])
  OBVIOUS
<1>4. CASE i = k \/ j = k
  BY <1>2, <1>4
<1>5. CASE i < k /\ j < k
  BY <1>2, <1>5
<1>6. CASE i > k /\ j > k
  BY <1>2, <1>6
<1>7. CASE i < k /\ j > k
  <2>1. r[i] = q[i] /\ r[j] = q[j - 1] /\ i \in 1 .. n /\ j - 1 \in 1 .. n /\ i < j - 1 + 1
    BY <1>2, <1>7
  <2>2. i # j - 1 /\ i < j - 1
    BY <1>7, <2>1
  <2> QED BY <2>1, <2>2
<1>8. CASE i > k /\ j < k
  <2>1. r[i] = q[i - 1] /\ r[j] = q[j] /\ i - 1 \in 1 .. n /\ j \in 1 .. n
    BY <1>2, <1>8
  <2>2. i - 1 # j /\ ~(i < j)
    BY <1>8, <2>1
  <2> QED BY <2>1, <2>2
<1> QED BY <1>4, <1>5, <1>6, <1>7, <1>8

LEMMA InsertInOrder ==
  ASSUME NEW f \in [Units -> Int], NEW q, InOrder(q, f), NEW u \in Units, u \notin Range(q),
         NEW k \in 1 .. Len(q) + 1, Fits(f, q, Len(q), u, k)
  PROVE  LET r == InsertAt(q, k, u)
         IN  /\ InOrder(r, f) /\ Range(r) = Range(q) \cup {u} /\ r # <<>>
             /\ r[1] = IF k = 1 THEN u ELSE q[1]
<1> DEFINE r == InsertAt(q, k, u)
           n == Len(q)
<1>1. /\ q \in Seq(Units)
      /\ n \in Nat /\ DOMAIN q = 1 .. n /\ Range(q) \subseteq Units
      /\ \A i \in 1 .. n : q[i] \in Range(q)
      /\ \A v \in Range(q) : \E i \in 1 .. n : q[i] = v
  BY QueueElements DEF InOrder
<1>2. r \in Seq(Units) /\ Len(r) = n + 1 /\ Inserted(r, q, n, k, u)
  BY <1>1, InsertAtElements
<1> HIDE DEF r
<1>3. /\ DOMAIN r = 1 .. n + 1 /\ r # <<>>
      /\ \A i \in 1 .. n + 1 : r[i] \in Range(r)
      /\ \A v \in Range(r) : \E i \in 1 .. n + 1 : r[i] = v
  <2>1. Len(r) # 0
    BY <1>1, <1>2
  <2> QED BY <1>2, <2>1, QueueElements
<1>4. Once(q, n) /\ Ascending(q, n, f)
  BY <1>1 DEF InOrder
<1>5. k \in 1 .. n + 1 /\ Fits(f, q, n, u, k)
  OBVIOUS
<1>6. f[u] \in Int /\ \A i \in 1 .. n : f[q[i]] \in Int /\ q[i] # u
  BY <1>1
<1>7. \A i \in 1 .. n + 1 : r[i] = IF i < k THEN q[i] ELSE IF i = k THEN u ELSE q[i - 1]
  BY <1>2 DEF Inserted
<1> HIDE DEF n
<1>8. Once(r, n + 1) /\ Ascending(r, n + 1, f)
  BY <1>1, <1>2, <1>4, <1>5, <1>6, InsertAmong
<1>9. Range(r) = Range(q) \cup {u}
  <2>1. ASSUME NEW v \in Range(r) PROVE v \in Range(q) \cup {u}
    <3>1. PICK i \in 1 .. n + 1 : r[i] = v
      BY <1>3, <2>1
    <3>2. i < k => i \in 1 .. n
      BY <1>1, <1>5
    <3>3. i > k => i - 1 \in 1 .. n
      BY <1>1, <1>5
    <3>4. i \in Int /\ k \in Int
      BY <1>1, <1>5
    <3>5. r[i] = IF i < k THEN q[i] ELSE IF i = k THEN u ELSE q[i - 1]
      BY <1>7
    <3> QED BY <1>1, <3>1, <3>2, <3>3, <3>4, <3>5
  <2>2. ASSUME NEW v \in Range(q) PROVE v \in Range(r)
    <3>1. PICK i \in 1 .. n : q[i] = v
      BY <1>1, <2>2
    <3>2. CASE i < k
      <4>1. i \in 1 .. n + 1 /\ r[i] = q[i]
        BY <1>1, <1>7, <3>2
      <4> QED BY <1>3, <3>1, <4>1
    <3>3. CASE i >= k
      <4>1. i + 1 \in 1 .. n + 1 /\ ~(i + 1 < k) /\ i + 1 # k /\ (i + 1) - 1 = i
        BY <1>1, <1>5, <3>3
      <4>2. r[i + 1] = q[(i + 1) - 1]
        BY <1>7, <4>1
      <4> QED BY <1>3, <3>1, <4>1, <4>2
    <3>4. i \in Int /\ k \in Int
      BY <1>1, <1>5
    <3> QED BY <3>2, <3>3, <3>4
  <2>3. u \in Range(r)
    <3>1. r[k] = u
      BY <1>1, <1>5, <1>7
    <3> QED BY <1>3, <1>5, <3>1
  <2> QED BY <2>1, <2>2, <2>3
<1>10. r[1] = IF k = 1 THEN u ELSE q[1]
  BY <1>1, <1>5, <1>7
<1>11. InOrder(r, f)
  BY <1>2, <1>3, <1>8 DEF InOrder
<1> QED BY <1>3, <1>9, <1>10, <1>11 DEF r

\* And of taking k out of the first n.
LEMMA RemoveAmong ==
  ASSUME NEW n \in Nat, NEW k \in 1 .. n, NEW q, NEW r, NEW f,
         Removed(r, q, n, k), Once(q, n), Ascending(q, n, f)
  PROVE  Once(r, n - 1) /\ Ascending(r, n - 1, f)
<1> USE DEF Removed, Once, Ascending
<1> DEFINE at(i) == IF i < k THEN i ELSE i + 1
<1>1. SUFFICES ASSUME NEW i \in 1 .. n - 1, NEW j \in 1 .. n - 1
               PROVE  (r[i] = r[j] => i = j) /\ (i < j => f[r[i]] <= f[r[j]])
  OBVIOUS
<1>2. /\ at(i) \in 1 .. n /\ at(j) \in 1 .. n
      /\ at(i) = at(j) => i = j
      /\ i < j => at(i) < at(j)
  OBVIOUS
<1>3. r[i] = q[at(i)] /\ r[j] = q[at(j)]
  OBVIOUS
<1> HIDE DEF at
<1> QED BY <1>2, <1>3

LEMMA RemoveInOrder ==
  ASSUME NEW f \in [Units -> Int], NEW q, InOrder(q, f), NEW k \in 1 .. Len(q)
  PROVE  LET r == RemoveAt(q, k)
         IN  /\ InOrder(r, f) /\ Range(r) = Range(q) \ {q[k]}
             /\ r # <<>> /\ k # 1 => r[1] = q[1]
<1> DEFINE r == RemoveAt(q, k)
           n == Len(q)
<1>1. /\ q \in Seq(Units)
      /\ n \in Nat /\ DOMAIN q = 1 .. n
      /\ \A i \in 1 .. n : q[i] \in Range(q)
      /\ \A v \in Range(q) : \E i \in 1 .. n : q[i] = v
  BY QueueElements DEF InOrder
<1>2. r \in Seq(Units) /\ Len(r) = n - 1 /\ Removed(r, q, n, k)
  BY <1>1, RemoveAtElements
<1> HIDE DEF r
<1>3. /\ DOMAIN r = 1 .. n - 1
      /\ \A i \in 1 .. n - 1 : r[i] \in Range(r)
      /\ \A v \in Range(r) : \E i \in 1 .. n - 1 : r[i] = v
      /\ r # <<>> => n - 1 >= 1
  BY <1>2, QueueElements
<1>4. Once(q, n) /\ Ascending(q, n, f)
  BY <1>1 DEF InOrder
<1>5. /\ k \in 1 .. n
      /\ \A i \in 1 .. n - 1 : r[i] = IF i < k THEN q[i] ELSE q[i + 1]
  BY <1>2 DEF Removed
<1> HIDE DEF n
<1>6. Once(r, n - 1) /\ Ascending(r, n - 1, f)
  BY <1>1, <1>2, <1>4, <1>5, RemoveAmong
<1>7. Range(r) = Range(q) \ {q[k]}
  <2>1. ASSUME NEW v \in Range(r) PROVE v \in Range(q) \ {q[k]}
    <3>1. PICK i \in 1 .. n - 1 : r[i] = v
      BY <1>3, <2>1
    <3>2. i \in 1 .. n /\ i + 1 \in 1 .. n /\ i \in Int /\ k \in Int
      BY <1>1, <1>5
    <3>3. (i < k => i # k) /\ (~(i < k) => i + 1 # k)
      BY <3>2
    <3> QED BY <1>1, <1>4, <1>5, <3>1, <3>2, <3>3 DEF Once
  <2>2. ASSUME NEW v \in Range(q), v # q[k] PROVE v \in Range(r)
    <3>1. PICK i \in 1 .. n : q[i] = v
      BY <1>1, <2>2
    <3>2. CASE i < k
      <4>1. i \in 1 .. n - 1 /\ r[i] = q[i]
        BY <1>1, <1>5, <3>2
      <4> QED BY <1>3, <3>1, <4>1
    <3>3. CASE i > k
      <4>1. i - 1 \in 1 .. n - 1 /\ ~(i - 1 < k) /\ (i - 1) + 1 = i
        BY <1>1, <1>5, <3>3
      <4>2. r[i - 1] = q[(i - 1) + 1]
        BY <1>5, <4>1
      <4> QED BY <1>3, <3>1, <4>1, <4>2
    <3>4. i \in Int /\ k \in Int /\ i # k
      BY <1>1, <1>5, <2>2, <3>1
    <3> QED BY <3>2, <3>3, <3>4
  <2> QED BY <2>1, <2>2
<1>8. r # <<>> /\ k # 1 => r[1] = q[1]
  BY <1>1, <1>3, <1>5
<1>9. InOrder(r, f)
  BY <1>2, <1>3, <1>6 DEF InOrder
<1> QED BY <1>7, <1>8, <1>9 DEF r

LEMMA TailInOrder ==
  ASSUME NEW f \in [Units -> Int], NEW q, InOrder(q, f), q # <<>>
  PROVE  /\ InOrder(Tail(q), f) /\ Range(Tail(q)) = Range(q) \ {Head(q)}
         /\ Head(q) = q[1] /\ Head(q) \in Range(q) /\ Head(q) \in Units
<1>1. /\ q \in Seq(Units)
      /\ Len(q) \in Nat /\ Len(q) >= 1 /\ Head(q) = q[1]
      /\ \A i \in 1 .. Len(q) : q[i] \in Range(q)
      /\ Range(q) \subseteq Units
  BY QueueElements DEF InOrder
<1>2. RemoveAt(q, 1) = Tail(q)
  <2>1. /\ RemoveAt(q, 1) \in Seq(Units) /\ Len(RemoveAt(q, 1)) = Len(q) - 1
        /\ Removed(RemoveAt(q, 1), q, Len(q), 1)
    BY <1>1, RemoveAtElements
  <2>2. /\ Tail(q) \in Seq(Units) /\ Len(Tail(q)) = Len(q) - 1
        /\ \A i \in 1 .. Len(Tail(q)) : Tail(q)[i] = q[i + 1]
    BY <1>1, HeadTailProperties
  <2>3. \A i \in 1 .. Len(q) - 1 : RemoveAt(q, 1)[i] = q[i + 1]
    BY <1>1, <2>1 DEF Removed
  <2> QED BY <1>1, <2>1, <2>2, <2>3, SeqEqual
<1>3. 1 \in 1 .. Len(q)
  BY <1>1
<1> QED BY <1>1, <1>2, <1>3, RemoveInOrder, ZenonT(60)

-----------------------------------------------------------------------------
(***************************************************************************)
(* The inductive invariant.                                                *)
(***************************************************************************)

\* Where the units are that are linked.
Places ==
  /\ linked = Range(queue) \cup ({entry, newcomer} \ {NoUnit})
  /\ entry = NoUnit \/ entry # newcomer
  /\ entry \notin Range(queue) /\ newcomer \notin Range(queue)
  /\ linked \cap scheduled = {}
  /\ \A u \in Units : owed[u] => is_active(u)
  /\ \A u \in Units : due[u] < Forever

\* The main thread only waits with a newcomer, and hands units over, while the
\* machine runs; and while it runs, so does the timer thread.
Control ==
  /\ running => thread # "none"
  /\ pc \in {"busy", "signal"} => running
  /\ pc \in {"stop", "join"} => ~running
  /\ pc = "run" /\ ~running => thread = "none"
  /\ newcomer # NoUnit <=> pc = "busy"

\* The thread waits for the first unit; when it has timed out, that is near,
\* unless it was cancelled.
Waits ==
  /\ thread = "waiting" =>
       /\ running /\ pc # "signal" => entry = NoUnit
       /\ queue # <<>> => \/ until = due[queue[1]] - HalfIdle
                          \/ until = Late /\ due[queue[1]] <= HalfIdle
  /\ thread = "expired" /\ ~raced /\ queue # <<>> => due[queue[1]] <= HalfIdle

IInv ==
  /\ TypeOK
  /\ InOrder(queue, due)
  /\ Places
  /\ Control
  /\ Waits

-----------------------------------------------------------------------------
(***************************************************************************)
(* Each action keeps it.                                                   *)
(***************************************************************************)

\* The place of a unit in the queue.
LEMMA PlaceFits ==
  ASSUME NEW q, due \in [Units -> Int], InOrder(q, due), NEW d \in Int
  PROVE  /\ Place(d, q) \in 1 .. Len(q) + 1
         /\ \A j \in 1 .. Place(d, q) - 1 : due[q[j]] <= d
         /\ Place(d, q) <= Len(q) => d < due[q[Place(d, q)]]
<1> DEFINE n == Len(q)
           T == {i \in 1 .. n + 1 : i <= n => d < due[q[i]]}
           OK(i) == /\ \A j \in 1 .. i - 1 : due[q[j]] <= d
                    /\ i <= n => d < due[q[i]]
<1>1. n \in Nat /\ \A i \in 1 .. n : due[q[i]] \in Int
  <2>1. q \in Seq(Units)
    BY DEF InOrder
  <2> QED BY <2>1, QueueElements
<1> HIDE DEF n
<1>2. T \in SUBSET Nat /\ n + 1 \in T
  BY <1>1
<1>3. PICK m \in T : \A i \in T : m <= i
  BY <1>2, Least
<1>4. m \in 1 .. n + 1 /\ OK(m)
  <2>1. m \in 1 .. n + 1 /\ (m <= n => d < due[q[m]])
    BY <1>3
  <2>2. ASSUME NEW j \in 1 .. m - 1 PROVE due[q[j]] <= d
    <3>1. j \in 1 .. n /\ j \notin T
      BY <1>1, <1>3, <2>1
    <3>2. due[q[j]] \in Int /\ ~(d < due[q[j]])
      BY <1>1, <3>1
    <3> QED BY <3>2
  <2> QED BY <2>1, <2>2
<1>5. Place(d, q) = CHOOSE i \in 1 .. n + 1 : OK(i)
  BY DEF Place, n
<1> HIDE DEF OK
<1>6. Place(d, q) \in 1 .. n + 1 /\ OK(Place(d, q))
  BY <1>4, <1>5
<1> QED BY <1>6 DEF OK, n

\* What the steps below need of the types.
LEMMA InvFacts ==
  ASSUME IInv
  PROVE  /\ due \in [Units -> Int] /\ \A u \in Units : due[u] \in Late .. Forever - 1
         /\ queue \in Seq(Units) /\ Range(queue) \subseteq Units /\ NoUnit \notin Range(queue)
         /\ HalfIdle \in Nat \ {0} /\ NoUnit \notin Units
         /\ queue # <<>> => queue[1] \in Range(queue) /\ Head(queue) = queue[1]
         /\ Late = -1 /\ Forever = 1000
<1>1. queue \in Seq(Units)
  BY DEF IInv, TypeOK
<1>2. /\ Range(queue) \subseteq Units
      /\ queue # <<>> => queue[1] \in Range(queue) /\ Head(queue) = queue[1]
  <2>1. 1 \in 1 .. Len(queue) \/ Len(queue) = 0
    BY <1>1, QueueElements
  <2> QED BY <1>1, <2>1, QueueElements
<1>3. due \in [Units -> Int] /\ \A u \in Units : due[u] \in Late .. Forever - 1
  <2>1. due \in [Units -> -1 .. 1000]
    BY ZenonT(60) DEF IInv, TypeOK, Late, Forever
  <2>2. \A u \in Units : due[u] < 1000
    BY DEF IInv, Places, Forever
  <2>3. \A u \in Units : due[u] \in -1 .. 1000
    BY <2>1
  <2> QED BY <2>1, <2>2, <2>3, SMTT(30) DEF Late, Forever
<1>4. HalfIdle \in Nat \ {0} /\ NoUnit \notin Units
  BY WallclockAssumption
<1> QED BY <1>1, <1>2, <1>3, <1>4 DEF Late, Forever

\* The steps that leave the queue and the times alone.
LEMMA QueueIsLeft ==
  ASSUME IInv,
         Timeout \/ WakeUp \/ Exit \/ Signal \/ Start \/ Stop \/ StopServices
  PROVE  IInv'
<1>1. queue' = queue /\ due' = due /\ Range(queue)' = Range(queue)
  BY DEF Timeout, WakeUp, Exit, Signal, Start, Stop, StopServices
<1>2. TypeOK'
  BY DEF IInv, TypeOK, Timeout, WakeUp, Exit, Signal, Start, Stop, StopServices, threadOnly,
     Signalled
<1>3. InOrder(queue, due)'
  BY <1>1 DEF IInv
<1>4. Places'
  BY <1>1 DEF IInv, Places, is_active, Timeout, WakeUp, Exit, Signal, Start, Stop, StopServices,
     threadOnly
<1>5. Control'
  BY DEF IInv, TypeOK, Control, Timeout, WakeUp, Exit, Signal, Start, Stop, StopServices,
     threadOnly, Signalled
<1>6. Waits'
  <2>1. CASE Timeout
    BY <1>1, <2>1, InvFacts DEF IInv, TypeOK, Control, Waits, Timeout, threadOnly
  <2>2. CASE WakeUp \/ Exit
    BY <1>1, <2>2 DEF IInv, Waits, WakeUp, Exit, threadOnly
  <2>3. CASE Signal \/ Start \/ Stop \/ StopServices
    BY <1>1, <2>3 DEF IInv, Control, Waits, Signal, Start, Stop, StopServices, Signalled
  <2> QED BY <2>1, <2>2, <2>3
<1> QED BY <1>2, <1>3, <1>4, <1>5, <1>6 DEF IInv

LEMMA FireKeepsIt ==
  ASSUME IInv, NEW u \in Units, Fire(u)
  PROVE  IInv'
<1>1. queue' = queue /\ due' = due /\ Range(queue)' = Range(queue)
  BY DEF Fire
<1>2. TypeOK'
  BY DEF IInv, TypeOK, Fire
<1>3. InOrder(queue, due)'
  BY <1>1 DEF IInv
<1>4. Places'
  BY <1>1 DEF IInv, TypeOK, Places, is_active, Fire
<1>5. Control' /\ Waits'
  BY <1>1 DEF IInv, Control, Waits, Fire
<1> QED BY <1>2, <1>3, <1>4, <1>5 DEF IInv

LEMMA DigestedKeepsIt ==
  ASSUME IInv, Digested
  PROVE  IInv'
<1>1. queue' = queue /\ due' = due /\ Range(queue)' = Range(queue)
  BY DEF Digested
<1>2. TypeOK'
  BY DEF IInv, TypeOK, Digested
<1>3. InOrder(queue, due)'
  BY <1>1 DEF IInv
<1>4. Places'
  BY <1>1, InvFacts DEF IInv, Places, is_active, Digested
<1>5. Control' /\ Waits'
  BY <1>1, InvFacts DEF IInv, Control, Waits, Digested
<1> QED BY <1>2, <1>3, <1>4, <1>5 DEF IInv

LEMMA TickKeepsIt ==
  ASSUME IInv, Tick
  PROVE  IInv'
<1>1. queue' = queue /\ Range(queue)' = Range(queue)
  BY DEF Tick
<1>2. \A u \in Units : /\ due[u] \in Late .. Forever - 1
                       /\ due'[u] = Down(due[u]) /\ due'[u] \in Late .. Forever - 1
  <2>1. \A u \in Units : due'[u] = Down(due[u])
    BY DEF Tick
  <2> QED BY <2>1, InvFacts DEF Down
<1>3. TypeOK'
  <2>1. until' \in Late .. Forever
    BY InvFacts DEF IInv, TypeOK, Tick, Down
  <2>2. due' \in [Units -> Late .. Forever]
    <3>1. \A u \in Units : Down(due[u]) \in Late .. Forever
      BY <1>2, InvFacts
    <3> QED BY <3>1 DEF Tick
  <2> QED BY <2>1, <2>2 DEF IInv, TypeOK, Tick
<1>4. InOrder(queue, due)'
  <2>1. \A i \in 1 .. Len(queue) : queue[i] \in Units
    BY InvFacts, QueueElements
  <2>2. Ascending(queue, Len(queue), due) /\ Once(queue, Len(queue)) /\ queue \in Seq(Units)
    BY DEF IInv, InOrder
  <2>3. Ascending(queue, Len(queue), due')
    <3> SUFFICES ASSUME NEW i \in 1 .. Len(queue), NEW j \in 1 .. Len(queue), i < j
                 PROVE  due'[queue[i]] <= due'[queue[j]]
      BY DEF Ascending
    <3>1. due[queue[i]] <= due[queue[j]]
      BY <2>2 DEF Ascending
    <3>2. /\ due[queue[i]] \in Int /\ due'[queue[i]] = Down(due[queue[i]])
          /\ due[queue[j]] \in Int /\ due'[queue[j]] = Down(due[queue[j]])
          /\ due[queue[j]] >= Late
      BY <1>2, <2>1, InvFacts
    <3> QED BY <3>1, <3>2, InvFacts DEF Down
  <2> QED BY <1>1, <2>2, <2>3 DEF InOrder
<1>5. Places'
  <2>1. \A u \in Units : due'[u] < Forever
    BY <1>2, InvFacts
  <2> QED BY <1>1, <2>1 DEF IInv, Places, is_active, Tick
<1>6. Control'
  BY DEF IInv, Control, Tick
<1>7. Waits'
  <2>1. queue # <<>> => /\ due[queue[1]] \in Late .. Forever - 1
                        /\ due'[queue[1]] = Down(due[queue[1]])
    BY <1>2, InvFacts
  <2>2. until \in Late .. Forever
    BY DEF IInv, TypeOK
  <2>3. until' = IF until = Forever THEN until ELSE Down(until)
    BY DEF Tick
  <2> QED BY <1>1, <2>1, <2>2, <2>3, InvFacts DEF IInv, Waits, Down, Tick
<1> QED BY <1>3, <1>4, <1>5, <1>6, <1>7 DEF IInv

LEMMA MigrateKeepsIt ==
  ASSUME IInv, Migrate
  PROVE  IInv'
<1>1. queue' = <<>> /\ Range(queue') = {} /\ Range(queue)' = {}
  BY EmptyInOrder DEF Migrate
<1>2. \A u \in Units : due'[u] \in Late .. Forever - 1
  BY InvFacts DEF Migrate
<1>3. TypeOK'
  <2>1. due' \in [Units -> Late .. Forever]
    <3>1. \A u \in Units : (IF u \in Range(queue) THEN Late ELSE due[u]) \in Late .. Forever
      BY InvFacts
    <3> QED BY <3>1 DEF Migrate
  <2>2. queue' \in Seq(Units)
    BY <1>1
  <2> QED BY <2>1, <2>2, InvFacts DEF IInv, TypeOK, Migrate
<1>4. InOrder(queue, due)'
  BY <1>1, EmptyInOrder
<1>5. Places'
  <2>1. \A u \in Units : due'[u] < Forever
    BY <1>2, InvFacts
  <2> QED BY <1>1, <2>1, InvFacts DEF IInv, Places, Control, is_active, Migrate
<1>6. Control' /\ Waits'
  BY <1>1 DEF IInv, Control, Waits, Migrate
<1> QED BY <1>3, <1>4, <1>5, <1>6 DEF IInv

\* A queue q that holds what is linked, but for the newcomer, loses its head.
LEMMA TakeOffKeepsIt ==
  ASSUME IInv, NEW q, InOrder(q, due), q # <<>>, TakeOff(q),
         NEW e \in Units \cup {NoUnit}, entry' = e, e \notin Range(q), e # newcomer \/ e = NoUnit,
         newcomer \notin Range(q), linked = Range(q) \cup ({e, newcomer} \ {NoUnit}),
         newcomer' = newcomer, owed' = owed
  PROVE  /\ InOrder(queue, due)' /\ Places'
         /\ queue' \in Seq(Units) /\ linked' \subseteq Units /\ scheduled' \subseteq Units
         /\ due' \in [Units -> Late .. Forever]
<1> DEFINE h == Head(q)
<1>1. /\ InOrder(Tail(q), due) /\ Range(Tail(q)) = Range(q) \ {h}
      /\ h \in Range(q) /\ h \in Units
  BY InvFacts, TailInOrder
<1>2. /\ queue' = Tail(q) /\ linked' = linked \ {h} /\ scheduled' = scheduled \cup {h}
      /\ due' = [due EXCEPT ![h] = Late] /\ Range(queue)' = Range(q) \ {h}
  BY <1>1 DEF TakeOff
<1> HIDE DEF h
<1>3. due' \in [Units -> Late .. Forever] /\ \A u \in Units : due'[u] < Forever
  BY <1>1, <1>2, InvFacts DEF IInv, TypeOK
<1>4. InOrder(queue, due)'
  <2>1. \A u \in Range(Tail(q)) : due'[u] = due[u]
    <3>1. Range(q) \subseteq Units
      BY QueueElements DEF InOrder
    <3> QED BY <1>1, <1>2, <3>1, InvFacts
  <2> QED BY <1>1, <1>2, <2>1, SameOrder
<1>5. queue' \in Seq(Units) /\ linked' \subseteq Units /\ scheduled' \subseteq Units
  BY <1>1, <1>2 DEF IInv, TypeOK, InOrder
<1>6. Places'
  BY <1>1, <1>2, <1>3, InvFacts DEF IInv, Places, is_active
<1> QED BY <1>3, <1>4, <1>5, <1>6

LEMMA ExpireKeepsIt ==
  ASSUME IInv, Expire
  PROVE  IInv'
<1>1. CASE queue = <<>>
  <2>1. UNCHANGED <<queue, linked, due, scheduled, entry, until, threadOnly>>
        /\ Range(queue)' = Range(queue)
    BY <1>1 DEF Expire
  <2>2. TypeOK' /\ InOrder(queue, due)'
    BY <2>1 DEF IInv, TypeOK, Expire, threadOnly
  <2>3. Places' /\ Control' /\ Waits'
    BY <2>1 DEF IInv, Places, Control, Waits, is_active, Expire, threadOnly
  <2> QED BY <2>2, <2>3 DEF IInv
<1>2. CASE queue # <<>>
  <2>1. TakeOff(queue) /\ UNCHANGED <<entry, until, threadOnly>>
        /\ thread' = "top" /\ raced' = FALSE
    BY <1>2 DEF Expire
  <2>2. /\ InOrder(queue, due)' /\ Places'
        /\ queue' \in Seq(Units) /\ linked' \subseteq Units /\ scheduled' \subseteq Units
        /\ due' \in [Units -> Late .. Forever]
    BY <1>2, <2>1, TakeOffKeepsIt DEF IInv, TypeOK, Places, threadOnly
  <2>3. TypeOK'
    <3>1. raced' \in BOOLEAN
      BY <2>1
    <3>2. /\ UNCHANGED <<entry, until, running, pc, newcomer, owed>>
          /\ thread' \in {"none", "top", "waiting", "expired"}
      BY <2>1 DEF threadOnly
    <3> QED BY <2>2, <3>1, <3>2 DEF IInv, TypeOK
  <2>4. Control'
    <3>1. UNCHANGED <<running, pc, newcomer>> /\ thread' # "none" /\ thread = "expired"
      BY <2>1 DEF Expire, threadOnly
    <3> QED BY <3>1 DEF IInv, Control
  <2>5. Waits'
    BY <2>1 DEF Waits
  <2> QED BY <2>2, <2>3, <2>4, <2>5 DEF IInv
<1> QED BY <1>1, <1>2

\* The queue with the entry sorted in.
LEMMA SortedInOrder ==
  ASSUME IInv
  PROVE  /\ InOrder(Sorted(queue), due)
         /\ Range(Sorted(queue)) = Range(queue) \cup ({entry} \ {NoUnit})
<1>1. CASE entry = NoUnit
  BY <1>1 DEF IInv, Sorted
<1>2. CASE entry # NoUnit
  <2> DEFINE k == Place(due[entry], queue)
  <2>1. entry \in Units /\ entry \notin Range(queue) /\ due[entry] \in Int
        /\ due \in [Units -> Int] /\ InOrder(queue, due)
    BY <1>2, InvFacts DEF IInv, TypeOK, Places
  <2>2. k \in 1 .. Len(queue) + 1 /\ Fits(due, queue, Len(queue), entry, k)
    <3>1. /\ k \in 1 .. Len(queue) + 1
          /\ \A j \in 1 .. k - 1 : due[queue[j]] <= due[entry]
          /\ k <= Len(queue) => due[entry] < due[queue[k]]
      BY <2>1, PlaceFits
    <3> HIDE DEF k
    <3>2. k <= Len(queue) => due[queue[k]] \in Int
      <4>1. k <= Len(queue) => k \in 1 .. Len(queue)
        BY <3>1, InvFacts, QueueElements
      <4> QED BY <4>1, <2>1, InvFacts, QueueElements
    <3> QED BY <2>1, <3>1, <3>2 DEF Fits
  <2>3. Sorted(queue) = InsertAt(queue, k, entry)
    BY <1>2 DEF Sorted
  <2> HIDE DEF k
  <2> QED BY <1>2, <2>1, <2>2, <2>3, InsertInOrder
<1> QED BY <1>1, <1>2

LEMMA ScanKeepsIt ==
  ASSUME IInv, Scan
  PROVE  IInv'
<1> DEFINE q == Sorted(queue)
<1>1. /\ InOrder(q, due) /\ Range(q) = Range(queue) \cup ({entry} \ {NoUnit})
      /\ q \in Seq(Units)
  BY SortedInOrder DEF InOrder
<1>2. /\ thread = "top" /\ running /\ entry' = NoUnit
      /\ UNCHANGED <<running, pc, newcomer, owed, raced>>
  BY DEF Scan, threadOnly
<1>3. /\ newcomer \notin Range(q) /\ NoUnit \notin Range(q)
      /\ linked = Range(q) \cup ({NoUnit, newcomer} \ {NoUnit})
  BY <1>1, InvFacts DEF IInv, Places
<1>4. \/ q = <<>> /\ queue' = q /\ WaitFor(Forever) /\ UNCHANGED <<linked, due, scheduled>>
      \/ /\ q # <<>> /\ due[Head(q)] > HalfIdle
         /\ queue' = q /\ WaitFor(due[Head(q)] - HalfIdle)
         /\ UNCHANGED <<linked, due, scheduled>>
      \/ q # <<>> /\ TakeOff(q) /\ UNCHANGED <<thread, until>>
  BY DEF Scan
<1> HIDE DEF q
<1>5. q # <<>> => Head(q) = q[1] /\ q[1] \in Range(q) /\ q[1] \in Units
  <2>1. q # <<>> => 1 \in 1 .. Len(q) /\ Head(q) = q[1]
    BY <1>1, QueueElements
  <2> QED BY <1>1, <2>1, QueueElements
<1>6. CASE /\ queue' = q /\ UNCHANGED <<linked, due, scheduled>>
           /\ \/ q = <<>> /\ WaitFor(Forever)
              \/ q # <<>> /\ due[Head(q)] > HalfIdle /\ WaitFor(due[Head(q)] - HalfIdle)
  <2>1. Range(queue)' = Range(q)
    BY <1>6
  <2>2. thread' = "waiting" /\ until' \in Late .. Forever
    BY <1>5, <1>6, InvFacts DEF WaitFor
  <2>3. TypeOK'
    BY <1>1, <1>2, <1>6, <2>2 DEF IInv, TypeOK
  <2>4. InOrder(queue, due)'
    BY <1>1, <1>6
  <2>5. Places'
    BY <1>2, <1>3, <1>6, <2>1 DEF IInv, Places, is_active
  <2>6. Control'
    BY <1>2, <2>2 DEF IInv, Control
  <2>7. Waits'
    BY <1>2, <1>5, <1>6, <2>2 DEF Waits, WaitFor
  <2> QED BY <2>3, <2>4, <2>5, <2>6, <2>7 DEF IInv
<1>7. CASE q # <<>> /\ TakeOff(q) /\ UNCHANGED <<thread, until>>
  <2>1. /\ InOrder(queue, due)' /\ Places'
        /\ queue' \in Seq(Units) /\ linked' \subseteq Units /\ scheduled' \subseteq Units
        /\ due' \in [Units -> Late .. Forever]
    BY <1>1, <1>2, <1>3, <1>7, TakeOffKeepsIt
  <2>2. TypeOK'
    BY <1>2, <1>7, <2>1 DEF IInv, TypeOK
  <2>3. Control' /\ Waits'
    BY <1>2, <1>7 DEF IInv, Control, Waits
  <2> QED BY <2>1, <2>2, <2>3 DEF IInv
<1> QED BY <1>4, <1>6, <1>7

LEMMA CancelKeepsIt ==
  ASSUME IInv, NEW u \in Units, Cancel(u)
  PROVE  IInv'
<1>1. /\ queue \in Seq(Units) /\ InOrder(queue, due) /\ newcomer = NoUnit /\ pc = "run"
      /\ entry \in Units \cup {NoUnit}
  BY DEF IInv, TypeOK, InOrder, Control, Cancel
<1>2. /\ due' = [due EXCEPT ![u] = Late] /\ due' \in [Units -> Late .. Forever]
      /\ \A v \in Units : due'[v] < Forever /\ (v # u => due'[v] = due[v])
  BY InvFacts DEF IInv, TypeOK, Cancel
<1>3. /\ InOrder(Without(u), due) /\ Range(Without(u)) = Range(queue) \ {u}
      /\ Without(u) # <<>> => /\ queue # <<>>
                              /\ queue[1] # u => Without(u)[1] = queue[1]
  <2>1. CASE u \notin Range(queue)
    <3>1. Without(u) = queue
      BY <2>1 DEF Without
    <3> QED BY <1>1, <2>1, <3>1
  <2>2. CASE u \in Range(queue)
    <3> DEFINE k == CHOOSE i \in DOMAIN queue : queue[i] = u
    <3>1. k \in 1 .. Len(queue) /\ queue[k] = u
      BY <1>1, <2>2, QueueElements
    <3>2. Without(u) = RemoveAt(queue, k)
      BY <2>2 DEF Without
    <3>3. queue # <<>>
      BY <1>1, <3>1, QueueElements
    <3> HIDE DEF k
    <3>4. /\ InOrder(Without(u), due) /\ Range(Without(u)) = Range(queue) \ {u}
          /\ Without(u) # <<>> /\ k # 1 => Without(u)[1] = queue[1]
      BY <1>1, <3>1, <3>2, InvFacts, RemoveInOrder
    <3> QED BY <3>1, <3>3, <3>4
  <2> QED BY <2>1, <2>2
<1>4. queue' = Without(u) /\ Range(queue)' = Range(queue) \ {u}
  BY <1>3 DEF Cancel
<1>5. InOrder(queue, due)'
  <2>1. \A v \in Range(Without(u)) : due'[v] = due[v]
    BY <1>2, <1>3, InvFacts
  <2> QED BY <1>3, <1>4, <2>1, SameOrder
<1>6. TypeOK'
  <2>1. queue' \in Seq(Units)
    BY <1>5 DEF InOrder
  <2>2. raced' \in BOOLEAN /\ thread' \in {"none", "top", "waiting", "expired"}
    BY DEF IInv, TypeOK, Cancel, Signalled
  <2>3. /\ entry' \in Units \cup {NoUnit} /\ linked' \subseteq Units /\ scheduled' \subseteq Units
        /\ UNCHANGED <<running, until, pc, newcomer>>
    BY DEF IInv, TypeOK, Cancel
  <2>4. owed' \in [Units -> BOOLEAN]
    BY DEF IInv, TypeOK, Cancel
  <2> QED BY <1>2, <2>1, <2>2, <2>3, <2>4 DEF IInv, TypeOK
<1>7. Places'
  <2>1. /\ entry' = IF entry = u THEN NoUnit ELSE entry
        /\ linked' = linked \ {u} /\ scheduled' = scheduled \ {u} /\ newcomer' = newcomer
    BY <1>1 DEF IInv, Places, Cancel
  <2>2. linked' = Range(queue)' \cup ({entry', newcomer'} \ {NoUnit})
    BY <1>1, <1>4, <2>1, InvFacts DEF IInv, Places
  <2>3. \A v \in Units : owed'[v] => v \in linked' \cup scheduled'
    <3> TAKE v \in Units
    <3>1. CASE v = u
      BY <3>1 DEF IInv, TypeOK, Cancel
    <3>2. CASE v # u
      BY <2>1, <3>2 DEF IInv, TypeOK, Places, is_active, Cancel
    <3> QED BY <3>1, <3>2
  <2> QED BY <1>1, <1>2, <1>4, <2>1, <2>2, <2>3, InvFacts DEF IInv, Places, is_active
<1>8. Control'
  BY DEF IInv, Control, Cancel, Signalled
<1>9. Waits'
  <2>1. CASE queue # <<>> /\ u = Head(queue)
    <3>1. thread' = Signalled /\ raced' = (raced \/ thread = "expired")
      BY <2>1 DEF Cancel
    <3>2. thread' # "waiting" /\ (thread' = "expired" => raced')
      BY <3>1 DEF Signalled
    <3> QED BY <3>2 DEF Waits
  <2>2. CASE ~(queue # <<>> /\ u = Head(queue))
    <3>1. thread' = thread /\ raced' = raced /\ UNCHANGED <<running, until, pc>>
      BY <2>2 DEF Cancel
    <3>2. queue' # <<>> => queue # <<>> /\ queue'[1] = queue[1] /\ due'[queue'[1]] = due[queue[1]]
      BY <1>2, <1>3, <1>4, <2>2, InvFacts
    <3>3. entry = NoUnit => entry' = NoUnit
      BY DEF Cancel
    <3> QED BY <3>1, <3>2, <3>3 DEF IInv, Waits
  <2> QED BY <2>1, <2>2
<1> QED BY <1>5, <1>6, <1>7, <1>8, <1>9 DEF IInv

\* Without units that are activated at the prompt, the thread runs whenever one is.
LEMMA ActivateKeepsIt ==
  ASSUME IInv, AtPrompt = {}, NEW u \in Units, NEW d \in Delays, Activate(u, d)
  PROVE  IInv'
<1> DEFINE k == Place(d, queue)
<1>1. /\ queue \in Seq(Units) /\ InOrder(queue, due) /\ newcomer = NoUnit /\ pc = "run"
      /\ running /\ thread # "none"
      /\ u \notin linked /\ u \notin scheduled /\ u \notin Range(queue) /\ entry # u
      /\ u # NoUnit
  BY InvFacts DEF IInv, TypeOK, InOrder, Places, Control, Activate, is_active
<1>2. d \in Late .. Forever - 1 /\ d \in Int
  BY WallclockAssumption DEF Late, Forever
<1>3. /\ due' = [due EXCEPT ![u] = d] /\ due' \in [Units -> Late .. Forever]
      /\ due' \in [Units -> Int] /\ due'[u] = d
      /\ \A v \in Units : due'[v] < Forever /\ (v # u => due'[v] = due[v])
  <2>1. due' = [due EXCEPT ![u] = d]
    BY DEF Activate
  <2> QED BY <1>2, <2>1, InvFacts DEF IInv, TypeOK
<1>4. InOrder(queue, due')
  <2>1. \A v \in Range(queue) : due'[v] = due[v]
    BY <1>1, <1>3, InvFacts
  <2> QED BY <1>1, <2>1, SameOrder
<1>5. k \in 1 .. Len(queue) + 1 /\ Fits(due', queue, Len(queue), u, k)
  <2>1. /\ k \in 1 .. Len(queue) + 1
        /\ \A j \in 1 .. k - 1 : due[queue[j]] <= d
        /\ k <= Len(queue) => d < due[queue[k]]
    BY <1>1, <1>2, InvFacts, PlaceFits
  <2> HIDE DEF k
  <2>2. \A j \in 1 .. Len(queue) :
          due'[queue[j]] = due[queue[j]] /\ due[queue[j]] \in Int
    <3> TAKE j \in 1 .. Len(queue)
    <3>1. queue[j] \in Range(queue) /\ queue[j] \in Units
      BY <1>1, QueueElements
    <3> QED BY <1>1, <1>3, <3>1, InvFacts
  <2>3. Len(queue) \in Nat
    BY <1>1, QueueElements
  <2>4. \A j \in 1 .. k - 1 : j \in 1 .. Len(queue)
    BY <2>1, <2>3
  <2>5. k <= Len(queue) => k \in 1 .. Len(queue)
    BY <2>1, <2>3
  <2> QED BY <1>2, <1>3, <2>1, <2>2, <2>4, <2>5 DEF Fits
<1>6. /\ linked' = linked \cup {u} /\ owed' = [owed EXCEPT ![u] = TRUE]
      /\ UNCHANGED <<scheduled, running, thread, until, raced>>
      /\ \/ k > 1 /\ queue' = InsertAt(queue, k, u) /\ UNCHANGED <<entry, pc, newcomer>>
         \/ /\ k = 1 /\ entry # NoUnit
            /\ newcomer' = u /\ pc' = "busy" /\ UNCHANGED <<queue, entry>>
         \/ /\ k = 1 /\ entry = NoUnit
            /\ entry' = u /\ pc' = "signal" /\ UNCHANGED <<queue, newcomer>>
  BY <1>1 DEF Activate
<1> HIDE DEF k
<1>7. owed' \in [Units -> BOOLEAN] /\ linked' \subseteq Units
      /\ \A v \in Units : owed'[v] => v \in linked' \cup scheduled'
  BY <1>6 DEF IInv, TypeOK, Places, is_active
<1>8. CASE k > 1 /\ queue' = InsertAt(queue, k, u) /\ UNCHANGED <<entry, pc, newcomer>>
  <2>1. /\ InOrder(queue', due') /\ Range(queue') = Range(queue) \cup {u} /\ k # 1
        /\ queue' # <<>> /\ queue'[1] = queue[1]
    <3>1. k # 1
      BY <1>5, <1>8
    <3>2. due' \in [Units -> Int] /\ InOrder(queue, due') /\ u \notin Range(queue)
          /\ k \in 1 .. Len(queue) + 1 /\ Fits(due', queue, Len(queue), u, k)
      BY <1>1, <1>3, <1>4, <1>5
    <3>3. LET r == InsertAt(queue, k, u)
          IN  /\ InOrder(r, due') /\ Range(r) = Range(queue) \cup {u} /\ r # <<>>
              /\ r[1] = IF k = 1 THEN u ELSE queue[1]
      BY <3>2, InsertInOrder
    <3> QED BY <1>8, <3>1, <3>3
  <2>2. TypeOK'
    BY <1>3, <1>6, <1>7, <1>8, <2>1 DEF IInv, TypeOK, InOrder
  <2>3. Places' /\ InOrder(queue, due)'
    BY <1>1, <1>3, <1>6, <1>7, <1>8, <2>1 DEF IInv, Places, is_active
  <2>4. Control'
    BY <1>1, <1>6, <1>8 DEF IInv, Control
  <2>5. Waits'
    <3>1. queue # <<>>
      <4>1. Len(queue) # 0
        BY <1>1, <1>5, <1>8, QueueElements
      <4> QED BY <1>1, <4>1, QueueElements
    <3>2. due'[queue'[1]] = due[queue[1]]
      BY <1>1, <1>3, <2>1, <3>1, InvFacts
    <3> QED BY <1>6, <1>8, <3>1, <3>2 DEF IInv, Waits
  <2> QED BY <2>2, <2>3, <2>4, <2>5 DEF IInv
<1>9. CASE \/ /\ k = 1 /\ entry # NoUnit
              /\ newcomer' = u /\ pc' = "busy" /\ UNCHANGED <<queue, entry>>
           \/ /\ k = 1 /\ entry = NoUnit
              /\ entry' = u /\ pc' = "signal" /\ UNCHANGED <<queue, newcomer>>
  <2>1. queue' = queue /\ Range(queue)' = Range(queue)
    BY <1>9
  <2>2. TypeOK'
    BY <1>3, <1>6, <1>7, <1>9, <2>1 DEF IInv, TypeOK
  <2>3. Places' /\ InOrder(queue, due)'
    BY <1>1, <1>3, <1>4, <1>6, <1>7, <1>9, <2>1, InvFacts DEF IInv, Places, is_active
  <2>4. Control'
    BY <1>1, <1>6, <1>9 DEF IInv, Control
  <2>5. Waits'
    <3>1. queue # <<>> => due'[queue[1]] = due[queue[1]]
      BY <1>1, <1>3, InvFacts
    <3>2. running /\ pc' # "signal" => entry # NoUnit
      BY <1>1, <1>9
    <3>3. thread = "waiting" => entry = NoUnit
      BY <1>1 DEF IInv, Waits
    <3> QED BY <1>6, <2>1, <3>1, <3>2, <3>3 DEF IInv, Waits
  <2> QED BY <2>2, <2>3, <2>4, <2>5 DEF IInv
<1> QED BY <1>6, <1>8, <1>9

-----------------------------------------------------------------------------
(***************************************************************************)
(* The theorems.                                                           *)
(***************************************************************************)
LEMMA InvInitially == Init => IInv
<1> SUFFICES ASSUME Init PROVE IInv
  OBVIOUS
<1>1. /\ InOrder(<<>>, due) /\ Range(<<>>) = {} /\ <<>> \in Seq(Units)
      /\ NoUnit \notin Units /\ Late = -1 /\ Forever = 1000
  BY EmptyInOrder, WallclockAssumption DEF Late, Forever
<1>2. due = [u \in Units |-> Late] /\ due \in [Units -> Late .. Forever]
      /\ \A u \in Units : due[u] < Forever
  BY <1>1 DEF Init
<1>3. TypeOK
  <2>1. /\ queue = <<>> /\ entry = NoUnit /\ newcomer = NoUnit /\ linked = {} /\ scheduled = {}
        /\ until = Forever /\ running = FALSE /\ raced = FALSE /\ thread = "none" /\ pc = "run"
    BY DEF Init
  <2>2. owed \in [Units -> BOOLEAN]
    BY DEF Init
  <2>3. running \in BOOLEAN /\ raced \in BOOLEAN
    BY <2>1
  <2>4. until \in Late .. Forever /\ queue \in Seq(Units)
    BY <1>1, <2>1
  <2>5. /\ entry \in Units \cup {NoUnit} /\ newcomer \in Units \cup {NoUnit}
        /\ linked \subseteq Units /\ scheduled \subseteq Units
        /\ thread \in {"none", "top", "waiting", "expired"}
        /\ pc \in {"run", "busy", "signal", "stop", "join"}
    BY <2>1
  <2> QED BY <1>2, <2>2, <2>3, <2>4, <2>5 DEF TypeOK
<1>4. InOrder(queue, due) /\ Places /\ Control /\ Waits
  BY <1>1, <1>2 DEF Init, Places, Control, Waits, is_active
<1> QED BY <1>3, <1>4 DEF IInv

LEMMA InvIsKept ==
  ASSUME AtPrompt = {}, IInv, [Next]_vars
  PROVE  IInv'
<1>1. CASE Timeout \/ WakeUp \/ Exit \/ Signal \/ Start \/ Stop \/ StopServices
  BY <1>1, QueueIsLeft
<1>2. CASE Scan
  BY <1>2, ScanKeepsIt
<1>3. CASE Expire
  BY <1>3, ExpireKeepsIt
<1>4. CASE \E u \in Units : (\E d \in Delays : Activate(u, d)) \/ Cancel(u) \/ Fire(u)
  BY <1>4, ActivateKeepsIt, CancelKeepsIt, FireKeepsIt
<1>5. CASE Digested
  BY <1>5, DigestedKeepsIt
<1>6. CASE Migrate
  BY <1>6, MigrateKeepsIt
<1>7. CASE Tick
  BY <1>7, TickKeepsIt
<1>8. CASE UNCHANGED vars
  <2>1. UNCHANGED vars /\ Range(queue)' = Range(queue)
    BY <1>8 DEF vars
  <2>2. TypeOK' /\ InOrder(queue, due)' /\ Places' /\ Control' /\ Waits'
    BY <2>1 DEF IInv, TypeOK, Places, Control, Waits, is_active, vars
  <2> QED BY <2>2 DEF IInv
<1> QED BY <1>1, <1>2, <1>3, <1>4, <1>5, <1>6, <1>7, <1>8 DEF Next

LEMMA InvIsAlways ==
  ASSUME AtPrompt = {}
  PROVE  Spec => []IInv
<1>1. Init => IInv
  BY InvInitially
<1>2. IInv /\ [Next]_vars => IInv'
  BY InvIsKept
<1> QED BY <1>1, <1>2, PTL DEF Spec

\* A unit that counts as active is on its way, in one place, and the queue is in
\* the order of the times, whichever thread moves it.
THEOREM UnitsStayOnOneList ==
  ASSUME AtPrompt = {}
  PROVE  Spec => []OnOneList
<1>1. IInv => OnOneList
  <2> SUFFICES ASSUME IInv PROVE OnOneList
    OBVIOUS
  <2>1. queue \in Seq(Units) /\ DOMAIN queue = 1 .. Len(queue)
        /\ Once(queue, Len(queue)) /\ Ascending(queue, Len(queue), due)
    BY QueueElements DEF IInv, InOrder
  <2>2. QueueIsSorted /\ \A i, j \in DOMAIN queue : queue[i] = queue[j] => i = j
    BY <2>1 DEF QueueIsSorted, Once, Ascending
  <2> QED BY <2>2 DEF IInv, Places, OnOneList
<1> QED BY <1>1, InvIsAlways, PTL

\* The timer thread never waits beyond the time of the first unit.
THEOREM ThreadNeverOversleeps ==
  ASSUME AtPrompt = {}
  PROVE  Spec => []NeverOversleeps
<1>1. IInv => NeverOversleeps
  <2> SUFFICES ASSUME IInv, thread = "waiting", running, pc # "signal"
               PROVE  /\ entry = NoUnit
                      /\ queue # <<>> => \/ until <= due[Head(queue)] - HalfIdle
                                        \/ until = Late
    BY DEF NeverOversleeps
  <2>1. queue # <<>> => Head(queue) = queue[1] /\ due[queue[1]] \in Int /\ HalfIdle \in Int
    BY InvFacts
  <2> QED BY <2>1 DEF IInv, Waits
<1> QED BY <1>1, InvIsAlways, PTL

\* The thread asks for no unit earlier than half of sim_idle_rate_ms before its
\* time, unless the unit that was timed has been cancelled since.
THEOREM NothingIsEarly ==
  ASSUME AtPrompt = {}
  PROVE  Spec => EarlyOnlyAfterCancel
<1>1. IInv /\ [Next]_vars =>
        [\A u \in Units : TakenOff(u) => due[u] <= HalfIdle \/ raced]_vars
  <2> SUFFICES ASSUME IInv, Next, NEW u \in Units, TakenOff(u), ~raced
               PROVE  due[u] <= HalfIdle
    BY DEF vars
  <2>1. CASE Scan
    <3>1. Sorted(queue) # <<>> /\ due[Head(Sorted(queue))] <= HalfIdle
          /\ TakeOff(Sorted(queue))
      BY <2>1 DEF Scan, TakenOff
    <3> QED BY <3>1 DEF TakeOff, TakenOff
  <2>2. CASE Expire
    <3>1. thread = "expired" /\ queue # <<>> /\ TakeOff(queue)
      BY <2>2 DEF Expire, TakenOff
    <3>2. due[queue[1]] <= HalfIdle /\ Head(queue) = queue[1]
      BY <3>1, InvFacts DEF IInv, Waits
    <3> QED BY <3>1, <3>2 DEF TakeOff, TakenOff
  <2>3. CASE Migrate
    BY <2>3 DEF Migrate, TakenOff
  <2>4. CASE \E v \in Units : (\E d \in Delays : Activate(v, d)) \/ Cancel(v) \/ Fire(v)
    BY <2>4 DEF Activate, Cancel, Fire, TakenOff
  <2>5. CASE Timeout \/ WakeUp \/ Exit \/ Signal \/ Start \/ Stop \/ StopServices \/ Digested
             \/ Tick
    BY <2>5 DEF Timeout, WakeUp, Exit, Signal, Start, Stop, StopServices, Digested, Tick, TakenOff
  <2> QED BY <2>1, <2>2, <2>3, <2>4, <2>5 DEF Next
<1> QED BY <1>1, InvIsAlways, PTL DEF Spec, EarlyOnlyAfterCancel
=============================================================================

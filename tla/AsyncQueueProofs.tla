------------------------- MODULE AsyncQueueProofs --------------------------
(***************************************************************************)
(* Proofs about AsyncQueue, for any units, threads, latency and number of  *)
(* requests.                                                               *)
(***************************************************************************)
EXTENDS AsyncQueue, SequenceTheorems, TLAPS

-----------------------------------------------------------------------------
(***************************************************************************)
(* The operations that remain to be done, as a stack.                      *)
(***************************************************************************)
Frame == [op : Ops, unit : Units \cup {NoUnit}, rest : Seq(Units)]

Pushed(g, t) == <<g>> \o t

\* The operations that are about a unit, and those that an activation needs.
AboutUnit == {"call", "insert", "ifany", "remove", "cancelled", "action"}
Calls(g, u) == g.unit = u /\ g.op \in {"call", "insert"}

\* What may stand at k: only sim_aio_update_queue has a list, the routines of the
\* machine are at the bottom, a device's sim_cancel above at most an action
\* routine, and a cancel belongs to that or to sim_activate_abs, which inserts.
FrameOK(s, k) ==
  /\ s[k].op # "migrate" => s[k].rest = <<>>
  /\ s[k].op \in AboutUnit => s[k].unit \in Units
  /\ s[k].op \in {"fire", "action", "reset"} => k = Len(s)
  /\ s[k].op = "cancelled" => k = Len(s) \/ (k + 1 = Len(s) /\ s[k + 1].op = "action")
  /\ s[k].op \in {"ifany", "remove"} =>
       \/ k + 1 <= Len(s) /\ s[k + 1].op = "cancelled" /\ s[k + 1].unit = s[k].unit
       \/ /\ k + 2 <= Len(s) /\ s[k + 1].op = "update"
          /\ s[k + 2].op = "insert" /\ s[k + 2].unit = s[k].unit
  /\ k + 1 <= Len(s) /\ s[k + 1].op = "cancelled" => s[k].op \in {"ifany", "remove"}

StackOK(s) == \A k \in 1 .. Len(s) : FrameOK(s, k)

\* The same for g on top of t.
GoodOn(g, t) ==
  /\ g.op # "migrate" => g.rest = <<>>
  /\ g.op \in AboutUnit => g.unit \in Units
  /\ g.op \in {"fire", "action", "reset"} => t = <<>>
  /\ g.op = "cancelled" => t = <<>> \/ (Len(t) = 1 /\ t[1].op = "action")
  /\ g.op \in {"ifany", "remove"} =>
       \/ t # <<>> /\ t[1].op = "cancelled" /\ t[1].unit = g.unit
       \/ Len(t) >= 2 /\ t[1].op = "update" /\ t[2].op = "insert" /\ t[2].unit = g.unit
  /\ t # <<>> /\ t[1].op = "cancelled" => g.op \in {"ifany", "remove"}

\* The units of a sequence, and of all the lists.
Has(q, u) == \E i \in DOMAIN q : q[i] = u

Listed(q, s, u) == Has(q, u) \/ \E k \in 1 .. Len(s) : Has(s[k].rest, u)

Called(s, u) == \E k \in 1 .. Len(s) : Calls(s[k], u)

\* A device is cancelling u, or AIO_CHECK_EVENT is updating the queue.
Ends(g, u) == g.op = "cancelled" /\ g.unit = u

Cancels(s, u) == \E k \in 1 .. Len(s) : Ends(s[k], u)

Resetting(s) == \E k \in 1 .. Len(s) : s[k].op = "reset"

\* A sequence and a number of lists without a unit twice.
ListAt(q, s, k) == IF k = 0 THEN q ELSE s[k].rest

AllOnce(q, s) ==
  \A j, k \in 0 .. Len(s) :
    \A i \in DOMAIN ListAt(q, s, j), n \in DOMAIN ListAt(q, s, k) :
      ListAt(q, s, j)[i] = ListAt(q, s, k)[n] => j = k /\ i = n

\* What is pushed is on top.
LEMMA PushedElements ==
  ASSUME NEW S, NEW g \in S, NEW t \in Seq(S)
  PROVE  /\ Pushed(g, t) \in Seq(S) /\ Pushed(g, t) # <<>>
         /\ Len(t) \in Nat /\ Len(Pushed(g, t)) = Len(t) + 1
         /\ Pushed(g, t)[1] = g
         /\ \A k \in 1 .. Len(t) : Pushed(g, t)[k + 1] = t[k]
         /\ Tail(Pushed(g, t)) = t
         /\ t = <<>> <=> Len(t) = 0
<1> DEFINE r == <<g>> \o t
<1>1. <<g>> \in Seq(S) /\ Len(<<g>>) = 1 /\ <<g>>[1] = g /\ Len(t) \in Nat
  BY LenProperties
<1>2. /\ r \in Seq(S) /\ Len(r) = Len(t) + 1
      /\ \A i \in 1 .. 1 + Len(t) : r[i] = IF i <= 1 THEN <<g>>[i] ELSE t[i - 1]
  BY <1>1, ConcatProperties
<1> HIDE DEF r
<1>3. r[1] = g
  BY <1>1, <1>2
<1>4. ASSUME NEW k \in 1 .. Len(t) PROVE r[k + 1] = t[k]
  <2>1. k + 1 \in 1 .. 1 + Len(t) /\ ~(k + 1 <= 1) /\ (k + 1) - 1 = k
    BY <1>1
  <2>2. r[k + 1] = t[(k + 1) - 1]
    BY <1>2, <2>1
  <2> QED BY <2>1, <2>2
<1>5. r # <<>> /\ (t = <<>> <=> Len(t) = 0)
  BY <1>1, <1>2, EmptySeq
<1>6. Tail(r) = t
  <2>1. /\ Tail(r) \in Seq(S) /\ Len(Tail(r)) = Len(r) - 1
        /\ \A i \in 1 .. Len(Tail(r)) : Tail(r)[i] = r[i + 1]
    BY <1>2, <1>5, HeadTailProperties
  <2>2. Len(Tail(r)) = Len(t) /\ \A i \in 1 .. Len(t) : Tail(r)[i] = t[i]
    BY <1>1, <1>2, <1>4, <2>1
  <2> QED BY <2>1, <2>2, SeqEqual
<1> QED BY <1>1, <1>2, <1>3, <1>4, <1>5, <1>6 DEF Pushed, r

\* Every stack that is not empty is one that something was pushed on.
LEMMA IsPushed ==
  ASSUME NEW S, NEW s \in Seq(S), s # <<>>
  PROVE  s[1] \in S /\ Tail(s) \in Seq(S) /\ s = Pushed(s[1], Tail(s))
<1> DEFINE t == Tail(s)
           g == s[1]
<1>1. /\ Len(s) \in Nat /\ Len(s) >= 1
      /\ t \in Seq(S) /\ Len(t) = Len(s) - 1
      /\ \A i \in 1 .. Len(t) : t[i] = s[i + 1]
  BY HeadTailProperties, LenProperties, EmptySeq
<1>2. g \in S
  <2>1. 1 \in 1 .. Len(s)
    BY <1>1
  <2> QED BY <2>1, ElementOfSeq
<1> HIDE DEF t, g
<1> DEFINE r == Pushed(g, t)
<1>3. /\ r \in Seq(S) /\ Len(r) = Len(t) + 1 /\ r[1] = g
      /\ \A k \in 1 .. Len(t) : r[k + 1] = t[k]
  BY <1>1, <1>2, PushedElements
<1> HIDE DEF r
<1>4. ASSUME NEW k \in 1 .. Len(s) PROVE s[k] = r[k]
  <2>1. CASE k = 1
    BY <1>3, <2>1 DEF g
  <2>2. CASE k # 1
    <3>1. k - 1 \in 1 .. Len(t) /\ (k - 1) + 1 = k
      BY <1>1, <2>2
    <3>2. t[k - 1] = s[(k - 1) + 1] /\ r[(k - 1) + 1] = t[k - 1]
      BY <1>1, <1>3, <3>1
    <3> QED BY <3>1, <3>2
  <2> QED BY <2>1, <2>2
<1>5. s = r
  BY <1>1, <1>3, <1>4, SeqEqual
<1> QED BY <1>1, <1>2, <1>5 DEF r, t, g

\* The stack is sound when what is on top may stand there.
LEMMA PushedOK ==
  ASSUME NEW g \in Frame, NEW t \in Seq(Frame)
  PROVE  StackOK(Pushed(g, t)) <=> StackOK(t) /\ GoodOn(g, t)
<1> DEFINE r == Pushed(g, t)
<1>1. /\ Len(t) \in Nat /\ Len(r) = Len(t) + 1 /\ r[1] = g
      /\ \A k \in 1 .. Len(t) : r[k + 1] = t[k]
      /\ t = <<>> <=> Len(t) = 0
  BY PushedElements
<1> HIDE DEF r
<1>2. FrameOK(r, 1) <=> GoodOn(g, t)
  <2>1. /\ t # <<>> => 1 \in 1 .. Len(t) /\ r[1 + 1] = t[1]
        /\ Len(t) >= 2 => 2 \in 1 .. Len(t) /\ r[1 + 2] = t[2]
    BY <1>1
  <2>2. /\ 1 = Len(r) <=> t = <<>>
        /\ 1 + 1 = Len(r) <=> Len(t) = 1
        /\ 1 + 1 <= Len(r) <=> t # <<>>
        /\ 1 + 2 <= Len(r) <=> Len(t) >= 2
        /\ Len(t) = 1 => t # <<>>
        /\ Len(t) >= 2 => t # <<>>
    <3> DEFINE n == Len(t)
               m == Len(r)
               empty == t = <<>>
    <3>1. n \in Nat /\ m = n + 1 /\ (empty <=> n = 0)
      BY <1>1
    <3> HIDE DEF n, m, empty
    <3>2. /\ 1 = m <=> empty
          /\ 1 + 1 = m <=> n = 1
          /\ 1 + 1 <= m <=> ~empty
          /\ 1 + 2 <= m <=> n >= 2
          /\ n = 1 => ~empty
          /\ n >= 2 => ~empty
      BY <3>1
    <3> QED BY <3>2 DEF n, m, empty
  <2> QED BY <1>1, <2>1, <2>2 DEF FrameOK, GoodOn
<1>3. ASSUME NEW k \in 1 .. Len(t) PROVE FrameOK(r, k + 1) <=> FrameOK(t, k)
  <2>1. /\ r[k + 1] = t[k]
        /\ k + 1 <= Len(t) => r[(k + 1) + 1] = t[k + 1]
        /\ k + 2 <= Len(t) => r[(k + 1) + 2] = t[k + 2]
    <3>1. k + 1 <= Len(t) => k + 1 \in 1 .. Len(t)
      BY <1>1
    <3>2. k + 2 <= Len(t) => k + 2 \in 1 .. Len(t) /\ (k + 1) + 2 = (k + 2) + 1
      BY <1>1
    <3> QED BY <1>1, <3>1, <3>2
  <2>2. /\ k + 1 = Len(r) <=> k = Len(t)
        /\ (k + 1) + 1 = Len(r) <=> k + 1 = Len(t)
        /\ (k + 1) + 1 <= Len(r) <=> k + 1 <= Len(t)
        /\ (k + 1) + 2 <= Len(r) <=> k + 2 <= Len(t)
        /\ k + 1 = Len(t) => k + 1 <= Len(t)
        /\ k + 2 <= Len(t) => k + 1 <= Len(t)
    BY <1>1
  <2> QED BY <2>1, <2>2 DEF FrameOK
<1>4. ASSUME StackOK(r) PROVE StackOK(t) /\ GoodOn(g, t)
  <2>1. \A k \in 1 .. Len(t) : k + 1 \in 1 .. Len(r)
    BY <1>1
  <2>2. 1 \in 1 .. Len(r)
    BY <1>1
  <2> QED BY <1>2, <1>3, <1>4, <2>1, <2>2 DEF StackOK
<1>5. ASSUME StackOK(t), GoodOn(g, t) PROVE StackOK(r)
  <2> SUFFICES ASSUME NEW k \in 1 .. Len(r) PROVE FrameOK(r, k)
    BY DEF StackOK
  <2>1. CASE k = 1
    BY <1>2, <1>5, <2>1
  <2>2. CASE k # 1
    <3>1. k - 1 \in 1 .. Len(t) /\ (k - 1) + 1 = k
      BY <1>1, <2>2
    <3>2. FrameOK(r, (k - 1) + 1)
      BY <1>3, <1>5, <3>1 DEF StackOK
    <3> QED BY <3>1, <3>2
  <2> QED BY <2>1, <2>2
<1> QED BY <1>4, <1>5 DEF r

\* Each of the lists p, r is an end of one of the lists q, s, no two of the same.
EndsOf(p, r, q, s, m, d) ==
  /\ \A k \in 0 .. Len(r) : \A i \in DOMAIN ListAt(p, r, k) :
       /\ i \in Int /\ d[k] \in Int /\ m[k] \in 0 .. Len(s)
       /\ i + d[k] \in DOMAIN ListAt(q, s, m[k])
       /\ ListAt(p, r, k)[i] = ListAt(q, s, m[k])[i + d[k]]
  /\ \A j, k \in 0 .. Len(r) :
       DOMAIN ListAt(p, r, j) # {} /\ DOMAIN ListAt(p, r, k) # {} /\ m[j] = m[k] => j = k

LEMMA EndsAllOnce ==
  ASSUME NEW q, NEW s, NEW p, NEW r, NEW m, NEW d, AllOnce(q, s), EndsOf(p, r, q, s, m, d)
  PROVE  AllOnce(p, r)
<1> SUFFICES ASSUME NEW j \in 0 .. Len(r), NEW k \in 0 .. Len(r),
                    NEW i \in DOMAIN ListAt(p, r, j), NEW n \in DOMAIN ListAt(p, r, k),
                    ListAt(p, r, j)[i] = ListAt(p, r, k)[n]
             PROVE  j = k /\ i = n
  BY DEF AllOnce
<1>1. /\ i \in Int /\ d[j] \in Int /\ m[j] \in 0 .. Len(s)
      /\ i + d[j] \in DOMAIN ListAt(q, s, m[j])
      /\ ListAt(p, r, j)[i] = ListAt(q, s, m[j])[i + d[j]]
  BY DEF EndsOf
<1>2. /\ n \in Int /\ d[k] \in Int /\ m[k] \in 0 .. Len(s)
      /\ n + d[k] \in DOMAIN ListAt(q, s, m[k])
      /\ ListAt(p, r, k)[n] = ListAt(q, s, m[k])[n + d[k]]
  BY DEF EndsOf
<1>3. m[j] = m[k] /\ i + d[j] = n + d[k]
  <2>1. ListAt(q, s, m[j])[i + d[j]] = ListAt(q, s, m[k])[n + d[k]]
    BY <1>1, <1>2
  <2> DEFINE a == m[j]
             b == m[k]
             e == i + d[j]
             f == n + d[k]
  <2>2. /\ a \in 0 .. Len(s) /\ b \in 0 .. Len(s)
        /\ e \in DOMAIN ListAt(q, s, a) /\ f \in DOMAIN ListAt(q, s, b)
        /\ ListAt(q, s, a)[e] = ListAt(q, s, b)[f]
    BY <1>1, <1>2, <2>1
  <2> HIDE DEF a, b, e, f
  <2>3. a = b /\ e = f
    BY <2>2 DEF AllOnce
  <2> QED BY <2>3 DEF a, b, e, f
<1>4. j = k
  <2>1. DOMAIN ListAt(p, r, j) # {} /\ DOMAIN ListAt(p, r, k) # {}
    OBVIOUS
  <2> QED BY <1>3, <2>1 DEF EndsOf
<1> QED BY <1>1, <1>2, <1>3, <1>4

\* The lists of a stack with g on top.
LEMMA PushedLists ==
  ASSUME NEW g \in Frame, NEW t \in Seq(Frame), NEW q
  PROVE  LET r == Pushed(g, t)
         IN  /\ Len(t) \in Nat /\ Len(r) = Len(t) + 1
             /\ ListAt(q, r, 0) = q /\ ListAt(q, t, 0) = q
             /\ ListAt(q, r, 1) = g.rest
             /\ \A k \in 1 .. Len(t) : ListAt(q, r, k + 1) = ListAt(q, t, k)
<1>1. /\ Len(t) \in Nat /\ Len(Pushed(g, t)) = Len(t) + 1 /\ Pushed(g, t)[1] = g
      /\ \A k \in 1 .. Len(t) : Pushed(g, t)[k + 1] = t[k]
  BY PushedElements
<1>2. \A k \in 1 .. Len(t) : k # 0 /\ k + 1 # 0
  BY <1>1
<1> QED BY <1>1, <1>2 DEF ListAt

LEMMA ListsAreSequences ==
  ASSUME NEW q \in Seq(Units), NEW t \in Seq(Frame), NEW k \in 0 .. Len(t)
  PROVE  /\ ListAt(q, t, k) \in Seq(Units) /\ Len(ListAt(q, t, k)) \in Nat
         /\ DOMAIN ListAt(q, t, k) = 1 .. Len(ListAt(q, t, k))
<1>1. ListAt(q, t, k) \in Seq(Units)
  <2>1. CASE k = 0
    BY <2>1 DEF ListAt
  <2>2. CASE k # 0
    <3>1. k \in 1 .. Len(t)
      BY <2>2, LenProperties
    <3>2. t[k] \in Frame
      BY <3>1, ElementOfSeq
    <3> QED BY <2>2, <3>2 DEF ListAt, Frame
  <2> QED BY <2>1, <2>2
<1> QED BY <1>1, LenProperties

LEMMA IndicesAreIntegers ==
  ASSUME NEW q \in Seq(Units), NEW t \in Seq(Frame)
  PROVE  \A k \in 0 .. Len(t) : \A i \in DOMAIN ListAt(q, t, k) : i \in Int
BY ListsAreSequences

LEMMA PoppedOnce ==
  ASSUME NEW g \in Frame, NEW t \in Seq(Frame), NEW q \in Seq(Units), AllOnce(q, Pushed(g, t))
  PROVE  AllOnce(q, t)
<1> DEFINE r == Pushed(g, t)
           m == [k \in 0 .. Len(t) |-> IF k = 0 THEN 0 ELSE k + 1]
           d == [k \in 0 .. Len(t) |-> 0]
<1>1. /\ Len(t) \in Nat /\ Len(r) = Len(t) + 1
      /\ ListAt(q, r, 0) = ListAt(q, t, 0)
      /\ \A k \in 1 .. Len(t) : ListAt(q, r, k + 1) = ListAt(q, t, k)
  BY PushedLists
<1> HIDE DEF r
<1>2. \A k \in 0 .. Len(t) : m[k] \in 0 .. Len(r) /\ ListAt(q, r, m[k]) = ListAt(q, t, k)
                            /\ d[k] = 0
  <2> TAKE k \in 0 .. Len(t)
  <2>1. CASE k = 0
    BY <1>1, <2>1
  <2>2. CASE k # 0
    <3>1. k \in 1 .. Len(t)
      BY <1>1, <2>2
    <3> QED BY <1>1, <2>2, <3>1
  <2> QED BY <2>1, <2>2
<1>3. \A j, k \in 0 .. Len(t) : m[j] = m[k] => j = k
  BY <1>1
<1> HIDE DEF m, d
<1>4. \A k \in 0 .. Len(t) : \A i \in DOMAIN ListAt(q, t, k) :
           /\ i \in Int /\ d[k] \in Int /\ m[k] \in 0 .. Len(r)
           /\ i + d[k] \in DOMAIN ListAt(q, r, m[k])
           /\ ListAt(q, t, k)[i] = ListAt(q, r, m[k])[i + d[k]]
  <2> TAKE k \in 0 .. Len(t)
  <2> TAKE i \in DOMAIN ListAt(q, t, k)
  <2>1. i \in Int
    BY ListsAreSequences
  <2>2. d[k] = 0 /\ i + d[k] = i
    BY <1>2, <2>1
  <2> QED BY <1>2, <2>1, <2>2
<1>5. EndsOf(q, t, q, r, m, d)
  BY <1>3, <1>4 DEF EndsOf
<1> QED BY <1>5, EndsAllOnce DEF r

\* The top's list is shortened, or gone.
LEMMA ShortenedOnce ==
  ASSUME NEW f \in Frame, NEW g \in Frame, NEW t \in Seq(Frame), NEW q \in Seq(Units),
         AllOnce(q, Pushed(f, t)),
         g.rest = <<>> \/ (f.rest # <<>> /\ g.rest = Tail(f.rest))
  PROVE  AllOnce(q, Pushed(g, t))
<1> DEFINE s == Pushed(f, t)
           r == Pushed(g, t)
           m == [k \in 0 .. Len(t) + 1 |-> k]
           d == [k \in 0 .. Len(t) + 1 |-> IF k = 1 THEN 1 ELSE 0]
<1>1. /\ Len(t) \in Nat /\ Len(r) = Len(t) + 1 /\ Len(s) = Len(t) + 1
      /\ ListAt(q, r, 0) = ListAt(q, s, 0)
      /\ ListAt(q, r, 1) = g.rest /\ ListAt(q, s, 1) = f.rest
      /\ \A k \in 1 .. Len(t) : ListAt(q, r, k + 1) = ListAt(q, s, k + 1)
  BY PushedLists
<1>2. s \in Seq(Frame) /\ r \in Seq(Frame)
  BY PushedElements
<1> HIDE DEF r, s
<1>3. \A k \in 0 .. Len(t) + 1 : k # 1 => ListAt(q, r, k) = ListAt(q, s, k)
  <2> SUFFICES ASSUME NEW k \in 0 .. Len(t) + 1, k # 1, k # 0
               PROVE  ListAt(q, r, k) = ListAt(q, s, k)
    BY <1>1
  <2>1. k - 1 \in 1 .. Len(t) /\ (k - 1) + 1 = k
    BY <1>1
  <2> QED BY <1>1, <2>1
<1>4. \A i \in DOMAIN g.rest : i \in Int /\ i + 1 \in DOMAIN f.rest /\ g.rest[i] = f.rest[i + 1]
  <2>1. CASE g.rest = <<>>
    BY <2>1
  <2>2. CASE f.rest # <<>> /\ g.rest = Tail(f.rest)
    <3>1. f.rest \in Seq(Units) /\ Len(f.rest) \in Nat /\ DOMAIN f.rest = 1 .. Len(f.rest)
      BY LenProperties DEF Frame
    <3>2. /\ g.rest \in Seq(Units) /\ Len(g.rest) = Len(f.rest) - 1
          /\ \A i \in 1 .. Len(g.rest) : g.rest[i] = f.rest[i + 1]
          /\ DOMAIN g.rest = 1 .. Len(g.rest)
      BY <2>2, <3>1, HeadTailProperties, LenProperties
    <3> QED BY <3>1, <3>2, SMTT(30)
  <2> QED BY <2>1, <2>2
<1>5. \A k \in 0 .. Len(t) + 1 : m[k] = k /\ d[k] = IF k = 1 THEN 1 ELSE 0
  OBVIOUS
<1> HIDE DEF m, d
<1>6. \A k \in 0 .. Len(r) : \A i \in DOMAIN ListAt(q, r, k) :
           /\ i \in Int /\ d[k] \in Int /\ m[k] \in 0 .. Len(s)
           /\ i + d[k] \in DOMAIN ListAt(q, s, m[k])
           /\ ListAt(q, r, k)[i] = ListAt(q, s, m[k])[i + d[k]]
  <2> TAKE k \in 0 .. Len(r)
  <2> TAKE i \in DOMAIN ListAt(q, r, k)
  <2>1. i \in Int
    BY <1>2, ListsAreSequences
  <2>2. CASE k = 1
    BY <1>1, <1>4, <1>5, <2>1, <2>2
  <2>3. CASE k # 1
    <3>1. d[k] = 0 /\ m[k] = k /\ i + d[k] = i
      BY <1>1, <1>5, <2>1, <2>3
    <3> QED BY <1>1, <1>3, <2>1, <2>3, <3>1
  <2> QED BY <2>2, <2>3
<1>7. \A j, k \in 0 .. Len(r) : m[j] = m[k] => j = k
  BY <1>1, <1>5
<1>8. EndsOf(q, r, q, s, m, d)
  BY <1>6, <1>7 DEF EndsOf
<1> QED BY <1>8, EndsAllOnce DEF r, s

\* A list without units is pushed.
LEMMA PushedOnce ==
  ASSUME NEW g \in Frame, NEW t \in Seq(Frame), NEW q \in Seq(Units), AllOnce(q, t), g.rest = <<>>
  PROVE  AllOnce(q, Pushed(g, t))
<1> DEFINE r == Pushed(g, t)
           m == [k \in 0 .. Len(t) + 1 |-> IF k = 0 THEN 0 ELSE k - 1]
           d == [k \in 0 .. Len(t) + 1 |-> 0]
<1>1. /\ Len(t) \in Nat /\ Len(r) = Len(t) + 1
      /\ ListAt(q, r, 0) = ListAt(q, t, 0)
      /\ ListAt(q, r, 1) = <<>>
      /\ \A k \in 1 .. Len(t) : ListAt(q, r, k + 1) = ListAt(q, t, k)
  BY PushedLists
<1>2. r \in Seq(Frame)
  BY PushedElements
<1> HIDE DEF r
<1>3. \A k \in 0 .. Len(t) + 1 :
        k # 1 => m[k] \in 0 .. Len(t) /\ ListAt(q, t, m[k]) = ListAt(q, r, k)
  <2> SUFFICES ASSUME NEW k \in 0 .. Len(t) + 1, k # 1
               PROVE  m[k] \in 0 .. Len(t) /\ ListAt(q, t, m[k]) = ListAt(q, r, k)
    OBVIOUS
  <2>1. CASE k = 0
    BY <1>1, <2>1
  <2>2. CASE k # 0
    <3>1. k - 1 \in 1 .. Len(t) /\ (k - 1) + 1 = k /\ m[k] = k - 1
      BY <1>1, <2>2
    <3> QED BY <1>1, <3>1
  <2> QED BY <2>1, <2>2
<1>4. \A j, k \in 0 .. Len(t) + 1 : j # 1 /\ k # 1 /\ m[j] = m[k] => j = k
  BY <1>1
<1>5. \A k \in 0 .. Len(t) + 1 : d[k] = 0
  OBVIOUS
<1> HIDE DEF m, d
<1>6. \A k \in 0 .. Len(r) : DOMAIN ListAt(q, r, k) # {} => k # 1
  BY <1>1
<1>7. \A k \in 0 .. Len(r) : \A i \in DOMAIN ListAt(q, r, k) :
           /\ i \in Int /\ d[k] \in Int /\ m[k] \in 0 .. Len(t)
           /\ i + d[k] \in DOMAIN ListAt(q, t, m[k])
           /\ ListAt(q, r, k)[i] = ListAt(q, t, m[k])[i + d[k]]
  <2> TAKE k \in 0 .. Len(r)
  <2> TAKE i \in DOMAIN ListAt(q, r, k)
  <2>1. i \in Int
    BY <1>2, ListsAreSequences
  <2>2. k # 1 /\ k \in 0 .. Len(t) + 1 /\ d[k] = 0 /\ i + d[k] = i
    BY <1>1, <1>5, <1>6, <2>1
  <2> QED BY <1>3, <2>1, <2>2
<1>8. EndsOf(q, r, q, t, m, d)
  BY <1>1, <1>4, <1>6, <1>7 DEF EndsOf
<1> QED BY <1>8, EndsAllOnce DEF r

\* sim_asynch_queue becomes the list of the top, without its head.
LEMMA GrabbedOnce ==
  ASSUME NEW g \in Frame, NEW t \in Seq(Frame), NEW q \in Seq(Units), AllOnce(q, t),
         q # <<>>, g.rest = Tail(q), NEW e \in Seq(Units), e = <<>>
  PROVE  AllOnce(e, Pushed(g, t))
<1> DEFINE r == Pushed(g, t)
           m == [k \in 0 .. Len(t) + 1 |-> IF k = 0 THEN 0 ELSE k - 1]
           d == [k \in 0 .. Len(t) + 1 |-> IF k = 1 THEN 1 ELSE 0]
<1>1. /\ Len(t) \in Nat /\ Len(r) = Len(t) + 1
      /\ ListAt(q, t, 0) = q
      /\ ListAt(e, r, 0) = <<>>
      /\ ListAt(e, r, 1) = Tail(q)
      /\ \A k \in 1 .. Len(t) : ListAt(e, r, k + 1) = ListAt(e, t, k)
      /\ \A k \in 1 .. Len(t) : ListAt(e, t, k) = ListAt(q, t, k)
  <2>1. \A k \in 1 .. Len(t) : ListAt(e, t, k) = ListAt(q, t, k)
    BY DEF ListAt
  <2>2. ListAt(q, t, 0) = q /\ ListAt(e, r, 0) = e
    BY DEF ListAt
  <2>3. /\ Len(t) \in Nat /\ Len(r) = Len(t) + 1 /\ ListAt(e, r, 1) = g.rest
        /\ \A k \in 1 .. Len(t) : ListAt(e, r, k + 1) = ListAt(e, t, k)
    BY PushedLists
  <2> QED BY <2>1, <2>2, <2>3
<1>2. r \in Seq(Frame)
  BY PushedElements
<1> HIDE DEF r
<1>3. \A k \in 0 .. Len(t) + 1 :
        k > 1 => m[k] \in 0 .. Len(t) /\ ListAt(q, t, m[k]) = ListAt(e, r, k)
  <2> SUFFICES ASSUME NEW k \in 0 .. Len(t) + 1, k > 1
               PROVE  m[k] \in 0 .. Len(t) /\ ListAt(q, t, m[k]) = ListAt(e, r, k)
    OBVIOUS
  <2>1. k - 1 \in 1 .. Len(t) /\ (k - 1) + 1 = k /\ m[k] = k - 1
    BY <1>1
  <2> QED BY <1>1, <2>1, SMTT(30)
<1>4. \A j, k \in 0 .. Len(t) + 1 : j # 0 /\ k # 0 /\ m[j] = m[k] => j = k
  BY <1>1
<1>5. /\ \A k \in 0 .. Len(t) + 1 : k # 1 => d[k] = 0
      /\ d[1] = 1 /\ m[1] = 0
  BY <1>1
<1> HIDE DEF m, d
<1>6. \A k \in 0 .. Len(r) : DOMAIN ListAt(e, r, k) # {} => k # 0
  BY <1>1
<1>7. \A k \in 0 .. Len(r) : \A i \in DOMAIN ListAt(e, r, k) :
           /\ i \in Int /\ d[k] \in Int /\ m[k] \in 0 .. Len(t)
           /\ i + d[k] \in DOMAIN ListAt(q, t, m[k])
           /\ ListAt(e, r, k)[i] = ListAt(q, t, m[k])[i + d[k]]
  <2> TAKE k \in 0 .. Len(r)
  <2> TAKE i \in DOMAIN ListAt(e, r, k)
  <2>1. i \in Int
    BY <1>2, IndicesAreIntegers
  <2>2. k # 0 /\ k \in 0 .. Len(t) + 1
    BY <1>1, <1>6
  <2>3. CASE k = 1
    <3>1. /\ Len(q) \in Nat /\ DOMAIN q = 1 .. Len(q) /\ Tail(q) \in Seq(Units)
          /\ Len(Tail(q)) = Len(q) - 1 /\ \A n \in 1 .. Len(Tail(q)) : Tail(q)[n] = q[n + 1]
          /\ DOMAIN Tail(q) = 1 .. Len(Tail(q))
      BY HeadTailProperties, LenProperties
    <3>2. i \in 1 .. Len(q) - 1 /\ i + 1 \in 1 .. Len(q) /\ Tail(q)[i] = q[i + 1]
      BY <1>1, <2>3, <3>1
    <3> QED BY <1>1, <1>5, <2>1, <2>3, <3>1, <3>2
  <2>4. CASE k # 1
    <3>1. k > 1 /\ d[k] = 0 /\ i + d[k] = i
      BY <1>1, <1>5, <2>1, <2>2, <2>4
    <3> QED BY <1>3, <2>1, <2>2, <3>1
  <2> QED BY <2>3, <2>4
<1>8. EndsOf(e, r, q, t, m, d)
  BY <1>1, <1>4, <1>6, <1>7 DEF EndsOf
<1> QED BY <1>8, EndsAllOnce DEF r

\* Or there is none.
LEMMA EmptiedOnce ==
  ASSUME NEW t \in Seq(Frame), NEW q \in Seq(Units), AllOnce(q, t)
  PROVE  AllOnce(<<>>, t)
<1>1. \A k \in 0 .. Len(t) : k # 0 => ListAt(<<>>, t, k) = ListAt(q, t, k)
  BY DEF ListAt
<1>2. \A k \in 0 .. Len(t) : DOMAIN ListAt(<<>>, t, k) # {} => k # 0
  BY DEF ListAt
<1> QED BY <1>1, <1>2 DEF AllOnce

\* A unit that is on no list is put in front of the queue.
LEMMA RequestedOnce ==
  ASSUME NEW t \in Seq(Frame), NEW q \in Seq(Units), NEW u \in Units,
         AllOnce(q, t), ~Listed(q, t, u)
  PROVE  AllOnce(Pushed(u, q), t)
<1> DEFINE r == Pushed(u, q)
<1>1. /\ r \in Seq(Units) /\ Len(q) \in Nat /\ Len(r) = Len(q) + 1 /\ r[1] = u
      /\ \A i \in 1 .. Len(q) : r[i + 1] = q[i]
  BY PushedElements
<1>2. DOMAIN r = 1 .. Len(q) + 1 /\ DOMAIN q = 1 .. Len(q) /\ Len(t) \in Nat
  BY <1>1, LenProperties
<1> HIDE DEF r
<1>3. \A k \in 0 .. Len(t) : \A i \in DOMAIN ListAt(q, t, k) : ListAt(q, t, k)[i] # u
  <2> SUFFICES ASSUME NEW k \in 0 .. Len(t), NEW i \in DOMAIN ListAt(q, t, k),
                      ListAt(q, t, k)[i] = u
               PROVE  FALSE
    OBVIOUS
  <2>1. CASE k = 0
    BY <2>1 DEF Listed, Has, ListAt
  <2>2. CASE k # 0
    <3>1. k \in 1 .. Len(t)
      BY <1>2, <2>2
    <3> QED BY <2>2, <3>1 DEF Listed, Has, ListAt
  <2> QED BY <2>1, <2>2
<1>4. /\ \A k \in 0 .. Len(t) : k # 0 => ListAt(r, t, k) = ListAt(q, t, k)
      /\ ListAt(r, t, 0) = r /\ ListAt(q, t, 0) = q
  BY DEF ListAt
<1>5. \A i \in DOMAIN r : i = 1 \/ (i - 1 \in DOMAIN q /\ r[i] = q[i - 1])
  <2> SUFFICES ASSUME NEW i \in DOMAIN r, i # 1 PROVE i - 1 \in DOMAIN q /\ r[i] = q[i - 1]
    OBVIOUS
  <2>1. i - 1 \in 1 .. Len(q) /\ (i - 1) + 1 = i
    BY <1>2
  <2> QED BY <1>1, <1>2, <2>1
<1>6. SUFFICES ASSUME NEW j \in 0 .. Len(t), NEW k \in 0 .. Len(t),
                      NEW i \in DOMAIN ListAt(r, t, j), NEW n \in DOMAIN ListAt(r, t, k),
                      ListAt(r, t, j)[i] = ListAt(r, t, k)[n]
               PROVE  j = k /\ i = n
  BY DEF AllOnce, r
<1>7. CASE j # 0 /\ k # 0
  <2>1. ListAt(r, t, j) = ListAt(q, t, j) /\ ListAt(r, t, k) = ListAt(q, t, k)
    BY <1>4, <1>7
  <2>2. /\ i \in DOMAIN ListAt(q, t, j) /\ n \in DOMAIN ListAt(q, t, k)
        /\ ListAt(q, t, j)[i] = ListAt(q, t, k)[n]
    BY <1>6, <2>1
  <2> QED BY <2>2 DEF AllOnce
<1>8. CASE j = 0 /\ k # 0
  <2>1. ListAt(r, t, k) = ListAt(q, t, k) /\ i \in DOMAIN r /\ r[i] = ListAt(q, t, k)[n]
    <3>1. ListAt(r, t, k) = ListAt(q, t, k) /\ ListAt(r, t, j) = r
      BY <1>4, <1>8
    <3> QED BY <1>6, <3>1
  <2>2. i # 1
    BY <1>1, <1>3, <2>1
  <2>3. i - 1 \in DOMAIN q /\ q[i - 1] = ListAt(q, t, k)[n]
    BY <1>5, <2>1, <2>2
  <2>4. ListAt(q, t, 0) = q /\ 0 \in 0 .. Len(t)
    BY <1>2 DEF ListAt
  <2> QED BY <1>8, <2>1, <2>3, <2>4 DEF AllOnce
<1>9. CASE j # 0 /\ k = 0
  <2>1. ListAt(r, t, j) = ListAt(q, t, j) /\ n \in DOMAIN r /\ r[n] = ListAt(q, t, j)[i]
    <3>1. ListAt(r, t, j) = ListAt(q, t, j) /\ ListAt(r, t, k) = r
      BY <1>4, <1>9
    <3> QED BY <1>6, <3>1
  <2>2. n # 1
    BY <1>1, <1>3, <2>1
  <2>3. n - 1 \in DOMAIN q /\ q[n - 1] = ListAt(q, t, j)[i]
    BY <1>5, <2>1, <2>2
  <2>4. ListAt(q, t, 0) = q /\ 0 \in 0 .. Len(t)
    BY <1>2 DEF ListAt
  <2> QED BY <1>9, <2>1, <2>3, <2>4 DEF AllOnce
<1>10. CASE j = 0 /\ k = 0
  <2>1. i \in DOMAIN r /\ n \in DOMAIN r /\ r[i] = r[n]
    BY <1>4, <1>6, <1>10
  <2>2. ListAt(q, t, 0) = q /\ 0 \in 0 .. Len(t)
    BY <1>2 DEF ListAt
  <2>3. \A x, y \in DOMAIN q : q[x] = q[y] => x = y
    BY <2>2 DEF AllOnce
  <2>4. \A x \in DOMAIN q : q[x] # u
    BY <1>3, <2>2
  <2>5. i \in Int /\ n \in Int
    BY <1>2, <2>1
  <2>6. i = 1 \/ n = 1 => i = n
    BY <1>1, <1>5, <2>1, <2>4
  <2>7. i # 1 /\ n # 1 => i - 1 = n - 1
    BY <1>5, <2>1, <2>3
  <2> QED BY <1>10, <2>5, <2>6, <2>7
<1> QED BY <1>7, <1>8, <1>9, <1>10

-----------------------------------------------------------------------------
(***************************************************************************)
(* The inductive invariant.                                                *)
(***************************************************************************)
Good(q, s) ==
  q \in Seq(Units) /\ s \in Seq(Frame) /\ StackOK(s) /\ AllOnce(q, s)

NotLost ==
  \A u \in Units : asked[u] => u \in clock \/ Listed(aq, todo, u) \/ Called(todo, u)

\* From a cancel's first update on, its unit is only queued by a new request.
Fresh ==
  \/ todo # <<>> /\ todo[1].op = "update"
  \/ \A u \in Units : Cancels(todo, u) /\ Has(aq, u) => asked[u]

\* The unit has been removed from the event queue.
Removed ==
  todo # <<>> /\ todo[1].op = "cancelled" /\ todo[1].unit \in clock => asked[todo[1].unit]

\* The counter allows for the checks that may still pass.
Paced ==
  /\ check \in -1 .. Latency
  /\ pc # "run" => todo = <<>>
  /\ pc = "store" => loaded \in 0 .. Latency /\ waited + loaded <= Latency
  /\ ~Resetting(todo) => check >= 0 /\ (pc # "store" => waited + check <= Latency)
  /\ Resetting(todo) =>
       waited = 0 \/ (todo[1].op = "update" /\ waited <= Latency + 1)

IInv == TypeOK /\ Good(aq, todo) /\ NotLost /\ Fresh /\ Removed /\ Paced

-----------------------------------------------------------------------------
(***************************************************************************)
(* What the routines leave to be done.                                     *)
(***************************************************************************)
\* s is t with operations on top that have no list, do not end a cancel or reset.
Over(q, s, t) ==
  /\ Good(q, s)
  /\ \A u : /\ Listed(q, s, u) <=> Listed(q, t, u)
            /\ Called(t, u) => Called(s, u)
            /\ Cancels(s, u) <=> Cancels(t, u)
  /\ Resetting(s) <=> Resetting(t)

Updating(s) == s # <<>> /\ s[1].op = "update"

\* Nothing is about to be cancelled at the top.
Open(t) == t # <<>> => t[1].op # "cancelled"

Update1 == Op("update", NoUnit)

LEMMA OpIsFrame ==
  ASSUME NEW o \in Ops, NEW u \in Units \cup {NoUnit}
  PROVE  Op(o, u) \in Frame /\ Op(o, u).op = o /\ Op(o, u).unit = u /\ Op(o, u).rest = <<>>
BY DEF Op, Frame

LEMMA OnTop ==
  ASSUME NEW g \in Frame, NEW t \in Seq(Frame)
  PROVE  /\ \A u : Called(Pushed(g, t), u) <=> Calls(g, u) \/ Called(t, u)
         /\ \A u : Cancels(Pushed(g, t), u) <=> Ends(g, u) \/ Cancels(t, u)
         /\ Resetting(Pushed(g, t)) <=> g.op = "reset" \/ Resetting(t)
         /\ \A q, u : Listed(q, Pushed(g, t), u) <=> Has(g.rest, u) \/ Listed(q, t, u)
<1> DEFINE r == Pushed(g, t)
<1>1. /\ Len(t) \in Nat /\ Len(r) = Len(t) + 1 /\ r[1] = g
      /\ \A k \in 1 .. Len(t) : r[k + 1] = t[k]
  BY PushedElements
<1> HIDE DEF r
<1>2. \A k \in 1 .. Len(r) :
        r[k] = g \/ \E j \in 1 .. Len(t) : r[k] = t[j]
  <2> TAKE k \in 1 .. Len(r)
  <2>1. CASE k = 1
    BY <1>1, <2>1
  <2>2. CASE k # 1
    <3>1. k - 1 \in 1 .. Len(t) /\ (k - 1) + 1 = k
      BY <1>1, <2>2
    <3> QED BY <1>1, <3>1
  <2> QED BY <2>1, <2>2
<1>3. \A j \in 1 .. Len(t) : \E k \in 1 .. Len(r) : r[k] = t[j]
  <2> TAKE j \in 1 .. Len(t)
  <2>1. j + 1 \in 1 .. Len(r)
    BY <1>1
  <2> QED BY <1>1, <2>1
<1>4. \E k \in 1 .. Len(r) : r[k] = g
  <2>1. 1 \in 1 .. Len(r)
    BY <1>1
  <2> QED BY <1>1, <2>1
<1>5. ASSUME NEW u PROVE Called(r, u) <=> Calls(g, u) \/ Called(t, u)
  BY <1>2, <1>3, <1>4 DEF Called
<1>6. ASSUME NEW u PROVE Cancels(r, u) <=> Ends(g, u) \/ Cancels(t, u)
  BY <1>2, <1>3, <1>4 DEF Cancels
<1>7. Resetting(r) <=> g.op = "reset" \/ Resetting(t)
  BY <1>2, <1>3, <1>4 DEF Resetting
<1>8. ASSUME NEW q, NEW u PROVE Listed(q, r, u) <=> Has(g.rest, u) \/ Listed(q, t, u)
  BY <1>2, <1>3, <1>4 DEF Listed
<1> QED BY <1>5, <1>6, <1>7, <1>8 DEF r

LEMMA NothingOn == /\ \A u : ~Called(<<>>, u) /\ ~Cancels(<<>>, u)
                   /\ \A u : ~Has(<<>>, u) /\ ~Listed(<<>>, <<>>, u)
                   /\ ~Resetting(<<>>) /\ StackOK(<<>>) /\ <<>> \in Seq(Frame)
BY DEF Called, Cancels, Has, Listed, Resetting, StackOK

\* One operation that is not one of those is pushed ...
LEMMA PushedOver ==
  ASSUME NEW g \in Frame, NEW t, NEW q, Good(q, t), GoodOn(g, t), g.rest = <<>>,
         g.op \notin {"reset", "cancelled"}
  PROVE  /\ Over(q, Pushed(g, t), t)
         /\ Pushed(g, t) # <<>> /\ Pushed(g, t)[1] = g /\ Tail(Pushed(g, t)) = t
         /\ \A u : Calls(g, u) => Called(Pushed(g, t), u)
<1>1. t \in Seq(Frame) /\ q \in Seq(Units) /\ AllOnce(q, t) /\ StackOK(t)
  BY DEF Good
<1> DEFINE r == Pushed(g, t)
<1>2. r \in Seq(Frame) /\ r # <<>> /\ r[1] = g /\ Tail(r) = t
  BY <1>1, PushedElements
<1>3. StackOK(r) /\ AllOnce(q, r)
  BY <1>1, PushedOK, PushedOnce
<1>4. /\ \A u : Called(r, u) <=> Calls(g, u) \/ Called(t, u)
      /\ \A u : Cancels(r, u) <=> Ends(g, u) \/ Cancels(t, u)
      /\ Resetting(r) <=> g.op = "reset" \/ Resetting(t)
      /\ \A u : Listed(q, r, u) <=> Has(g.rest, u) \/ Listed(q, t, u)
  BY <1>1, OnTop
<1>5. \A u : ~Has(g.rest, u) /\ ~Ends(g, u)
  BY NothingOn DEF Ends
<1> HIDE DEF r
<1>6. Over(q, r, t)
  BY <1>1, <1>2, <1>3, <1>4, <1>5 DEF Over, Good
<1> QED BY <1>2, <1>4, <1>6 DEF r

\* ... or the top is popped.
LEMMA Popped ==
  ASSUME NEW q, NEW s, Good(q, s), s # <<>>
  PROVE  /\ s[1] \in Frame /\ Tail(s) \in Seq(Frame) /\ s = Pushed(s[1], Tail(s))
         /\ Good(q, Tail(s)) /\ GoodOn(s[1], Tail(s))
         /\ \A u : Called(s, u) <=> Calls(s[1], u) \/ Called(Tail(s), u)
         /\ \A u : Cancels(s, u) <=> Ends(s[1], u) \/ Cancels(Tail(s), u)
         /\ Resetting(s) <=> s[1].op = "reset" \/ Resetting(Tail(s))
         /\ \A u : Listed(q, s, u) <=> Has(s[1].rest, u) \/ Listed(q, Tail(s), u)
<1> DEFINE g == s[1]
           t == Tail(s)
<1>1. s \in Seq(Frame) /\ q \in Seq(Units) /\ AllOnce(q, s) /\ StackOK(s)
  BY DEF Good
<1>2. g \in Frame /\ t \in Seq(Frame) /\ s = Pushed(g, t)
  BY <1>1, IsPushed
<1> HIDE DEF g, t
<1>3. StackOK(t) /\ GoodOn(g, t)
  BY <1>1, <1>2, PushedOK
<1>4. AllOnce(q, t)
  BY <1>1, <1>2, PoppedOnce
<1>5. /\ \A u : Called(s, u) <=> Calls(g, u) \/ Called(t, u)
      /\ \A u : Cancels(s, u) <=> Ends(g, u) \/ Cancels(t, u)
      /\ Resetting(s) <=> g.op = "reset" \/ Resetting(t)
      /\ \A u : Listed(q, s, u) <=> Has(g.rest, u) \/ Listed(q, t, u)
  BY <1>2, OnTop
<1>6. Good(q, t)
  BY <1>1, <1>2, <1>3, <1>4 DEF Good
<1> QED BY <1>2, <1>3, <1>5, <1>6 DEF g, t

LEMMA OverOver ==
  ASSUME NEW q, NEW r, NEW s, NEW t, Over(q, r, s), Over(q, s, t)
  PROVE  Over(q, r, t)
BY DEF Over

\* What is written as a series of operations is pushed one by one.
LEMMA Series ==
  \A a, b \in Frame : \A t \in Seq(Frame) :
    /\ (<<a>> \o <<b>>) \o t = Pushed(a, Pushed(b, t))
    /\ <<a, b>> \o t = Pushed(a, Pushed(b, t))
<1> TAKE a, b \in Frame
<1> TAKE t \in Seq(Frame)
<1>1. <<a>> \in Seq(Frame) /\ <<b>> \in Seq(Frame)
  OBVIOUS
<1>2. (<<a>> \o <<b>>) \o t = Pushed(a, Pushed(b, t))
  BY <1>1, ConcatAssociative DEF Pushed
<1>3. <<a, b>> = <<a>> \o <<b>>
  <2> DEFINE p == <<a>> \o <<b>>
             c == <<a, b>>
  <2>1. c \in Seq(Frame) /\ Len(c) = 2 /\ c[1] = a /\ c[2] = b
    OBVIOUS
  <2>2. p \in Seq(Frame) /\ Len(p) = 2 /\ p[1] = a /\ p[2] = b
    <3>1. p = Pushed(a, <<b>>)
      BY DEF Pushed
    <3>2. Len(<<b>>) = 1 /\ <<b>>[1] = b /\ 1 \in 1 .. Len(<<b>>)
      OBVIOUS
    <3>3. /\ p \in Seq(Frame) /\ Len(p) = Len(<<b>>) + 1 /\ p[1] = a
          /\ \A k \in 1 .. Len(<<b>>) : p[k + 1] = <<b>>[k]
      BY <1>1, <3>1, PushedElements
    <3>4. p[1 + 1] = b
      BY <3>2, <3>3
    <3> QED BY <3>2, <3>3, <3>4
  <2> HIDE DEF p, c
  <2>3. \A k \in 1 .. Len(c) : c[k] = p[k]
    <3>1. \A k \in 1 .. Len(c) : k = 1 \/ k = 2
      BY <2>1
    <3> QED BY <2>1, <2>2, <3>1
  <2>4. c = p
    BY <2>1, <2>2, <2>3, SeqEqual
  <2> QED BY <2>4 DEF p, c
<1> QED BY <1>2, <1>3

\* The routines, on what remains to be done by their callers.
Behind(u, t) ==
  \/ t # <<>> /\ t[1].op = "cancelled" /\ t[1].unit = u
  \/ Len(t) >= 2 /\ t[1].op = "update" /\ t[2].op = "insert" /\ t[2].unit = u

LEMMA UpdateOver ==
  ASSUME NEW q, NEW t, Good(q, t), Open(t)
  PROVE  /\ Over(q, Pushed(Update1, t), t) /\ Updating(Pushed(Update1, t))
         /\ UpdateQueue \o t = Pushed(Update1, t)
<1>1. Update1 \in Frame /\ Update1.op = "update" /\ Update1.rest = <<>>
  BY OpIsFrame DEF Update1, Ops
<1>2. GoodOn(Update1, t)
  BY <1>1 DEF GoodOn, Open, AboutUnit
<1>3. /\ Over(q, Pushed(Update1, t), t)
      /\ Pushed(Update1, t) # <<>> /\ Pushed(Update1, t)[1] = Update1
  BY <1>1, <1>2, PushedOver
<1> QED BY <1>1, <1>3 DEF Updating, UpdateQueue, Update1, Pushed

\* An operation behind an update of the queue.
LEMMA UpdatedOver ==
  ASSUME NEW g \in Frame, NEW t, NEW q, Good(q, t), GoodOn(g, t), g.rest = <<>>,
         g.op \notin {"reset", "cancelled"}
  PROVE  LET s == (UpdateQueue \o <<g>>) \o t
         IN  /\ Over(q, s, t) /\ Updating(s) /\ s = Pushed(Update1, Pushed(g, t))
             /\ \A u : Calls(g, u) => Called(s, u)
<1> DEFINE p == Pushed(g, t)
           s == Pushed(Update1, p)
<1>1. /\ Over(q, p, t) /\ p # <<>> /\ p[1] = g
      /\ \A u : Calls(g, u) => Called(p, u)
  BY PushedOver
<1>2. Good(q, p) /\ Open(p)
  BY <1>1 DEF Over, Open
<1>3. Over(q, s, p) /\ Updating(s)
  BY <1>2, UpdateOver
<1>4. Update1 \in Frame /\ t \in Seq(Frame)
  BY OpIsFrame DEF Update1, Ops, Good
<1>5. (UpdateQueue \o <<g>>) \o t = s
  <2>1. (<<Update1>> \o <<g>>) \o t = Pushed(Update1, Pushed(g, t))
    BY <1>4, Series, Zenon
  <2>2. UpdateQueue = <<Update1>>
    BY DEF UpdateQueue, Update1
  <2> QED BY <2>1, <2>2
<1>6. \A u : Calls(g, u) => Called(s, u)
  BY <1>1, <1>3 DEF Over
<1>7. Over(q, s, t)
  BY <1>1, <1>3, OverOver
<1> HIDE DEF s
<1> QED BY <1>3, <1>5, <1>6, <1>7 DEF s

LEMMA ActivateOver ==
  ASSUME NEW q, NEW t, NEW u \in Units, Good(q, t), Open(t)
  PROVE  LET s == _sim_activate(u) \o t
         IN  /\ Over(q, s, t) /\ Updating(s) /\ Called(s, u)
             /\ s = Pushed(Update1, Pushed(Op("insert", u), t))
<1> DEFINE g == Op("insert", u)
<1>1. g \in Frame /\ g.op = "insert" /\ g.unit = u /\ g.rest = <<>>
  BY OpIsFrame DEF Ops
<1> HIDE DEF g
<1>2. GoodOn(g, t) /\ Calls(g, u)
  BY <1>1 DEF GoodOn, Open, AboutUnit, Calls
<1>3. LET s == (UpdateQueue \o <<g>>) \o t
      IN  /\ Over(q, s, t) /\ Updating(s) /\ s = Pushed(Update1, Pushed(g, t))
          /\ \A v : Calls(g, v) => Called(s, v)
  BY <1>1, <1>2, UpdatedOver
<1> QED BY <1>2, <1>3 DEF _sim_activate, g

LEMMA CancelOver ==
  ASSUME NEW q, NEW t, NEW u \in Units, NEW o \in {"ifany", "remove"}, Good(q, t), Behind(u, t)
  PROVE  LET s == (UpdateQueue \o <<Op(o, u)>>) \o t
         IN  Over(q, s, t) /\ Updating(s)
<1> DEFINE g == Op(o, u)
<1>1. g \in Frame /\ g.op = o /\ g.unit = u /\ g.rest = <<>>
  BY OpIsFrame DEF Ops
<1> HIDE DEF g
<1>2. GoodOn(g, t)
  BY <1>1 DEF GoodOn, Behind, AboutUnit
<1>3. LET s == (UpdateQueue \o <<g>>) \o t
      IN  Over(q, s, t) /\ Updating(s)
  BY <1>1, <1>2, UpdatedOver
<1> QED BY <1>3 DEF g

LEMMA AbsOver ==
  ASSUME NEW q, NEW t, NEW u \in Units, Good(q, t), Open(t)
  PROVE  LET s == sim_activate_abs(u) \o t
         IN  Over(q, s, t) /\ Updating(s) /\ Called(s, u)
<1> DEFINE i == Op("insert", u)
           p == _sim_activate(u) \o t
           s == sim_cancel(u) \o p
<1>1. Over(q, p, t) /\ Called(p, u) /\ p = Pushed(Update1, Pushed(i, t))
  BY ActivateOver
<1>2. /\ Update1 \in Frame /\ Update1.op = "update" /\ i \in Frame
      /\ i.op = "insert" /\ i.unit = u /\ t \in Seq(Frame)
  BY OpIsFrame DEF Update1, Ops, Good
<1>3. Behind(u, p)
  <2> DEFINE r == Pushed(i, t)
  <2>1. /\ r \in Seq(Frame) /\ Len(t) \in Nat /\ Len(r) = Len(t) + 1 /\ r[1] = i
        /\ 1 \in 1 .. Len(r)
    BY <1>2, PushedElements
  <2> HIDE DEF r, i
  <2>2. /\ Len(Pushed(Update1, r)) = Len(r) + 1 /\ Pushed(Update1, r)[1] = Update1
        /\ \A k \in 1 .. Len(r) : Pushed(Update1, r)[k + 1] = r[k]
    <3>1. Update1 \in Frame /\ r \in Seq(Frame)
      BY <1>2, <2>1
    <3> QED BY <3>1, PushedElements
  <2>3. p = Pushed(Update1, r)
    BY <1>1 DEF r
  <2> HIDE DEF p
  <2>4. Len(p) >= 2 /\ p[1] = Update1 /\ p[2] = i
    <3>1. p[1 + 1] = r[1]
      BY <2>1, <2>2, <2>3
    <3> QED BY <2>1, <2>2, <2>3, <3>1
  <2> QED BY <1>2, <2>4 DEF Behind, i
<1>4. Over(q, s, p) /\ Updating(s)
  BY <1>1, <1>3, CancelOver DEF sim_cancel, Over
<1>5. sim_activate_abs(u) \o t = s
  <2>1. sim_cancel(u) \in Seq(Frame) /\ _sim_activate(u) \in Seq(Frame)
    <3>1. Update1 \in Frame /\ i \in Frame /\ Op("ifany", u) \in Frame
      BY <1>2, OpIsFrame DEF Ops
    <3>2. /\ <<Update1>> \o <<i>> \in Seq(Frame)
          /\ <<Update1>> \o <<Op("ifany", u)>> \in Seq(Frame)
      BY <3>1
    <3> QED BY <3>2 DEF sim_cancel, _sim_activate, UpdateQueue, Update1
  <2> QED BY <1>2, <2>1, ConcatAssociative DEF sim_activate_abs
<1>6. Over(q, s, t)
  BY <1>1, <1>4, OverOver
<1>7. Called(s, u)
  BY <1>1, <1>4 DEF Over
<1> HIDE DEF s
<1> QED BY <1>4, <1>5, <1>6, <1>7

\* The routine of sim_aio_update_queue, with the rest of the list in place.
LEMMA HeadOrTail ==
  ASSUME NEW r \in Seq(Units), r # <<>>
  PROVE  /\ r[1] \in Units /\ Tail(r) \in Seq(Units)
         /\ \A u : Has(r, u) => u = r[1] \/ Has(Tail(r), u)
<1>1. /\ Len(r) \in Nat /\ Len(r) >= 1 /\ DOMAIN r = 1 .. Len(r)
      /\ Tail(r) \in Seq(Units) /\ Len(Tail(r)) = Len(r) - 1
      /\ DOMAIN Tail(r) = 1 .. Len(Tail(r))
      /\ \A i \in 1 .. Len(Tail(r)) : Tail(r)[i] = r[i + 1]
  BY HeadTailProperties, LenProperties, EmptySeq
<1>2. r[1] \in Units
  BY <1>1, ElementOfSeq
<1>3. ASSUME NEW u, Has(r, u), u # r[1] PROVE Has(Tail(r), u)
  <2>1. PICK i \in DOMAIN r : r[i] = u
    BY <1>3 DEF Has
  <2>2. i - 1 \in 1 .. Len(Tail(r)) /\ (i - 1) + 1 = i
    BY <1>1, <1>3, <2>1
  <2>3. Tail(r)[i - 1] = u
    BY <1>1, <2>1, <2>2
  <2> QED BY <1>1, <2>2, <2>3 DEF Has
<1> QED BY <1>1, <1>2, <1>3

Migrating(r) == [op |-> "migrate", unit |-> NoUnit, rest |-> r]

LEMMA MigratingIsFrame ==
  ASSUME NEW r \in Seq(Units)
  PROVE  /\ Migrating(r) \in Frame /\ Migrating(r).op = "migrate" /\ Migrating(r).rest = r
         /\ \A u : ~Calls(Migrating(r), u) /\ ~Ends(Migrating(r), u)
         /\ \A t : GoodOn(Migrating(r), t) <=> Open(t)
BY DEF Migrating, Frame, Ops, Calls, Ends, GoodOn, Open, AboutUnit

LEMMA MigrateOver ==
  ASSUME NEW q, NEW r \in Seq(Units), r # <<>>, NEW t \in Seq(Frame),
         Good(q, Pushed(Migrating(Tail(r)), t))
  PROVE  LET s == Migrate(r) \o t
         IN  /\ Good(q, s) /\ Open(s) /\ ~Updating(s) /\ s # <<>>
             /\ \A u : Listed(q, s, u) <=> Has(Tail(r), u) \/ Listed(q, t, u)
             /\ \A u : u = r[1] \/ Called(t, u) => Called(s, u)
             /\ \A u : Cancels(s, u) <=> Cancels(t, u)
             /\ Resetting(s) <=> Resetting(t)
<1> DEFINE m == Migrating(Tail(r))
           g == Op("call", r[1])
           p == Pushed(m, t)
           s == Pushed(g, p)
<1>1. r[1] \in Units /\ Tail(r) \in Seq(Units)
  BY HeadOrTail
<1>2. /\ m \in Frame /\ m.op = "migrate" /\ m.rest = Tail(r)
      /\ \A u : ~Calls(m, u) /\ ~Ends(m, u)
  BY <1>1, MigratingIsFrame
<1>3. g \in Frame /\ g.op = "call" /\ g.unit = r[1] /\ g.rest = <<>>
  BY <1>1, OpIsFrame DEF Ops
<1>4. Migrate(r) \o t = s
  <2>1. Migrate(r) = <<g, m>>
    BY DEF Migrate, Migrating
  <2> HIDE DEF g, m
  <2>2. <<g, m>> \o t = Pushed(g, Pushed(m, t))
    BY <1>2, <1>3, Series, Zenon
  <2> QED BY <2>1, <2>2
<1> HIDE DEF m, g
<1>5. p # <<>> /\ p[1] = m
  BY <1>2, PushedElements
<1>6. GoodOn(g, p) /\ Calls(g, r[1])
  BY <1>1, <1>2, <1>3, <1>5 DEF GoodOn, AboutUnit, Calls
<1>7. /\ Over(q, s, p) /\ s # <<>> /\ s[1] = g /\ Called(s, r[1])
  <2>1. Good(q, p)
    BY DEF m
  <2> QED BY <1>3, <1>6, <2>1, PushedOver
<1>8. /\ \A u : Called(p, u) <=> Calls(m, u) \/ Called(t, u)
      /\ \A u : Cancels(p, u) <=> Ends(m, u) \/ Cancels(t, u)
      /\ Resetting(p) <=> m.op = "reset" \/ Resetting(t)
      /\ \A u : Listed(q, p, u) <=> Has(m.rest, u) \/ Listed(q, t, u)
  BY <1>2, OnTop
<1> HIDE DEF p, s
<1>9. /\ Good(q, s) /\ Open(s) /\ ~Updating(s) /\ s # <<>>
      /\ \A u : Listed(q, s, u) <=> Has(Tail(r), u) \/ Listed(q, t, u)
      /\ \A u : u = r[1] \/ Called(t, u) => Called(s, u)
      /\ \A u : Cancels(s, u) <=> Cancels(t, u)
      /\ Resetting(s) <=> Resetting(t)
  BY <1>2, <1>3, <1>7, <1>8 DEF Over, Open, Updating
<1> QED BY <1>4, <1>9

-----------------------------------------------------------------------------
(***************************************************************************)
(* The steps.                                                              *)
(***************************************************************************)
\* A step of the main thread that leaves sim_asynch_queue alone.
LEMMA RoutineSteps ==
  ASSUME IInv, pc = "run", ~Updating(todo),
         UNCHANGED <<aq, call, loaded, idle_wait, pc, tpc, waited, requests>>,
         Good(aq, todo'), clock' \subseteq Units, asked' \in [Units -> BOOLEAN], NotLost',
         \/ Updating(todo')
         \/ \A u \in Units : Cancels(todo', u) =>
              Cancels(todo, u) /\ (asked[u] /\ Has(aq, u) => asked'[u]),
         Open(todo') \/ todo'[1].unit \notin clock',
         \/ check' = check /\ (Resetting(todo') <=> Resetting(todo))
         \/ check' = Latency /\ waited = 0 /\ ~Resetting(todo')
  PROVE  IInv'
<1>1. Good(aq, todo)' /\ todo' \in Seq(Frame)
  BY DEF Good
<1>2. TypeOK'
  BY <1>1, LatencyAssumption DEF IInv, TypeOK, Frame
<1>3. Fresh'
  BY DEF IInv, Fresh, Updating
<1>4. Removed'
  BY DEF Removed, Open
<1>5. Paced'
  <2>1. Resetting(todo) => waited = 0
    <3>1. Resetting(todo) => todo # <<>>
      BY NothingOn
    <3>2. Resetting(todo) => waited = 0 \/ todo[1].op = "update"
      BY DEF IInv, Paced
    <3> QED BY <3>1, <3>2 DEF Updating
  <2>2. waited \in Nat
    BY DEF IInv, TypeOK
  <2>3. /\ check \in -1 .. Latency
        /\ ~Resetting(todo) => check >= 0 /\ waited + check <= Latency
    BY DEF IInv, Paced
  <2>4. pc' = "run" /\ waited' = waited
    OBVIOUS
  <2>5. CASE check' = check /\ (Resetting(todo') <=> Resetting(todo))
    BY <2>1, <2>3, <2>4, <2>5 DEF Paced
  <2>6. CASE check' = Latency /\ waited = 0 /\ ~Resetting(todo')
    BY <2>4, <2>6, LatencyAssumption DEF Paced
  <2> QED BY <2>5, <2>6
<1> QED BY <1>1, <1>2, <1>3, <1>4, <1>5 DEF IInv

\* Such a step that is only about what remains to be done.
LEMMA StackSteps ==
  ASSUME IInv, pc = "run", ~Updating(todo),
         UNCHANGED <<shared, check, loaded, idle_wait, clock, pc, asked, waited>>,
         Good(aq, todo'),
         \A u : Listed(aq, todo, u) \/ Called(todo, u) =>
                  Listed(aq, todo', u) \/ Called(todo', u),
         Updating(todo') \/ \A u : Cancels(todo', u) => Cancels(todo, u),
         Open(todo') \/ clock = {},
         Resetting(todo') <=> Resetting(todo)
  PROVE  IInv'
<1>1. UNCHANGED <<aq, call, loaded, idle_wait, pc, tpc, waited, requests>>
  BY DEF shared
<1>2. clock' = clock /\ asked' = asked /\ check' = check
  OBVIOUS
<1>3. clock' \subseteq Units /\ asked' \in [Units -> BOOLEAN]
  BY <1>2 DEF IInv, TypeOK
<1>4. NotLost'
  BY <1>1, <1>2 DEF IInv, NotLost
<1> QED BY <1>1, <1>2, <1>3, <1>4, RoutineSteps

\* What an operation finds when it is its turn.
LEMMA Top ==
  ASSUME IInv, NEW o, Doing(o)
  PROVE  /\ pc = "run" /\ todo[1].op = o /\ todo # <<>> /\ (o # "update" => ~Updating(todo))
         /\ todo[1] \in Frame /\ Tail(todo) \in Seq(Frame) /\ todo = Pushed(todo[1], Tail(todo))
         /\ Good(aq, Tail(todo)) /\ GoodOn(todo[1], Tail(todo))
         /\ \A u : Called(todo, u) <=> Calls(todo[1], u) \/ Called(Tail(todo), u)
         /\ \A u : Cancels(todo, u) <=> Ends(todo[1], u) \/ Cancels(Tail(todo), u)
         /\ Resetting(todo) <=> o = "reset" \/ Resetting(Tail(todo))
         /\ \A u : Listed(aq, todo, u) <=> Has(todo[1].rest, u) \/ Listed(aq, Tail(todo), u)
         /\ o # "migrate" =>
              \A u : Listed(aq, todo, u) <=> Listed(aq, Tail(todo), u)
         /\ o \in AboutUnit => todo[1].unit \in Units
         /\ o \notin {"ifany", "remove"} => Open(Tail(todo))
         /\ o \in {"ifany", "remove"} => Behind(todo[1].unit, Tail(todo))
         /\ o \in {"fire", "action", "reset"} => Tail(todo) = <<>>
<1>1. pc = "run" /\ todo[1].op = o /\ todo # <<>>
  BY DEF Doing
<1>2. Good(aq, todo)
  BY DEF IInv
<1>3. /\ todo[1] \in Frame /\ Tail(todo) \in Seq(Frame) /\ todo = Pushed(todo[1], Tail(todo))
      /\ Good(aq, Tail(todo)) /\ GoodOn(todo[1], Tail(todo))
      /\ \A u : Called(todo, u) <=> Calls(todo[1], u) \/ Called(Tail(todo), u)
      /\ \A u : Cancels(todo, u) <=> Ends(todo[1], u) \/ Cancels(Tail(todo), u)
      /\ Resetting(todo) <=> todo[1].op = "reset" \/ Resetting(Tail(todo))
      /\ \A u : Listed(aq, todo, u) <=> Has(todo[1].rest, u) \/ Listed(aq, Tail(todo), u)
  BY <1>1, <1>2, Popped
<1>4. o # "migrate" => \A u : ~Has(todo[1].rest, u)
  BY <1>1, <1>3, NothingOn DEF GoodOn
<1>5. /\ o \in AboutUnit => todo[1].unit \in Units
      /\ o \notin {"ifany", "remove"} => Open(Tail(todo))
      /\ o \in {"ifany", "remove"} => Behind(todo[1].unit, Tail(todo))
      /\ o \in {"fire", "action", "reset"} => Tail(todo) = <<>>
  BY <1>1, <1>3 DEF GoodOn, Open, Behind
<1>6. o # "update" => ~Updating(todo)
  BY <1>1 DEF Updating
<1> QED BY <1>1, <1>3, <1>4, <1>5, <1>6

LEMMA LastTop ==
  ASSUME IInv, NEW o \in {"fire", "action", "reset"}, Doing(o)
  PROVE  /\ pc = "run" /\ todo[1].op = o /\ todo # <<>> /\ ~Updating(todo)
         /\ Good(aq, <<>>) /\ Tail(todo) = <<>>
         /\ \A u : Called(todo, u) <=> Calls(todo[1], u)
         /\ Resetting(todo) <=> o = "reset"
         /\ \A u : Listed(aq, todo, u) <=> Listed(aq, <<>>, u)
<1> DEFINE t == Tail(todo)
<1>1. /\ pc = "run" /\ todo[1].op = o /\ todo # <<>> /\ ~Updating(todo)
      /\ Good(aq, t)
      /\ \A u : Called(todo, u) <=> Calls(todo[1], u) \/ Called(t, u)
      /\ Resetting(todo) <=> o = "reset" \/ Resetting(t)
      /\ \A u : Listed(aq, todo, u) <=> Listed(aq, t, u)
      /\ t = <<>>
  BY Top
<1> HIDE DEF t
<1>2. \A u : ~Called(t, u) /\ ~Resetting(t)
  BY <1>1, NothingOn
<1>3. /\ pc = "run" /\ todo[1].op = o /\ todo # <<>> /\ ~Updating(todo)
      /\ Good(aq, t) /\ t = <<>>
      /\ \A u : Called(todo, u) <=> Calls(todo[1], u)
      /\ Resetting(todo) <=> o = "reset"
      /\ \A u : Listed(aq, todo, u) <=> Listed(aq, t, u)
  BY <1>1, <1>2
<1> QED BY <1>3 DEF t

LEMMA MigrateNextStep == ASSUME IInv, MigrateNext PROVE IInv'
<1> DEFINE g == todo[1]
           t == Tail(todo)
           r == g.rest
<1>1. Doing("migrate") /\ todo' = Migrate(r) \o t
      /\ UNCHANGED <<shared, check, loaded, idle_wait, clock, pc, asked, waited>>
  BY DEF MigrateNext
<1>2. /\ pc = "run" /\ g.op = "migrate" /\ ~Updating(todo)
      /\ g \in Frame /\ t \in Seq(Frame) /\ todo = Pushed(g, t)
      /\ Good(aq, t) /\ Open(t)
      /\ \A u : Called(todo, u) <=> Calls(g, u) \/ Called(t, u)
      /\ \A u : Cancels(todo, u) <=> Ends(g, u) \/ Cancels(t, u)
      /\ Resetting(todo) <=> Resetting(t)
      /\ \A u : Listed(aq, todo, u) <=> Has(r, u) \/ Listed(aq, t, u)
  BY <1>1, Top
<1>3. Good(aq, todo) /\ r \in Seq(Units)
  BY <1>2 DEF IInv, Frame
<1>4. \A u : ~Calls(g, u) /\ ~Ends(g, u)
  BY <1>2 DEF Calls, Ends
<1> HIDE DEF g, t, r
<1>5. CASE r = <<>>
  <2>1. todo' = t
    BY <1>1, <1>2, <1>5, ConcatEmptySeq DEF Migrate
  <2>2. \A u : ~Has(r, u)
    BY <1>5, NothingOn
  <2> QED BY <1>1, <1>2, <1>4, <2>1, <2>2, StackSteps
<1>6. CASE r # <<>>
  <2> DEFINE m == Migrating(Tail(r))
             p == Pushed(m, t)
  <2>1. Tail(r) \in Seq(Units) /\ \A u : Has(r, u) => u = r[1] \/ Has(Tail(r), u)
    BY <1>3, <1>6, HeadOrTail
  <2>2. m \in Frame /\ m.rest = Tail(r) /\ GoodOn(m, t)
    BY <1>2, <2>1, MigratingIsFrame
  <2> HIDE DEF m
  <2>3. AllOnce(aq, p)
    <3>1. AllOnce(aq, Pushed(g, t)) /\ aq \in Seq(Units)
      BY <1>2, <1>3 DEF Good
    <3>2. g.rest # <<>> /\ m.rest = Tail(g.rest)
      BY <1>6, <2>2 DEF r
    <3> QED BY <1>2, <2>2, <3>1, <3>2, ShortenedOnce
  <2>4. StackOK(p) /\ p \in Seq(Frame)
    BY <1>2, <2>2, PushedOK, PushedElements DEF Good
  <2>5. Good(aq, p)
    BY <1>3, <2>3, <2>4 DEF Good
  <2> DEFINE s == Migrate(r) \o t
  <2>6. /\ Good(aq, s) /\ Open(s)
        /\ \A u : Listed(aq, s, u) <=> Has(Tail(r), u) \/ Listed(aq, t, u)
        /\ \A u : u = r[1] \/ Called(t, u) => Called(s, u)
        /\ \A u : Cancels(s, u) <=> Cancels(t, u)
        /\ Resetting(s) <=> Resetting(t)
    BY <1>2, <1>3, <1>6, <2>5, MigrateOver DEF m
  <2>7. todo' = s
    BY <1>1
  <2> HIDE DEF s
  <2> QED BY <1>1, <1>2, <1>4, <2>1, <2>6, <2>7, StackSteps
<1> QED BY <1>5, <1>6

LEMMA CallStep == ASSUME IInv, Call PROVE IInv'
<1> DEFINE g == todo[1]
           t == Tail(todo)
           u == g.unit
<1>1. Doing("call") /\ todo' = Activation(u) \o t
      /\ UNCHANGED <<shared, check, loaded, idle_wait, clock, pc, asked, waited>>
  BY DEF Call
<1>2. /\ pc = "run" /\ g.op = "call" /\ ~Updating(todo)
      /\ Good(aq, t) /\ Open(t) /\ u \in Units
      /\ \A v : Called(todo, v) <=> Calls(g, v) \/ Called(t, v)
      /\ \A v : Cancels(todo, v) <=> Ends(g, v) \/ Cancels(t, v)
      /\ Resetting(todo) <=> Resetting(t)
      /\ \A v : Listed(aq, todo, v) <=> Listed(aq, t, v)
  BY <1>1, Top DEF AboutUnit
<1>3. Over(aq, todo', t) /\ Updating(todo') /\ Called(todo', u)
  <2>1. CASE call[u] = "sim_activate"
    BY <1>1, <1>2, <2>1, ActivateOver DEF Activation
  <2>2. CASE call[u] # "sim_activate"
    BY <1>1, <1>2, <2>2, AbsOver DEF Activation
  <2> QED BY <2>1, <2>2
<1>4. \A v : Calls(g, v) => v = u
  BY DEF Calls
<1>5. Open(todo')
  BY <1>3 DEF Updating, Open
<1> HIDE DEF g, t, u
<1> QED BY <1>1, <1>2, <1>3, <1>4, <1>5, StackSteps DEF Over

LEMMA OnAsyncListIsListed ==
  ASSUME TypeOK
  PROVE  \A u : OnAsyncList(u) <=> Listed(aq, todo, u)
<1>1. DOMAIN todo = 1 .. Len(todo)
  BY LenProperties DEF TypeOK
<1> QED BY <1>1 DEF OnAsyncList, Listed, Has

LEMMA InsertStep == ASSUME IInv, Insert PROVE IInv'
<1> DEFINE g == todo[1]
           t == Tail(todo)
           u == g.unit
<1>1. /\ Doing("insert") /\ todo' = t
      /\ clock' = IF OnAsyncList(u) THEN clock ELSE clock \cup {u}
      /\ UNCHANGED <<shared, check, loaded, idle_wait, pc, asked, waited>>
  BY DEF Insert
<1>2. /\ pc = "run" /\ g.op = "insert" /\ ~Updating(todo)
      /\ Good(aq, t) /\ Open(t) /\ u \in Units
      /\ \A v : Called(todo, v) <=> Calls(g, v) \/ Called(t, v)
      /\ \A v : Cancels(todo, v) <=> Ends(g, v) \/ Cancels(t, v)
      /\ Resetting(todo) <=> Resetting(t)
      /\ \A v : Listed(aq, todo, v) <=> Listed(aq, t, v)
  BY <1>1, Top DEF AboutUnit
<1>3. \A v : Calls(g, v) => v = u
  BY DEF Calls
<1>4. OnAsyncList(u) => Listed(aq, todo, u)
  BY OnAsyncListIsListed DEF IInv
<1>5. /\ UNCHANGED <<aq, call, loaded, idle_wait, pc, tpc, waited, requests>>
      /\ check' = check /\ asked' = asked
  BY <1>1 DEF shared
<1>6. clock' \subseteq Units /\ clock \subseteq clock' /\ asked' \in [Units -> BOOLEAN]
  BY <1>1, <1>2, <1>5 DEF IInv, TypeOK
<1>7. \A v \in Units : asked[v] => v \in clock \/ Listed(aq, todo, v) \/ Called(todo, v)
  BY DEF IInv, NotLost
<1> HIDE DEF g, t, u
<1>8. NotLost'
  <2> SUFFICES ASSUME NEW v \in Units, asked[v]
               PROVE  v \in clock' \/ Listed(aq, t, v) \/ Called(t, v)
    BY <1>1, <1>5 DEF NotLost
  <2>1. CASE v = u
    BY <1>1, <1>2, <1>4, <2>1
  <2>2. CASE v # u
    BY <1>2, <1>3, <1>6, <1>7, <2>2
  <2> QED BY <2>1, <2>2
<1>9. \A v \in Units : Cancels(todo', v) =>
                         Cancels(todo, v) /\ (asked[v] /\ Has(aq, v) => asked'[v])
  BY <1>1, <1>2, <1>5
<1> QED BY <1>1, <1>2, <1>5, <1>6, <1>8, <1>9, RoutineSteps

LEMMA IfAnyStep == ASSUME IInv, IfAny PROVE IInv'
<1> DEFINE g == todo[1]
           t == Tail(todo)
           u == g.unit
<1>1. /\ Doing("ifany")
      /\ todo' = (IF clock = {} THEN <<>> ELSE UpdateQueue \o <<Op("remove", u)>>) \o t
      /\ UNCHANGED <<shared, check, loaded, idle_wait, clock, pc, asked, waited>>
  BY DEF IfAny
<1>2. /\ pc = "run" /\ g.op = "ifany" /\ ~Updating(todo)
      /\ Good(aq, t) /\ Behind(u, t) /\ u \in Units
      /\ \A v : Called(todo, v) <=> Calls(g, v) \/ Called(t, v)
      /\ \A v : Cancels(todo, v) <=> Ends(g, v) \/ Cancels(t, v)
      /\ Resetting(todo) <=> Resetting(t)
      /\ \A v : Listed(aq, todo, v) <=> Listed(aq, t, v)
  BY <1>1, Top DEF AboutUnit
<1>3. \A v : ~Calls(g, v)
  BY <1>2 DEF Calls
<1>4. CASE clock = {}
  <2>1. todo' = t
    BY <1>1, <1>2, <1>4, ConcatEmptySeq DEF Good
  <2> HIDE DEF g, t, u
  <2> QED BY <1>1, <1>2, <1>3, <1>4, <2>1, StackSteps
<1>5. CASE clock # {}
  <2>1. todo' = (UpdateQueue \o <<Op("remove", u)>>) \o t
    BY <1>1, <1>5
  <2>2. Over(aq, todo', t) /\ Updating(todo')
    BY <1>2, <2>1, CancelOver
  <2>3. Open(todo')
    BY <2>2 DEF Updating, Open
  <2> HIDE DEF g, t, u
  <2> QED BY <1>1, <1>2, <1>3, <2>2, <2>3, StackSteps DEF Over
<1> QED BY <1>4, <1>5

LEMMA RemoveStep == ASSUME IInv, Remove PROVE IInv'
<1> DEFINE g == todo[1]
           t == Tail(todo)
           u == g.unit
<1>1. /\ Doing("remove") /\ todo' = t /\ clock' = clock \ {u}
      /\ asked' = [asked EXCEPT ![u] = @ /\ ~(Dropping /\ ~OnAsyncList(u))]
      /\ UNCHANGED <<shared, check, loaded, idle_wait, pc, waited>>
  BY DEF Remove
<1>2. /\ pc = "run" /\ g.op = "remove" /\ ~Updating(todo)
      /\ Good(aq, t) /\ Behind(u, t) /\ u \in Units
      /\ g \in Frame /\ t \in Seq(Frame) /\ todo = Pushed(g, t)
      /\ \A v : Called(todo, v) <=> Calls(g, v) \/ Called(t, v)
      /\ \A v : Cancels(todo, v) <=> Ends(g, v) \/ Cancels(t, v)
      /\ Resetting(todo) <=> Resetting(t)
      /\ \A v : Listed(aq, todo, v) <=> Listed(aq, t, v)
  BY <1>1, Top DEF AboutUnit
<1>3. \A v : ~Calls(g, v)
  BY <1>2 DEF Calls
<1>4. OnAsyncList(u) <=> Listed(aq, todo, u)
  BY OnAsyncListIsListed DEF IInv
<1>5. /\ UNCHANGED <<aq, call, loaded, idle_wait, pc, tpc, waited, requests>>
      /\ check' = check
  BY <1>1 DEF shared
<1>6. clock \subseteq Units /\ asked \in [Units -> BOOLEAN]
  BY DEF IInv, TypeOK
<1>7. \A v \in Units : asked[v] => v \in clock \/ Listed(aq, todo, v) \/ Called(todo, v)
  BY DEF IInv, NotLost
<1>8. Dropping \/ Called(t, u)
  <2> HIDE DEF g, t, u
  <2> DEFINE p == Pushed(g, t)
  <2>0. /\ Len(t) \in Nat /\ Len(p) = Len(t) + 1
        /\ \A k \in 1 .. Len(t) : p[k + 1] = t[k]
        /\ t = <<>> <=> Len(t) = 0
    <3>1. g \in Frame /\ t \in Seq(Frame)
      BY <1>2
    <3> QED BY <3>1, PushedElements
  <2> HIDE DEF p
  <2>1. /\ Len(t) \in Nat /\ Len(todo) = Len(t) + 1
        /\ \A k \in 1 .. Len(t) : todo[k + 1] = t[k]
        /\ t = <<>> <=> Len(t) = 0
    <3>1. todo = p
      BY <1>2 DEF p
    <3> QED BY <2>0, <3>1
  <2>2. CASE t # <<>> /\ t[1].op = "cancelled"
    <3>1. 1 \in 1 .. Len(t) /\ Len(todo) > 1
      BY <2>1, <2>2
    <3>2. todo[1 + 1] = t[1]
      BY <2>1, <3>1
    <3> QED BY <2>2, <3>1, <3>2 DEF Dropping
  <2>3. CASE Len(t) >= 2 /\ t[2].op = "insert" /\ t[2].unit = u
    <3>1. 2 \in 1 .. Len(t)
      BY <2>1, <2>3
    <3> QED BY <2>3, <3>1 DEF Called, Calls
  <2> QED BY <1>2, <2>2, <2>3 DEF Behind
<1>9. Open(t) \/ t[1].unit = u
  BY <1>2 DEF Behind, Open
<1>10. /\ asked' \in [Units -> BOOLEAN]
       /\ \A v \in Units : asked'[v] => asked[v]
       /\ \A v \in Units : v # u => asked'[v] = asked[v]
       /\ asked'[u] <=> asked[u] /\ ~(Dropping /\ ~OnAsyncList(u))
  BY <1>1, <1>2, <1>6
<1> HIDE DEF g, t, u
<1>11. NotLost'
  <2> SUFFICES ASSUME NEW v \in Units, asked'[v]
               PROVE  v \in clock' \/ Listed(aq, t, v) \/ Called(t, v)
    BY <1>1, <1>5 DEF NotLost
  <2>1. CASE v = u
    BY <1>2, <1>4, <1>8, <1>10, <2>1
  <2>2. CASE v # u
    BY <1>1, <1>2, <1>3, <1>7, <1>10, <2>2
  <2> QED BY <2>1, <2>2
<1>12. \A v \in Units : asked[v] /\ Has(aq, v) => asked'[v]
  <2> SUFFICES ASSUME NEW v \in Units, asked[v], Has(aq, v) PROVE asked'[v]
    OBVIOUS
  <2>1. Listed(aq, todo, v)
    BY DEF Listed
  <2> QED BY <1>4, <1>10, <2>1
<1>13. \A v \in Units : Cancels(todo', v) =>
                          Cancels(todo, v) /\ (asked[v] /\ Has(aq, v) => asked'[v])
  BY <1>1, <1>2, <1>12
<1>14. clock' \subseteq Units /\ (Open(todo') \/ todo'[1].unit \notin clock')
  BY <1>1, <1>6, <1>9
<1> QED BY <1>1, <1>2, <1>5, <1>10, <1>11, <1>13, <1>14, RoutineSteps

LEMMA CancelledStep == ASSUME IInv, Cancelled PROVE IInv'
<1> DEFINE g == todo[1]
           t == Tail(todo)
<1>1. /\ Doing("cancelled") /\ todo' = t
      /\ UNCHANGED <<shared, check, loaded, idle_wait, clock, pc, asked, waited>>
  BY DEF Cancelled
<1>2. /\ pc = "run" /\ g.op = "cancelled" /\ ~Updating(todo)
      /\ Good(aq, t) /\ Open(t)
      /\ \A v : Called(todo, v) <=> Calls(g, v) \/ Called(t, v)
      /\ \A v : Cancels(todo, v) <=> Ends(g, v) \/ Cancels(t, v)
      /\ Resetting(todo) <=> Resetting(t)
      /\ \A v : Listed(aq, todo, v) <=> Listed(aq, t, v)
  BY <1>1, Top
<1>3. \A v : ~Calls(g, v)
  BY <1>2 DEF Calls
<1> HIDE DEF g, t
<1> QED BY <1>1, <1>2, <1>3, StackSteps

LEMMA FireStep == ASSUME IInv, NEW u \in Units, Fire(u) PROVE IInv'
<1> DEFINE g == todo[1]
           a == Op("action", u)
           s == Pushed(a, <<>>)
<1>1. /\ Doing("fire") /\ todo' = <<a>> \o Tail(todo) /\ clock' = clock \ {u}
      /\ asked' = [asked EXCEPT ![u] = FALSE]
      /\ UNCHANGED <<shared, check, loaded, idle_wait, pc, waited>>
  BY DEF Fire
<1>2. /\ pc = "run" /\ g.op = "fire" /\ ~Updating(todo)
      /\ Good(aq, <<>>) /\ Tail(todo) = <<>>
      /\ \A v : Called(todo, v) <=> Calls(g, v)
      /\ ~Resetting(todo)
      /\ \A v : Listed(aq, todo, v) <=> Listed(aq, <<>>, v)
  BY <1>1, LastTop
<1>3. \A v : ~Calls(g, v)
  BY <1>2 DEF Calls
<1>4. a \in Frame /\ a.op = "action" /\ a.unit = u /\ a.rest = <<>>
  BY OpIsFrame DEF Ops
<1> HIDE DEF g, a
<1>5. GoodOn(a, <<>>)
  BY <1>4 DEF GoodOn, AboutUnit
<1>6. Over(aq, s, <<>>) /\ s # <<>> /\ s[1] = a
  BY <1>2, <1>4, <1>5, PushedOver
<1>7. todo' = s
  BY <1>1, <1>2 DEF Pushed
<1> HIDE DEF s
<1>8. /\ Good(aq, todo') /\ (Resetting(todo') <=> Resetting(todo))
      /\ \A v : Listed(aq, todo', v) <=> Listed(aq, todo, v)
      /\ \A v : ~Called(todo, v) /\ ~Cancels(todo', v)
      /\ Open(todo')
  BY <1>2, <1>3, <1>4, <1>6, <1>7, NothingOn DEF Over, Open
<1>9. /\ UNCHANGED <<aq, call, loaded, idle_wait, pc, tpc, waited, requests>>
      /\ check' = check
  BY <1>1 DEF shared
<1>10. clock \subseteq Units /\ asked \in [Units -> BOOLEAN]
  BY DEF IInv, TypeOK
<1>11. /\ clock' \subseteq Units /\ asked' \in [Units -> BOOLEAN]
       /\ \A v \in Units : asked'[v] => asked[v] /\ v # u
  BY <1>1, <1>10
<1>12. NotLost'
  <2> SUFFICES ASSUME NEW v \in Units, asked'[v]
               PROVE  v \in clock' \/ Listed(aq, todo', v) \/ Called(todo', v)
    BY <1>9 DEF NotLost
  <2>1. v \in clock \/ Listed(aq, todo, v) \/ Called(todo, v)
    BY <1>11 DEF IInv, NotLost
  <2> QED BY <1>1, <1>8, <1>11, <2>1
<1> QED BY <1>2, <1>8, <1>9, <1>11, <1>12, RoutineSteps

LEMMA FireNothingStep == ASSUME IInv, FireNothing PROVE IInv'
<1> DEFINE g == todo[1]
           t == Tail(todo)
<1>1. /\ Doing("fire") /\ todo' = t
      /\ UNCHANGED <<shared, check, loaded, idle_wait, clock, pc, asked, waited>>
  BY DEF FireNothing
<1>2. /\ pc = "run" /\ g.op = "fire" /\ ~Updating(todo)
      /\ Good(aq, t) /\ Open(t)
      /\ \A v : Called(todo, v) <=> Calls(g, v) \/ Called(t, v)
      /\ \A v : Cancels(todo, v) <=> Ends(g, v) \/ Cancels(t, v)
      /\ Resetting(todo) <=> Resetting(t)
      /\ \A v : Listed(aq, todo, v) <=> Listed(aq, t, v)
  BY <1>1, Top
<1>3. \A v : ~Calls(g, v)
  BY <1>2 DEF Calls
<1> HIDE DEF g, t
<1> QED BY <1>1, <1>2, <1>3, StackSteps

\* sim_process_event from its first update on.
LEMMA FireOver ==
  ASSUME NEW q, Good(q, <<>>), NEW next \in {<<>>, <<Op("fire", NoUnit)>>}
  PROVE  LET s == UpdateQueue \o next \o <<>>
         IN  Over(q, s, <<>>) /\ Updating(s)
<1> DEFINE f == Op("fire", NoUnit)
<1>1. f \in Frame /\ f.op = "fire" /\ f.rest = <<>>
  BY OpIsFrame DEF Ops
<1> HIDE DEF f
<1>2. Open(<<>>) /\ GoodOn(f, <<>>)
  BY <1>1 DEF Open, GoodOn, AboutUnit
<1>3. CASE next = <<>>
  <2>1. Over(q, UpdateQueue \o <<>>, <<>>) /\ Updating(UpdateQueue \o <<>>)
    BY <1>2, UpdateOver
  <2>2. UpdateQueue \in Seq(Frame)
    BY OpIsFrame DEF UpdateQueue, Ops
  <2>3. UpdateQueue \o next \o <<>> = UpdateQueue \o <<>>
    BY <1>3, <2>2, ConcatEmptySeq
  <2> QED BY <2>1, <2>3
<1>4. CASE next = <<f>>
  <2>1. LET s == (UpdateQueue \o <<f>>) \o <<>>
        IN  Over(q, s, <<>>) /\ Updating(s)
    BY <1>1, <1>2, UpdatedOver
  <2> QED BY <1>4, <2>1
<1> QED BY <1>3, <1>4 DEF f

LEMMA ActionReturnsStep == ASSUME IInv, ActionReturns PROVE IInv'
<1> DEFINE g == todo[1]
<1>1. /\ Doing("action")
      /\ UNCHANGED <<shared, check, loaded, idle_wait, clock, pc, asked, waited>>
  BY DEF ActionReturns
<1>2. /\ pc = "run" /\ g.op = "action" /\ ~Updating(todo)
      /\ Good(aq, <<>>) /\ Tail(todo) = <<>>
      /\ \A v : Called(todo, v) <=> Calls(g, v)
      /\ ~Resetting(todo)
      /\ \A v : Listed(aq, todo, v) <=> Listed(aq, <<>>, v)
  BY <1>1, LastTop
<1>3. \A v : ~Calls(g, v)
  BY <1>2 DEF Calls
<1>4. PICK next \in {<<>>, <<Op("fire", NoUnit)>>} :
        todo' = UpdateQueue \o next \o Tail(todo)
  BY DEF ActionReturns
<1>5. Over(aq, todo', <<>>) /\ Updating(todo')
  BY <1>2, <1>4, FireOver
<1>6. Open(todo')
  BY <1>5 DEF Updating, Open
<1> HIDE DEF g
<1>7. ~Resetting(todo')
  BY <1>5, NothingOn DEF Over
<1> QED BY <1>1, <1>2, <1>3, <1>5, <1>6, <1>7, StackSteps DEF Over

LEMMA EventDueStep == ASSUME IInv, EventDue PROVE IInv'
<1>1. /\ pc = "run" /\ todo = <<>> /\ todo' = sim_process_event
      /\ UNCHANGED <<shared, check, loaded, idle_wait, clock, pc, asked, waited>>
  BY DEF EventDue, Free
<1>2. Good(aq, <<>>) /\ ~Updating(todo)
  BY <1>1 DEF IInv, Updating
<1>3. todo' = UpdateQueue \o <<Op("fire", NoUnit)>> \o <<>>
  <2>1. UpdateQueue \o <<Op("fire", NoUnit)>> \in Seq(Frame)
    BY OpIsFrame DEF UpdateQueue, Ops
  <2> QED BY <1>1, <2>1, ConcatEmptySeq DEF sim_process_event
<1>4. Over(aq, todo', <<>>) /\ Updating(todo')
  BY <1>2, <1>3, FireOver
<1>5. Open(todo')
  BY <1>4 DEF Updating, Open
<1> QED BY <1>1, <1>2, <1>4, <1>5, StackSteps DEF Over

LEMMA ResetStep == ASSUME IInv, Reset PROVE IInv'
<1> DEFINE g == todo[1]
<1>1. /\ Doing("reset") /\ todo' = Tail(todo) /\ check' = Latency
      /\ UNCHANGED <<shared, loaded, idle_wait, clock, pc, asked, waited>>
  BY DEF Reset
<1>2. /\ pc = "run" /\ g.op = "reset" /\ ~Updating(todo) /\ todo # <<>>
      /\ Good(aq, <<>>) /\ Tail(todo) = <<>>
      /\ \A v : Called(todo, v) <=> Calls(g, v)
      /\ Resetting(todo)
      /\ \A v : Listed(aq, todo, v) <=> Listed(aq, <<>>, v)
  BY <1>1, LastTop
<1>3. \A v : ~Calls(g, v)
  BY <1>2 DEF Calls
<1>4. waited = 0
  BY <1>2 DEF IInv, Paced, Updating
<1>5. /\ UNCHANGED <<aq, call, loaded, idle_wait, pc, tpc, waited, requests>>
      /\ clock' = clock /\ asked' = asked /\ clock' \subseteq Units
      /\ asked' \in [Units -> BOOLEAN]
  BY <1>1 DEF shared, IInv, TypeOK
<1> HIDE DEF g
<1>6. NotLost'
  BY <1>1, <1>2, <1>3, <1>5 DEF IInv, NotLost
<1>7. Open(todo') /\ ~Resetting(todo') /\ \A v : ~Cancels(todo', v)
  BY <1>1, <1>2, NothingOn DEF Open
<1> QED BY <1>1, <1>2, <1>4, <1>5, <1>6, <1>7, RoutineSteps

\* Where devices call the package.
LEMMA DevicesCall ==
  ASSUME IInv, Free \/ Doing("action")
  PROVE  /\ pc = "run" /\ Good(aq, todo) /\ Open(todo) /\ ~Updating(todo)
         /\ todo = <<>> \/ (Len(todo) = 1 /\ todo[1].op = "action")
<1>1. Good(aq, todo)
  BY DEF IInv
<1>2. CASE Free
  BY <1>1, <1>2 DEF Free, Open, Updating
<1>3. CASE Doing("action")
  <2> DEFINE g == todo[1]
             t == Tail(todo)
  <2>1. pc = "run" /\ g.op = "action" /\ t = <<>>
    BY <1>3, LastTop
  <2>2. g \in Frame /\ t \in Seq(Frame) /\ todo = Pushed(g, t)
    BY <1>3, Top
  <2>3. Len(todo) = 1
    <3> HIDE DEF g, t
    <3> DEFINE p == Pushed(g, t)
    <3>1. Len(t) \in Nat /\ Len(p) = Len(t) + 1 /\ (t = <<>> <=> Len(t) = 0)
      BY <2>2, PushedElements
    <3> HIDE DEF p
    <3>2. todo = p
      BY <2>2 DEF p
    <3> QED BY <2>1, <3>1, <3>2
  <2> QED BY <1>1, <2>1, <2>3 DEF Open, Updating
<1> QED BY <1>2, <1>3

LEMMA DeviceActivatesStep == ASSUME IInv, NEW u \in Units, DeviceActivates(u) PROVE IInv'
<1>1. /\ Free \/ Doing("action")
      /\ todo' = _sim_activate(u) \o todo
      /\ UNCHANGED <<shared, check, loaded, idle_wait, clock, pc, asked, waited>>
  BY DEF DeviceActivates, DeviceCalls
<1>2. pc = "run" /\ Good(aq, todo) /\ Open(todo) /\ ~Updating(todo)
  BY <1>1, DevicesCall
<1>3. Over(aq, todo', todo) /\ Updating(todo')
  BY <1>1, <1>2, ActivateOver
<1>4. Open(todo')
  BY <1>3 DEF Updating, Open
<1> QED BY <1>1, <1>2, <1>3, <1>4, StackSteps DEF Over

LEMMA DeviceActivatesAbsStep ==
  ASSUME IInv, NEW u \in Units, DeviceActivatesAbs(u) PROVE IInv'
<1>1. /\ Free \/ Doing("action")
      /\ todo' = sim_activate_abs(u) \o todo
      /\ UNCHANGED <<shared, check, loaded, idle_wait, clock, pc, asked, waited>>
  BY DEF DeviceActivatesAbs, DeviceCalls
<1>2. pc = "run" /\ Good(aq, todo) /\ Open(todo) /\ ~Updating(todo)
  BY <1>1, DevicesCall
<1>3. Over(aq, todo', todo) /\ Updating(todo')
  BY <1>1, <1>2, AbsOver
<1>4. Open(todo')
  BY <1>3 DEF Updating, Open
<1> QED BY <1>1, <1>2, <1>3, <1>4, StackSteps DEF Over

LEMMA DeviceCancelsStep == ASSUME IInv, NEW u \in Units, DeviceCancels(u) PROVE IInv'
<1> DEFINE c == Op("cancelled", u)
           p == Pushed(c, todo)
           s == sim_cancel(u) \o p
<1>1. /\ Free \/ Doing("action")
      /\ todo' = (sim_cancel(u) \o <<c>>) \o todo
      /\ asked' = [asked EXCEPT ![u] = FALSE]
      /\ UNCHANGED <<shared, check, loaded, idle_wait, clock, pc, waited>>
  BY DEF DeviceCancels, DeviceCalls
<1>2. /\ pc = "run" /\ Good(aq, todo) /\ Open(todo) /\ ~Updating(todo)
      /\ todo = <<>> \/ (Len(todo) = 1 /\ todo[1].op = "action")
  BY <1>1, DevicesCall
<1>3. /\ c \in Frame /\ c.op = "cancelled" /\ c.unit = u /\ c.rest = <<>>
      /\ Op("ifany", u) \in Frame /\ Op("update", NoUnit) \in Frame
  BY OpIsFrame DEF Ops
<1>4. todo' = s
  <2>1. sim_cancel(u) \in Seq(Frame) /\ <<c>> \in Seq(Frame) /\ todo \in Seq(Frame)
    <3>1. <<Op("update", NoUnit)>> \o <<Op("ifany", u)>> \in Seq(Frame)
      BY <1>3
    <3> QED BY <1>2, <1>3, <3>1 DEF sim_cancel, UpdateQueue, Good
  <2> HIDE DEF c
  <2>2. (sim_cancel(u) \o <<c>>) \o todo = sim_cancel(u) \o (<<c>> \o todo)
    BY <2>1, ConcatAssociative
  <2> QED BY <1>1, <2>2 DEF Pushed
<1> HIDE DEF c
<1>5. Good(aq, p) /\ p # <<>> /\ p[1] = c
  <2>1. aq \in Seq(Units) /\ todo \in Seq(Frame) /\ StackOK(todo) /\ AllOnce(aq, todo)
    BY <1>2 DEF Good
  <2>2. GoodOn(c, todo)
    BY <1>2, <1>3 DEF GoodOn, Open, AboutUnit
  <2>3. p \in Seq(Frame) /\ p # <<>> /\ p[1] = c
    BY <1>3, <2>1, PushedElements
  <2>4. StackOK(p)
    BY <1>3, <2>1, <2>2, PushedOK
  <2>5. AllOnce(aq, p)
    BY <1>3, <2>1, PushedOnce
  <2> QED BY <2>1, <2>3, <2>4, <2>5 DEF Good
<1>6. /\ \A v : Called(p, v) <=> Calls(c, v) \/ Called(todo, v)
      /\ Resetting(p) <=> c.op = "reset" \/ Resetting(todo)
      /\ \A v : Listed(aq, p, v) <=> Has(c.rest, v) \/ Listed(aq, todo, v)
  BY <1>2, <1>3, OnTop DEF Good
<1>7. Behind(u, p)
  BY <1>3, <1>5 DEF Behind
<1> HIDE DEF p
<1>8. Over(aq, s, p) /\ Updating(s)
  BY <1>5, <1>7, CancelOver DEF sim_cancel
<1> HIDE DEF s
<1>9. /\ UNCHANGED <<aq, call, loaded, idle_wait, pc, tpc, waited, requests>>
      /\ check' = check /\ clock' = clock
  BY <1>1 DEF shared
<1>10. /\ clock' \subseteq Units /\ asked' \in [Units -> BOOLEAN]
       /\ \A v \in Units : asked'[v] => asked[v]
  BY <1>1, <1>9 DEF IInv, TypeOK
<1>11. NotLost'
  <2> SUFFICES ASSUME NEW v \in Units, asked'[v]
               PROVE  v \in clock \/ Listed(aq, s, v) \/ Called(s, v)
    BY <1>4, <1>9 DEF NotLost
  <2>1. v \in clock \/ Listed(aq, todo, v) \/ Called(todo, v)
    BY <1>10 DEF IInv, NotLost
  <2> QED BY <1>6, <1>8, <2>1 DEF Over
<1>12. /\ Good(aq, todo') /\ Updating(todo') /\ Open(todo')
       /\ Resetting(todo') <=> Resetting(todo)
  BY <1>3, <1>4, <1>6, <1>8 DEF Over, Updating, Open
<1> QED BY <1>2, <1>9, <1>10, <1>11, <1>12, RoutineSteps

\* The queue is grabbed.
LEMMA UpdateStep == ASSUME IInv, Update PROVE IInv'
<1> DEFINE g == todo[1]
           t == Tail(todo)
<1>1. /\ Doing("update") /\ todo' = Migrate(aq) \o t /\ aq' = <<>> /\ waited' = 0
      /\ UNCHANGED <<call, check, loaded, idle_wait, clock, pc, tpc, asked, requests>>
  BY DEF Update
<1>2. /\ pc = "run" /\ g.op = "update" /\ t \in Seq(Frame)
      /\ Good(aq, t) /\ Open(t)
      /\ \A v : Called(todo, v) <=> Calls(g, v) \/ Called(t, v)
      /\ Resetting(todo) <=> Resetting(t)
      /\ \A v : Listed(aq, todo, v) <=> Listed(aq, t, v)
  BY <1>1, Top
<1>3. \A v : ~Calls(g, v)
  BY <1>2 DEF Calls
<1> HIDE DEF g, t
<1>4. aq \in Seq(Units) /\ StackOK(t) /\ AllOnce(aq, t)
  BY <1>2 DEF Good
<1>5. \A v : Listed(aq, t, v) <=> Has(aq, v) \/ Listed(<<>>, t, v)
  BY NothingOn DEF Listed
<1>6. /\ Good(<<>>, todo') /\ Open(todo')
      /\ \A v : Listed(aq, t, v) => Listed(<<>>, todo', v) \/ Called(todo', v)
      /\ \A v : Called(t, v) => Called(todo', v)
      /\ Resetting(todo') <=> Resetting(t)
  <2>1. CASE aq = <<>>
    <3>1. todo' = t
      BY <1>1, <1>2, <2>1, ConcatEmptySeq DEF Migrate
    <3> QED BY <1>2, <2>1, <3>1
  <2>2. CASE aq # <<>>
    <3> DEFINE m == Migrating(Tail(aq))
               p == Pushed(m, t)
               s == Migrate(aq) \o t
               e == <<>>
    <3>1. Tail(aq) \in Seq(Units) /\ \A v : Has(aq, v) => v = aq[1] \/ Has(Tail(aq), v)
      BY <1>4, <2>2, HeadOrTail
    <3>2. m \in Frame /\ m.rest = Tail(aq) /\ GoodOn(m, t)
      BY <1>2, <3>1, MigratingIsFrame
    <3> HIDE DEF m
    <3>3. e \in Seq(Units)
      OBVIOUS
    <3>4. AllOnce(e, p)
      BY <1>2, <1>4, <2>2, <3>2, <3>3, GrabbedOnce
    <3>5. StackOK(p) /\ p \in Seq(Frame)
      BY <1>2, <1>4, <3>2, PushedOK, PushedElements
    <3> HIDE DEF e
    <3>6. Good(e, p)
      BY <3>3, <3>4, <3>5 DEF Good
    <3>7. /\ Good(e, s) /\ Open(s)
          /\ \A v : Listed(e, s, v) <=> Has(Tail(aq), v) \/ Listed(e, t, v)
          /\ \A v : v = aq[1] \/ Called(t, v) => Called(s, v)
          /\ Resetting(s) <=> Resetting(t)
      BY <1>2, <1>4, <2>2, <3>6, MigrateOver DEF m
    <3>8. todo' = s
      BY <1>1
    <3> HIDE DEF s
    <3>9. \A v : Listed(aq, t, v) <=> Has(aq, v) \/ Listed(e, t, v)
      BY <1>5 DEF e
    <3>10. /\ Good(e, todo') /\ Open(todo')
           /\ \A v : Listed(aq, t, v) => Listed(e, todo', v) \/ Called(todo', v)
           /\ \A v : Called(t, v) => Called(todo', v)
           /\ Resetting(todo') <=> Resetting(t)
      BY <3>1, <3>7, <3>8, <3>9
    <3> QED BY <3>10 DEF e
  <2> QED BY <2>1, <2>2
<1>7. Good(aq, todo)' /\ aq' \in Seq(Units) /\ todo' \in Seq(Frame)
  BY <1>1, <1>6 DEF Good
<1>8. TypeOK'
  BY <1>1, <1>7 DEF IInv, TypeOK, Frame
<1>9. NotLost'
  BY <1>1, <1>2, <1>3, <1>6 DEF IInv, NotLost
<1>10. Fresh'
  BY <1>1, NothingOn DEF Fresh
<1>11. Removed'
  BY <1>1, <1>6 DEF Removed, Open
<1>12. Paced'
  <2>1. pc' = "run" /\ waited' = 0 /\ check' = check
    BY <1>1, <1>2
  <2>2. check \in -1 .. Latency /\ (~Resetting(todo') => check >= 0)
    BY <1>2, <1>6 DEF IInv, Paced
  <2> QED BY <2>1, <2>2, LatencyAssumption DEF Paced
<1> QED BY <1>7, <1>8, <1>9, <1>10, <1>11, <1>12 DEF IInv

\* AIO_CHECK_EVENT and the sleep, with nothing that remains to be done.
LEMMA CheckLoadStep == ASSUME IInv, CheckLoad PROVE IInv'
<1>1. /\ pc = "run" /\ todo = <<>> /\ pc' = "store" /\ loaded' = check
      /\ UNCHANGED <<aq, call, check, idle_wait, clock, todo, tpc, asked, waited, requests>>
  BY DEF CheckLoad, Free, shared
<1>2. Good(aq, todo)' /\ NotLost' /\ Fresh' /\ Removed'
  BY <1>1 DEF IInv, Good, NotLost, Fresh, Removed
<1>3. TypeOK'
  BY <1>1 DEF IInv, TypeOK
<1>4. Paced'
  <2>1. ~Resetting(todo) /\ ~Resetting(todo') /\ todo' = <<>>
    BY <1>1, NothingOn
  <2>2. check \in 0 .. Latency /\ waited + check <= Latency
    BY <1>1, <2>1, LatencyAssumption DEF IInv, Paced
  <2>3. check' \in -1 .. Latency /\ check' >= 0 /\ loaded' = check' /\ waited' = waited
    BY <1>1, <2>2, LatencyAssumption
  <2> QED BY <1>1, <2>1, <2>2, <2>3 DEF Paced
<1> QED BY <1>2, <1>3, <1>4 DEF IInv

LEMMA CheckStoreStep == ASSUME IInv, CheckStore PROVE IInv'
<1> DEFINE r == Op("reset", NoUnit)
           p == Pushed(r, <<>>)
<1>1. /\ pc = "store" /\ pc' = "run" /\ check' = loaded - 1 /\ loaded' = 0
      /\ todo' = IF loaded - 1 < 0 THEN UpdateQueue \o <<r>> ELSE <<>>
      /\ waited' = IF aq = <<>> THEN 0 ELSE waited + 1
      /\ UNCHANGED <<aq, call, idle_wait, clock, tpc, asked, requests>>
  BY DEF CheckStore, shared
<1>2. /\ todo = <<>> /\ loaded \in 0 .. Latency /\ waited + loaded <= Latency
      /\ waited \in Nat
  BY <1>1 DEF IInv, Paced, TypeOK
<1>3. Good(aq, <<>>)
  BY <1>2 DEF IInv
<1>4. r \in Frame /\ r.op = "reset" /\ r.rest = <<>>
  BY OpIsFrame DEF Ops
<1>5. UpdateQueue \o <<r>> = UpdateQueue \o p
  BY <1>4, NothingOn, ConcatEmptySeq DEF Pushed
<1> HIDE DEF r
<1>6. Good(aq, p) /\ p # <<>> /\ p[1] = r
  <2>1. aq \in Seq(Units) /\ StackOK(<<>>) /\ AllOnce(aq, <<>>) /\ <<>> \in Seq(Frame)
    BY <1>3 DEF Good
  <2>2. GoodOn(r, <<>>)
    BY <1>4 DEF GoodOn, AboutUnit
  <2>3. p \in Seq(Frame) /\ p # <<>> /\ p[1] = r
    <3> DEFINE e == <<>>
    <3>1. r \in Frame /\ e \in Seq(Frame)
      BY <1>4, <2>1
    <3> HIDE DEF e
    <3>2. Pushed(r, e) \in Seq(Frame) /\ Pushed(r, e) # <<>> /\ Pushed(r, e)[1] = r
      BY <3>1, PushedElements
    <3> QED BY <3>2 DEF e
  <2>4. StackOK(p) /\ AllOnce(aq, p)
    BY <1>4, <2>1, <2>2, PushedOK, PushedOnce
  <2> QED BY <2>1, <2>3, <2>4 DEF Good
<1>7. Resetting(p) /\ Open(p) /\ \A u : Listed(aq, <<>>, u) => Listed(aq, p, u)
  BY <1>4, <1>6, NothingOn, OnTop DEF Open
<1> HIDE DEF p
<1> DEFINE s == UpdateQueue \o p
<1>8. Over(aq, s, p) /\ Updating(s)
  BY <1>6, <1>7, UpdateOver
<1>9. Good(aq, s) /\ Resetting(s) /\ \A u : Listed(aq, <<>>, u) => Listed(aq, s, u)
  BY <1>7, <1>8 DEF Over
<1> HIDE DEF s
<1>10. CASE loaded = 0
  <2>1. todo' = s
    BY <1>1, <1>5, <1>10 DEF s
  <2>2. Good(aq, todo)' /\ todo' \in Seq(Frame)
    BY <1>1, <1>9, <2>1 DEF Good
  <2>3. TypeOK'
    BY <1>1, <1>2, <1>10, <2>2 DEF IInv, TypeOK, Frame
  <2>4. \A u : ~Called(<<>>, u)
    BY NothingOn
  <2>5. NotLost'
    BY <1>1, <1>2, <1>9, <2>1, <2>4 DEF IInv, NotLost
  <2>6. Fresh' /\ Removed'
    BY <1>8, <2>1 DEF Fresh, Removed, Updating
  <2>7. waited' \in Nat /\ waited' <= Latency + 1
    BY <1>1, <1>2, LatencyAssumption
  <2>8. Paced'
    <3>1. check' = -1 /\ check' \in -1 .. Latency /\ pc' = "run"
      BY <1>1, <1>10, LatencyAssumption
    <3>2. Resetting(todo') /\ todo'[1].op = "update"
      BY <1>8, <1>9, <2>1 DEF Updating
    <3> QED BY <2>7, <3>1, <3>2 DEF Paced
  <2> QED BY <2>2, <2>3, <2>5, <2>6, <2>8 DEF IInv
<1>11. CASE loaded # 0
  <2>1. todo' = <<>>
    BY <1>1, <1>2, <1>11
  <2>2. Good(aq, todo)' /\ todo' \in Seq(Frame) /\ todo' = todo
    BY <1>1, <1>2, <1>3, <2>1 DEF Good
  <2>3. waited' \in Nat /\ loaded - 1 \in 0 .. Latency /\ waited' + (loaded - 1) <= Latency
    BY <1>1, <1>2, <1>11, LatencyAssumption
  <2>4. TypeOK'
    BY <1>1, <2>2, <2>3 DEF IInv, TypeOK, Frame
  <2>5. NotLost' /\ Fresh' /\ Removed'
    BY <1>1, <2>1, <2>2, NothingOn DEF IInv, NotLost, Fresh, Removed
  <2>6. ~Resetting(todo')
    BY <2>1, NothingOn
  <2>7. Paced'
    BY <1>1, <2>1, <2>3, <2>6, LatencyAssumption DEF Paced
  <2> QED BY <2>2, <2>4, <2>5, <2>7 DEF IInv
<1> QED BY <1>10, <1>11

LEMMA WakeStep == ASSUME IInv, Wake PROVE IInv'
<1>1. /\ pc \in {"wait", "woken"} /\ pc' = "run" /\ idle_wait' = FALSE /\ check' = 0
      /\ todo' = UpdateQueue
      /\ UNCHANGED <<aq, call, loaded, clock, tpc, asked, waited, requests>>
  BY DEF Wake, shared
<1>2. todo = <<>> /\ Good(aq, <<>>)
  BY <1>1 DEF IInv, Paced
<1>3. Over(aq, todo', <<>>) /\ Updating(todo')
  <2>1. UpdateQueue \o <<>> = UpdateQueue
    BY OpIsFrame, ConcatEmptySeq DEF UpdateQueue, Ops
  <2>2. Open(<<>>)
    BY DEF Open
  <2>3. LET s == Pushed(Update1, <<>>)
        IN  Over(aq, s, <<>>) /\ Updating(s) /\ UpdateQueue \o <<>> = s
    BY <1>2, <2>2, UpdateOver
  <2> QED BY <1>1, <2>1, <2>3
<1>4. Good(aq, todo)' /\ todo' \in Seq(Frame) /\ ~Resetting(todo')
  BY <1>1, <1>3, NothingOn DEF Over, Good
<1>5. TypeOK'
  BY <1>1, <1>4 DEF IInv, TypeOK, Frame
<1>6. NotLost'
  BY <1>1, <1>2, <1>3 DEF IInv, NotLost, Over
<1>7. Fresh' /\ Removed'
  BY <1>3 DEF Fresh, Removed, Updating
<1>8. Paced'
  <2>1. check >= 0 /\ waited + check <= Latency /\ check \in -1 .. Latency
    BY <1>1, <1>2, NothingOn DEF IInv, Paced
  <2>2. waited \in Nat
    BY DEF IInv, TypeOK
  <2>3. waited' <= Latency /\ check' \in -1 .. Latency
    BY <1>1, <2>1, <2>2, LatencyAssumption
  <2> QED BY <1>1, <1>4, <2>2, <2>3 DEF Paced
<1> QED BY <1>4, <1>5, <1>6, <1>7, <1>8 DEF IInv

\* The other steps leave all of the stack and the lists alone.
LEMMA QuietSteps ==
  ASSUME IInv, UNCHANGED <<aq, call, loaded, clock, todo, asked, waited, requests>>,
         check' = check \/ check' = 0, idle_wait' \in BOOLEAN,
         tpc' \in [Threads -> {"work", "force", "look", "signal"}],
         pc' = pc \/ (todo = <<>> /\ pc # "store" /\ pc' \in {"run", "wait", "woken"})
  PROVE  IInv'
<1>1. Good(aq, todo)' /\ NotLost' /\ Fresh' /\ Removed'
  BY DEF IInv, Good, NotLost, Fresh, Removed
<1>2. TypeOK'
  BY DEF IInv, TypeOK
<1>3. check \in -1 .. Latency /\ check' \in -1 .. Latency
  BY LatencyAssumption DEF IInv, Paced
<1>4. waited \in Nat /\ loaded \in Nat \cup {-1}
  BY DEF IInv, TypeOK
<1>5. ~Resetting(todo) =>
        check' >= 0 /\ (pc # "store" => waited + check' <= Latency)
  <2> SUFFICES ASSUME ~Resetting(todo)
               PROVE  check' >= 0 /\ (pc # "store" => waited + check' <= Latency)
    OBVIOUS
  <2>1. check >= 0 /\ (pc # "store" => waited + check <= Latency)
    BY DEF IInv, Paced
  <2>2. CASE check' = check
    BY <2>1, <2>2
  <2>3. CASE check' = 0
    <3>1. pc # "store" => waited <= Latency
      BY <1>3, <1>4, <2>1, LatencyAssumption
    <3> QED BY <1>4, <2>3, <3>1
  <2> QED BY <2>2, <2>3
<1>6. Paced'
  BY <1>3, <1>5 DEF IInv, Paced
<1> QED BY <1>1, <1>2, <1>6 DEF IInv

LEMMA IdleTimeoutStep == ASSUME IInv, Idle \/ Timeout PROVE IInv'
<1>1. /\ UNCHANGED <<aq, call, loaded, clock, todo, asked, waited, requests>>
      /\ check' = check /\ idle_wait' \in BOOLEAN /\ tpc' = tpc
      /\ todo = <<>> /\ pc # "store" /\ pc' \in {"run", "wait", "woken"}
  BY DEF Idle, Timeout, Free, shared, IInv, Paced
<1>2. tpc' \in [Threads -> {"work", "force", "look", "signal"}]
  BY <1>1 DEF IInv, TypeOK
<1> QED BY <1>1, <1>2, QuietSteps

LEMMA ThreadSteps == ASSUME IInv, NEW t \in Threads, ThreadStep(t) PROVE IInv'
<1>1. /\ UNCHANGED <<aq, call, loaded, clock, todo, asked, waited, requests>>
      /\ check' = check \/ check' = 0
      /\ idle_wait' = idle_wait
      /\ pc' = pc \/ (pc = "wait" /\ pc' = "woken")
  BY DEF ThreadStep, ForceCheck, Look, Signal
<1>2. tpc' \in [Threads -> {"work", "force", "look", "signal"}]
  BY DEF ThreadStep, ForceCheck, Look, Signal, IInv, TypeOK
<1>3. idle_wait' \in BOOLEAN
  BY <1>1 DEF IInv, TypeOK
<1>4. pc' = pc \/ (todo = <<>> /\ pc # "store" /\ pc' \in {"run", "wait", "woken"})
  BY <1>1 DEF IInv, Paced
<1> QED BY <1>1, <1>2, <1>3, <1>4, QuietSteps

LEMMA RequestStep ==
  ASSUME IInv, NEW t \in Threads, NEW u \in Units,
         NEW caller \in {"sim_activate", "sim_activate_abs"}, Request(t, u, caller)
  PROVE  IInv'
<1>1. /\ requests < MaxRequests /\ requests' = requests + 1
      /\ tpc' = [tpc EXCEPT ![t] = "force"]
      /\ aq' = IF OnAsyncList(u) THEN aq ELSE <<u>> \o aq
      /\ call' = [call EXCEPT ![u] = IF OnAsyncList(u) THEN "sim_activate_abs" ELSE caller]
      /\ asked' = [asked EXCEPT ![u] = TRUE]
      /\ UNCHANGED <<check, loaded, idle_wait, clock, pc, todo, waited>>
  BY DEF Request
<1>2. OnAsyncList(u) <=> Listed(aq, todo, u)
  BY OnAsyncListIsListed DEF IInv
<1>3. aq \in Seq(Units) /\ todo \in Seq(Frame) /\ StackOK(todo) /\ AllOnce(aq, todo)
  BY DEF IInv, Good
<1>4. /\ aq' \in Seq(Units) /\ AllOnce(aq', todo) /\ Listed(aq', todo, u)
      /\ \A v : Has(aq', v) => v = u \/ Has(aq, v)
      /\ \A v : Listed(aq, todo, v) => Listed(aq', todo, v)
  <2>1. CASE OnAsyncList(u)
    BY <1>1, <1>2, <1>3, <2>1
  <2>2. CASE ~OnAsyncList(u)
    <3> DEFINE r == Pushed(u, aq)
    <3>1. aq' = r
      BY <1>1, <2>2 DEF Pushed
    <3>2. AllOnce(r, todo)
      BY <1>2, <1>3, <2>2, RequestedOnce
    <3>3. /\ r \in Seq(Units) /\ Len(r) = Len(aq) + 1 /\ Len(aq) \in Nat /\ r[1] = u
          /\ \A k \in 1 .. Len(aq) : r[k + 1] = aq[k]
      BY <1>3, PushedElements
    <3> HIDE DEF r
    <3>4. DOMAIN r = 1 .. Len(aq) + 1 /\ DOMAIN aq = 1 .. Len(aq)
      BY <1>3, <3>3, LenProperties
    <3>5. \A v : Has(r, v) => v = u \/ Has(aq, v)
      <4> SUFFICES ASSUME NEW v, Has(r, v), v # u PROVE Has(aq, v)
        OBVIOUS
      <4>1. PICK i \in 1 .. Len(aq) + 1 : r[i] = v
        BY <3>4 DEF Has
      <4>2. i - 1 \in 1 .. Len(aq) /\ (i - 1) + 1 = i
        BY <3>3, <4>1
      <4>3. aq[i - 1] = v
        BY <3>3, <4>1, <4>2
      <4> QED BY <3>4, <4>2, <4>3 DEF Has
    <3>6. \A v : Has(aq, v) => Has(r, v)
      <4> SUFFICES ASSUME NEW v, Has(aq, v) PROVE Has(r, v)
        OBVIOUS
      <4>1. PICK i \in 1 .. Len(aq) : aq[i] = v
        BY <3>4 DEF Has
      <4>2. i + 1 \in 1 .. Len(aq) + 1 /\ r[i + 1] = v
        BY <3>3, <4>1
      <4> QED BY <3>4, <4>2 DEF Has
    <3>7. Has(r, u)
      <4>1. 1 \in 1 .. Len(aq) + 1
        BY <3>3
      <4> QED BY <3>3, <3>4, <4>1 DEF Has
    <3>8. Listed(r, todo, u) /\ \A v : Listed(aq, todo, v) => Listed(r, todo, v)
      BY <3>6, <3>7 DEF Listed
    <3> QED BY <3>1, <3>2, <3>3, <3>5, <3>8
  <2> QED BY <2>1, <2>2
<1>5. asked \in [Units -> BOOLEAN]
  BY DEF IInv, TypeOK
<1>6. asked'[u] /\ \A v \in Units : v # u => asked'[v] = asked[v]
  BY <1>1, <1>5
<1>7. Good(aq, todo)'
  BY <1>1, <1>3, <1>4 DEF Good
<1>8. TypeOK'
  <2>1. requests' \in 0 .. MaxRequests
    BY <1>1, LatencyAssumption DEF IInv, TypeOK
  <2> QED BY <1>1, <1>4, <2>1 DEF IInv, TypeOK
<1>9. NotLost'
  <2> SUFFICES ASSUME NEW v \in Units, asked'[v]
               PROVE  v \in clock \/ Listed(aq', todo, v) \/ Called(todo, v)
    BY <1>1 DEF NotLost
  <2>1. CASE v = u
    BY <1>4, <2>1
  <2>2. CASE v # u
    BY <1>4, <1>6, <2>2 DEF IInv, NotLost
  <2> QED BY <2>1, <2>2
<1>10. Fresh'
  <2>1. CASE todo # <<>> /\ todo[1].op = "update"
    BY <1>1, <2>1 DEF Fresh
  <2>2. CASE \A v \in Units : Cancels(todo, v) /\ Has(aq, v) => asked[v]
    BY <1>1, <1>4, <1>6, <2>2 DEF Fresh
  <2> QED BY <2>1, <2>2 DEF IInv, Fresh
<1>11. Removed'
  <2> SUFFICES ASSUME todo # <<>>, todo[1].op = "cancelled", todo[1].unit \in clock
               PROVE  asked'[todo[1].unit]
    BY <1>1 DEF Removed
  <2>1. asked[todo[1].unit]
    BY DEF IInv, Removed
  <2>2. todo[1].unit \in Units
    BY DEF IInv, TypeOK
  <2> QED BY <1>6, <2>1, <2>2
<1>12. Paced'
  BY <1>1 DEF IInv, Paced
<1> QED BY <1>7, <1>8, <1>9, <1>10, <1>11, <1>12 DEF IInv

\* It is inductive.
LEMMA InitIInv == Init => IInv
<1> SUFFICES ASSUME Init PROVE IInv
  OBVIOUS
<1>1. TypeOK
  <2>1. aq \in Seq(Units) /\ todo \in Seq(Frame)
    BY NothingOn DEF Init
  <2>2. /\ check = 0 /\ loaded = 0 /\ waited = 0 /\ requests \in 0 .. MaxRequests
        /\ idle_wait = FALSE /\ clock = {} /\ pc = "run"
    BY LatencyAssumption DEF Init
  <2>3. /\ call \in [Units -> {"sim_activate", "sim_activate_abs"}]
        /\ tpc \in [Threads -> {"work", "force", "look", "signal"}]
        /\ asked \in [Units -> BOOLEAN]
    BY DEF Init
  <2> QED BY <2>1, <2>2, <2>3 DEF TypeOK, Frame
<1>2. Good(aq, todo)
  <2>1. ListAt(<<>>, <<>>, 0) = <<>> /\ Len(<<>>) = 0
    BY DEF ListAt
  <2>2. AllOnce(<<>>, <<>>)
    BY <2>1 DEF AllOnce
  <2> QED BY <2>2, NothingOn DEF Init, Good
<1>3. NotLost /\ Fresh /\ Removed
  BY NothingOn DEF Init, NotLost, Fresh, Removed
<1>4. Paced
  BY NothingOn, LatencyAssumption DEF Init, Paced
<1> QED BY <1>1, <1>2, <1>3, <1>4 DEF IInv

LEMMA NextIInv == IInv /\ [Next]_vars => IInv'
<1> SUFFICES ASSUME IInv, [Next]_vars PROVE IInv'
  OBVIOUS
<1>1. ASSUME NEW t \in Threads, NEW u \in Units,
             NEW caller \in {"sim_activate", "sim_activate_abs"}, Request(t, u, caller)
      PROVE  IInv'
  BY <1>1, RequestStep
<1>2. ASSUME NEW t \in Threads, ThreadStep(t) PROVE IInv'
  BY <1>2, ThreadSteps
<1>3. CASE RoutineStep
  BY <1>3, UpdateStep, MigrateNextStep, CallStep, InsertStep, IfAnyStep, RemoveStep,
     CancelledStep, FireNothingStep, CheckStoreStep, ResetStep DEF RoutineStep
<1>4. ASSUME NEW u \in Units, Fire(u) PROVE IInv'
  BY <1>4, FireStep
<1>5. CASE ActionReturns
  BY <1>5, ActionReturnsStep
<1>6. CASE CheckLoad
  BY <1>6, CheckLoadStep
<1>7. CASE EventDue
  BY <1>7, EventDueStep
<1>8. ASSUME NEW u \in Rescheduled,
             DeviceActivates(u) \/ DeviceActivatesAbs(u) \/ DeviceCancels(u)
      PROVE  IInv'
  <2>1. u \in Units
    BY UnitsAssumption
  <2> QED BY <1>8, <2>1, DeviceActivatesStep, DeviceActivatesAbsStep, DeviceCancelsStep
<1>9. CASE Idle \/ Timeout
  BY <1>9, IdleTimeoutStep
<1>10. CASE Wake
  BY <1>10, WakeStep
<1>11. CASE UNCHANGED vars
  <2>1. UNCHANGED <<aq, call, check, loaded, idle_wait, clock, pc, todo, tpc, asked, waited,
                    requests>>
    BY <1>11 DEF vars
  <2>2. idle_wait' \in BOOLEAN /\ tpc' \in [Threads -> {"work", "force", "look", "signal"}]
    BY <2>1 DEF IInv, TypeOK
  <2> QED BY <2>1, <2>2, QuietSteps
<1> QED BY <1>1, <1>2, <1>3, <1>4, <1>5, <1>6, <1>7, <1>8, <1>9, <1>10, <1>11 DEF Next

LEMMA Invariance == Spec => []IInv
BY InitIInv, NextIInv, PTL DEF Spec

-----------------------------------------------------------------------------
(***************************************************************************)
(* The theorems.                                                           *)
(***************************************************************************)
LEMMA PendingIsOnItsWay ==
  ASSUME TypeOK
  PROVE  \A u : Pending(u) <=> u \in clock \/ Listed(aq, todo, u) \/ Called(todo, u)
<1>1. DOMAIN todo = 1 .. Len(todo)
  BY LenProperties DEF TypeOK
<1>2. \A u : OnAsyncList(u) <=> Listed(aq, todo, u)
  BY OnAsyncListIsListed
<1>3. \A u : Called(todo, u) <=>
               \E k \in DOMAIN todo : todo[k].unit = u /\ todo[k].op \in {"call", "insert"}
  BY <1>1 DEF Called, Calls
<1> QED BY <1>2, <1>3 DEF Pending

\* However many threads request whatever while sim_aio_update_queue recurs: the
\* lists linked by a_next never share a unit, nor does one hold a unit twice.
THEOREM ListsShareNoUnit == Spec => []OnOneAsyncList
<1>1. IInv => OnOneAsyncList
  <2> SUFFICES ASSUME IInv PROVE OnOneAsyncList
    OBVIOUS
  <2>1. \A k : List(k) = ListAt(aq, todo, k)
    BY DEF List, ListAt
  <2> QED BY <2>1 DEF IInv, Good, AllOnce, OnOneAsyncList
<1> QED BY <1>1, Invariance, PTL

\* What a thread has asked for with sim_activate is at every moment on a list, about
\* to be activated or on the event queue.
THEOREM RequestsAreKept == Spec => []NoRequestIsLost
<1>1. IInv => NoRequestIsLost
  BY PendingIsOnItsWay DEF IInv, NotLost, NoRequestIsLost
<1> QED BY <1>1, Invariance, PTL

\* After a device's sim_cancel only a new request can have the unit pending.
THEOREM CancelsHold == Spec => []CancelIsFinal
<1>1. IInv => CancelIsFinal
  <2> SUFFICES ASSUME IInv, Doing("cancelled"), Pending(todo[1].unit)
               PROVE  asked[todo[1].unit]
    BY DEF CancelIsFinal
  <2> DEFINE g == todo[1]
             t == Tail(todo)
             u == g.unit
  <2>1. /\ g.op = "cancelled" /\ todo # <<>> /\ u \in Units /\ ~Updating(todo)
        /\ t \in Seq(Frame) /\ GoodOn(g, t)
        /\ \A v : Called(todo, v) <=> Calls(g, v) \/ Called(t, v)
        /\ \A v : Cancels(todo, v) <=> Ends(g, v) \/ Cancels(t, v)
        /\ \A v : Listed(aq, todo, v) <=> Listed(aq, t, v)
    BY Top DEF AboutUnit
  <2>2. Cancels(todo, u) /\ ~Calls(g, u)
    BY <2>1 DEF Ends, Calls
  <2>3. u \in clock \/ Listed(aq, todo, u) \/ Called(todo, u)
    BY PendingIsOnItsWay DEF IInv
  <2>4. CASE u \in clock
    BY <2>1, <2>4 DEF IInv, Removed
  <2>5. CASE Has(aq, u)
    BY <2>1, <2>2, <2>5 DEF IInv, Fresh, Updating
  <2>6. (Listed(aq, t, u) => Has(aq, u)) /\ ~Called(t, u)
    <3>1. StackOK(t)
      BY Top DEF Good
    <3>2. \A k \in 1 .. Len(t) : t[k].op = "action" /\ t[k].rest = <<>>
      <4> HIDE DEF g, t, u
      <4>1. t = <<>> \/ (Len(t) = 1 /\ t[1].op = "action")
        BY <2>1 DEF GoodOn
      <4>2. CASE t = <<>>
        BY <4>2
      <4>3. CASE Len(t) = 1 /\ t[1].op = "action"
        BY <3>1, <4>3 DEF StackOK, FrameOK
      <4> QED BY <4>1, <4>2, <4>3
    <3> HIDE DEF g, t, u
    <3> QED BY <3>2, NothingOn DEF Listed, Called, Calls
  <2> QED BY <2>1, <2>2, <2>3, <2>4, <2>5, <2>6
<1> QED BY <1>1, Invariance, PTL

\* Whatever stores of the threads the main thread's decrement overwrites: it looks at
\* the queue within sim_asynch_inst_latency instructions and one more.
THEOREM QueueIsLookedAt == Spec => []PickedUpInTime
<1>1. IInv => PickedUpInTime
  <2> SUFFICES ASSUME IInv PROVE PickedUpInTime
    OBVIOUS
  <2>1. waited \in Nat /\ loaded \in Nat \cup {-1}
    BY DEF IInv, TypeOK
  <2>2. CASE Resetting(todo)
    BY <2>1, <2>2, LatencyAssumption DEF IInv, Paced, PickedUpInTime
  <2>3. CASE ~Resetting(todo) /\ pc = "store"
    <3>1. loaded \in 0 .. Latency /\ waited + loaded <= Latency
      BY <2>3 DEF IInv, Paced
    <3> QED BY <2>1, <3>1, LatencyAssumption DEF PickedUpInTime
  <2>4. CASE ~Resetting(todo) /\ pc # "store"
    <3>1. check \in -1 .. Latency /\ check >= 0 /\ waited + check <= Latency
      BY <2>4 DEF IInv, Paced
    <3> QED BY <2>1, <3>1, LatencyAssumption DEF PickedUpInTime
  <2> QED BY <2>2, <2>3, <2>4
<1> QED BY <1>1, Invariance, PTL
=============================================================================

------------------------- MODULE CoschedQueueProofs -------------------------
(***************************************************************************)
(* Proofs about CoschedQueue: through every division of a delay, cancelled *)
(* unit and stop, a unit is on one queue and no delay is left over;        *)
(* without stops no unit fires late; and without cancellations either,     *)
(* none fires earlier than a tick and one for every calibration.           *)
(***************************************************************************)
EXTENDS CoschedQueue, DelayListProofs

-----------------------------------------------------------------------------
(***************************************************************************)
(* What the routines preserve.                                             *)
(***************************************************************************)

\* What holds of the queues between any two statements of their callers.
Sound(S) ==
  /\ IsTimer(S)
  /\ InOrder(S.queue)
  /\ Coscheduled(S) \cap DOMAIN S.event = {}
  /\ TimerUnit \in DOMAIN S.event => S.event[TimerUnit] <= TickSize

\* The head of the coschedule queue waits for cosched_interval ticks.
IntervalOfHead(S) == S.queue # <<>> => S.cosched_interval = S.queue[1].time

\* The list q with d as the time of its head, as every routine sets it first.
WithHead(q, d) == IF q = <<>> THEN <<>> ELSE [q EXCEPT ![1].time = d]

Ahead(S) == WithHead(S.queue, S.cosched_interval)

\* The place of u on the list q, and the ticks until it fires.
PlaceOn(q, u) == CHOOSE i \in DOMAIN q : q[i].unit = u

TicksTo(S, u) == Accum(Ahead(S))[PlaceOn(Ahead(S), u)]

\* What every routine that adds the units U to the queues does.
Adds(S, R, U) ==
  /\ Sound(R)
  /\ \A u \in U : IsActive(R, u)
  /\ \A v \in DOMAIN S.event : v \in DOMAIN R.event /\ R.event[v] = S.event[v]
  /\ DOMAIN R.event \subseteq DOMAIN S.event \cup U
  /\ Coscheduled(S) \subseteq Coscheduled(R) /\ Coscheduled(R) \subseteq Coscheduled(S) \cup U
  /\ \A v \in Coscheduled(S) : TicksTo(R, v) = TicksTo(S, v)
  /\ \A v \in Units \ U : R.usecs_remaining[v] = S.usecs_remaining[v]
  /\ R.ticks = S.ticks
  /\ IntervalOfHead(S) => IntervalOfHead(R)

\* The fields have their types.
LEMMA TimerTypes ==
  ASSUME NEW S, IsTimer(S)
  PROVE  /\ S.queue \in Seq(Entries) /\ S.cosched_interval \in Int
         /\ S.ticks \in 0..(Hz - 1) /\ S.usecs_remaining \in [Units -> Nat]
         /\ DOMAIN S.event \subseteq Units \cup {TimerUnit, ClockUnit}
         /\ S.event \in [DOMAIN S.event -> Nat]
         /\ \A u \in DOMAIN S.event : S.event[u] \in Nat
         /\ Coscheduled(S) \subseteq Units
<1>1. /\ S.queue \in Seq(Entries) /\ S.cosched_interval \in Int
      /\ S.ticks \in 0..(Hz - 1) /\ S.usecs_remaining \in [Units -> Nat]
      /\ DOMAIN S.event \subseteq Units \cup {TimerUnit, ClockUnit}
      /\ S.event \in [DOMAIN S.event -> Nat]
  BY DEF IsTimer
<1>2. Coscheduled(S) \subseteq Units
  BY <1>1, EntryTypes DEF Coscheduled
<1> QED BY <1>1, <1>2

\* The numbers of the timer.
LEMMA TimerNumbers ==
  /\ Hz \in Nat /\ Hz >= 1 /\ TickSize \in Nat /\ TickSize >= 1
  /\ TimerUnit \notin Units /\ ClockUnit \notin Units /\ TimerUnit # ClockUnit
  /\ NoUnit \notin Units /\ Cancellable \subseteq Units
BY TimerAssumption, UnitsAssumption

\* A unit is on a list once.
LEMMA PlaceIsUnique ==
  ASSUME NEW q \in Seq(Entries), InOrder(q), NEW i \in DOMAIN q, NEW u, q[i].unit = u
  PROVE  PlaceOn(q, u) = i
BY DEF InOrder, PlaceOn

\* A unit that is on the list has a place.
LEMMA PlaceExists ==
  ASSUME NEW q \in Seq(Entries), NEW u, u \in {q[i].unit : i \in DOMAIN q}
  PROVE  /\ PlaceOn(q, u) \in 1..Len(q) /\ q[PlaceOn(q, u)].unit = u
         /\ Accum(q)[PlaceOn(q, u)] \in Int
<1>1. PlaceOn(q, u) \in DOMAIN q /\ q[PlaceOn(q, u)].unit = u
  BY DEF PlaceOn
<1>2. DOMAIN q = 1..Len(q) /\ Len(q) \in Nat
  BY EntryTypes
<1>3. PlaceOn(q, u) \in 0..Len(q)
  BY <1>1, <1>2
<1> QED BY <1>1, <1>2, <1>3, AccumProperties

\* Setting the time of the head moves every unit by as much.
LEMMA WithHeadKeeps ==
  ASSUME NEW q \in Seq(Entries), InOrder(q), NEW d \in Int
  PROVE  LET p == WithHead(q, d)
         IN  /\ p \in Seq(Entries) /\ Len(p) = Len(q) /\ InOrder(p)
             /\ \A i \in 1..Len(q) : p[i].unit = q[i].unit /\ (i > 1 => p[i] = q[i])
             /\ Len(q) > 0 => p[1].time = d
             /\ {p[i].unit : i \in DOMAIN p} = {q[i].unit : i \in DOMAIN q}
             /\ (q # <<>> => d = q[1].time) => p = q
             /\ \A i \in 1..Len(q) : Accum(p)[i] = Accum(q)[i] + (d - q[1].time)
<1> DEFINE p == WithHead(q, d)
           n == Len(q)
<1>1. n \in Nat /\ DOMAIN q = 1..n /\ \A i \in 1..n : q[i] \in Entries /\ q[i].time \in Int
  BY EntryTypes
<1>2. /\ p \in Seq(Entries) /\ Len(p) = n /\ DOMAIN p = 1..n
      /\ \A i \in 1..n : p[i].unit = q[i].unit /\ (i > 1 => p[i] = q[i])
      /\ n > 0 => p[1].time = d
      /\ (q # <<>> => d = q[1].time) => p = q
  <2>1. CASE q = <<>>
    BY <2>1 DEF WithHead
  <2>2. CASE q # <<>>
    <3> DEFINE e == q[1]
               f == [e EXCEPT !.time = d]
    <3>1. n > 0 /\ 1 \in 1..n /\ p = [q EXCEPT ![1] = f]
      BY <2>2, <1>1 DEF WithHead
    <3>2. e \in Entries
      BY <3>1, <1>1
    <3> HIDE DEF e
    <3>3. f \in Entries /\ f.unit = e.unit /\ f.time = d /\ (d = e.time => f = e)
      BY <3>2 DEF Entries
    <3> HIDE DEF f, p, n
    <3>4. p \in [1..n -> Entries] /\ p[1] = f /\ \A i \in 1..n : i > 1 => p[i] = q[i]
      <4>1. q \in [1..n -> Entries]
        BY <1>1
      <4>2. p = [i \in 1..n |-> IF i = 1 THEN f ELSE q[i]]
        BY <3>1, <4>1
      <4>3. p \in [1..n -> Entries]
        BY <3>3, <4>1, <4>2
      <4>4. p[1] = f
        BY <3>1, <4>2
      <4>5. ASSUME NEW i \in 1..n, i > 1 PROVE p[i] = q[i]
        BY <4>2, <4>5, <1>1
      <4> QED BY <4>3, <4>4, <4>5
    <3>5. p \in Seq(Entries) /\ Len(p) = n /\ DOMAIN p = 1..n
      BY <3>4, <1>1
    <3>6. \A i \in 1..n : p[i].unit = q[i].unit
      BY <3>3, <3>4, <1>1 DEF e
    <3>7. (q # <<>> => d = q[1].time) => p = q
      <4>1. (q # <<>> => d = q[1].time) => f = q[1]
        BY <2>2, <3>3 DEF e
      <4> QED BY <4>1, <3>1, <3>4, <1>1
    <3> QED BY <3>3, <3>4, <3>5, <3>6, <3>7
  <2> QED BY <2>1, <2>2
<1> HIDE DEF p
<1>3. InOrder(p)
  BY <1>1, <1>2 DEF InOrder
<1>4. {p[i].unit : i \in DOMAIN p} = {q[i].unit : i \in DOMAIN q}
  <2>1. \A i \in 1..n : p[i].unit = q[i].unit
    BY <1>2
  <2>2. DOMAIN p = 1..n /\ DOMAIN q = 1..n
    BY <1>1, <1>2
  <2> HIDE DEF n
  <2>3. {p[i].unit : i \in 1..n} = {q[i].unit : i \in 1..n}
    BY <2>1
  <2> QED BY <2>2, <2>3
<1>5. \A i \in 1..n : Accum(p)[i] = Accum(q)[i] + (d - q[1].time)
  <2>1. CASE n = 0
    BY <2>1
  <2>2. CASE n > 0
    <3> DEFINE c == d - q[1].time
    <3>1. 1 \in 1..n /\ q[1].time \in Int
      BY <1>1, <2>2
    <3>2. c \in Int /\ p[1].time = q[1].time + c
      BY <3>1, <1>2, <2>2
    <3>3. \A i \in 1..n : i > 1 => p[i].time = q[i].time
      BY <1>2
    <3> HIDE DEF c
    <3>4. \A i \in 1..n : Accum(p)[i] = Accum(q)[i] + c
      BY <1>2, <3>2, <3>3, AccumOfShifted
    <3> QED BY <3>4 DEF c
  <2> QED BY <1>1, <2>1, <2>2
<1> QED BY <1>2, <1>3, <1>4, <1>5 DEF p

\* The same for the list with the time of its head up to date.
LEMMA AheadKeeps ==
  ASSUME NEW S, IsTimer(S), InOrder(S.queue)
  PROVE  /\ Ahead(S) \in Seq(Entries) /\ Len(Ahead(S)) = Len(S.queue) /\ InOrder(Ahead(S))
         /\ \A i \in 1..Len(S.queue) : /\ Ahead(S)[i].unit = S.queue[i].unit
                                       /\ i > 1 => Ahead(S)[i] = S.queue[i]
         /\ Len(S.queue) > 0 => Ahead(S)[1].time = S.cosched_interval
         /\ {Ahead(S)[i].unit : i \in DOMAIN Ahead(S)} = Coscheduled(S)
         /\ IntervalOfHead(S) => Ahead(S) = S.queue
         /\ \A i \in 1..Len(S.queue) :
              Accum(Ahead(S))[i] = Accum(S.queue)[i] + (S.cosched_interval - S.queue[1].time)
         /\ \A u \in Coscheduled(S) : TicksTo(S, u) \in Int
<1>1. S.queue \in Seq(Entries) /\ S.cosched_interval \in Int
  BY TimerTypes
<1>2. \A u \in Coscheduled(S) : TicksTo(S, u) \in Int
  <2>1. {Ahead(S)[i].unit : i \in DOMAIN Ahead(S)} = Coscheduled(S) /\ Ahead(S) \in Seq(Entries)
    BY <1>1, WithHeadKeeps DEF Ahead, Coscheduled
  <2> QED BY <2>1, PlaceExists DEF TicksTo
<1> QED BY <1>1, <1>2, WithHeadKeeps DEF Ahead, Coscheduled, IntervalOfHead

\* An event is added for a unit that has none.
LEMMA ActivateKeeps ==
  ASSUME NEW S, Sound(S), NEW u \in Units \cup {TimerUnit, ClockUnit}, ~IsActive(S, u),
         NEW t \in Nat, u = TimerUnit => t <= TickSize
  PROVE  LET R == _sim_activate(S, u, t)
         IN  /\ Sound(R) /\ DOMAIN R.event = DOMAIN S.event \cup {u}
             /\ R.event[u] = t /\ \A v \in DOMAIN S.event : R.event[v] = S.event[v]
             /\ R.queue = S.queue /\ R.cosched_interval = S.cosched_interval
             /\ R.ticks = S.ticks /\ R.usecs_remaining = S.usecs_remaining
<1> DEFINE e == [v \in DOMAIN S.event \cup {u} |-> IF v = u THEN t ELSE S.event[v]]
           R == _sim_activate(S, u, t)
<1>1. IsTimer(S) /\ u \notin DOMAIN S.event /\ u \notin Coscheduled(S)
  BY DEF Sound, IsActive
<1>2. /\ DOMAIN e = DOMAIN S.event \cup {u} /\ e[u] = t
      /\ \A v \in DOMAIN S.event : e[v] = S.event[v]
      /\ e \in [DOMAIN e -> Nat]
  BY <1>1, TimerTypes
<1> HIDE DEF e
<1>3. R = [S EXCEPT !.event = e]
  BY DEF _sim_activate, e
<1>4. /\ R.event = e /\ R.queue = S.queue /\ R.cosched_interval = S.cosched_interval
      /\ R.ticks = S.ticks /\ R.usecs_remaining = S.usecs_remaining
      /\ IsTimer(R)
  <2>1. DOMAIN e \subseteq Units \cup {TimerUnit, ClockUnit}
    BY <1>1, <1>2, TimerTypes
  <2> QED BY <1>1, <1>2, <1>3, <2>1 DEF IsTimer
<1> HIDE DEF R
<1>5. Coscheduled(R) \cap DOMAIN R.event = {}
  BY <1>1, <1>2, <1>4 DEF Sound, Coscheduled
<1>6. TimerUnit \in DOMAIN R.event => R.event[TimerUnit] <= TickSize
  BY <1>2, <1>4 DEF Sound
<1>7. Sound(R)
  BY <1>4, <1>5, <1>6 DEF Sound
<1> QED BY <1>2, <1>4, <1>7 DEF R

\* A unit is linked in behind those that fire no later.
LEMMA CoscheduleKeeps ==
  ASSUME NEW S, Sound(S), NEW u \in Units, ~IsActive(S, u), NEW t \in Nat
  PROVE  LET R == sim_clock_coschedule_tmr(S, u, t)
         IN  /\ Sound(R) /\ IntervalOfHead(R)
             /\ R.event = S.event /\ R.ticks = S.ticks
             /\ R.usecs_remaining = S.usecs_remaining
             /\ Coscheduled(R) = Coscheduled(S) \cup {u}
             /\ TicksTo(R, u) = t
             /\ \A v \in Coscheduled(S) : TicksTo(R, v) = TicksTo(S, v)
<1> DEFINE p == IF S.queue = <<>> THEN <<>>
                ELSE [S.queue EXCEPT ![1].time = S.cosched_interval]
           k == InsertionPoint(p, t)
           q == Insert(p, k, u, t)
           c == IF q[1].unit = u THEN q[1].time ELSE S.cosched_interval
           n == Len(S.queue)
           R == sim_clock_coschedule_tmr(S, u, t)
<1>1. /\ IsTimer(S) /\ u \notin DOMAIN S.event /\ u \notin Coscheduled(S) /\ InOrder(S.queue)
      /\ S.queue \in Seq(Entries) /\ S.cosched_interval \in Int
  BY TimerTypes DEF Sound, IsActive
<1>2. n \in Nat /\ DOMAIN S.queue = 1..n /\ \A i \in 1..n : S.queue[i] \in Entries
  BY <1>1, EntryTypes
<1>3. /\ p \in Seq(Entries) /\ Len(p) = n /\ DOMAIN p = 1..n /\ p = Ahead(S)
      /\ \A i \in 1..n : p[i].unit = S.queue[i].unit
      /\ n > 0 => p[1].time = S.cosched_interval
      /\ InOrder(p)
  <2>1. p = Ahead(S)
    BY DEF Ahead, WithHead
  <2> HIDE DEF p
  <2> QED BY <2>1, <1>1, <1>2, AheadKeeps, EntryTypes
<1> HIDE DEF p
<1>4. InOrder(p) /\ \A i \in DOMAIN p : p[i].unit # u
  <2>1. \A i \in 1..n : S.queue[i].unit # u
    BY <1>1, <1>2 DEF Coscheduled
  <2> QED BY <2>1, <1>3
<1>5. /\ k \in 0..n /\ q \in Seq(Entries) /\ Len(q) = n + 1 /\ InOrder(q)
      /\ {q[i].unit : i \in DOMAIN q} = {p[i].unit : i \in DOMAIN p} \cup {u}
  <2>1. t \in Int /\ p \in Seq(Entries)
    BY <1>3
  <2>2. k \in 0..Len(p)
    BY <2>1, InsertionPointExists
  <2>3. /\ q \in Seq(Entries) /\ Len(q) = Len(p) + 1 /\ InOrder(q)
        /\ {q[i].unit : i \in DOMAIN q} = {p[i].unit : i \in DOMAIN p} \cup {u}
    BY <2>1, <1>4, InsertKeepsOrder
  <2> QED BY <2>2, <2>3, <1>3
<1>6. {p[i].unit : i \in DOMAIN p} = Coscheduled(S)
  <2>1. \A i \in 1..n : p[i].unit = S.queue[i].unit
    BY <1>3
  <2>2. DOMAIN p = 1..n /\ DOMAIN S.queue = 1..n
    BY <1>2, <1>3
  <2> HIDE DEF n
  <2>3. {p[i].unit : i \in 1..n} = {S.queue[i].unit : i \in 1..n}
    BY <2>1
  <2> QED BY <2>2, <2>3 DEF Coscheduled
<1> HIDE DEF k
<1>7. /\ \A i \in 1..(n + 1) :
           /\ q[i].unit = IF i <= k THEN p[i].unit ELSE IF i = k + 1 THEN u ELSE p[i - 1].unit
           /\ Accum(q)[i] = IF i <= k THEN Accum(p)[i] ELSE IF i = k + 1 THEN t
                            ELSE Accum(p)[i - 1]
      /\ k > 0 => q[1] = p[1]
  <2>1. \A i \in 1..(n + 1) :
           /\ q[i].unit = IF i <= k THEN p[i].unit ELSE IF i = k + 1 THEN u ELSE p[i - 1].unit
           /\ Accum(q)[i] = IF i <= k THEN Accum(p)[i] ELSE IF i = k + 1 THEN t
                            ELSE Accum(p)[i - 1]
    <3>1. Len(p) = n /\ k \in 0..Len(p) /\ Insert(p, k, u, t) \in Seq(Entries)
      BY <1>3, <1>5
    <3> HIDE DEF n, q
    <3>2. q = Insert(p, k, u, t) /\ t \in Int
      BY DEF q
    <3>3. p \in Seq(Entries)
      BY <1>3
    <3>4. \A i \in 1..(Len(p) + 1) :
             /\ Insert(p, k, u, t)[i].unit =
                  IF i <= k THEN p[i].unit ELSE IF i = k + 1 THEN u ELSE p[i - 1].unit
             /\ Accum(Insert(p, k, u, t))[i] =
                  IF i <= k THEN Accum(p)[i] ELSE IF i = k + 1 THEN t ELSE Accum(p)[i - 1]
      BY <3>1, <3>2, <3>3, AccumOfInsert, SMTT(60)
    <3> QED BY <3>1, <3>2, <3>4
  <2>2. k > 0 => q[1] = p[1]
    <3>1. 1 \in 1..(Len(p) + 1)
      BY <1>2, <1>3
    <3>2. k \in Int /\ (k > 0 => 1 <= k)
      BY <1>5
    <3> QED BY <3>1, <3>2 DEF Insert
  <2> QED BY <2>1, <2>2
<1> HIDE DEF q
<1>8. 1 \in 1..(n + 1) /\ q[1].time \in Int /\ q # <<>> /\ c = q[1].time
  <2>1. 1 \in 1..(n + 1) /\ q[1].time \in Int /\ q # <<>>
    BY <1>2, <1>5, EntryTypes
  <2>2. CASE k = 0
    <3>1. q[1].unit = u
      BY <2>1, <2>2, <1>7
    <3> QED BY <2>1, <3>1
  <2>3. CASE k # 0
    <3>1. k > 0 /\ n > 0
      BY <1>2, <1>5, <2>3
    <3> QED BY <3>1, <2>1, <1>3, <1>7
  <2> QED BY <2>2, <2>3
<1> HIDE DEF c
<1>9. R = [S EXCEPT !.queue = q, !.cosched_interval = c]
  BY DEF sim_clock_coschedule_tmr, c, q, k, p
<1>10. /\ R.queue = q /\ R.cosched_interval = c /\ R.event = S.event
       /\ R.ticks = S.ticks /\ R.usecs_remaining = S.usecs_remaining /\ IsTimer(R)
  <2>1. c \in Int
    BY <1>8
  <2> QED BY <1>1, <1>5, <1>9, <2>1 DEF IsTimer
<1> HIDE DEF R
<1>11. Coscheduled(R) = Coscheduled(S) \cup {u}
  BY <1>5, <1>6, <1>10 DEF Coscheduled
<1>12. Sound(R)
  BY <1>1, <1>5, <1>10, <1>11 DEF Sound
<1>13. IntervalOfHead(R)
  BY <1>8, <1>10 DEF IntervalOfHead
<1>14. Ahead(R) = q
  BY <1>10, <1>12, <1>13, AheadKeeps DEF Sound
<1>15. DOMAIN q = 1..(n + 1)
  BY <1>5, EntryTypes
<1>16. TicksTo(R, u) = t
  <2>1. k + 1 \in 1..(n + 1) /\ q[k + 1].unit = u /\ Accum(q)[k + 1] = t
    BY <1>2, <1>5, <1>7
  <2>2. PlaceOn(q, u) = k + 1
    BY <2>1, <1>5, <1>15, PlaceIsUnique
  <2> QED BY <2>1, <2>2, <1>14 DEF TicksTo
<1>17. ASSUME NEW v \in Coscheduled(S) PROVE TicksTo(R, v) = TicksTo(S, v)
  <2> DEFINE i == PlaceOn(p, v)
             j == IF i <= k THEN i ELSE i + 1
  <2>1. i \in 1..n /\ p[i].unit = v
    BY <1>3, <1>6, PlaceExists
  <2> HIDE DEF i
  <2>2. j \in 1..(n + 1) /\ q[j].unit = v /\ Accum(q)[j] = Accum(p)[i]
    <3>1. j \in 1..(n + 1) /\ (i <= k => j = i) /\ (i > k => j = i + 1 /\ j > k + 1 /\ j - 1 = i)
      BY <1>2, <1>5, <2>1
    <3> HIDE DEF j
    <3>2. /\ q[j].unit = IF j <= k THEN p[j].unit ELSE IF j = k + 1 THEN u ELSE p[j - 1].unit
          /\ Accum(q)[j] = IF j <= k THEN Accum(p)[j] ELSE IF j = k + 1 THEN t
                           ELSE Accum(p)[j - 1]
      BY <1>7, <3>1
    <3>3. k \in Int /\ i \in Int /\ n \in Nat
      BY <1>2, <1>5, <2>1
    <3>4. CASE i <= k
      BY <2>1, <3>1, <3>2, <3>4
    <3>5. CASE i > k
      <4>1. ~(j <= k) /\ j # k + 1 /\ j - 1 = i
        BY <3>1, <3>3, <3>5
      <4> QED BY <2>1, <3>1, <3>2, <4>1
    <3> QED BY <3>3, <3>4, <3>5
  <2> HIDE DEF j
  <2>3. PlaceOn(q, v) = j
    BY <2>2, <1>15, <1>5, PlaceIsUnique
  <2> QED BY <2>2, <2>3, <1>3, <1>14 DEF TicksTo, i
<1> QED BY <1>10, <1>11, <1>12, <1>13, <1>16, <1>17 DEF R

\* A routine that finds the units active does nothing.
LEMMA AddsNothing ==
  ASSUME NEW S, Sound(S), NEW U, \A u \in U : IsActive(S, u)
  PROVE  Adds(S, S, U)
BY DEF Adds

\* What is the same when only usecs_remaining or ticks differ.
LEMMA SameQueues ==
  ASSUME NEW S, NEW R, Sound(S), IsTimer(R), R.queue = S.queue, R.event = S.event,
         R.cosched_interval = S.cosched_interval
  PROVE  /\ Sound(R) /\ Coscheduled(R) = Coscheduled(S) /\ Ahead(R) = Ahead(S)
         /\ \A v : TicksTo(R, v) = TicksTo(S, v)
         /\ \A v : IsActive(R, v) <=> IsActive(S, v)
         /\ IntervalOfHead(S) <=> IntervalOfHead(R)
<1>1. Coscheduled(R) = Coscheduled(S) /\ Ahead(R) = Ahead(S)
  BY DEF Coscheduled, Ahead
<1>2. Sound(R)
  BY <1>1 DEF Sound
<1> QED BY <1>1, <1>2 DEF TicksTo, IsActive, IntervalOfHead

\* An event adds its unit.
LEMMA ActivateAdds ==
  ASSUME NEW S, Sound(S), NEW u \in Units \cup {TimerUnit, ClockUnit},
         NEW t \in Nat, u = TimerUnit => t <= TickSize
  PROVE  Adds(S, _sim_activate(S, u, t), {u})
<1> DEFINE R == _sim_activate(S, u, t)
<1>1. CASE IsActive(S, u)
  BY <1>1, AddsNothing DEF _sim_activate
<1>2. CASE ~IsActive(S, u)
  <2>1. /\ Sound(R) /\ DOMAIN R.event = DOMAIN S.event \cup {u}
        /\ \A v \in DOMAIN S.event : R.event[v] = S.event[v]
        /\ R.queue = S.queue /\ R.cosched_interval = S.cosched_interval
        /\ R.ticks = S.ticks /\ R.usecs_remaining = S.usecs_remaining
    BY <1>2, ActivateKeeps
  <2> HIDE DEF R
  <2>2. Coscheduled(R) = Coscheduled(S) /\ Ahead(R) = Ahead(S)
    BY <2>1 DEF Coscheduled, Ahead
  <2>3. /\ IsActive(R, u)
        /\ \A v \in Coscheduled(S) : TicksTo(R, v) = TicksTo(S, v)
        /\ IntervalOfHead(S) => IntervalOfHead(R)
    BY <2>1, <2>2 DEF IsActive, TicksTo, IntervalOfHead
  <2>4. Adds(S, R, {u})
    BY <2>1, <2>2, <2>3 DEF Adds
  <2> QED BY <2>4 DEF R
<1> QED BY <1>1, <1>2

\* So does an entry of the coschedule queue.
LEMMA CoscheduleAdds ==
  ASSUME NEW S, Sound(S), NEW u \in Units, NEW t \in Nat
  PROVE  Adds(S, sim_clock_coschedule_tmr(S, u, t), {u})
<1> DEFINE R == sim_clock_coschedule_tmr(S, u, t)
<1>1. CASE IsActive(S, u)
  BY <1>1, AddsNothing DEF sim_clock_coschedule_tmr
<1>2. CASE ~IsActive(S, u)
  <2>1. /\ Sound(R) /\ IntervalOfHead(R)
        /\ R.event = S.event /\ R.ticks = S.ticks
        /\ R.usecs_remaining = S.usecs_remaining
        /\ Coscheduled(R) = Coscheduled(S) \cup {u}
        /\ \A v \in Coscheduled(S) : TicksTo(R, v) = TicksTo(S, v)
    BY <1>2, CoscheduleKeeps
  <2> HIDE DEF R
  <2>2. Adds(S, R, {u})
    BY <2>1 DEF Adds, IsActive
  <2> QED BY <2>2 DEF R
<1> QED BY <1>1, <1>2

\* And when the unit is owed a delay in addition.
Owing(S, u, d) == [S EXCEPT !.usecs_remaining[u] = d]

LEMMA OwingAdds ==
  ASSUME NEW S, NEW R, NEW u \in Units, Adds(S, R, {u}), NEW d \in Nat
  PROVE  LET T == Owing(R, u, d)
         IN  /\ Adds(S, T, {u})
             /\ T.queue = R.queue /\ T.event = R.event /\ T.usecs_remaining[u] = d
             /\ Coscheduled(T) = Coscheduled(R) /\ \A v : TicksTo(T, v) = TicksTo(R, v)
<1> DEFINE m == [R.usecs_remaining EXCEPT ![u] = d]
           T == Owing(R, u, d)
<1>1. Sound(R) /\ IsTimer(R) /\ R.usecs_remaining \in [Units -> Nat]
  BY TimerTypes DEF Adds, Sound
<1>2. m \in [Units -> Nat] /\ m[u] = d /\ \A v \in Units : v # u => m[v] = R.usecs_remaining[v]
  BY <1>1
<1>3. T = [R EXCEPT !.usecs_remaining = m]
  BY <1>1 DEF IsTimer, Owing
<1> HIDE DEF m, T
<1>4. /\ IsTimer(T) /\ T.queue = R.queue /\ T.event = R.event
      /\ T.cosched_interval = R.cosched_interval /\ T.ticks = R.ticks /\ T.usecs_remaining = m
  BY <1>1, <1>2, <1>3 DEF IsTimer
<1>5. /\ Sound(T) /\ Coscheduled(T) = Coscheduled(R)
      /\ \A v : TicksTo(T, v) = TicksTo(R, v)
      /\ \A v : IsActive(T, v) <=> IsActive(R, v)
      /\ IntervalOfHead(R) <=> IntervalOfHead(T)
  BY <1>1, <1>4, SameQueues
<1>6. Adds(S, T, {u})
  BY <1>2, <1>4, <1>5 DEF Adds
<1> QED BY <1>2, <1>4, <1>5, <1>6 DEF T

\* The ticks before the one that calibrates, and the instructions until then.
TicksBefore(S) == Hz - S.ticks - 1

TilCalib(S) == InstTilTick(S) + TicksBefore(S) * TickSize

\* What is asked for in microseconds becomes an event, or ticks and a rest.
Divided(S, R, u, d) ==
  \/ u \in DOMAIN R.event /\ R.event[u] = d /\ R.usecs_remaining[u] = 0
  \/ /\ InstTilTick(S) > 0 /\ d > TilCalib(S)
     /\ u \in Coscheduled(R) /\ TicksTo(R, u) = TicksBefore(S)
     /\ R.usecs_remaining[u] = d - TilCalib(S)
  \/ /\ InstTilTick(S) > 0 /\ d <= TilCalib(S) /\ TicksBefore(S) >= 1
     /\ u \in Coscheduled(R) /\ TicksTo(R, u) = 0
     /\ R.usecs_remaining[u] = d - InstTilTick(S)

LEMMA AfterAdds ==
  ASSUME NEW S, Sound(S), NEW u \in Units, NEW d \in Nat, NEW running \in BOOLEAN
  PROVE  LET R == sim_timer_activate_after(S, u, d, running)
         IN  /\ Adds(S, R, {u})
             /\ ~IsActive(S, u) /\ running => Divided(S, R, u, d)
<1> DEFINE til_tick == InstTilTick(S)
           y == Hz - S.ticks
           z == (y - 1) * TickSize
           til_calib == til_tick + z
           R == sim_timer_activate_after(S, u, d, running)
<1>1. /\ IsTimer(S) /\ S.ticks \in 0..(Hz - 1) /\ S.event \in [DOMAIN S.event -> Nat]
      /\ Hz \in Nat /\ TickSize \in Nat /\ TickSize >= 1
  BY TimerTypes, TimerNumbers DEF Sound
<1>2. /\ til_tick \in Int /\ til_tick <= TickSize /\ y \in Nat /\ y >= 1
      /\ y - 1 \in Nat /\ y - 1 = TicksBefore(S) /\ til_calib = TilCalib(S)
  <2>1. til_tick \in Int /\ til_tick <= TickSize
    BY <1>1 DEF InstTilTick, Sound
  <2>2. y \in Nat /\ y >= 1 /\ y - 1 \in Nat
    BY <1>1
  <2> QED BY <2>1, <2>2 DEF TicksBefore, TilCalib
<1>3. R = IF IsActive(S, u) THEN S
          ELSE IF ~running THEN Owing(_sim_activate(S, u, IF d = 0 THEN 0 ELSE 1), u, d)
          ELSE IF til_tick > 0 /\ d > til_calib
               THEN Owing(sim_clock_coschedule_tmr(S, u, y - 1), u, d - til_calib)
          ELSE IF til_tick > 0 /\ d > 2 * TickSize /\ y > 1
               THEN Owing(sim_clock_coschedule_tmr(S, u, 0), u, d - til_tick)
          ELSE Owing(_sim_activate(S, u, d), u, 0)
  BY DEF sim_timer_activate_after, Owing
<1> HIDE DEF R, til_tick
<1>4. z \in Nat
  <2>1. \A i, j \in Nat : i * j \in Nat
    BY SMT
  <2> QED BY <2>1, <1>1, <1>2
<1> HIDE DEF z, y
<1> SUFFICES Adds(S, R, {u}) /\ (~IsActive(S, u) /\ running => Divided(S, R, u, d))
  BY DEF R
<1>5. CASE IsActive(S, u)
  BY <1>3, <1>5, AddsNothing
<1>6. CASE ~IsActive(S, u) /\ ~running
  <2> DEFINE e == IF d = 0 THEN 0 ELSE 1
  <2>1. e \in Nat /\ R = Owing(_sim_activate(S, u, e), u, d)
    BY <1>3, <1>6
  <2> HIDE DEF e
  <2>2. Adds(S, _sim_activate(S, u, e), {u})
    BY <2>1, ActivateAdds, TimerNumbers
  <2> QED BY <1>6, <2>1, <2>2, OwingAdds
<1>7. CASE ~IsActive(S, u) /\ running /\ til_tick > 0 /\ d > til_calib
  <2> DEFINE C == sim_clock_coschedule_tmr(S, u, y - 1)
             e == d - til_calib
  <2>1. e \in Nat /\ R = Owing(C, u, e)
    BY <1>2, <1>3, <1>4, <1>7
  <2>2. /\ Adds(S, C, {u}) /\ Coscheduled(C) = Coscheduled(S) \cup {u}
        /\ TicksTo(C, u) = y - 1
    BY <1>2, <1>7, CoscheduleAdds, CoscheduleKeeps
  <2> HIDE DEF C, e
  <2>3. /\ Adds(S, R, {u}) /\ R.usecs_remaining[u] = e /\ u \in Coscheduled(R)
        /\ TicksTo(R, u) = y - 1
    <3>1. Adds(S, C, {u})
      BY <2>2
    <3>2. e \in Nat
      BY <2>1
    <3> DEFINE T == Owing(C, u, e)
    <3>3. /\ Adds(S, T, {u}) /\ T.usecs_remaining[u] = e
          /\ Coscheduled(T) = Coscheduled(C) /\ \A v : TicksTo(T, v) = TicksTo(C, v)
      BY <3>1, <3>2, OwingAdds
    <3> QED BY <2>1, <2>2, <3>3
  <2>4. Divided(S, R, u, d)
    BY <1>2, <1>7, <2>3 DEF Divided, til_tick, e
  <2> QED BY <2>3, <2>4
<1>8. CASE /\ ~IsActive(S, u) /\ running /\ ~(til_tick > 0 /\ d > til_calib)
           /\ til_tick > 0 /\ d > 2 * TickSize /\ y > 1
  <2> DEFINE C == sim_clock_coschedule_tmr(S, u, 0)
             e == d - til_tick
  <2>1. e \in Nat /\ R = Owing(C, u, e) /\ d <= til_calib
    BY <1>1, <1>2, <1>3, <1>4, <1>8
  <2>2. /\ Adds(S, C, {u}) /\ Coscheduled(C) = Coscheduled(S) \cup {u}
        /\ TicksTo(C, u) = 0
    BY <1>8, CoscheduleAdds, CoscheduleKeeps
  <2> HIDE DEF C, e
  <2>3. /\ Adds(S, R, {u}) /\ R.usecs_remaining[u] = e /\ u \in Coscheduled(R)
        /\ TicksTo(R, u) = 0
    <3>1. Adds(S, C, {u})
      BY <2>2
    <3>2. e \in Nat
      BY <2>1
    <3> DEFINE T == Owing(C, u, e)
    <3>3. /\ Adds(S, T, {u}) /\ T.usecs_remaining[u] = e
          /\ Coscheduled(T) = Coscheduled(C) /\ \A v : TicksTo(T, v) = TicksTo(C, v)
      BY <3>1, <3>2, OwingAdds
    <3> QED BY <2>1, <2>2, <3>3
  <2>4. Divided(S, R, u, d)
    BY <1>2, <1>8, <2>1, <2>3 DEF Divided, til_tick, e
  <2> QED BY <2>3, <2>4
<1>9. CASE /\ ~IsActive(S, u) /\ running /\ ~(til_tick > 0 /\ d > til_calib)
           /\ ~(til_tick > 0 /\ d > 2 * TickSize /\ y > 1)
  <2> DEFINE C == _sim_activate(S, u, d)
  <2>1. R = Owing(C, u, 0)
    BY <1>3, <1>9
  <2>2. Adds(S, C, {u}) /\ DOMAIN C.event = DOMAIN S.event \cup {u} /\ C.event[u] = d
    BY <1>9, ActivateAdds, ActivateKeeps, TimerNumbers
  <2> HIDE DEF C
  <2>3. /\ Adds(S, R, {u}) /\ R.usecs_remaining[u] = 0 /\ R.event = C.event
    <3>1. Adds(S, C, {u}) /\ 0 \in Nat
      BY <2>2
    <3> DEFINE T == Owing(C, u, 0)
    <3>2. /\ Adds(S, T, {u}) /\ T.usecs_remaining[u] = 0 /\ T.event = C.event
      BY <3>1, OwingAdds
    <3> QED BY <2>1, <3>2
  <2>4. Divided(S, R, u, d)
    BY <2>2, <2>3 DEF Divided
  <2> QED BY <2>3, <2>4
<1> QED BY <1>5, <1>6, <1>7, <1>8, <1>9

\* What becomes of a unit whose time has come.
Served(S, R, u) ==
  \/ /\ S.usecs_remaining[u] = 0 /\ R.usecs_remaining[u] = 0
     /\ u \in DOMAIN R.event /\ R.event[u] = 0
  \/ S.usecs_remaining[u] # 0 /\ Divided(S, R, u, S.usecs_remaining[u])

LEMMA RescheduleAdds ==
  ASSUME NEW S, Sound(S), NEW u \in Units
  PROVE  LET R == Reschedule(S, u)
         IN  Adds(S, R, {u}) /\ (~IsActive(S, u) => Served(S, R, u))
<1> DEFINE d == S.usecs_remaining[u]
           R == Reschedule(S, u)
<1>1. d \in Nat
  BY TimerTypes DEF Sound
<1>2. R = IF d # 0 THEN sim_timer_activate_after(S, u, d, TRUE) ELSE _sim_activate(S, u, 0)
  BY DEF Reschedule
<1> HIDE DEF d
<1> SUFFICES /\ Adds(S, R, {u})
             /\ ~IsActive(S, u) =>
                  \/ /\ d = 0 /\ R.usecs_remaining[u] = 0
                     /\ u \in DOMAIN R.event /\ R.event[u] = 0
                  \/ d # 0 /\ Divided(S, R, u, d)
  BY DEF d, Served
<1> HIDE DEF R
<1>3. CASE d # 0
  <2>1. TRUE \in BOOLEAN
    OBVIOUS
  <2> QED BY <1>1, <1>2, <1>3, <2>1, AfterAdds
<1>4. CASE d = 0
  <2>1. R = _sim_activate(S, u, 0) /\ u \in Units \cup {TimerUnit, ClockUnit} /\ u # TimerUnit
    BY <1>2, <1>4, TimerNumbers
  <2>2. Adds(S, R, {u})
    BY <2>1, ActivateAdds
  <2>3. ~IsActive(S, u) => /\ R.usecs_remaining = S.usecs_remaining
                           /\ u \in DOMAIN R.event /\ R.event[u] = 0
    BY <2>1, ActivateKeeps
  <2> QED BY <1>4, <2>2, <2>3 DEF d
<1> QED BY <1>3, <1>4

\* Two additions, one after the other.
LEMMA AddsCompose ==
  ASSUME NEW S, NEW R, NEW T, NEW U, NEW V, Adds(S, R, U), Adds(R, T, V)
  PROVE  Adds(S, T, U \cup V)
<1>1. \A u \in U \cup V : IsActive(T, u)
  BY DEF Adds, IsActive
<1>2. \A v \in DOMAIN S.event : v \in DOMAIN T.event /\ T.event[v] = S.event[v]
  BY DEF Adds
<1>3. DOMAIN T.event \subseteq DOMAIN S.event \cup (U \cup V)
  BY DEF Adds
<1>4. /\ Coscheduled(S) \subseteq Coscheduled(T)
      /\ Coscheduled(T) \subseteq Coscheduled(S) \cup (U \cup V)
  BY DEF Adds
<1>5. \A v \in Coscheduled(S) : TicksTo(T, v) = TicksTo(S, v)
  BY DEF Adds
<1>6. \A v \in Units \ (U \cup V) : T.usecs_remaining[v] = S.usecs_remaining[v]
  BY DEF Adds
<1> QED BY <1>1, <1>2, <1>3, <1>4, <1>5, <1>6 DEF Adds

\* What a routine that takes u off the queues does.
Drops(S, R, u) ==
  /\ Sound(R)
  /\ DOMAIN R.event = DOMAIN S.event \ {u} /\ \A v \in DOMAIN R.event : R.event[v] = S.event[v]
  /\ Coscheduled(R) = Coscheduled(S) \ {u}
  /\ \A v \in Coscheduled(R) : TicksTo(R, v) <= TicksTo(S, v)
  /\ \A v \in Units \ {u} : R.usecs_remaining[v] = S.usecs_remaining[v]
  /\ R.ticks = S.ticks

WithoutEventOf(S, u) == [S EXCEPT !.event = Restricted(@, DOMAIN @ \ {u})]

LEMMA WithoutEventDrops ==
  ASSUME NEW S, Sound(S), NEW u \in DOMAIN S.event
  PROVE  LET R == WithoutEventOf(S, u)
         IN  /\ Drops(S, R, u) /\ R.queue = S.queue /\ ~IsActive(R, u)
             /\ R.usecs_remaining = S.usecs_remaining /\ R.cosched_interval = S.cosched_interval
             /\ \A v : TicksTo(R, v) = TicksTo(S, v)
             /\ IntervalOfHead(S) <=> IntervalOfHead(R)
<1> DEFINE e == [v \in DOMAIN S.event \ {u} |-> S.event[v]]
           R == WithoutEventOf(S, u)
<1>1. /\ IsTimer(S) /\ u \notin Coscheduled(S)
      /\ Coscheduled(S) \cap DOMAIN S.event = {}
      /\ TimerUnit \in DOMAIN S.event => S.event[TimerUnit] <= TickSize
  BY DEF Sound
<1>2. /\ DOMAIN e = DOMAIN S.event \ {u} /\ \A v \in DOMAIN e : e[v] = S.event[v]
      /\ e \in [DOMAIN e -> Nat] /\ DOMAIN e \subseteq Units \cup {TimerUnit, ClockUnit}
  BY <1>1, TimerTypes
<1> HIDE DEF e
<1>3. R = [S EXCEPT !.event = e]
  BY DEF WithoutEventOf, Restricted, e
<1> HIDE DEF R
<1>4. /\ R.event = e /\ R.queue = S.queue /\ R.cosched_interval = S.cosched_interval
      /\ R.ticks = S.ticks /\ R.usecs_remaining = S.usecs_remaining /\ IsTimer(R)
  BY <1>1, <1>2, <1>3 DEF IsTimer
<1>5. Coscheduled(R) = Coscheduled(S) /\ Ahead(R) = Ahead(S)
  BY <1>4 DEF Coscheduled, Ahead
<1>6. /\ Sound(R) /\ \A v : TicksTo(R, v) = TicksTo(S, v)
      /\ IntervalOfHead(S) <=> IntervalOfHead(R)
  BY <1>1, <1>2, <1>4, <1>5 DEF Sound, TicksTo, IntervalOfHead
<1>7. \A v \in Coscheduled(S) : TicksTo(S, v) \in Int
  BY <1>1, AheadKeeps DEF Sound
<1>8. Drops(S, R, u)
  BY <1>1, <1>2, <1>4, <1>5, <1>6, <1>7 DEF Drops
<1> QED BY <1>1, <1>2, <1>4, <1>5, <1>6, <1>8 DEF R, IsActive

\* The ticks to the unit of an entry.
LEMMA TicksAt ==
  ASSUME NEW S, IsTimer(S), InOrder(S.queue), NEW i \in 1..Len(S.queue)
  PROVE  /\ S.queue[i].unit \in Coscheduled(S)
         /\ TicksTo(S, S.queue[i].unit) = Accum(Ahead(S))[i]
         /\ TicksTo(S, S.queue[i].unit)
              = Accum(S.queue)[i] + (S.cosched_interval - S.queue[1].time)
<1> DEFINE p == Ahead(S)
           u == S.queue[i].unit
<1>1. DOMAIN S.queue = 1..Len(S.queue)
  BY TimerTypes, EntryTypes
<1>2. u \in Coscheduled(S)
  BY <1>1 DEF Coscheduled
<1>3. p \in Seq(Entries) /\ InOrder(p) /\ Len(p) = Len(S.queue) /\ p[i].unit = u
  BY AheadKeeps
<1> HIDE DEF p, u
<1>4. i \in DOMAIN p
  BY <1>3, EntryTypes
<1>5. PlaceOn(p, u) = i
  BY <1>3, <1>4, PlaceIsUnique
<1>6. TicksTo(S, u) = Accum(p)[i]
  BY <1>5 DEF TicksTo, p
<1>7. Accum(p)[i] = Accum(S.queue)[i] + (S.cosched_interval - S.queue[1].time)
  BY AheadKeeps DEF p
<1> QED BY <1>2, <1>6, <1>7 DEF u, p

\* Every unit on the queue has an entry.
LEMMA EntryOf ==
  ASSUME NEW S, IsTimer(S), NEW u \in Coscheduled(S)
  PROVE  \E i \in 1..Len(S.queue) : S.queue[i].unit = u
<1>1. S.queue \in Seq(Entries)
  BY TimerTypes
<1> QED BY <1>1, PlaceExists DEF Coscheduled

\* A unit that is cancelled leaves the coschedule queue; as its ticks stay in
\* cosched_interval or are handed on, no other unit fires later.
LEMMA CoschedCancelDrops ==
  ASSUME NEW S, Sound(S), NEW u \in Coscheduled(S)
  PROVE  LET R == _sim_coschedule_cancel(S, u)
         IN  Drops(S, R, u) /\ ~IsActive(R, u) /\ R.usecs_remaining[u] = 0
<1> DEFINE k == CHOOSE i \in DOMAIN S.queue : S.queue[i].unit = u
           q == Unlink(S.queue, k)
           c == IF q = <<>> THEN 0 ELSE S.cosched_interval
           m == [S.usecs_remaining EXCEPT ![u] = 0]
           n == Len(S.queue)
           R == _sim_coschedule_cancel(S, u)
<1>1. /\ IsTimer(S) /\ S.queue \in Seq(Entries) /\ InOrder(S.queue) /\ S.cosched_interval \in Int
      /\ u \in Units /\ u \notin DOMAIN S.event /\ S.usecs_remaining \in [Units -> Nat]
  BY TimerTypes DEF Sound
<1>2. n \in Nat /\ DOMAIN S.queue = 1..n /\ \A i \in 1..n : S.queue[i].time \in Int
  BY <1>1, EntryTypes
<1>3. k \in DOMAIN S.queue /\ S.queue[k].unit = u
  BY <1>1, <1>2, EntryOf
<1> HIDE DEF k
<1>4. /\ q \in Seq(Entries) /\ Len(q) = n - 1 /\ InOrder(q)
      /\ {q[i].unit : i \in DOMAIN q} = Coscheduled(S) \ {u}
  BY <1>1, <1>3, UnlinkKeepsOrder DEF Coscheduled
<1>5. \A j \in 1..(n - 1) :
         /\ q[j].unit = IF j < k THEN S.queue[j].unit ELSE S.queue[j + 1].unit
         /\ Accum(q)[j] = IF j < k THEN Accum(S.queue)[j] ELSE Accum(S.queue)[j + 1]
  BY <1>1, <1>3, <1>4, AccumOfUnlink
<1>6. m \in [Units -> Nat] /\ m[u] = 0 /\ \A v \in Units : v # u => m[v] = S.usecs_remaining[v]
  BY <1>1
<1>7. R = [S EXCEPT !.queue = q, !.usecs_remaining = m, !.cosched_interval = c]
  BY <1>1 DEF _sim_coschedule_cancel, k, IsTimer
<1> HIDE DEF q, m
<1>8. c \in Int /\ (q # <<>> => c = S.cosched_interval)
  BY <1>1
<1> HIDE DEF c, R
<1>9. /\ R.queue = q /\ R.event = S.event /\ R.cosched_interval = c
      /\ R.ticks = S.ticks /\ R.usecs_remaining = m /\ IsTimer(R)
  BY <1>1, <1>4, <1>6, <1>7, <1>8 DEF IsTimer
<1>10. Coscheduled(R) = Coscheduled(S) \ {u}
  BY <1>4, <1>9 DEF Coscheduled
<1>11. Sound(R)
  BY <1>4, <1>9, <1>10 DEF Sound
<1>12. ASSUME NEW v \in Coscheduled(R)
       PROVE  TicksTo(R, v) <= TicksTo(S, v)
  <2>1. PICK j \in 1..Len(R.queue) : R.queue[j].unit = v
    BY <1>9, EntryOf
  <2>2. /\ j \in 1..(n - 1) /\ q[j].unit = v /\ n - 1 \in Nat /\ n > 1 /\ c = S.cosched_interval
        /\ 1 \in 1..(n - 1) /\ 1 \in 1..n /\ 2 \in 1..n /\ 1 + 1 = 2 /\ q # <<>>
    BY <1>2, <1>4, <1>8, <1>9, <2>1
  <2> DEFINE i == IF j < k THEN j ELSE j + 1
             A == Accum(S.queue)
             B == Accum(q)
  <2>3. /\ \A h \in 0..n : A[h] \in Int
        /\ A[1] = S.queue[1].time
    <3>1. A[0] = 0 /\ A[1] = A[1 - 1] + S.queue[1].time /\ S.queue[1].time \in Int
      BY <1>1, <1>2, <2>2, AccumProperties
    <3> QED BY <3>1, <1>1, AccumProperties
  <2>4. B[1] = q[1].time /\ q[1].time \in Int
    <3>1. B[0] = 0 /\ B[1] = B[1 - 1] + q[1].time /\ q[1].time \in Int
      BY <1>4, <2>2, AccumProperties, EntryTypes
    <3> QED BY <3>1
  <2>5. A[1] <= A[2]
    BY <1>1, <2>2, AccumInOrder
  <2>6. B[1] = IF 1 < k THEN A[1] ELSE A[2]
    BY <1>5, <2>2
  <2>7. /\ i \in 1..n /\ S.queue[i].unit = v /\ B[j] = A[i]
    BY <1>2, <1>3, <1>5, <2>2
  <2> HIDE DEF i, A, B
  <2>8. TicksTo(S, v) = A[i] + (S.cosched_interval - S.queue[1].time)
    BY <1>1, <2>7, TicksAt DEF A
  <2>9. TicksTo(R, v) = B[j] + (c - q[1].time)
    BY <1>4, <1>9, <2>1, TicksAt DEF B
  <2>10. S.queue[1].time <= q[1].time /\ S.queue[1].time \in Int /\ A[i] \in Int
    BY <1>2, <2>2, <2>3, <2>4, <2>5, <2>6, <2>7
  <2> QED BY <1>1, <2>2, <2>4, <2>7, <2>8, <2>9, <2>10
<1>13. Drops(S, R, u)
  BY <1>1, <1>6, <1>9, <1>10, <1>11, <1>12 DEF Drops
<1>14. ~IsActive(R, u) /\ R.usecs_remaining[u] = 0
  BY <1>1, <1>6, <1>9, <1>10 DEF IsActive
<1> QED BY <1>13, <1>14 DEF R

\* sim_cancel, for either queue.
LEMMA CancelDrops ==
  ASSUME NEW S, Sound(S), NEW u \in Units
  PROVE  LET R == sim_cancel(S, u)
         IN  /\ Drops(S, R, u) /\ ~IsActive(R, u)
             /\ R.usecs_remaining[u] = IF IsActive(S, u) THEN 0 ELSE S.usecs_remaining[u]
<1>1. CASE u \in Coscheduled(S)
  <2>1. sim_cancel(S, u) = _sim_coschedule_cancel(S, u) /\ IsActive(S, u)
    BY <1>1 DEF sim_cancel, IsActive
  <2> QED BY <2>1, <1>1, CoschedCancelDrops
<1>2. CASE u \notin Coscheduled(S) /\ u \in DOMAIN S.event
  <2> DEFINE C == WithoutEventOf(S, u)
             R == Owing(C, u, 0)
             m == [C.usecs_remaining EXCEPT ![u] = 0]
  <2>1. /\ Drops(S, C, u) /\ ~IsActive(C, u) /\ C.usecs_remaining = S.usecs_remaining
        /\ IsActive(S, u)
    BY <1>2, WithoutEventDrops DEF IsActive
  <2>2. IsTimer(S) /\ IsTimer(C) /\ Sound(C)
    BY <2>1 DEF Drops, Sound
  <2>3. sim_cancel(S, u) = R
    BY <1>2, <2>2 DEF sim_cancel, WithoutEventOf, Owing, IsTimer
  <2> HIDE DEF C
  <2>4. m \in [Units -> Nat] /\ m[u] = 0 /\ \A v \in Units : v # u => m[v] = S.usecs_remaining[v]
    BY <2>1, <2>2, TimerTypes
  <2>5. R = [C EXCEPT !.usecs_remaining = m]
    BY <2>2 DEF IsTimer, Owing
  <2> HIDE DEF R, m
  <2>6. /\ IsTimer(R) /\ R.queue = C.queue /\ R.event = C.event
        /\ R.cosched_interval = C.cosched_interval /\ R.ticks = C.ticks /\ R.usecs_remaining = m
    BY <2>2, <2>4, <2>5 DEF IsTimer
  <2>7. /\ Sound(R) /\ Coscheduled(R) = Coscheduled(C)
        /\ \A v : TicksTo(R, v) = TicksTo(C, v)
        /\ \A v : IsActive(R, v) <=> IsActive(C, v)
    BY <2>2, <2>6, SameQueues
  <2>8. Drops(S, R, u)
    BY <2>1, <2>4, <2>6, <2>7 DEF Drops
  <2> QED BY <2>1, <2>3, <2>4, <2>6, <2>7, <2>8
<1>3. CASE u \notin Coscheduled(S) /\ u \notin DOMAIN S.event
  <2>1. sim_cancel(S, u) = S /\ ~IsActive(S, u)
    BY <1>3 DEF sim_cancel, IsActive
  <2>2. Drops(S, S, u)
    <3>1. \A v \in Coscheduled(S) : TicksTo(S, v) \in Int
      BY AheadKeeps DEF Sound
    <3> QED BY <1>3, <3>1 DEF Drops
  <2> QED BY <2>1, <2>2
<1> QED BY <1>1, <1>2, <1>3

\* The clock's action counts the tick and schedules the next one.
LEMMA ClockActs ==
  ASSUME NEW S, Sound(S), TimerUnit \notin DOMAIN S.event
  PROVE  LET R == ClockAction(S)
         IN  /\ Sound(R) /\ R.queue = S.queue /\ R.cosched_interval = S.cosched_interval
             /\ R.ticks = (S.ticks + 1) % Hz
             /\ R.usecs_remaining = S.usecs_remaining
             /\ DOMAIN R.event = DOMAIN S.event \cup {TimerUnit}
             /\ R.event[TimerUnit] = TickSize
             /\ \A v \in DOMAIN S.event : R.event[v] = S.event[v]
             /\ Coscheduled(R) = Coscheduled(S) /\ Ahead(R) = Ahead(S)
             /\ \A v : TicksTo(R, v) = TicksTo(S, v)
             /\ IntervalOfHead(S) <=> IntervalOfHead(R)
<1> DEFINE c == (S.ticks + 1) % Hz
           T == [S EXCEPT !.ticks = c]
           R == ClockAction(S)
<1>1. IsTimer(S) /\ S.ticks \in 0..(Hz - 1) /\ Hz \in Nat \ {0} /\ TickSize \in Nat
  BY TimerTypes, TimerAssumption DEF Sound
<1>2. c \in 0..(Hz - 1)
  BY <1>1, ModProperties, SMTT(30)
<1> HIDE DEF c
<1>3. /\ IsTimer(T) /\ T.queue = S.queue /\ T.event = S.event
      /\ T.cosched_interval = S.cosched_interval /\ T.usecs_remaining = S.usecs_remaining
      /\ T.ticks = c
  BY <1>1, <1>2 DEF IsTimer
<1>4. R = _sim_activate(T, TimerUnit, TickSize)
  BY DEF ClockAction, c
<1> HIDE DEF T, R
<1>5. Sound(T) /\ Coscheduled(T) = Coscheduled(S)
  BY <1>3, SameQueues
<1>6. ~IsActive(T, TimerUnit)
  BY <1>1, <1>3, <1>5, TimerTypes, TimerNumbers DEF IsActive
<1>7. /\ Sound(R) /\ DOMAIN R.event = DOMAIN T.event \cup {TimerUnit}
      /\ R.event[TimerUnit] = TickSize /\ \A v \in DOMAIN T.event : R.event[v] = T.event[v]
      /\ R.queue = T.queue /\ R.cosched_interval = T.cosched_interval
      /\ R.ticks = T.ticks /\ R.usecs_remaining = T.usecs_remaining
  BY <1>1, <1>4, <1>5, <1>6, TimerNumbers, ActivateKeeps
<1>8. Coscheduled(R) = Coscheduled(S) /\ Ahead(R) = Ahead(S)
  BY <1>3, <1>7 DEF Coscheduled, Ahead
<1>9. /\ \A v : TicksTo(R, v) = TicksTo(S, v)
      /\ IntervalOfHead(S) <=> IntervalOfHead(R)
  BY <1>3, <1>7, <1>8 DEF TicksTo, IntervalOfHead
<1> QED BY <1>3, <1>7, <1>8, <1>9 DEF R, c

-----------------------------------------------------------------------------
(***************************************************************************)
(* The tick.                                                               *)
(***************************************************************************)

\* The queues after each of the first n entries of q has been rescheduled.
Each(S, q, n) ==
  LET after[i \in 0..n] == IF i = 0 THEN S ELSE Reschedule(after[i - 1], q[i].unit)
  IN  after

StepsTo(f, S, q, n) ==
  f = [i \in 0..n |-> IF i = 0 THEN S ELSE Reschedule(f[i - 1], q[i].unit)]

LEMMA StepsExist ==
  ASSUME NEW S, NEW q, NEW n \in Nat
  PROVE  \E f : StepsTo(f, S, q, n)
<1> DEFINE T == {m \in Nat : \E f : StepsTo(f, S, q, m)}
<1>1. 0 \in T
  <2> DEFINE z == [i \in 0..0 |-> S]
  <2>1. z = [i \in 0..0 |-> IF i = 0 THEN S ELSE Reschedule(z[i - 1], q[i].unit)]
    <3>1. \A i \in 0..0 : i = 0
      OBVIOUS
    <3> QED BY <3>1
  <2> HIDE DEF z
  <2> QED BY <2>1 DEF StepsTo
<1>2. ASSUME NEW m \in T PROVE m + 1 \in T
  <2>1. PICK f : StepsTo(f, S, q, m)
    OBVIOUS
  <2> DEFINE e == Reschedule(f[m], q[m + 1].unit)
             h == [i \in 0..(m + 1) |-> IF i = m + 1 THEN e ELSE f[i]]
             g == [i \in 0..(m + 1) |-> IF i = 0 THEN S ELSE Reschedule(h[i - 1], q[i].unit)]
  <2>2. m \in Nat /\ f = [i \in 0..m |-> IF i = 0 THEN S ELSE Reschedule(f[i - 1], q[i].unit)]
    BY <2>1 DEF StepsTo
  <2>3. ASSUME NEW i \in 0..(m + 1) PROVE h[i] = g[i]
    <3>1. CASE i = m + 1
      <4>1. h[i] = e /\ i # 0 /\ i - 1 = m /\ h[m] = f[m]
        BY <2>2, <3>1
      <4>2. g[i] = Reschedule(h[i - 1], q[i].unit)
        BY <4>1
      <4> QED BY <4>1, <4>2, <3>1
    <3>2. CASE i # m + 1 /\ i # 0
      <4>1. /\ i \in 0..m /\ i - 1 \in 0..(m + 1) /\ i - 1 # m + 1
        BY <2>2, <3>2
      <4>2. h[i] = f[i] /\ h[i - 1] = f[i - 1]
        BY <3>2, <4>1
      <4>3. f[i] = Reschedule(f[i - 1], q[i].unit)
        BY <2>2, <3>2, <4>1
      <4>4. g[i] = Reschedule(h[i - 1], q[i].unit)
        BY <3>2
      <4> QED BY <4>2, <4>3, <4>4
    <3>3. CASE i = 0
      <4>1. 0 \in 0..m /\ 0 \in 0..(m + 1) /\ 0 # m + 1
        BY <2>2
      <4> QED BY <2>2, <3>3, <4>1
    <3> QED BY <3>1, <3>2, <3>3
  <2>4. h = g
    BY <2>3
  <2> HIDE DEF h
  <2>5. StepsTo(h, S, q, m + 1)
    BY <2>4 DEF StepsTo
  <2> QED BY <2>2, <2>5
<1> HIDE DEF T
<1>3. T = Nat
  <2>1. T \in SUBSET Nat
    BY DEF T
  <2> QED BY <1>1, <1>2, <2>1, SetInduction
<1> QED BY <1>3 DEF T

LEMMA EachSteps ==
  ASSUME NEW S, NEW q, NEW n \in Nat
  PROVE  /\ Each(S, q, n)[0] = S
         /\ \A i \in 1..n : Each(S, q, n)[i] = Reschedule(Each(S, q, n)[i - 1], q[i].unit)
<1> DEFINE F(a) == [i \in 0..n |-> IF i = 0 THEN S ELSE Reschedule(a[i - 1], q[i].unit)]
           A == Each(S, q, n)
<1>0. PICK f : StepsTo(f, S, q, n)
  BY StepsExist
<1>1. f = F(f)
  BY <1>0 DEF StepsTo
<1>2. A = CHOOSE a : a = F(a)
  BY DEF Each
<1>3. A = F(A)
  BY <1>1, <1>2
<1>4. A = [i \in 0..n |-> IF i = 0 THEN S ELSE Reschedule(A[i - 1], q[i].unit)]
  BY <1>3
<1> HIDE DEF A, F
<1>5. A[0] = S /\ \A i \in 1..n : A[i] = Reschedule(A[i - 1], q[i].unit)
  BY <1>4
<1> QED BY <1>5 DEF A

\* What a unit has been given stays when others are added.
LEMMA ServedStays ==
  ASSUME NEW S, NEW R, NEW T, NEW u \in Units, NEW U, u \notin U,
         Served(S, R, u), Adds(R, T, U)
  PROVE  Served(S, T, u)
<1>1. /\ T.usecs_remaining[u] = R.usecs_remaining[u]
      /\ u \in DOMAIN R.event => u \in DOMAIN T.event /\ T.event[u] = R.event[u]
      /\ u \in Coscheduled(R) => u \in Coscheduled(T) /\ TicksTo(T, u) = TicksTo(R, u)
  BY DEF Adds
<1> QED BY <1>1 DEF Served, Divided

\* Nor do the others change what a unit is given.
LEMMA ServedFrom ==
  ASSUME NEW S, NEW R, NEW T, NEW u \in Units, NEW U, u \notin U,
         TimerUnit \in DOMAIN S.event, Adds(S, R, U), Served(R, T, u)
  PROVE  Served(S, T, u)
<1>1. R.usecs_remaining[u] = S.usecs_remaining[u]
  BY DEF Adds
<1>2. InstTilTick(R) = InstTilTick(S) /\ TicksBefore(R) = TicksBefore(S)
  BY DEF Adds, InstTilTick, TicksBefore
<1>3. TilCalib(R) = TilCalib(S)
  BY <1>2 DEF TilCalib
<1> QED BY <1>1, <1>2, <1>3 DEF Served, Divided

\* All entries that are due are rescheduled.
LEMMA EachIsServed ==
  ASSUME NEW S, Sound(S), TimerUnit \in DOMAIN S.event,
         NEW q \in Seq(Entries), InOrder(q), NEW n \in 0..Len(q),
         \A j \in 1..n : ~IsActive(S, q[j].unit)
  PROVE  LET R == Each(S, q, n)[n]
         IN  /\ Adds(S, R, {q[j].unit : j \in 1..n})
             /\ \A j \in 1..n : Served(S, R, q[j].unit)
<1> DEFINE A == Each(S, q, n)
           U(i) == {q[j].unit : j \in 1..i}
           P(i) == Adds(S, A[i], U(i)) /\ \A j \in 1..i : Served(S, A[i], q[j].unit)
           T == {i \in Nat : i <= n => P(i)}
<1>1. n \in Nat /\ n <= Len(q) /\ DOMAIN q = 1..Len(q) /\ \A j \in 1..Len(q) : q[j].unit \in Units
  BY EntryTypes
<1>2. A[0] = S /\ \A i \in 1..n : A[i] = Reschedule(A[i - 1], q[i].unit)
  BY <1>1, EachSteps
<1> HIDE DEF A
<1>3. 0 \in T
  <2>1. U(0) = {}
    OBVIOUS
  <2>2. Adds(S, S, U(0))
    BY <2>1, AddsNothing
  <2>3. P(0)
    BY <1>2, <2>2
  <2> HIDE DEF P
  <2> QED BY <2>3
<1>4. ASSUME NEW i \in T PROVE i + 1 \in T
  <2> SUFFICES ASSUME i + 1 <= n PROVE P(i + 1)
    OBVIOUS
  <2> DEFINE u == q[i + 1].unit
             B == A[i]
             C == A[i + 1]
  <2>1. i \in Nat /\ i + 1 \in 1..n /\ i + 1 \in 1..Len(q) /\ i <= n
    BY <1>1
  <2>2. Adds(S, B, U(i)) /\ \A j \in 1..i : Served(S, B, q[j].unit)
    BY <2>1
  <2>3. u \in Units /\ C = Reschedule(B, u) /\ ~IsActive(S, u)
    BY <1>1, <1>2, <2>1
  <2>4. \A j \in 1..i : j \in 1..Len(q) /\ j # i + 1 /\ q[j].unit # u /\ q[j].unit \in Units
    <3>1. \A j \in 1..i : j \in 1..Len(q) /\ j # i + 1
      BY <1>1, <2>1
    <3> QED BY <1>1, <2>1, <3>1 DEF InOrder
  <2>5. U(i + 1) = U(i) \cup {u}
    BY <2>1
  <2>6. u \notin U(i)
    BY <2>4
  <2> HIDE DEF u, B, C, U
  <2>7. Sound(B) /\ ~IsActive(B, u)
    BY <2>2, <2>3, <2>6 DEF Adds, IsActive
  <2>8. Adds(B, C, {u}) /\ Served(B, C, u)
    BY <2>3, <2>7, RescheduleAdds
  <2>9. Adds(S, C, U(i + 1))
    BY <2>2, <2>5, <2>8, AddsCompose
  <2>10. Served(S, C, u)
    BY <2>2, <2>3, <2>6, <2>8, ServedFrom
  <2>11. ASSUME NEW j \in 1..(i + 1) PROVE Served(S, C, q[j].unit)
    <3>1. CASE j = i + 1
      BY <2>10, <3>1 DEF u
    <3>2. CASE j # i + 1
      <4>1. j \in 1..i
        BY <2>1, <3>2
      <4>2. Served(S, B, q[j].unit) /\ q[j].unit \notin {u} /\ q[j].unit \in Units
        BY <2>2, <2>4, <4>1
      <4> QED BY <2>8, <4>2, ServedStays
    <3> QED BY <3>1, <3>2
  <2> QED BY <2>9, <2>11 DEF C
<1> HIDE DEF T
<1>5. T = Nat
  <2>1. T \in SUBSET Nat
    BY DEF T
  <2> QED BY <1>3, <1>4, <2>1, SetInduction
<1> HIDE DEF P
<1>6. P(n)
  BY <1>1, <1>5 DEF T
<1> QED BY <1>6 DEF A, P

\* The list without the entries that are due.
RestOf(q, n) ==
  [i \in 1..(Len(q) - n) |->
     IF i = 1 THEN [q[n + 1] EXCEPT !.time = Accum(q)[n + 1]] ELSE q[n + i]]

LEMMA RestKeeps ==
  ASSUME NEW q \in Seq(Entries), InOrder(q), NEW n \in 0..Len(q)
  PROVE  LET r == RestOf(q, n)
         IN  /\ r \in Seq(Entries) /\ Len(r) = Len(q) - n /\ InOrder(r)
             /\ \A i \in 1..(Len(q) - n) : r[i].unit = q[n + i].unit
             /\ \A i \in 1..(Len(q) - n) : Accum(r)[i] = Accum(q)[n + i]
<1> DEFINE A == Accum(q)
           m == Len(q) - n
           r == RestOf(q, n)
           f == [i \in 0..m |-> IF i = 0 THEN 0 ELSE A[n + i]]
<1>1. /\ Len(q) \in Nat /\ DOMAIN q = 1..Len(q) /\ n \in Nat /\ m \in Nat
      /\ \A i \in 1..Len(q) : q[i] \in Entries /\ q[i].time \in Int
      /\ \A i \in 1..m : n + i \in 1..Len(q)
  BY EntryTypes
<1>2. /\ \A i \in 0..Len(q) : A[i] \in Int
      /\ \A i \in 1..Len(q) : A[i] = A[i - 1] + q[i].time
  BY AccumProperties
<1>3. r = [i \in 1..m |-> IF i = 1 THEN [q[n + 1] EXCEPT !.time = A[n + 1]] ELSE q[n + i]]
  BY DEF RestOf
<1> HIDE DEF A, r, m
<1>4. ASSUME NEW i \in 1..m
      PROVE  /\ r[i] \in Entries /\ r[i].unit = q[n + i].unit
             /\ i = 1 => r[i].time = A[n + i]
             /\ i # 1 => r[i].time = q[n + i].time
  <2>1. n + i \in 1..Len(q) /\ q[n + i] \in Entries /\ A[n + i] \in Int
    <3> DEFINE j == n + i
    <3>1. j \in 1..Len(q)
      BY <1>1
    <3> HIDE DEF j
    <3>2. j \in 1..Len(q) /\ q[j] \in Entries /\ A[j] \in Int
      BY <3>1, <1>1, <1>2
    <3> QED BY <3>2 DEF j
  <2>2. CASE i = 1
    <3> DEFINE x == q[n + i]
               y == A[n + i]
               z == [x EXCEPT !.time = y]
    <3>1. r[i] = z
      BY <1>3, <2>2
    <3>2. x \in Entries /\ y \in Int
      BY <2>1
    <3> HIDE DEF x, y
    <3>3. z \in Entries /\ z.unit = x.unit /\ z.time = y
      BY <3>2 DEF Entries
    <3> HIDE DEF z
    <3> QED BY <2>2, <3>1, <3>3 DEF x, y
  <2>3. CASE i # 1
    <3>1. r[i] = q[n + i]
      BY <1>3, <2>3
    <3> QED BY <2>1, <2>3, <3>1
  <2> QED BY <2>2, <2>3
<1>5. DOMAIN r = 1..m /\ r \in Seq(Entries) /\ Len(r) = m
  <2>1. r \in [1..m -> Entries]
    BY <1>3, <1>4
  <2>2. m \in Nat
    BY <1>1
  <2> QED BY <2>1, <2>2
<1>6. InOrder(r)
  <2>1. ASSUME NEW i \in 1..m, NEW j \in 1..m, r[i].unit = r[j].unit PROVE i = j
    <3>1. q[n + i].unit = q[n + j].unit /\ n + i \in DOMAIN q /\ n + j \in DOMAIN q
      BY <1>1, <1>4, <2>1
    <3>2. n + i = n + j
      BY <3>1 DEF InOrder
    <3> QED BY <1>1, <3>2
  <2>2. ASSUME NEW i \in 1..m, i > 1 PROVE r[i].time >= 0
    <3>1. n + i \in DOMAIN q /\ n + i > 1 /\ i # 1
      <4>1. n + i \in DOMAIN q
        BY <1>1
      <4>2. n \in Nat /\ i \in Int
        BY <1>1
      <4> QED BY <4>1, <4>2, <2>2
    <3>2. r[i].time = q[n + i].time
      BY <1>4, <3>1
    <3> QED BY <3>1, <3>2 DEF InOrder
  <2> QED BY <1>5, <2>1, <2>2 DEF InOrder
<1>7. SumsTo(f, r, m)
  <2>1. f \in [0..m -> Int] /\ f[0] = 0
    <3>1. ASSUME NEW i \in 0..m, i # 0 PROVE A[n + i] \in Int
      <4> DEFINE j == n + i
      <4>1. i \in 1..m
        BY <3>1, <1>1
      <4>2. j \in 1..Len(q)
        BY <4>1, <1>1
      <4> HIDE DEF j
      <4>3. A[j] \in Int
        BY <4>2, <1>1, <1>2
      <4> QED BY <4>3 DEF j
    <3> HIDE DEF A
    <3>2. f \in [0..m -> Int]
      BY <3>1
    <3>3. 0 \in 0..m
      BY <1>1
    <3> QED BY <3>2, <3>3
  <2>2. ASSUME NEW i \in 1..m PROVE f[i] = f[i - 1] + r[i].time
    <3>1. /\ i \in 0..m /\ i - 1 \in 0..m /\ i # 0 /\ n + i \in 1..Len(q)
          /\ n + i \in 0..Len(q) /\ (n + i) - 1 = n + (i - 1)
      BY <1>1
    <3>2. f[i] = A[n + i] /\ A[n + i] \in Int
      BY <1>2, <3>1
    <3>3. CASE i = 1
      <4>1. f[i - 1] = 0 /\ r[i].time = A[n + i]
        BY <1>4, <3>1, <3>3
      <4> QED BY <3>2, <4>1
    <3>4. CASE i # 1
      <4>1. i - 1 # 0
        BY <1>1, <3>4
      <4>2. f[i - 1] = A[n + (i - 1)] /\ r[i].time = q[n + i].time
        BY <1>4, <3>1, <3>4, <4>1
      <4>3. A[n + i] = A[(n + i) - 1] + q[n + i].time
        BY <1>2, <3>1
      <4> QED BY <3>1, <3>2, <4>2, <4>3
    <3> QED BY <3>3, <3>4
  <2> HIDE DEF f
  <2> QED BY <2>1, <2>2 DEF SumsTo
<1>8. \A i \in 0..m : Accum(r)[i] = f[i]
  <2> HIDE DEF f
  <2> QED BY <1>5, <1>7, AccumIsOnlySum
<1>9. \A i \in 1..m : Accum(r)[i] = A[n + i]
  BY <1>1, <1>8
<1> QED BY <1>4, <1>5, <1>6, <1>9 DEF A, m, r

\* The units that are due when the next tick is counted.
DueUnits(S) == {u \in Coscheduled(S) : TicksTo(S, u) <= 1}

\* The head of the queue is counted down, and the entries that are due come off.
Counted(S) ==
  LET q == WithHead(S.queue, S.cosched_interval - 1)
      r == RestOf(q, InsertionPoint(q, 0))
  IN  [S EXCEPT !.queue = r, !.cosched_interval = IF r = <<>> THEN 0 ELSE r[1].time]

LEMMA CountedKeeps ==
  ASSUME NEW S, Sound(S)
  PROVE  LET q == WithHead(S.queue, S.cosched_interval - 1)
             n == InsertionPoint(q, 0)
             R == Counted(S)
         IN  /\ q \in Seq(Entries) /\ InOrder(q) /\ n \in 0..Len(q)
             /\ {q[j].unit : j \in 1..n} = DueUnits(S)
             /\ Sound(R) /\ IntervalOfHead(R) /\ R.event = S.event /\ R.ticks = S.ticks
             /\ R.usecs_remaining = S.usecs_remaining
             /\ Coscheduled(R) = Coscheduled(S) \ DueUnits(S)
             /\ \A u \in Coscheduled(R) : TicksTo(R, u) = TicksTo(S, u) - 1
<1> DEFINE q == WithHead(S.queue, S.cosched_interval - 1)
           n == InsertionPoint(q, 0)
           N == Len(S.queue)
           r == RestOf(q, n)
           c == IF r = <<>> THEN 0 ELSE r[1].time
           R == Counted(S)
<1>1. /\ IsTimer(S) /\ S.queue \in Seq(Entries) /\ InOrder(S.queue) /\ S.cosched_interval \in Int
      /\ S.cosched_interval - 1 \in Int /\ 0 \in Int
      /\ Coscheduled(S) \cap DOMAIN S.event = {}
  BY TimerTypes DEF Sound
<1>2. N \in Nat /\ DOMAIN S.queue = 1..N /\ \A i \in 1..N : S.queue[i].time \in Int
  BY <1>1, EntryTypes
<1>3. /\ q \in Seq(Entries) /\ Len(q) = N /\ InOrder(q)
      /\ \A i \in 1..N : q[i].unit = S.queue[i].unit
      /\ \A i \in 1..N : Accum(q)[i] = Accum(S.queue)[i] + ((S.cosched_interval - 1) - S.queue[1].time)
  BY <1>1, WithHeadKeeps
<1> HIDE DEF q
<1>4. DOMAIN q = 1..N
  BY <1>3, EntryTypes
<1>5. /\ n \in 0..N /\ (\A i \in 1..n : Accum(q)[i] <= 0)
      /\ n < N => 0 < Accum(q)[n + 1]
  <2>1. n \in 0..Len(q) /\ (\A i \in 1..n : Accum(q)[i] <= 0) /\ (n < Len(q) => 0 < Accum(q)[n + 1])
    BY <1>1, <1>3, InsertionPointExists
  <2> QED BY <2>1, <1>3
<1> HIDE DEF n, N
<1>6. \A i \in 1..N : Accum(q)[i] \in Int /\ (i > n => 0 < Accum(q)[i])
  <2>1. ASSUME NEW i \in 1..N PROVE Accum(q)[i] \in Int
    <3>1. i \in 0..Len(q)
      BY <1>2, <1>3
    <3> QED BY <1>3, <3>1, AccumProperties
  <2>2. ASSUME NEW i \in 1..N, i > n PROVE 0 < Accum(q)[i]
    <3> DEFINE m == n + 1
    <3>1. m \in 1..N /\ n < N /\ m <= i
      BY <1>2, <1>5, <2>2
    <3>2. 0 < Accum(q)[m]
      BY <1>5, <3>1
    <3> HIDE DEF m
    <3>3. Accum(q)[m] <= Accum(q)[i]
      BY <1>3, <3>1, AccumInOrder
    <3> QED BY <2>1, <3>1, <3>2, <3>3
  <2> QED BY <2>1, <2>2
<1>7. \A i \in 1..N : /\ q[i].unit \in Coscheduled(S)
                      /\ TicksTo(S, q[i].unit) \in Int
                      /\ Accum(q)[i] = TicksTo(S, q[i].unit) - 1
  <2> SUFFICES ASSUME NEW i \in 1..N
               PROVE  /\ q[i].unit \in Coscheduled(S)
                      /\ TicksTo(S, q[i].unit) \in Int
                      /\ Accum(q)[i] = TicksTo(S, q[i].unit) - 1
    OBVIOUS
  <2> DEFINE u == S.queue[i].unit
             A == Accum(S.queue)[i]
  <2>1. i \in 1..Len(S.queue) /\ i \in 0..Len(S.queue) /\ 1 \in 1..N
    BY <1>2 DEF N
  <2>2. u \in Coscheduled(S) /\ TicksTo(S, u) = A + (S.cosched_interval - S.queue[1].time)
    BY <1>1, <2>1, TicksAt
  <2>3. A \in Int
    BY <1>1, <2>1, AccumProperties
  <2>4. Accum(q)[i] = A + ((S.cosched_interval - 1) - S.queue[1].time) /\ q[i].unit = u
    BY <1>3
  <2> DEFINE x == S.cosched_interval
             y == S.queue[1].time
  <2>5. x \in Int /\ y \in Int
    BY <1>1, <1>2, <2>1
  <2> HIDE DEF u, A
  <2>6. TicksTo(S, u) = A + (x - y) /\ Accum(q)[i] = A + ((x - 1) - y)
    BY <2>2, <2>4
  <2> HIDE DEF x, y
  <2>7. TicksTo(S, u) \in Int /\ Accum(q)[i] = TicksTo(S, u) - 1
    BY <2>3, <2>5, <2>6
  <2> QED BY <2>2, <2>4, <2>7
<1>8. \A u \in Coscheduled(S) : \E i \in 1..N : q[i].unit = u
  BY <1>1, <1>3, EntryOf DEF N
<1>9. {q[j].unit : j \in 1..n} = DueUnits(S)
  <2>1. ASSUME NEW j \in 1..n PROVE q[j].unit \in DueUnits(S)
    <3>1. j \in 1..N /\ Accum(q)[j] <= 0
      BY <1>2, <1>5
    <3>2. q[j].unit \in Coscheduled(S) /\ TicksTo(S, q[j].unit) <= 1
      BY <1>7, <3>1
    <3> QED BY <3>2 DEF DueUnits
  <2>2. ASSUME NEW u \in DueUnits(S) PROVE \E j \in 1..n : q[j].unit = u
    <3>1. PICK i \in 1..N : q[i].unit = u
      BY <1>8 DEF DueUnits
    <3>2. Accum(q)[i] <= 0
      BY <1>7, <3>1 DEF DueUnits
    <3>3. i \in 1..n
      BY <1>2, <1>5, <1>6, <3>1, <3>2
    <3> QED BY <3>1, <3>3
  <2> QED BY <2>1, <2>2
<1>10. /\ r \in Seq(Entries) /\ Len(r) = N - n /\ InOrder(r)
       /\ \A i \in 1..(N - n) : r[i].unit = q[n + i].unit /\ Accum(r)[i] = Accum(q)[n + i]
  <2>1. n \in 0..Len(q)
    BY <1>3, <1>5
  <2> QED BY <1>3, <2>1, RestKeeps
<1> HIDE DEF r
<1>11. c \in Int /\ (r # <<>> => c = r[1].time)
  BY <1>10, EntryTypes
<1> HIDE DEF c
<1>12. R = [S EXCEPT !.queue = r, !.cosched_interval = c]
  BY DEF Counted, c, r, n, q
<1> HIDE DEF R
<1>13. /\ R.queue = r /\ R.event = S.event /\ R.cosched_interval = c
       /\ R.ticks = S.ticks /\ R.usecs_remaining = S.usecs_remaining /\ IsTimer(R)
  BY <1>1, <1>10, <1>11, <1>12 DEF IsTimer
<1>14. /\ DOMAIN r = 1..(N - n) /\ N - n \in Nat
       /\ \A i \in 1..(N - n) : n + i \in 1..N /\ n + i > n
       /\ \A j \in 1..N : j > n => j - n \in 1..(N - n) /\ n + (j - n) = j
  BY <1>2, <1>5, <1>10, EntryTypes
<1>15. Coscheduled(R) = Coscheduled(S) \ DueUnits(S)
  <2>1. ASSUME NEW i \in 1..(N - n) PROVE r[i].unit \in Coscheduled(S) \ DueUnits(S)
    <3> DEFINE j == n + i
    <3>1. j \in 1..N /\ j > n /\ r[i].unit = q[j].unit
      BY <1>10, <1>14
    <3> HIDE DEF j
    <3>2. q[j].unit \in Coscheduled(S) /\ ~(TicksTo(S, q[j].unit) <= 1)
      BY <1>6, <1>7, <3>1
    <3> QED BY <3>1, <3>2 DEF DueUnits
  <2>2. ASSUME NEW u \in Coscheduled(S), u \notin DueUnits(S)
        PROVE  \E i \in 1..(N - n) : r[i].unit = u
    <3>1. PICK j \in 1..N : q[j].unit = u
      BY <1>8
    <3>2. ~(TicksTo(S, u) <= 1)
      BY <2>2 DEF DueUnits
    <3>3. j > n
      <4>1. SUFFICES ASSUME ~(j > n) PROVE FALSE
        OBVIOUS
      <4>2. j \in 1..n
        BY <1>2, <1>5, <4>1
      <4> QED BY <1>5, <1>7, <3>1, <3>2, <4>2
    <3> DEFINE i == j - n
    <3>4. i \in 1..(N - n) /\ n + i = j
      BY <1>14, <3>3
    <3> HIDE DEF i
    <3> QED BY <1>10, <3>1, <3>4
  <2> QED BY <2>1, <2>2, <1>13, <1>14 DEF Coscheduled
<1>16. Sound(R)
  BY <1>1, <1>10, <1>13, <1>15 DEF Sound
<1>17. IntervalOfHead(R)
  BY <1>11, <1>13 DEF IntervalOfHead
<1>18. ASSUME NEW u \in Coscheduled(R) PROVE TicksTo(R, u) = TicksTo(S, u) - 1
  <2>1. Ahead(R) = r
    BY <1>13, <1>16, <1>17, AheadKeeps DEF Sound
  <2>2. PICK i \in 1..Len(R.queue) : R.queue[i].unit = u
    BY <1>13, EntryOf
  <2>3. TicksTo(R, u) = Accum(r)[i]
    BY <1>13, <1>16, <2>1, <2>2, TicksAt DEF Sound
  <2> DEFINE j == n + i
  <2>4. j \in 1..N /\ r[i].unit = q[j].unit /\ Accum(r)[i] = Accum(q)[j] /\ r[i].unit = u
    BY <1>10, <1>13, <1>14, <2>2
  <2> HIDE DEF j
  <2> QED BY <1>7, <2>3, <2>4
<1> QED BY <1>3, <1>5, <1>9, <1>13, <1>15, <1>16, <1>17, <1>18 DEF q, n, R

\* The tick as these steps: the clock's action, the count, and the units that
\* are due one after the other.
LEMMA TickSteps ==
  ASSUME NEW S
  PROVE  LET T == ClockAction(S)
             q == WithHead(T.queue, T.cosched_interval - 1)
             n == InsertionPoint(q, 0)
         IN  sim_timer_tick_svc(S) = Each(Counted(T), q, n)[n]
BY DEF sim_timer_tick_svc, Each, Counted, RestOf, WithHead

\* What a tick does: the event of the timer's unit is scheduled again, the
\* units that are not due wait for one tick less, and the others are served.
Ticked(S, R) ==
  /\ Sound(R) /\ IntervalOfHead(R) /\ R.ticks = (S.ticks + 1) % Hz
  /\ TimerUnit \in DOMAIN R.event /\ R.event[TimerUnit] = TickSize
  /\ \A v \in DOMAIN S.event : v \in DOMAIN R.event /\ R.event[v] = S.event[v]
  /\ DOMAIN R.event \subseteq DOMAIN S.event \cup {TimerUnit} \cup DueUnits(S)
  /\ Coscheduled(R) \subseteq Coscheduled(S)
  /\ \A u \in Coscheduled(S) : IsActive(R, u)
  /\ \A u \in Coscheduled(S) \ DueUnits(S) :
       u \in Coscheduled(R) /\ TicksTo(R, u) = TicksTo(S, u) - 1
  /\ \A u \in Units \ DueUnits(S) : R.usecs_remaining[u] = S.usecs_remaining[u]
  /\ \A u \in DueUnits(S) :
       \/ /\ S.usecs_remaining[u] = 0 /\ R.usecs_remaining[u] = 0
          /\ u \in DOMAIN R.event /\ R.event[u] = 0
       \/ S.usecs_remaining[u] # 0 /\ Divided(R, R, u, S.usecs_remaining[u])

LEMMA TickDoes ==
  ASSUME NEW S, Sound(S), TimerUnit \notin DOMAIN S.event
  PROVE  Ticked(S, sim_timer_tick_svc(S))
<1> DEFINE T == ClockAction(S)
           C == Counted(T)
           q == WithHead(T.queue, T.cosched_interval - 1)
           n == InsertionPoint(q, 0)
           R == sim_timer_tick_svc(S)
           D == DueUnits(S)
<1>1. R = Each(C, q, n)[n]
  BY TickSteps
<1>2. /\ Sound(T) /\ T.ticks = (S.ticks + 1) % Hz
      /\ T.usecs_remaining = S.usecs_remaining
      /\ DOMAIN T.event = DOMAIN S.event \cup {TimerUnit} /\ T.event[TimerUnit] = TickSize
      /\ \A v \in DOMAIN S.event : T.event[v] = S.event[v]
      /\ Coscheduled(T) = Coscheduled(S) /\ \A v : TicksTo(T, v) = TicksTo(S, v)
  BY ClockActs
<1> HIDE DEF T, R
<1>3. DueUnits(T) = D /\ D \subseteq Coscheduled(S) /\ D \subseteq Units
  BY <1>2, TimerTypes DEF DueUnits, Sound
<1> HIDE DEF D
<1>4. /\ q \in Seq(Entries) /\ InOrder(q) /\ n \in 0..Len(q)
      /\ {q[j].unit : j \in 1..n} = D
      /\ Sound(C) /\ IntervalOfHead(C) /\ C.event = T.event /\ C.ticks = T.ticks
      /\ C.usecs_remaining = T.usecs_remaining
      /\ Coscheduled(C) = Coscheduled(S) \ D
      /\ \A u \in Coscheduled(C) : TicksTo(C, u) = TicksTo(S, u) - 1
  BY <1>2, <1>3, CountedKeeps
<1> HIDE DEF C, q, n
<1>5. \A j \in 1..n : ~IsActive(C, q[j].unit)
  <2>1. ASSUME NEW j \in 1..n PROVE q[j].unit \in D
    BY <1>4
  <2>2. D \cap DOMAIN C.event = {}
    BY <1>2, <1>3, <1>4, TimerNumbers DEF Sound
  <2> QED BY <2>1, <2>2, <1>4 DEF IsActive
<1>6. TimerUnit \in DOMAIN C.event
  BY <1>2, <1>4
<1>7. Adds(C, R, D) /\ \A u \in D : Served(C, R, u)
  <2>1. Adds(C, R, {q[j].unit : j \in 1..n}) /\ \A j \in 1..n : Served(C, R, q[j].unit)
    BY <1>1, <1>4, <1>5, <1>6, EachIsServed
  <2>2. \A u \in D : \E j \in 1..n : q[j].unit = u
    BY <1>4
  <2>3. ASSUME NEW u \in D PROVE Served(C, R, u)
    BY <2>1, <2>2
  <2>4. {q[j].unit : j \in 1..n} = D
    BY <1>4
  <2> QED BY <2>1, <2>3, <2>4
<1>8. /\ Sound(R) /\ IntervalOfHead(R) /\ R.ticks = (S.ticks + 1) % Hz
      /\ TimerUnit \in DOMAIN R.event /\ R.event[TimerUnit] = TickSize
  BY <1>2, <1>4, <1>6, <1>7 DEF Adds
<1>9. /\ \A v \in DOMAIN S.event : v \in DOMAIN R.event /\ R.event[v] = S.event[v]
      /\ DOMAIN R.event \subseteq DOMAIN S.event \cup {TimerUnit} \cup D
      /\ Coscheduled(R) \subseteq Coscheduled(S)
  BY <1>2, <1>3, <1>4, <1>7 DEF Adds
<1>10. \A u \in Coscheduled(S) : IsActive(R, u)
  BY <1>4, <1>7 DEF Adds, IsActive
<1>11. \A u \in Coscheduled(S) \ D :
         u \in Coscheduled(R) /\ TicksTo(R, u) = TicksTo(S, u) - 1
  BY <1>4, <1>7 DEF Adds
<1>12. \A u \in Units \ D : R.usecs_remaining[u] = S.usecs_remaining[u]
  BY <1>2, <1>4, <1>7 DEF Adds
<1>13. InstTilTick(R) = InstTilTick(C) /\ TicksBefore(R) = TicksBefore(C)
  BY <1>2, <1>4, <1>6, <1>8 DEF InstTilTick, TicksBefore
<1>14. TilCalib(R) = TilCalib(C)
  BY <1>13 DEF TilCalib
<1>15. ASSUME NEW u \in D
       PROVE  \/ /\ S.usecs_remaining[u] = 0 /\ R.usecs_remaining[u] = 0
                 /\ u \in DOMAIN R.event /\ R.event[u] = 0
              \/ S.usecs_remaining[u] # 0 /\ Divided(R, R, u, S.usecs_remaining[u])
  <2>1. Served(C, R, u) /\ C.usecs_remaining = S.usecs_remaining
    BY <1>2, <1>4, <1>7
  <2> QED BY <2>1, <1>13, <1>14 DEF Served, Divided
<1>16. Ticked(S, R)
  BY <1>8, <1>9, <1>10, <1>11, <1>12, <1>15 DEF Ticked, D
<1> QED BY <1>16 DEF R

-----------------------------------------------------------------------------
(***************************************************************************)
(* The passing of time, and the stop.                                      *)
(***************************************************************************)

\* One instruction is executed.
OneLess(S) == [S EXCEPT !.event = [u \in DOMAIN @ |-> @[u] - 1]]

LEMMA OneLessKeeps ==
  ASSUME NEW S, Sound(S), \A u \in DOMAIN S.event : S.event[u] > 0
  PROVE  LET R == OneLess(S)
         IN  /\ Sound(R) /\ DOMAIN R.event = DOMAIN S.event
             /\ \A u \in DOMAIN S.event : R.event[u] = S.event[u] - 1
             /\ R.usecs_remaining = S.usecs_remaining /\ R.ticks = S.ticks
             /\ R.queue = S.queue
             /\ Coscheduled(R) = Coscheduled(S) /\ \A v : TicksTo(R, v) = TicksTo(S, v)
             /\ \A v : IsActive(R, v) <=> IsActive(S, v)
             /\ IntervalOfHead(S) <=> IntervalOfHead(R)
<1> DEFINE e == [u \in DOMAIN S.event |-> S.event[u] - 1]
           R == OneLess(S)
<1>1. IsTimer(S) /\ \A u \in DOMAIN S.event : S.event[u] \in Nat
  BY TimerTypes DEF Sound
<1>2. /\ DOMAIN e = DOMAIN S.event /\ e \in [DOMAIN e -> Nat]
      /\ \A u \in DOMAIN S.event : e[u] = S.event[u] - 1
  <2>1. ASSUME NEW u \in DOMAIN S.event PROVE S.event[u] - 1 \in Nat
    BY <1>1
  <2> QED BY <2>1
<1> HIDE DEF e
<1>3. R = [S EXCEPT !.event = e]
  BY DEF OneLess, e
<1> HIDE DEF R
<1>4. DOMAIN e \subseteq Units \cup {TimerUnit, ClockUnit}
  BY <1>1, <1>2, TimerTypes
<1>5. /\ R.event = e /\ R.queue = S.queue /\ R.cosched_interval = S.cosched_interval
      /\ R.ticks = S.ticks /\ R.usecs_remaining = S.usecs_remaining /\ IsTimer(R)
  BY <1>1, <1>2, <1>3, <1>4 DEF IsTimer
<1>6. Coscheduled(R) = Coscheduled(S) /\ Ahead(R) = Ahead(S)
  BY <1>5 DEF Coscheduled, Ahead
<1>7. TimerUnit \in DOMAIN R.event => R.event[TimerUnit] <= TickSize
  BY <1>1, <1>2, <1>5, TimerNumbers DEF Sound
<1>8. Sound(R)
  BY <1>2, <1>5, <1>6, <1>7 DEF Sound
<1> QED BY <1>2, <1>5, <1>6, <1>8 DEF R, TicksTo, IsActive, IntervalOfHead

\* Everything goes to the event queue, and the tick is the clock's.
LEMMA StopDoes ==
  ASSUME NEW S, Sound(S)
  PROVE  LET R == sim_stop_timer_services(S)
         IN  /\ Sound(R) /\ IntervalOfHead(R) /\ Coscheduled(R) = {}
             /\ DOMAIN R.event = (DOMAIN S.event \ {TimerUnit}) \cup Coscheduled(S)
                                 \cup (IF TimerUnit \in DOMAIN S.event THEN {ClockUnit} ELSE {})
             /\ \A u \in Units \ Coscheduled(S) : R.usecs_remaining[u] = S.usecs_remaining[u]
<1> DEFINE active == TimerUnit \in DOMAIN S.event
           clock_time == IF active THEN S.event[TimerUnit] + 1 ELSE 0
           D == (DOMAIN S.event \ {TimerUnit}) \cup Coscheduled(S)
                  \cup (IF active THEN {ClockUnit} ELSE {})
           e == [u \in D |-> IF u \in DOMAIN S.event THEN S.event[u] ELSE clock_time]
           a(u) == S.cosched_interval
                     + Accum(S.queue)[CHOOSE i \in DOMAIN S.queue : S.queue[i].unit = u]
           m == [u \in Units |->
                   IF u \in Coscheduled(S)
                   THEN S.usecs_remaining[u] + TickSize * (IF a(u) > 0 THEN a(u) - 1 ELSE 0)
                   ELSE S.usecs_remaining[u]]
           R == sim_stop_timer_services(S)
<1>1. /\ IsTimer(S) /\ S.queue \in Seq(Entries) /\ S.cosched_interval \in Int
      /\ S.usecs_remaining \in [Units -> Nat] /\ Coscheduled(S) \subseteq Units
      /\ DOMAIN S.event \subseteq Units \cup {TimerUnit, ClockUnit}
      /\ \A u \in DOMAIN S.event : S.event[u] \in Nat
      /\ TickSize \in Nat
  BY TimerTypes, TimerNumbers DEF Sound
<1>2. clock_time \in Nat
  BY <1>1
<1>3. \A u \in Coscheduled(S) : a(u) \in Int
  <2>1. ASSUME NEW u \in Coscheduled(S) PROVE a(u) \in Int
    <3> DEFINE x == Accum(S.queue)[PlaceOn(S.queue, u)]
    <3>1. x \in Int
      BY <1>1, PlaceExists DEF Coscheduled
    <3>2. a(u) = S.cosched_interval + x
      BY DEF PlaceOn
    <3> HIDE DEF x, a
    <3> QED BY <1>1, <3>1, <3>2
  <2> QED BY <2>1
<1> HIDE DEF clock_time, a
<1>4. /\ DOMAIN e = D /\ e \in [D -> Nat] /\ TimerUnit \notin D
      /\ D \subseteq Units \cup {TimerUnit, ClockUnit}
  BY <1>1, <1>2, TimerNumbers
<1> HIDE DEF e
<1>5. /\ m \in [Units -> Nat]
      /\ \A u \in Units \ Coscheduled(S) : m[u] = S.usecs_remaining[u]
  <2>1. \A i, j \in Nat : i * j \in Nat
    BY SMT
  <2>2. ASSUME NEW u \in Coscheduled(S)
        PROVE  S.usecs_remaining[u] + TickSize * (IF a(u) > 0 THEN a(u) - 1 ELSE 0) \in Nat
    <3> DEFINE x == IF a(u) > 0 THEN a(u) - 1 ELSE 0
               y == TickSize * x
    <3>1. x \in Nat
      BY <1>3
    <3> HIDE DEF x
    <3>2. y \in Nat
      BY <1>1, <2>1, <3>1
    <3>3. S.usecs_remaining[u] \in Nat
      BY <1>1
    <3> HIDE DEF y
    <3>4. S.usecs_remaining[u] + y \in Nat
      BY <3>2, <3>3
    <3> QED BY <3>4 DEF x, y
  <2>3. \A u \in Units : S.usecs_remaining[u] \in Nat
    BY <1>1
  <2> QED BY <2>2, <2>3
<1>6. R = [S EXCEPT !.queue = <<>>, !.cosched_interval = 0, !.event = e, !.usecs_remaining = m]
  BY DEF sim_stop_timer_services, e, clock_time, a
<1> HIDE DEF m, R
<1>7. /\ R.queue = <<>> /\ R.event = e /\ R.cosched_interval = 0
      /\ R.usecs_remaining = m /\ IsTimer(R)
  <2>1. <<>> \in Seq(Entries) /\ 0 \in Int
    OBVIOUS
  <2> QED BY <1>1, <1>4, <1>5, <1>6, <2>1 DEF IsTimer
<1>8. Coscheduled(R) = {} /\ InOrder(R.queue) /\ IntervalOfHead(R)
  BY <1>7 DEF Coscheduled, InOrder, IntervalOfHead
<1>9. Sound(R)
  BY <1>4, <1>7, <1>8 DEF Sound
<1> QED BY <1>4, <1>5, <1>7, <1>8, <1>9 DEF R

-----------------------------------------------------------------------------
(***************************************************************************)
(* The inductive invariant.                                                *)
(***************************************************************************)

OneTickIn(S) == TimerUnit \in DOMAIN S.event <=> ClockUnit \notin DOMAIN S.event

OwedIn(S) == \A u \in Units : S.usecs_remaining[u] # 0 => IsActive(S, u)

\* Between two actions the queues are sound, there is one event for the next
\* tick, and only units that wait are owed a delay.
GoodTimer(S) ==
  /\ Sound(S)
  /\ OneTickIn(S)
  /\ OwedIn(S)

IInv == TypeOK /\ GoodTimer(rtc)

LEMMA AddsKeepsGood ==
  ASSUME NEW S, NEW R, NEW u \in Units, Adds(S, R, {u}), OneTickIn(S),
         \A v \in Units \ {u} : S.usecs_remaining[v] # 0 => IsActive(S, v)
  PROVE  GoodTimer(R)
<1>1. OneTickIn(R)
  BY TimerNumbers DEF OneTickIn, Adds
<1>2. OwedIn(R)
  <2>1. ASSUME NEW v \in Units, R.usecs_remaining[v] # 0 PROVE IsActive(R, v)
    <3>1. CASE v = u
      BY <3>1 DEF Adds
    <3>2. CASE v # u
      <4>1. IsActive(S, v)
        BY <2>1, <3>2 DEF Adds
      <4> QED BY <4>1 DEF Adds, IsActive
    <3> QED BY <3>1, <3>2
  <2> QED BY <2>1 DEF OwedIn
<1> QED BY <1>1, <1>2 DEF GoodTimer, Adds

\* A call that adds a unit.
LEMMA CallKeepsGood ==
  ASSUME NEW S, GoodTimer(S), NEW u \in Units, NEW R, Adds(S, R, {u})
  PROVE  GoodTimer(R)
BY AddsKeepsGood DEF GoodTimer, OwedIn

LEMMA CancelKeepsGood ==
  ASSUME NEW S, GoodTimer(S), NEW u \in Cancellable
  PROVE  GoodTimer(sim_cancel(S, u))
<1> DEFINE R == sim_cancel(S, u)
<1>1. u \in Units /\ Sound(S)
  BY TimerNumbers DEF GoodTimer
<1>2. /\ Drops(S, R, u) /\ ~IsActive(R, u)
      /\ R.usecs_remaining[u] = IF IsActive(S, u) THEN 0 ELSE S.usecs_remaining[u]
  BY <1>1, CancelDrops
<1> HIDE DEF R
<1>3. OneTickIn(R)
  BY <1>1, <1>2, TimerNumbers DEF GoodTimer, OneTickIn, Drops
<1>4. OwedIn(R)
  <2>1. ASSUME NEW v \in Units, R.usecs_remaining[v] # 0 PROVE IsActive(R, v)
    <3>1. v # u
      BY <1>1, <1>2, <2>1 DEF GoodTimer, OwedIn
    <3>2. IsActive(S, v)
      BY <1>2, <2>1, <3>1 DEF GoodTimer, OwedIn, Drops
    <3> QED BY <1>2, <3>1, <3>2 DEF Drops, IsActive
  <2> QED BY <2>1 DEF OwedIn
<1>5. GoodTimer(R)
  BY <1>2, <1>3, <1>4 DEF GoodTimer, Drops
<1> QED BY <1>5 DEF R

\* The queues without the event of a unit that is dispatched.
LEMMA DispatchedKeeps ==
  ASSUME NEW S, GoodTimer(S), NEW u \in Units, u \in DOMAIN S.event
  PROVE  LET R == WithoutEventOf(S, u)
         IN  /\ Sound(R) /\ OneTickIn(R) /\ (IntervalOfHead(S) => IntervalOfHead(R))
             /\ R.usecs_remaining = S.usecs_remaining /\ ~IsActive(R, u)
             /\ \A v \in Units \ {u} : R.usecs_remaining[v] # 0 => IsActive(R, v)
<1> DEFINE R == WithoutEventOf(S, u)
<1>1. /\ Drops(S, R, u) /\ R.queue = S.queue /\ ~IsActive(R, u)
      /\ R.usecs_remaining = S.usecs_remaining
      /\ IntervalOfHead(S) <=> IntervalOfHead(R)
  BY WithoutEventDrops DEF GoodTimer
<1> HIDE DEF R
<1>2. OneTickIn(R)
  BY <1>1, TimerNumbers DEF GoodTimer, OneTickIn, Drops
<1>3. ASSUME NEW v \in Units \ {u}, R.usecs_remaining[v] # 0 PROVE IsActive(R, v)
  <2>1. IsActive(S, v)
    BY <1>1, <1>3 DEF GoodTimer, OwedIn
  <2> QED BY <1>1, <2>1 DEF Drops, IsActive
<1>4. Sound(R)
  BY <1>1 DEF Drops
<1> QED BY <1>1, <1>2, <1>3, <1>4 DEF R

LEMMA ActKeepsGood ==
  ASSUME NEW S, GoodTimer(S), NEW u \in Units, u \in DOMAIN S.event, S.usecs_remaining[u] = 0
  PROVE  GoodTimer(WithoutEventOf(S, u))
BY DispatchedKeeps DEF GoodTimer, OwedIn

LEMMA RequeueKeepsGood ==
  ASSUME NEW S, GoodTimer(S), NEW u \in Units, u \in DOMAIN S.event
  PROVE  GoodTimer(Reschedule(WithoutEventOf(S, u), u))
<1> DEFINE C == WithoutEventOf(S, u)
<1>1. /\ Sound(C) /\ OneTickIn(C)
      /\ \A v \in Units \ {u} : C.usecs_remaining[v] # 0 => IsActive(C, v)
  BY DispatchedKeeps
<1> HIDE DEF C
<1>2. Adds(C, Reschedule(C, u), {u})
  BY <1>1, RescheduleAdds
<1>3. GoodTimer(Reschedule(C, u))
  BY <1>1, <1>2, AddsKeepsGood
<1> QED BY <1>3 DEF C

\* The tick of the timer's unit.
LEMMA TickKeepsGood ==
  ASSUME NEW S, GoodTimer(S), TimerUnit \in DOMAIN S.event
  PROVE  LET C == WithoutEventOf(S, TimerUnit)
         IN  GoodTimer(sim_timer_tick_svc(C)) /\ Ticked(C, sim_timer_tick_svc(C))
<1> DEFINE C == WithoutEventOf(S, TimerUnit)
           R == sim_timer_tick_svc(C)
<1>1. /\ Drops(S, C, TimerUnit) /\ C.usecs_remaining = S.usecs_remaining
  BY WithoutEventDrops DEF GoodTimer
<1>2. Sound(C) /\ TimerUnit \notin DOMAIN C.event
  BY <1>1 DEF Drops
<1> HIDE DEF C
<1>3. Ticked(C, R)
  BY <1>2, TickDoes
<1> HIDE DEF R
<1>4. IsTimer(C) /\ DueUnits(C) \subseteq Units
  BY <1>2, TimerTypes DEF Sound, DueUnits
<1>5. OneTickIn(R)
  BY <1>1, <1>3, <1>4, TimerNumbers DEF GoodTimer, OneTickIn, Drops, Ticked
<1>6. OwedIn(R)
  <2>1. ASSUME NEW v \in Units, R.usecs_remaining[v] # 0 PROVE IsActive(R, v)
    <3>1. CASE v \in Coscheduled(C)
      BY <1>3, <3>1 DEF Ticked
    <3>2. CASE v \notin Coscheduled(C)
      <4>1. C.usecs_remaining[v] # 0
        BY <1>3, <2>1, <3>2 DEF Ticked, DueUnits
      <4>2. IsActive(S, v) /\ v # TimerUnit
        BY <1>1, <4>1, TimerNumbers DEF GoodTimer, OwedIn
      <4>3. v \in DOMAIN C.event
        BY <1>1, <3>2, <4>2 DEF Drops, IsActive
      <4> QED BY <1>3, <4>3 DEF Ticked, IsActive
    <3> QED BY <3>1, <3>2
  <2> QED BY <2>1 DEF OwedIn
<1>7. GoodTimer(R)
  BY <1>3, <1>5, <1>6 DEF GoodTimer, Ticked
<1> QED BY <1>3, <1>7 DEF R, C

\* The first tick after a stop.
LEMMA FirstTickKeepsGood ==
  ASSUME NEW S, GoodTimer(S), ClockUnit \in DOMAIN S.event
  PROVE  GoodTimer(ClockAction(WithoutEventOf(S, ClockUnit)))
<1> DEFINE C == WithoutEventOf(S, ClockUnit)
           R == ClockAction(C)
<1>1. /\ Drops(S, C, ClockUnit) /\ C.usecs_remaining = S.usecs_remaining
      /\ IntervalOfHead(S) <=> IntervalOfHead(C)
  BY WithoutEventDrops DEF GoodTimer
<1>2. Sound(C) /\ TimerUnit \notin DOMAIN C.event /\ ClockUnit \notin DOMAIN C.event
  BY <1>1 DEF Drops, GoodTimer, OneTickIn
<1> HIDE DEF C
<1>3. /\ Sound(R) /\ R.usecs_remaining = C.usecs_remaining
      /\ DOMAIN R.event = DOMAIN C.event \cup {TimerUnit}
      /\ Coscheduled(R) = Coscheduled(C)
      /\ IntervalOfHead(C) <=> IntervalOfHead(R)
  BY <1>2, ClockActs
<1> HIDE DEF R
<1>4. OneTickIn(R)
  BY <1>2, <1>3, TimerNumbers DEF OneTickIn
<1>5. OwedIn(R)
  <2>1. ASSUME NEW v \in Units, R.usecs_remaining[v] # 0 PROVE IsActive(R, v)
    <3>1. IsActive(S, v) /\ v # ClockUnit
      BY <1>1, <1>3, <2>1, TimerNumbers DEF GoodTimer, OwedIn
    <3> QED BY <1>1, <1>3, <3>1 DEF Drops, IsActive
  <2> QED BY <2>1 DEF OwedIn
<1>6. GoodTimer(R)
  BY <1>1, <1>3, <1>4, <1>5 DEF GoodTimer
<1> QED BY <1>6 DEF R, C

LEMMA InstructionKeepsGood ==
  ASSUME NEW S, GoodTimer(S), \A u \in DOMAIN S.event : S.event[u] > 0
  PROVE  GoodTimer(OneLess(S))
<1> DEFINE R == OneLess(S)
<1>1. /\ Sound(R) /\ DOMAIN R.event = DOMAIN S.event
      /\ R.usecs_remaining = S.usecs_remaining
      /\ \A v : IsActive(R, v) <=> IsActive(S, v)
      /\ IntervalOfHead(S) <=> IntervalOfHead(R)
  BY OneLessKeeps DEF GoodTimer
<1> HIDE DEF R
<1>2. GoodTimer(R)
  BY <1>1 DEF GoodTimer, OneTickIn, OwedIn
<1> QED BY <1>2 DEF R

LEMMA StopKeepsGood ==
  ASSUME NEW S, GoodTimer(S)
  PROVE  GoodTimer(sim_stop_timer_services(S))
<1> DEFINE R == sim_stop_timer_services(S)
<1>1. /\ Sound(R) /\ IntervalOfHead(R)
      /\ DOMAIN R.event = (DOMAIN S.event \ {TimerUnit}) \cup Coscheduled(S)
                           \cup (IF TimerUnit \in DOMAIN S.event THEN {ClockUnit} ELSE {})
      /\ \A u \in Units \ Coscheduled(S) : R.usecs_remaining[u] = S.usecs_remaining[u]
  BY StopDoes DEF GoodTimer
<1> HIDE DEF R
<1>2. Coscheduled(S) \subseteq Units
  BY TimerTypes DEF GoodTimer, Sound
<1>3. OneTickIn(R)
  BY <1>1, <1>2, TimerNumbers DEF GoodTimer, OneTickIn
<1>4. OwedIn(R)
  BY <1>1, TimerNumbers DEF GoodTimer, OwedIn, IsActive
<1>5. GoodTimer(R)
  BY <1>1, <1>3, <1>4 DEF GoodTimer
<1> QED BY <1>5 DEF R

\* At the start the clock has an event.
LEMMA InitIsGood ==
  ASSUME Init
  PROVE  IInv
<1> DEFINE e == [u \in {TimerUnit} |-> TickSize]
           m == [u \in Units |-> 0]
           c == 1 % Hz
<1>1. c \in 0..(Hz - 1) /\ TickSize \in Nat
  BY TimerAssumption, ModProperties
<1>2. e \in [DOMAIN e -> Nat] /\ DOMAIN e = {TimerUnit} /\ e[TimerUnit] = TickSize
  BY <1>1
<1>3. m \in [Units -> Nat] /\ \A u \in Units : m[u] = 0
  OBVIOUS
<1> HIDE DEF e, m, c
<1>4. rtc = [queue |-> <<>>, cosched_interval |-> 0, ticks |-> c, event |-> e,
             usecs_remaining |-> m]
  BY DEF Init, c, e, m
<1>5. IsTimer(rtc)
  <2>1. <<>> \in Seq(Entries) /\ 0 \in Int
    OBVIOUS
  <2> QED BY <1>1, <1>2, <1>3, <1>4, <2>1 DEF IsTimer
<1>6. /\ rtc.queue = <<>> /\ rtc.event = e /\ rtc.usecs_remaining = m
      /\ Coscheduled(rtc) = {}
  BY <1>4 DEF Coscheduled
<1>7. Sound(rtc) /\ IntervalOfHead(rtc)
  BY <1>1, <1>2, <1>5, <1>6 DEF Sound, InOrder, IntervalOfHead
<1>8. GoodTimer(rtc)
  BY <1>2, <1>3, <1>6, <1>7, TimerNumbers DEF GoodTimer, OneTickIn, OwedIn
<1>9. TypeOK
  <2>1. MaxStops \in Nat /\ 0 \in 0..MaxStops
    BY TimerAssumption
  <2>2. left \in [Units -> Nat \cup {-1}] /\ calibs \in [Units -> Nat]
    BY DEF Init
  <2> QED BY <1>5, <2>1, <2>2 DEF TypeOK, Init
<1> QED BY <1>8, <1>9 DEF IInv

\* A call by a device or a command.
LEMMA CallStep ==
  ASSUME IInv, NEW u \in Units, NEW t \in Nat, NEW S, GoodTimer(S), CallOf(S, u, t)
  PROVE  IInv'
<1>1. rtc' = S /\ pc' = pc /\ uptr' = uptr /\ stops' = stops
  BY DEF CallOf
<1>2. IsTimer(rtc')
  BY <1>1 DEF GoodTimer, Sound
<1>3. left' \in [Units -> Nat \cup {-1}]
  <2> DEFINE x == IF ~IsActive(S, u) THEN 0 ELSE IF IsActive(rtc, u) THEN left[u] ELSE t
  <2>1. left \in [Units -> Nat \cup {-1}] /\ left' = [left EXCEPT ![u] = x]
    BY DEF CallOf, IInv, TypeOK
  <2>2. x \in Nat \cup {-1}
    BY <2>1
  <2> HIDE DEF x
  <2> QED BY <2>1, <2>2
<1>4. calibs' \in [Units -> Nat]
  <2> DEFINE x == IF IsActive(S, u) /\ IsActive(rtc, u) THEN calibs[u] ELSE 0
  <2>1. calibs \in [Units -> Nat] /\ calibs' = [calibs EXCEPT ![u] = x]
    BY DEF CallOf, IInv, TypeOK
  <2>2. x \in Nat
    BY <2>1
  <2> HIDE DEF x
  <2> QED BY <2>1, <2>2
<1> QED BY <1>1, <1>2, <1>3, <1>4 DEF IInv, TypeOK, GoodTimer, Sound, OneTickIn, OwedIn,
           IntervalOfHead, IsActive, Coscheduled

\* The time to the next tick, and to one asked for.
LEMMA TimeToTickIsNat ==
  ASSUME GoodTimer(rtc), NEW ticks \in Ticks
  PROVE  ticks \in Nat /\ TimeToTick(rtc) \in Nat /\ AskedInTicks(ticks) \in Nat
<1>1. TimeToTick(rtc) \in Nat
  <2>1. IsTimer(rtc) /\ (TimerUnit \in DOMAIN rtc.event \/ ClockUnit \in DOMAIN rtc.event)
    BY DEF GoodTimer, Sound, OneTickIn
  <2> QED BY <2>1, TimerTypes DEF TimeToTick
<1>2. ticks \in Nat /\ TickSize \in Nat
  BY TicksAssumption, TimerAssumption
<1>3. ticks * TickSize \in Nat
  <2>1. \A i, j \in Nat : i * j \in Nat
    BY SMT
  <2> QED BY <2>1, <1>2
<1> QED BY <1>1, <1>2, <1>3 DEF AskedInTicks

\* When the queues are good and only they and the calibrations change.
LEMMA EventStep ==
  ASSUME IInv, GoodTimer(rtc'), pc' = pc, left' = left, stops' = stops,
         uptr' \in Units \cup {NoUnit}, calibs' = calibs \/ CalibrationsCounted
  PROVE  IInv'
<1>1. calibs' \in [Units -> Nat]
  <2>1. CASE calibs' = calibs
    BY <2>1 DEF IInv, TypeOK
  <2>2. CASE CalibrationsCounted
    <3>1. calibs \in [Units -> Nat]
      BY DEF IInv, TypeOK
    <3> QED BY <2>2, <3>1 DEF CalibrationsCounted
  <2> QED BY <2>1, <2>2
<1>2. TypeOK'
  BY <1>1 DEF IInv, TypeOK, GoodTimer, Sound
<1>3. GoodTimer(rtc)'
  BY DEF GoodTimer, Sound, OneTickIn, OwedIn, IntervalOfHead, IsActive, Coscheduled, InOrder, IsTimer
<1> QED BY <1>2, <1>3 DEF IInv

LEMMA CoscheduleTmrStep ==
  ASSUME IInv, NEW u \in Units, NEW t \in Ticks, CoscheduleTmr(u, t)
  PROVE  IInv'
<1> DEFINE S == sim_clock_coschedule_tmr(rtc, u, t)
<1>1. t \in Nat /\ AskedInTicks(t) \in Nat
  BY TimeToTickIsNat DEF IInv
<1>2. GoodTimer(S)
  BY <1>1, CoscheduleAdds, CallKeepsGood DEF IInv, GoodTimer
<1> HIDE DEF S
<1>3. CallOf(S, u, AskedInTicks(t))
  BY DEF CoscheduleTmr, S
<1> QED BY <1>1, <1>2, <1>3, CallStep

LEMMA ActivateAfterStep ==
  ASSUME IInv, NEW u \in Units, NEW d \in Usecs, ActivateAfter(u, d)
  PROVE  IInv'
<1> DEFINE b == pc = "instr"
           S == sim_timer_activate_after(rtc, u, d, b)
<1>1. d \in Nat /\ b \in BOOLEAN
  BY TicksAssumption
<1>2. CallOf(S, u, d)
  BY DEF ActivateAfter
<1> HIDE DEF b
<1>3. Adds(rtc, S, {u})
  BY <1>1, AfterAdds DEF IInv, GoodTimer
<1>4. GoodTimer(S)
  BY <1>3, CallKeepsGood DEF IInv
<1> HIDE DEF S
<1> QED BY <1>1, <1>2, <1>4, CallStep

LEMMA CoscheduleTmrAbsStep ==
  ASSUME IInv, NEW u \in Cancellable, NEW t \in Ticks, CoscheduleTmrAbs(u, t)
  PROVE  IInv'
<1> DEFINE C == sim_cancel(rtc, u)
           S == sim_clock_coschedule_tmr(C, u, t)
<1>1. t \in Nat /\ AskedInTicks(t) \in Nat /\ u \in Units
  BY TimeToTickIsNat, TimerNumbers DEF IInv
<1>2. GoodTimer(C)
  BY CancelKeepsGood DEF IInv
<1>3. /\ rtc' = S /\ left' = [left EXCEPT ![u] = AskedInTicks(t)]
      /\ calibs' = [calibs EXCEPT ![u] = 0] /\ UNCHANGED <<pc, uptr, stops>>
  BY DEF CoscheduleTmrAbs
<1> HIDE DEF C
<1>4. GoodTimer(S)
  BY <1>1, <1>2, CoscheduleAdds, CallKeepsGood DEF GoodTimer
<1> HIDE DEF S
<1>5. left' \in [Units -> Nat \cup {-1}] /\ calibs' \in [Units -> Nat]
  <2>1. left \in [Units -> Nat \cup {-1}] /\ calibs \in [Units -> Nat]
    BY DEF IInv, TypeOK
  <2> QED BY <1>1, <1>3, <2>1
<1>6. TypeOK'
  BY <1>3, <1>4, <1>5 DEF IInv, TypeOK, GoodTimer, Sound
<1>7. GoodTimer(rtc')
  BY <1>3, <1>4
<1> QED BY <1>6, <1>7 DEF IInv

LEMMA CancelStep ==
  ASSUME IInv, NEW u \in Cancellable, Cancel(u)
  PROVE  IInv'
<1> DEFINE S == sim_cancel(rtc, u)
<1>1. u \in Units /\ 0 \in Nat /\ GoodTimer(S) /\ CallOf(S, u, 0)
  BY TimerNumbers, CancelKeepsGood DEF IInv, Cancel
<1> HIDE DEF S
<1> QED BY <1>1, CallStep

LEMMA InstructionStep ==
  ASSUME IInv, Instruction
  PROVE  IInv'
<1>1. rtc' = OneLess(rtc) /\ \A u \in DOMAIN rtc.event : rtc.event[u] > 0
  BY DEF Instruction, OneLess
<1>2. GoodTimer(rtc')
  BY <1>1, InstructionKeepsGood DEF IInv
<1>3. left' \in [Units -> Nat \cup {-1}]
  <2>1. left \in [Units -> Nat \cup {-1}]
    BY DEF IInv, TypeOK
  <2>2. ASSUME NEW u \in Units
        PROVE  (IF u \notin Waiting THEN 0
                ELSE IF left[u] >= 0 THEN left[u] - 1 ELSE -1) \in Nat \cup {-1}
    <3>1. left[u] \in Nat \cup {-1}
      BY <2>1
    <3> QED BY <3>1
  <2> QED BY <2>2 DEF Instruction
<1>4. calibs' \in [Units -> Nat]
  <2>1. calibs \in [Units -> Nat]
    BY DEF IInv, TypeOK
  <2> QED BY <2>1 DEF Instruction
<1>5. TypeOK'
  BY <1>2, <1>3, <1>4 DEF Instruction, IInv, TypeOK, GoodTimer, Sound
<1> QED BY <1>2, <1>5 DEF IInv

LEMMA ProcessEventStep ==
  ASSUME IInv, ProcessEvent
  PROVE  IInv'
<1>1. GoodTimer(rtc) /\ uptr \in Units \cup {NoUnit}
  BY DEF IInv, TypeOK
<1>2. \A u : WithoutEvent(u) = WithoutEventOf(rtc, u)
  BY DEF WithoutEvent, WithoutEventOf
<1>3. CASE Tick
  <2>1. GoodTimer(rtc')
    BY <1>1, <1>2, <1>3, TickKeepsGood DEF Tick, Dispatched
  <2> QED BY <1>1, <1>3, <2>1, EventStep DEF Tick
<1>4. CASE FirstTick
  <2>1. GoodTimer(rtc')
    BY <1>1, <1>2, <1>4, FirstTickKeepsGood DEF FirstTick, Dispatched
  <2> QED BY <1>1, <1>4, <2>1, EventStep DEF FirstTick
<1>5. ASSUME NEW u \in Units, Act(u)
      PROVE  IInv'
  <2>1. GoodTimer(rtc')
    BY <1>1, <1>2, <1>5, ActKeepsGood DEF Act, Dispatched
  <2> QED BY <1>5, <2>1, EventStep DEF Act
<1>6. ASSUME NEW u \in Units, Requeue(u)
      PROVE  IInv'
  <2>1. GoodTimer(rtc')
    BY <1>1, <1>2, <1>6, RequeueKeepsGood DEF Requeue, Dispatched
  <2> QED BY <1>1, <1>6, <2>1, EventStep DEF Requeue
<1> QED BY <1>3, <1>4, <1>5, <1>6 DEF ProcessEvent

LEMMA ActionReturnsStep ==
  ASSUME IInv, ActionReturns
  PROVE  IInv'
<1>1. rtc' = rtc /\ pc' = pc /\ stops' = stops /\ uptr' = NoUnit
  BY DEF ActionReturns
<1>2. left' \in [Units -> Nat \cup {-1}] /\ calibs' \in [Units -> Nat]
  <2> DEFINE x == IF uptr \in Waiting THEN left[uptr] ELSE 0
             y == IF uptr \in Waiting THEN calibs[uptr] ELSE 0
  <2>1. /\ left \in [Units -> Nat \cup {-1}] /\ left' = [left EXCEPT ![uptr] = x]
        /\ calibs \in [Units -> Nat] /\ calibs' = [calibs EXCEPT ![uptr] = y]
        /\ uptr \in Units
    BY DEF ActionReturns, IInv, TypeOK
  <2>2. x \in Nat \cup {-1} /\ y \in Nat
    BY <2>1
  <2> HIDE DEF x, y
  <2> QED BY <2>1, <2>2
<1>3. GoodTimer(rtc')
  BY <1>1 DEF IInv
<1>4. TypeOK'
  BY <1>1, <1>2, <1>3 DEF IInv, TypeOK
<1> QED BY <1>3, <1>4 DEF IInv

\* Every step keeps the invariant.
LEMMA NextKeepsIInv ==
  ASSUME IInv, [Next]_vars
  PROVE  IInv'
<1>1. CASE UNCHANGED vars
  <2>1. rtc' = rtc /\ pc' = pc /\ uptr' = uptr /\ left' = left /\ calibs' = calibs /\ stops' = stops
    BY <1>1 DEF vars
  <2>2. GoodTimer(rtc')
    BY <2>1 DEF IInv
  <2> QED BY <2>1, <2>2, EventStep DEF IInv, TypeOK
<1>2. ASSUME NEW u \in Units, \/ \E t \in Ticks : CoscheduleTmr(u, t)
                              \/ \E d \in Usecs : ActivateAfter(u, d)
      PROVE  IInv'
  BY <1>2, CoscheduleTmrStep, ActivateAfterStep
<1>3. ASSUME NEW u \in Cancellable, \/ \E t \in Ticks : CoscheduleTmrAbs(u, t)
                                    \/ Cancel(u)
      PROVE  IInv'
  BY <1>3, CoscheduleTmrAbsStep, CancelStep
<1>4. CASE Instruction
  BY <1>4, InstructionStep
<1>5. CASE ProcessEvent
  BY <1>5, ProcessEventStep
<1>6. CASE ActionReturns
  BY <1>6, ActionReturnsStep
<1>7. CASE Stop
  <2>1. GoodTimer(rtc')
    BY <1>7, StopKeepsGood DEF Stop, IInv
  <2>2. stops' \in 0..MaxStops /\ pc' \in {"scp", "instr"}
    BY <1>7, TimerAssumption DEF Stop, IInv, TypeOK
  <2>3. TypeOK'
    BY <1>7, <2>1, <2>2 DEF Stop, IInv, TypeOK, GoodTimer, Sound
  <2> QED BY <2>1, <2>3 DEF IInv
<1>8. CASE Continue
  <2>1. GoodTimer(rtc')
    BY <1>8 DEF Continue, IInv
  <2>2. TypeOK'
    BY <1>8, <2>1 DEF Continue, IInv, TypeOK
  <2> QED BY <2>1, <2>2 DEF IInv
<1> QED BY <1>1, <1>2, <1>3, <1>4, <1>5, <1>6, <1>7, <1>8 DEF Next

LEMMA IInvHolds == Spec => []IInv
<1>1. Init => IInv
  BY InitIsGood
<1>2. IInv /\ [Next]_vars => IInv'
  BY NextKeepsIInv
<1> QED BY <1>1, <1>2, PTL DEF Spec

-----------------------------------------------------------------------------
(***************************************************************************)
(* What follows for the queues.                                            *)
(***************************************************************************)

\* A unit is on one queue, and once: _sim_activate, sim_clock_coschedule_tmr,
\* the tick and the stop never link in a unit that is on a queue already.
THEOREM UnitsAreOnOneQueue == Spec => []OnOneQueue
<1>1. IInv => OnOneQueue
  BY DEF IInv, GoodTimer, Sound, InOrder, OnOneQueue
<1> QED BY <1>1, IInvHolds, PTL

\* No usecs_remaining is left over in a unit that does not wait.
THEOREM OnlyWaitersAreOwed == Spec => []OnlyWaitingUnitsAreOwed
<1>1. IInv => OnlyWaitingUnitsAreOwed
  BY DEF IInv, GoodTimer, OwedIn, OnlyWaitingUnitsAreOwed, Waiting
<1> QED BY <1>1, IInvHolds, PTL

\* Through stops and continuations there is one event for the next tick.
THEOREM TheTickIsPending == Spec => []OneTickIsPending
<1>1. IInv => OneTickIsPending
  BY DEF IInv, GoodTimer, OneTickIn, OneTickIsPending
<1> QED BY <1>1, IInvHolds, PTL

-----------------------------------------------------------------------------
(***************************************************************************)
(* The ticks that are counted for the head of the coschedule queue.        *)
(***************************************************************************)

\* The cancellation of a unit that is not the head.
LEMMA CancelKeepsInterval ==
  ASSUME NEW S, Sound(S), NEW u \in Units, IntervalOfHead(S),
         ~(S.queue # <<>> /\ S.queue[1].unit = u)
  PROVE  IntervalOfHead(sim_cancel(S, u))
<1>1. CASE u \in Coscheduled(S)
  <2> DEFINE k == CHOOSE i \in DOMAIN S.queue : S.queue[i].unit = u
             q == Unlink(S.queue, k)
             c == IF q = <<>> THEN 0 ELSE S.cosched_interval
             n == Len(S.queue)
             R == sim_cancel(S, u)
  <2>1. IsTimer(S) /\ S.queue \in Seq(Entries) /\ InOrder(S.queue)
    BY TimerTypes DEF Sound
  <2>2. n \in Nat /\ DOMAIN S.queue = 1..n
    BY <2>1, EntryTypes
  <2>3. k \in DOMAIN S.queue /\ S.queue[k].unit = u
    BY <1>1, <2>1, <2>2, EntryOf
  <2>4. R.queue = q /\ R.cosched_interval = c
    BY <1>1, <2>1 DEF sim_cancel, _sim_coschedule_cancel, IsTimer
  <2> HIDE DEF k, R
  <2>5. k # 1 /\ k \in 1..n
    BY <2>2, <2>3
  <2>6. q # <<>> => q[1] = S.queue[1]
    BY <2>1, <2>2, <2>5 DEF Unlink
  <2>7. S.queue # <<>>
    BY <2>2, <2>5
  <2> HIDE DEF q
  <2> QED BY <2>4, <2>6, <2>7 DEF IntervalOfHead, R
<1>2. CASE u \notin Coscheduled(S) /\ u \in DOMAIN S.event
  <2>1. sim_cancel(S, u).queue = S.queue
        /\ sim_cancel(S, u).cosched_interval = S.cosched_interval
    BY <1>2 DEF sim_cancel, Sound, IsTimer
  <2> QED BY <2>1 DEF IntervalOfHead
<1>3. CASE u \notin Coscheduled(S) /\ u \notin DOMAIN S.event
  BY <1>3 DEF sim_cancel
<1> QED BY <1>1, <1>2, <1>3

\* An event leaves the coschedule queue alone, except for the tick, after which the
\* new head waits for cosched_interval whatever was the case before.
LEMMA EventKeepsInterval ==
  ASSUME IInv, ProcessEvent, IntervalOfHead(rtc) \/ Tick
  PROVE  IntervalOfHead(rtc')
<1>1. GoodTimer(rtc) /\ Sound(rtc) /\ \A u : WithoutEvent(u) = WithoutEventOf(rtc, u)
  BY DEF IInv, GoodTimer, WithoutEvent, WithoutEventOf
<1>2. CASE Tick
  <2>1. Ticked(WithoutEventOf(rtc, TimerUnit), rtc')
    BY <1>1, <1>2, TickKeepsGood DEF Tick, Dispatched
  <2> QED BY <2>1 DEF Ticked
<1>3. CASE ~Tick /\ FirstTick
  <2> DEFINE C == WithoutEventOf(rtc, ClockUnit)
  <2>1. /\ Drops(rtc, C, ClockUnit) /\ (IntervalOfHead(rtc) <=> IntervalOfHead(C))
        /\ ClockUnit \in DOMAIN rtc.event /\ rtc' = ClockAction(C)
    BY <1>1, <1>3, WithoutEventDrops DEF FirstTick, Dispatched
  <2>2. Sound(C) /\ TimerUnit \notin DOMAIN C.event
    BY <1>1, <2>1 DEF Drops, GoodTimer, OneTickIn
  <2> HIDE DEF C
  <2> QED BY <1>3, <2>1, <2>2, ClockActs
<1>4. ASSUME NEW u \in Units, Act(u) \/ Requeue(u), ~Tick
      PROVE  IntervalOfHead(rtc')
  <2> DEFINE C == WithoutEventOf(rtc, u)
  <2>1. u \in DOMAIN rtc.event /\ (rtc' = C \/ rtc' = Reschedule(C, u))
    BY <1>1, <1>4 DEF Act, Requeue, Dispatched
  <2>2. Sound(C) /\ IntervalOfHead(C)
    BY <1>1, <1>4, <2>1, DispatchedKeeps
  <2> HIDE DEF C
  <2>3. IntervalOfHead(Reschedule(C, u))
    BY <2>2, RescheduleAdds DEF Adds
  <2> QED BY <2>1, <2>2, <2>3
<1> QED BY <1>2, <1>3, <1>4 DEF ProcessEvent

\* So does every other step that does not cancel the head.
LEMMA NextKeepsInterval ==
  ASSUME IInv, [Next]_vars, ~HeadIsCancelled, IntervalOfHead(rtc) \/ Tick
  PROVE  IntervalOfHead(rtc')
<1>1. GoodTimer(rtc) /\ Sound(rtc)
  BY DEF IInv, GoodTimer
<1>2. CASE ProcessEvent
  BY <1>2, EventKeepsInterval
<1> SUFFICES ASSUME ~ProcessEvent PROVE IntervalOfHead(rtc')
  BY <1>2
<1>3. IntervalOfHead(rtc)
  BY DEF ProcessEvent
<1>4. ASSUME NEW u \in Units, NEW t \in Ticks, CoscheduleTmr(u, t)
      PROVE  IntervalOfHead(rtc')
  <2>1. t \in Nat /\ rtc' = sim_clock_coschedule_tmr(rtc, u, t)
    BY <1>4, TicksAssumption DEF CoscheduleTmr, CallOf
  <2> QED BY <1>1, <1>3, <2>1, CoscheduleAdds DEF Adds
<1>5. ASSUME NEW u \in Units, NEW d \in Usecs, ActivateAfter(u, d)
      PROVE  IntervalOfHead(rtc')
  <2>1. /\ d \in Nat /\ (pc = "instr") \in BOOLEAN
        /\ rtc' = sim_timer_activate_after(rtc, u, d, pc = "instr")
    BY <1>5, TicksAssumption DEF ActivateAfter, CallOf
  <2>2. Adds(rtc, rtc', {u})
    BY <1>1, <2>1, AfterAdds
  <2> QED BY <1>3, <2>2 DEF Adds
<1>6. ASSUME NEW u \in Cancellable, Cancel(u) \/ \E t \in Ticks : CoscheduleTmrAbs(u, t)
      PROVE  IntervalOfHead(rtc')
  <2> DEFINE C == sim_cancel(rtc, u)
  <2>1. u \in Units /\ ~(rtc.queue # <<>> /\ rtc.queue[1].unit = u)
    BY <1>6, TimerNumbers DEF HeadIsCancelled
  <2>2. IntervalOfHead(C) /\ Sound(C)
    BY <1>1, <1>3, <1>6, <2>1, CancelKeepsInterval, CancelKeepsGood DEF GoodTimer
  <2>3. rtc' = C \/ \E t \in Ticks : rtc' = sim_clock_coschedule_tmr(C, u, t)
    BY <1>6 DEF Cancel, CallOf, CoscheduleTmrAbs
  <2> HIDE DEF C
  <2>4. ASSUME NEW t \in Ticks, rtc' = sim_clock_coschedule_tmr(C, u, t)
        PROVE  IntervalOfHead(rtc')
    <3>1. t \in Nat
      BY TicksAssumption
    <3> QED BY <2>1, <2>2, <2>4, <3>1, CoscheduleAdds DEF Adds
  <2> QED BY <2>2, <2>3, <2>4
<1>7. CASE Instruction
  <2>1. rtc' = OneLess(rtc) /\ \A u \in DOMAIN rtc.event : rtc.event[u] > 0
    BY <1>7 DEF Instruction, OneLess
  <2> QED BY <1>1, <1>3, <2>1, OneLessKeeps
<1>8. CASE Stop
  BY <1>1, <1>8, StopDoes DEF Stop
<1>9. CASE ActionReturns \/ Continue \/ UNCHANGED vars
  <2>1. rtc' = rtc
    BY <1>9 DEF ActionReturns, Continue, vars
  <2> QED BY <1>3, <2>1
<1> QED BY <1>4, <1>5, <1>6, <1>7, <1>8, <1>9 DEF Next

\* cosched_interval follows the head of the queue: only the cancellation of the head,
\* for which _sim_coschedule_cancel does not set it, leaves it behind, and the next
\* tick at the latest puts it right.
THEOREM IntervalFollowsTheHead == Spec => IntervalFollowsHead
<1>1. IInv /\ [Next]_vars =>
        [~IntervalIsOfHead' => HeadIsCancelled \/ (~IntervalIsOfHead /\ ~Tick)]_vars
  <2> SUFFICES ASSUME IInv, [Next]_vars, ~HeadIsCancelled, IntervalIsOfHead \/ Tick
               PROVE  IntervalIsOfHead'
    OBVIOUS
  <2>1. IntervalOfHead(rtc')
    BY NextKeepsInterval DEF IntervalIsOfHead, IntervalOfHead
  <2> QED BY <2>1 DEF IntervalIsOfHead, IntervalOfHead
<1> QED BY <1>1, IInvHolds, PTL DEF Spec, IntervalFollowsHead

-----------------------------------------------------------------------------
(***************************************************************************)
(* Without stops: when a unit fires.                                       *)
(***************************************************************************)

AtLeastOne(t) == IF t >= 1 THEN t ELSE 1

\* What a unit that waits still has to wait for: a unit on the coschedule queue
\* waits for the tick that takes it off, and every unit for what it is owed.
TimeLeft(S, u) ==
  S.usecs_remaining[u] +
    IF u \in DOMAIN S.event THEN S.event[u]
    ELSE S.event[TimerUnit] + (AtLeastOne(TicksTo(S, u)) - 1) * TickSize

\* A unit comes off the coschedule queue at the tick that calibrates the timer,
\* or at the one before, or is owed no more than what is left until then.
RestFits(S, u) ==
  LET x == Hz - S.ticks - AtLeastOne(TicksTo(S, u))
  IN  u \in Coscheduled(S) /\ S.usecs_remaining[u] # 0 =>
        \/ x \in {0, 1}
        \/ x >= 1 /\ S.usecs_remaining[u] <= x * TickSize

\* l is the time left of what was asked for u, and c counts the calibrations.
FiresInTime(S, u, l) ==
  TimeLeft(S, u) <= l /\ (u \in DOMAIN S.event => S.usecs_remaining[u] = 0)

FiresNotTooEarly(S, u, l, c) ==
  l <= TimeLeft(S, u) + TickSize * (1 + c) /\ RestFits(S, u)

LEMMA TickProducts ==
  /\ \A x \in Nat : x * TickSize \in Nat
  /\ \A x \in Int : x * TickSize \in Int /\ (x - 1) * TickSize = x * TickSize - TickSize
  /\ 0 * TickSize = 0 /\ 1 * TickSize = TickSize
  /\ \A c \in Nat : TickSize * c \in Nat /\ TickSize * (1 + c) = TickSize + TickSize * c
                    /\ TickSize * (1 + (c + 1)) = TickSize + TickSize * (1 + c)
<1>1. TickSize \in Nat
  BY TimerAssumption
<1>2. \A i, j \in Nat : i * j \in Nat
  BY SMT
<1>3. \A x \in Nat : x * TickSize \in Nat
  BY <1>1, <1>2
<1>4. \A x \in Int : x * TickSize \in Int /\ (x - 1) * TickSize = x * TickSize - TickSize
  BY <1>1, SMT
<1>5. 0 * TickSize = 0 /\ 1 * TickSize = TickSize
  BY <1>1, SMT
<1>6. ASSUME NEW c \in Nat
      PROVE  /\ TickSize * c \in Nat /\ TickSize * (1 + c) = TickSize + TickSize * c
             /\ TickSize * (1 + (c + 1)) = TickSize + TickSize * (1 + c)
  <2>1. TickSize * c \in Nat
    BY <1>1, <1>2
  <2>2. TickSize * (1 + c) = TickSize + TickSize * c
    BY <1>1, SMT
  <2>3. TickSize * (1 + (c + 1)) = TickSize + TickSize * (1 + c)
    BY <1>1, SMT
  <2> QED BY <2>1, <2>2, <2>3
<1> QED BY <1>3, <1>4, <1>5, <1>6

\* The two sums of which TimeLeft is one.
LEMMA TimeLeftIs ==
  ASSUME NEW S, Sound(S), TimerUnit \in DOMAIN S.event, NEW u \in Units, IsActive(S, u)
  PROVE  /\ TimeLeft(S, u) \in Nat /\ S.usecs_remaining[u] \in Nat
         /\ S.event[TimerUnit] \in Nat /\ S.event[TimerUnit] <= TickSize
         /\ u \in DOMAIN S.event =>
              /\ u \notin Coscheduled(S) /\ S.event[u] \in Nat
              /\ TimeLeft(S, u) = S.usecs_remaining[u] + S.event[u]
         /\ u \notin DOMAIN S.event =>
              /\ u \in Coscheduled(S) /\ TicksTo(S, u) \in Int
              /\ AtLeastOne(TicksTo(S, u)) - 1 \in Nat
              /\ (AtLeastOne(TicksTo(S, u)) - 1) * TickSize \in Nat
              /\ TimeLeft(S, u) = S.usecs_remaining[u] +
                   (S.event[TimerUnit] + (AtLeastOne(TicksTo(S, u)) - 1) * TickSize)
<1>1. /\ IsTimer(S) /\ S.usecs_remaining[u] \in Nat
      /\ S.event[TimerUnit] \in Nat /\ S.event[TimerUnit] <= TickSize
  BY TimerTypes DEF Sound
<1>2. CASE u \in DOMAIN S.event
  <2>1. S.event[u] \in Nat /\ u \notin Coscheduled(S)
    BY <1>1, <1>2, TimerTypes DEF Sound
  <2> QED BY <1>1, <1>2, <2>1 DEF TimeLeft
<1>3. CASE u \notin DOMAIN S.event
  <2> DEFINE x == AtLeastOne(TicksTo(S, u)) - 1
             y == x * TickSize
  <2>1. u \in Coscheduled(S) /\ TicksTo(S, u) \in Int
    BY <1>3, AheadKeeps DEF IsActive, Sound
  <2>2. x \in Nat
    BY <2>1 DEF AtLeastOne
  <2>3. TimeLeft(S, u) = S.usecs_remaining[u] + (S.event[TimerUnit] + y)
    BY <1>3 DEF TimeLeft
  <2> HIDE DEF x
  <2>4. y \in Nat
    BY <2>2, TickProducts
  <2> HIDE DEF y
  <2>5. TimeLeft(S, u) \in Nat
    BY <1>1, <2>3, <2>4
  <2> QED BY <1>1, <1>3, <2>1, <2>2, <2>3, <2>4, <2>5 DEF x, y
<1> QED BY <1>2, <1>3

\* For the other units nothing changes when some are added.
LEMMA AddsKeepTime ==
  ASSUME NEW S, NEW R, NEW U, Adds(S, R, U), TimerUnit \in DOMAIN S.event,
         NEW u \in Units, u \notin U, IsActive(S, u)
  PROVE  /\ TimeLeft(R, u) = TimeLeft(S, u) /\ (RestFits(S, u) => RestFits(R, u))
         /\ u \in DOMAIN R.event <=> u \in DOMAIN S.event
         /\ R.usecs_remaining[u] = S.usecs_remaining[u]
<1>1. /\ R.usecs_remaining[u] = S.usecs_remaining[u] /\ R.ticks = S.ticks
      /\ R.event[TimerUnit] = S.event[TimerUnit]
      /\ u \in DOMAIN R.event <=> u \in DOMAIN S.event
      /\ u \in DOMAIN S.event => R.event[u] = S.event[u]
      /\ u \in Coscheduled(R) <=> u \in Coscheduled(S)
      /\ u \in Coscheduled(S) => TicksTo(R, u) = TicksTo(S, u)
  BY DEF Adds
<1>2. u \notin DOMAIN S.event => u \in Coscheduled(S)
  BY DEF IsActive
<1>3. TimeLeft(R, u) = TimeLeft(S, u)
  BY <1>1, <1>2 DEF TimeLeft
<1>4. RestFits(S, u) => RestFits(R, u)
  BY <1>1 DEF RestFits
<1> QED BY <1>1, <1>3, <1>4

\* A delay that is divided is not prolonged; it loses at most a tick, and
\* none when it does not reach beyond the tick that calibrates.
LEMMA DividedTime ==
  ASSUME NEW S, NEW R, Sound(S), Sound(R), R.ticks = S.ticks,
         TimerUnit \in DOMAIN S.event, TimerUnit \in DOMAIN R.event,
         R.event[TimerUnit] = S.event[TimerUnit],
         NEW u \in Units, IsActive(R, u), NEW d \in Nat, Divided(S, R, u, d)
  PROVE  /\ FiresInTime(R, u, d) /\ d <= TimeLeft(R, u) + TickSize /\ RestFits(R, u)
         /\ d <= TilCalib(S) \/ TicksBefore(S) = 0 => TimeLeft(R, u) = d
<1> DEFINE til == S.event[TimerUnit]
           x == TicksBefore(S)
           z == x * TickSize
           m == R.usecs_remaining[u]
           T == TimeLeft(R, u)
           a == AtLeastOne(TicksTo(R, u)) - 1
           y == a * TickSize
           r == Hz - R.ticks - AtLeastOne(TicksTo(R, u))
<1>1. /\ til \in Nat /\ til <= TickSize /\ m \in Nat /\ T \in Nat /\ TickSize \in Nat
      /\ Hz \in Nat /\ S.ticks \in 0..(Hz - 1)
  <2>1. IsTimer(S)
    BY DEF Sound
  <2>2. til \in Nat /\ til <= TickSize /\ m \in Nat /\ T \in Nat
    BY TimeLeftIs
  <2> QED BY <2>1, <2>2, TimerTypes, TimerNumbers
<1>2. /\ x \in Nat /\ x = Hz - S.ticks - 1 /\ InstTilTick(S) = til /\ TilCalib(S) = til + z
  BY <1>1 DEF TicksBefore, InstTilTick, TilCalib
<1>3. z \in Nat /\ (x - 1) * TickSize = z - TickSize /\ (x = 0 => z = 0)
  <2>1. x \in Nat /\ x \in Int
    BY <1>2
  <2> HIDE DEF x
  <2>2. z \in Nat
    BY <2>1, TickProducts, Zenon
  <2>3. (x - 1) * TickSize = z - TickSize
    BY <2>1, TickProducts, Zenon
  <2>4. ASSUME x = 0
        PROVE  z = 0
    <3>1. z = 0 * TickSize
      BY <2>4, Zenon
    <3> QED BY <3>1, TickProducts, Zenon
  <2> QED BY <2>2, <2>3, <2>4, Zenon
<1>4. RestFits(R, u) <=> (u \in Coscheduled(R) /\ m # 0 => r \in {0, 1} \/ (r >= 1 /\ m <= r * TickSize))
  BY DEF RestFits
<1>5. /\ u \in DOMAIN R.event => u \notin Coscheduled(R) /\ T = m + R.event[u] /\ R.event[u] \in Nat
      /\ u \in Coscheduled(R) => u \notin DOMAIN R.event /\ T = m + (til + y)
  <2>1. Coscheduled(R) \cap DOMAIN R.event = {}
    BY DEF Sound
  <2> QED BY <2>1, TimeLeftIs
<1>6. \/ u \in DOMAIN R.event /\ R.event[u] = d /\ m = 0
      \/ d > til + z /\ u \in Coscheduled(R) /\ TicksTo(R, u) = x /\ m = d - (til + z)
      \/ d <= til + z /\ x >= 1 /\ u \in Coscheduled(R) /\ TicksTo(R, u) = 0 /\ m = d - til
  BY <1>2 DEF Divided
<1>7. SUFFICES /\ T <= d /\ (u \in DOMAIN R.event => m = 0) /\ d <= T + TickSize
               /\ RestFits(R, u) /\ (d <= til + z \/ x = 0 => T = d)
  BY <1>2 DEF FiresInTime
<1> HIDE DEF til, x, z, m, T
<1>8. ASSUME u \in DOMAIN R.event, R.event[u] = d, m = 0
      PROVE  /\ T <= d /\ (u \in DOMAIN R.event => m = 0) /\ d <= T + TickSize
             /\ RestFits(R, u) /\ (d <= til + z \/ x = 0 => T = d)
  BY <1>1, <1>4, <1>5, <1>8
<1>9. ASSUME d > til + z, u \in Coscheduled(R), TicksTo(R, u) = x, m = d - (til + z)
      PROVE  /\ T <= d /\ (u \in DOMAIN R.event => m = 0) /\ d <= T + TickSize
             /\ RestFits(R, u) /\ (d <= til + z \/ x = 0 => T = d)
  <2>1. T = m + (til + y) /\ u \notin DOMAIN R.event
    BY <1>5, <1>9
  <2>2. CASE x = 0
    <3>1. a = 0 /\ r = 0
      BY <1>1, <1>2, <1>9, <2>2 DEF AtLeastOne
    <3>2. y = 0
      BY <3>1, TickProducts
    <3> HIDE DEF a, y, r
    <3> QED BY <1>1, <1>3, <1>4, <1>9, <2>1, <2>2, <3>1, <3>2
  <2>3. CASE x # 0
    <3>1. a = x - 1 /\ r = 1
      BY <1>1, <1>2, <1>9, <2>3 DEF AtLeastOne
    <3> HIDE DEF a
    <3>2. y = z - TickSize
      BY <1>3, <3>1
    <3> HIDE DEF y, r
    <3> QED BY <1>1, <1>3, <1>4, <1>9, <2>1, <2>3, <3>1, <3>2
  <2> QED BY <2>2, <2>3
<1>10. ASSUME d <= til + z, x >= 1, u \in Coscheduled(R), TicksTo(R, u) = 0, m = d - til
       PROVE  /\ T <= d /\ (u \in DOMAIN R.event => m = 0) /\ d <= T + TickSize
              /\ RestFits(R, u) /\ (d <= til + z \/ x = 0 => T = d)
  <2>1. T = m + (til + y) /\ u \notin DOMAIN R.event
    BY <1>5, <1>10
  <2>2. a = 0 /\ r = x
    BY <1>1, <1>2, <1>10 DEF AtLeastOne
  <2>3. y = 0 /\ r * TickSize = z
    <3>1. y = 0
      BY <2>2, TickProducts
    <3>2. r * TickSize = z
      BY <2>2 DEF z
    <3> QED BY <3>1, <3>2
  <2> HIDE DEF a, y
  <2> DEFINE w == r * TickSize
  <2>4. w = z
    BY <2>3
  <2> HIDE DEF w, r
  <2>5. m <= w
    BY <1>1, <1>3, <1>10, <2>4
  <2>6. RestFits(R, u)
    BY <1>4, <1>10, <2>2, <2>5 DEF w
  <2> QED BY <1>1, <1>3, <1>10, <2>1, <2>3, <2>6
<1> QED BY <1>6, <1>8, <1>9, <1>10

\* When a unit is taken off, no other unit fires later.
LEMMA DropsKeepInTime ==
  ASSUME NEW S, NEW R, NEW u, Sound(S), Drops(S, R, u), TimerUnit \in DOMAIN S.event,
         u # TimerUnit, NEW v \in Units, v # u, IsActive(S, v)
  PROVE  /\ IsActive(R, v) /\ TimeLeft(R, v) <= TimeLeft(S, v)
         /\ v \in DOMAIN R.event <=> v \in DOMAIN S.event
         /\ R.usecs_remaining[v] = S.usecs_remaining[v]
<1>1. /\ Sound(R) /\ TimerUnit \in DOMAIN R.event /\ R.event[TimerUnit] = S.event[TimerUnit]
      /\ R.usecs_remaining[v] = S.usecs_remaining[v]
      /\ v \in DOMAIN R.event <=> v \in DOMAIN S.event
      /\ v \in DOMAIN S.event => R.event[v] = S.event[v]
      /\ v \in Coscheduled(R) <=> v \in Coscheduled(S)
      /\ v \in Coscheduled(R) => TicksTo(R, v) <= TicksTo(S, v)
  BY DEF Drops
<1>2. IsActive(R, v)
  BY <1>1 DEF IsActive
<1>3. TimeLeft(R, v) <= TimeLeft(S, v)
  <2>1. TimeLeft(R, v) \in Nat /\ TimeLeft(S, v) \in Nat
    BY <1>1, <1>2, TimeLeftIs
  <2>2. CASE v \in DOMAIN S.event
    <3>1. TimeLeft(R, v) = TimeLeft(S, v)
      BY <1>1, <2>2 DEF TimeLeft
    <3> QED BY <2>1, <3>1
  <2>3. CASE v \notin DOMAIN S.event
    <3> DEFINE a == AtLeastOne(TicksTo(R, v)) - 1
               b == AtLeastOne(TicksTo(S, v)) - 1
               c == b - a
               m == S.usecs_remaining[v]
               til == S.event[TimerUnit]
    <3>1. /\ a \in Nat /\ b \in Nat /\ m \in Nat /\ til \in Nat
          /\ a * TickSize \in Nat /\ b * TickSize \in Nat
          /\ TimeLeft(R, v) = m + (til + a * TickSize)
          /\ TimeLeft(S, v) = m + (til + b * TickSize)
      BY <1>1, <1>2, <2>3, TimeLeftIs
    <3>2. TicksTo(R, v) \in Int /\ TicksTo(S, v) \in Int /\ TicksTo(R, v) <= TicksTo(S, v)
      BY <1>1, <1>2, <2>3, TimeLeftIs DEF IsActive
    <3>3. a <= b
      BY <3>2 DEF AtLeastOne
    <3> HIDE DEF a, b, m, til
    <3>4. c \in Nat /\ b = a + c
      BY <3>1, <3>3
    <3> HIDE DEF c
    <3>5. c * TickSize \in Nat /\ b * TickSize = a * TickSize + c * TickSize
      <4>1. \A i, j, k \in Nat : (i + j) * k = i * k + j * k
        BY SMT
      <4>2. TickSize \in Nat
        BY TimerNumbers
      <4> QED BY <3>1, <3>4, <4>1, <4>2, TickProducts
    <3> QED BY <3>1, <3>5
  <2> QED BY <2>2, <2>3
<1> QED BY <1>1, <1>2, <1>3

\* Nothing changes for the others when u is acted on.
LEMMA DispatchKeepsTime ==
  ASSUME NEW S, Sound(S), NEW u \in DOMAIN S.event, TimerUnit \in DOMAIN S.event,
         u # TimerUnit, NEW v \in Units, v # u
  PROVE  LET R == WithoutEventOf(S, u)
         IN  /\ IsActive(R, v) <=> IsActive(S, v)
             /\ IsActive(S, v) => TimeLeft(R, v) = TimeLeft(S, v)
             /\ RestFits(S, v) => RestFits(R, v)
             /\ v \in DOMAIN R.event <=> v \in DOMAIN S.event
             /\ R.usecs_remaining[v] = S.usecs_remaining[v]
<1> DEFINE R == WithoutEventOf(S, u)
<1>1. /\ Drops(S, R, u) /\ R.queue = S.queue
      /\ R.usecs_remaining = S.usecs_remaining /\ \A w : TicksTo(R, w) = TicksTo(S, w)
  BY WithoutEventDrops
<1> HIDE DEF R
<1>2. /\ Coscheduled(R) = Coscheduled(S) /\ R.ticks = S.ticks
      /\ DOMAIN R.event = DOMAIN S.event \ {u} /\ R.event[TimerUnit] = S.event[TimerUnit]
      /\ v \in DOMAIN S.event => R.event[v] = S.event[v]
  BY <1>1 DEF Drops, Coscheduled
<1> QED BY <1>1, <1>2 DEF R, IsActive, TimeLeft, RestFits

\* All units are nearer by an instruction.
LEMMA OneLessTime ==
  ASSUME NEW S, Sound(S), TimerUnit \in DOMAIN S.event,
         \A u \in DOMAIN S.event : S.event[u] > 0, NEW u \in Units
  PROVE  LET R == OneLess(S)
         IN  /\ IsActive(R, u) <=> IsActive(S, u)
             /\ IsActive(S, u) => TimeLeft(R, u) = TimeLeft(S, u) - 1 /\ TimeLeft(S, u) >= 1
             /\ RestFits(S, u) => RestFits(R, u)
             /\ u \in DOMAIN R.event <=> u \in DOMAIN S.event
             /\ R.usecs_remaining[u] = S.usecs_remaining[u]
<1> DEFINE R == OneLess(S)
<1>1. /\ Sound(R) /\ DOMAIN R.event = DOMAIN S.event
      /\ \A v \in DOMAIN S.event : R.event[v] = S.event[v] - 1
      /\ R.usecs_remaining = S.usecs_remaining /\ R.ticks = S.ticks
      /\ Coscheduled(R) = Coscheduled(S) /\ \A v : TicksTo(R, v) = TicksTo(S, v)
      /\ IsActive(R, u) <=> IsActive(S, u)
  BY OneLessKeeps
<1> HIDE DEF R
<1>2. RestFits(S, u) => RestFits(R, u)
  BY <1>1 DEF RestFits
<1>3. ASSUME IsActive(S, u)
      PROVE  TimeLeft(R, u) = TimeLeft(S, u) - 1 /\ TimeLeft(S, u) >= 1
  <2> DEFINE m == S.usecs_remaining[u]
             til == S.event[TimerUnit]
             y == (AtLeastOne(TicksTo(S, u)) - 1) * TickSize
  <2>1. R.event[TimerUnit] = til - 1 /\ til > 0
    BY <1>1
  <2>2. CASE u \in DOMAIN S.event
    <3>1. TimeLeft(S, u) = m + S.event[u] /\ S.event[u] \in Nat /\ S.event[u] > 0 /\ m \in Nat
      BY <1>3, <2>2, TimeLeftIs
    <3>2. TimeLeft(R, u) = m + (S.event[u] - 1)
      BY <1>1, <2>2 DEF TimeLeft
    <3> QED BY <3>1, <3>2
  <2>3. CASE u \notin DOMAIN S.event
    <3>1. TimeLeft(S, u) = m + (til + y) /\ m \in Nat /\ til \in Nat /\ y \in Nat
      BY <1>3, <2>3, TimeLeftIs
    <3>2. TimeLeft(R, u) = m + ((til - 1) + y)
      BY <1>1, <2>1, <2>3 DEF TimeLeft
    <3> HIDE DEF m, til, y
    <3> QED BY <2>1, <3>1, <3>2
  <2> QED BY <2>2, <2>3
<1> QED BY <1>1, <1>2, <1>3 DEF R
\* A tick makes nothing later, and only the tick that calibrates the timer makes
\* a unit earlier, by less than a tick.
LEMMA TickTime ==
  ASSUME NEW S, Sound(S), TimerUnit \in DOMAIN S.event, S.event[TimerUnit] = 0,
         NEW R, Ticked(WithoutEventOf(S, TimerUnit), R), NEW v \in Units, IsActive(S, v),
         v \in DOMAIN S.event => S.usecs_remaining[v] = 0
  PROVE  /\ IsActive(R, v) /\ TimeLeft(R, v) <= TimeLeft(S, v)
         /\ v \in DOMAIN R.event => R.usecs_remaining[v] = 0
         /\ RestFits(S, v) =>
              /\ RestFits(R, v)
              /\ TimeLeft(S, v) <= TimeLeft(R, v) + (IF R.ticks = 0 THEN TickSize ELSE 0)
<1> DEFINE C == WithoutEventOf(S, TimerUnit)
           m == S.usecs_remaining[v]
           a == TicksTo(S, v)
           lost == IF R.ticks = 0 THEN TickSize ELSE 0
<1>1. /\ Sound(C) /\ C.ticks = S.ticks /\ C.usecs_remaining = S.usecs_remaining
      /\ Coscheduled(C) = Coscheduled(S) /\ TicksTo(C, v) = a
      /\ v \in DOMAIN S.event => v \in DOMAIN C.event /\ C.event[v] = S.event[v]
  <2>1. /\ Drops(S, C, TimerUnit) /\ C.queue = S.queue
        /\ C.usecs_remaining = S.usecs_remaining /\ \A w : TicksTo(C, w) = TicksTo(S, w)
    BY WithoutEventDrops
  <2> HIDE DEF C
  <2> QED BY <2>1, TimerNumbers DEF Drops, Coscheduled
<1>2. Ticked(C, R)
  OBVIOUS
<1> HIDE DEF C
<1>3. /\ IsTimer(S) /\ Sound(R) /\ IsTimer(R) /\ TimerUnit \in DOMAIN R.event
      /\ R.event[TimerUnit] = TickSize
  BY <1>2 DEF Ticked, Sound
<1>4. /\ Hz \in Nat /\ Hz >= 1 /\ TickSize \in Nat /\ S.ticks \in 0..(Hz - 1)
      /\ R.ticks \in 0..(Hz - 1) /\ m \in Nat /\ lost \in Nat
      /\ \/ S.ticks = Hz - 1 /\ R.ticks = 0
         \/ R.ticks # 0 /\ R.ticks = S.ticks + 1
  <2>1. S.ticks \in 0..(Hz - 1) /\ R.ticks \in 0..(Hz - 1) /\ m \in Nat
    BY <1>3, TimerTypes
  <2>2. R.ticks = (S.ticks + 1) % Hz
    BY <1>1, <1>2 DEF Ticked
  <2>3. \/ S.ticks = Hz - 1 /\ (S.ticks + 1) % Hz = 0
        \/ S.ticks + 1 < Hz /\ (S.ticks + 1) % Hz = S.ticks + 1
    BY <2>1, TimerNumbers, SMT
  <2> QED BY <2>1, <2>2, <2>3, TimerNumbers
<1>5. IsActive(R, v)
  BY <1>1, <1>2 DEF Ticked, IsActive
<1>6. TimeLeft(S, v) \in Nat /\ TimeLeft(R, v) \in Nat
  BY <1>3, <1>5, TimeLeftIs
<1>7. SUFFICES /\ TimeLeft(R, v) <= TimeLeft(S, v)
               /\ v \in DOMAIN R.event => R.usecs_remaining[v] = 0
               /\ RestFits(S, v) => RestFits(R, v) /\ TimeLeft(S, v) <= TimeLeft(R, v) + lost
  BY <1>5
<1> HIDE DEF lost
<1>8. ASSUME v \in DOMAIN S.event
      PROVE  /\ TimeLeft(R, v) <= TimeLeft(S, v)
             /\ v \in DOMAIN R.event => R.usecs_remaining[v] = 0
             /\ RestFits(S, v) => RestFits(R, v) /\ TimeLeft(S, v) <= TimeLeft(R, v) + lost
  <2>1. v \notin Coscheduled(S)
    BY <1>8 DEF Sound
  <2>2. /\ v \in DOMAIN R.event /\ R.event[v] = S.event[v] /\ v \notin Coscheduled(R)
        /\ R.usecs_remaining[v] = 0
    BY <1>1, <1>2, <1>8, <2>1 DEF Ticked, DueUnits
  <2>3. TimeLeft(R, v) = TimeLeft(S, v) /\ RestFits(R, v)
    BY <1>8, <2>2 DEF TimeLeft, RestFits
  <2> QED BY <1>4, <1>6, <2>2, <2>3
<1>9. ASSUME v \in Coscheduled(S), a > 1
      PROVE  /\ TimeLeft(R, v) <= TimeLeft(S, v)
             /\ v \in DOMAIN R.event => R.usecs_remaining[v] = 0
             /\ RestFits(S, v) => RestFits(R, v) /\ TimeLeft(S, v) <= TimeLeft(R, v) + lost
  <2>1. a \in Int /\ v \notin DOMAIN S.event
    BY <1>9, AheadKeeps DEF Sound
  <2>2. v \in Coscheduled(C) \ DueUnits(C)
    BY <1>1, <1>9, <2>1 DEF DueUnits
  <2>3. /\ v \in Coscheduled(R) /\ TicksTo(R, v) = a - 1 /\ R.usecs_remaining[v] = m
    BY <1>1, <1>2, <2>2 DEF Ticked
  <2>4. v \notin DOMAIN R.event
    BY <1>3, <2>3 DEF Sound
  <2>5. AtLeastOne(a) = a /\ AtLeastOne(a - 1) = a - 1
    BY <1>9, <2>1 DEF AtLeastOne
  <2> DEFINE y == (a - 1) * TickSize
             k == a - 1
  <2>6. TimeLeft(S, v) = m + (0 + y)
    BY <2>1, <2>5 DEF TimeLeft
  <2>7. TimeLeft(R, v) = m + (TickSize + (k - 1) * TickSize)
    BY <1>3, <2>3, <2>4, <2>5 DEF TimeLeft
  <2>8. y \in Nat /\ (k - 1) * TickSize = y - TickSize
    <3>1. k \in Nat
      BY <1>9, <2>1
    <3>2. y = k * TickSize
      OBVIOUS
    <3> HIDE DEF k, y
    <3> QED BY <3>1, <3>2, TickProducts
  <2>9. RestFits(S, v) => RestFits(R, v)
    <3>1. Hz - S.ticks - a = Hz - R.ticks - (a - 1) \/ Hz - S.ticks - a < 0
      BY <1>4, <1>9, <2>1
    <3> DEFINE x == Hz - S.ticks - a
    <3>2. x \in Int
      BY <1>4, <2>1
    <3>3. RestFits(S, v) => (m # 0 => x \in {0, 1} \/ (x >= 1 /\ m <= x * TickSize))
      BY <1>9, <2>5 DEF RestFits
    <3>4. (Hz - R.ticks - (a - 1) = x /\ (m # 0 => x \in {0, 1} \/ (x >= 1 /\ m <= x * TickSize)))
            => RestFits(R, v)
      BY <2>3, <2>5 DEF RestFits
    <3>5. m = 0 => RestFits(R, v)
      BY <2>3 DEF RestFits
    <3>6. Hz - R.ticks - (a - 1) = x \/ x < 0
      BY <3>1
    <3> HIDE DEF x
    <3> QED BY <3>2, <3>3, <3>4, <3>5, <3>6
  <2> HIDE DEF y, k
  <2> QED BY <1>4, <2>4, <2>6, <2>7, <2>8, <2>9
<1>10. ASSUME v \in Coscheduled(S), a <= 1
       PROVE  /\ TimeLeft(R, v) <= TimeLeft(S, v)
              /\ v \in DOMAIN R.event => R.usecs_remaining[v] = 0
              /\ RestFits(S, v) => RestFits(R, v) /\ TimeLeft(S, v) <= TimeLeft(R, v) + lost
  <2>1. a \in Int /\ v \notin DOMAIN S.event
    BY <1>10, AheadKeeps DEF Sound
  <2>2. AtLeastOne(a) = 1
    BY <1>10, <2>1 DEF AtLeastOne
  <2>3. TimeLeft(S, v) = m
    <3>1. (AtLeastOne(a) - 1) * TickSize = 0
      BY <2>2, TickProducts
    <3>2. TimeLeft(S, v) = m + (0 + (AtLeastOne(a) - 1) * TickSize)
      BY <2>1 DEF TimeLeft
    <3> QED BY <1>4, <3>1, <3>2
  <2>4. v \in DueUnits(C)
    BY <1>1, <1>10 DEF DueUnits
  <2>5. \/ /\ m = 0 /\ R.usecs_remaining[v] = 0
           /\ v \in DOMAIN R.event /\ R.event[v] = 0
        \/ m # 0 /\ Divided(R, R, v, m)
    BY <1>1, <1>2, <2>4 DEF Ticked
  <2>6. CASE m = 0
    <3>1. R.usecs_remaining[v] = 0 /\ v \in DOMAIN R.event /\ R.event[v] = 0
      BY <2>5, <2>6
    <3>2. TimeLeft(R, v) = 0 /\ RestFits(R, v)
      BY <3>1 DEF TimeLeft, RestFits
    <3> QED BY <1>4, <2>3, <2>6, <3>1, <3>2
  <2>7. CASE m # 0
    <3> DEFINE x == TicksBefore(R)
               z == x * TickSize
    <3>1. /\ FiresInTime(R, v, m) /\ m <= TimeLeft(R, v) + TickSize /\ RestFits(R, v)
          /\ m <= TilCalib(R) \/ x = 0 => TimeLeft(R, v) = m
      BY <1>3, <1>4, <1>5, <2>5, <2>7, DividedTime
    <3>2. /\ x \in Nat /\ x = Hz - R.ticks - 1 /\ TilCalib(R) = TickSize + z
      BY <1>3, <1>4 DEF TicksBefore, TilCalib, InstTilTick
    <3>3. TimeLeft(R, v) <= m /\ (v \in DOMAIN R.event => R.usecs_remaining[v] = 0)
      BY <3>1 DEF FiresInTime
    <3>4. ASSUME RestFits(S, v), R.ticks # 0
          PROVE  TimeLeft(R, v) = m
      <4>1. R.ticks = S.ticks + 1
        BY <1>4, <3>4
      <4>2. Hz - S.ticks - 1 = x + 1
        BY <1>4, <3>2, <4>1
      <4>3. x + 1 \in {0, 1} \/ m <= (x + 1) * TickSize
        BY <1>10, <2>2, <2>7, <3>4, <4>2 DEF RestFits
      <4>4. (x + 1) * TickSize = TickSize + z
        <5> DEFINE k == x + 1
        <5>1. k \in Int /\ k - 1 = x
          BY <3>2
        <5> HIDE DEF k
        <5>2. z = k * TickSize - TickSize /\ k * TickSize \in Int
          BY <5>1, TickProducts
        <5> QED BY <1>4, <5>2 DEF k
      <4> HIDE DEF x, z
      <4> QED BY <1>4, <3>1, <3>2, <4>3, <4>4
    <3>5. RestFits(S, v) => TimeLeft(S, v) <= TimeLeft(R, v) + lost
      <4>1. m <= TimeLeft(R, v) + TickSize
        BY <3>1
      <4> QED BY <1>4, <1>6, <2>3, <3>4, <4>1 DEF lost
    <3> QED BY <2>3, <3>1, <3>3, <3>5
  <2> QED BY <2>6, <2>7
<1>11. v \in DOMAIN S.event \/ (v \in Coscheduled(S) /\ a \in Int)
  BY AheadKeeps DEF IsActive, Sound
<1> QED BY <1>8, <1>9, <1>10, <1>11
\* l is the time left of what was asked for u, c the calibrations since.  A unit
\* that is cancelled makes the others earlier.
FiresAsAsked(S, u, l, c) ==
  FiresInTime(S, u, l) /\ (Cancellable = {} => FiresNotTooEarly(S, u, l, c))

LEMMA SameTime ==
  ASSUME NEW S, NEW R, NEW u, NEW l, NEW c, FiresAsAsked(S, u, l, c),
         TimeLeft(R, u) = TimeLeft(S, u), RestFits(S, u) => RestFits(R, u),
         u \in DOMAIN R.event <=> u \in DOMAIN S.event,
         R.usecs_remaining[u] = S.usecs_remaining[u]
  PROVE  FiresAsAsked(R, u, l, c)
BY DEF FiresAsAsked, FiresInTime, FiresNotTooEarly

\* What is asked for in ticks.
LEMMA CoscheduleTime ==
  ASSUME NEW S, Sound(S), OwedIn(S), TimerUnit \in DOMAIN S.event,
         NEW u \in Units, ~IsActive(S, u), NEW t \in Nat
  PROVE  FiresAsAsked(sim_clock_coschedule_tmr(S, u, t), u,
                      S.event[TimerUnit] + t * TickSize, 0)
<1> DEFINE R == sim_clock_coschedule_tmr(S, u, t)
           til == S.event[TimerUnit]
           y == (AtLeastOne(t) - 1) * TickSize
           z == t * TickSize
<1>1. /\ Sound(R) /\ R.event = S.event /\ R.usecs_remaining = S.usecs_remaining
      /\ Coscheduled(R) = Coscheduled(S) \cup {u} /\ TicksTo(R, u) = t
  BY CoscheduleKeeps
<1> HIDE DEF R
<1>2. R.usecs_remaining[u] = 0 /\ u \notin DOMAIN R.event
  BY <1>1 DEF OwedIn, IsActive
<1>3. /\ TimeLeft(R, u) = 0 + (til + y) /\ RestFits(R, u) /\ til \in Nat /\ TickSize \in Nat
  <2>1. til \in Nat
    BY TimerTypes DEF Sound
  <2> QED BY <1>1, <1>2, <2>1, TimerNumbers DEF TimeLeft, RestFits
<1>4. /\ y \in Nat /\ z \in Nat /\ TickSize * (1 + 0) = TickSize
      /\ (y = z /\ z = 0) \/ y = z - TickSize
  <2> DEFINE w == TickSize * (1 + 0)
  <2>0. w = TickSize
    BY TimerNumbers, SMT
  <2> HIDE DEF w
  <2> SUFFICES y \in Nat /\ z \in Nat /\ ((y = z /\ z = 0) \/ y = z - TickSize)
    BY <2>0 DEF w
  <2>1. z \in Nat /\ (t - 1) * TickSize = z - TickSize /\ 0 * TickSize = 0
    <3>1. t \in Int
      OBVIOUS
    <3> QED BY <3>1, TickProducts, Zenon
  <2>2. CASE t = 0
    <3>1. AtLeastOne(t) - 1 = 0
      BY <2>2 DEF AtLeastOne
    <3>2. y = 0 /\ z = 0
      <4>1. y = 0 * TickSize /\ z = 0 * TickSize
        BY <2>2, <3>1, Zenon
      <4> HIDE DEF y, z
      <4> QED BY <2>1, <4>1
    <3> HIDE DEF y, z
    <3> QED BY <3>2
  <2>3. CASE t >= 1
    <3>1. AtLeastOne(t) - 1 = t - 1
      BY <2>3 DEF AtLeastOne
    <3> DEFINE k == t - 1
    <3>2. k \in Nat
      BY <2>3
    <3>3. y = k * TickSize
      BY <3>1
    <3> HIDE DEF k
    <3>4. y \in Nat
      BY <3>2, <3>3, TickProducts
    <3>5. y = z - TickSize
      BY <2>1, <3>3 DEF k
    <3>6. z \in Nat
      BY <2>1
    <3> HIDE DEF y, z
    <3> QED BY <3>4, <3>5, <3>6
  <2>4. t = 0 \/ t >= 1
    OBVIOUS
  <2> HIDE DEF y, z
  <2> QED BY <2>2, <2>3, <2>4
<1> HIDE DEF til, y, z
<1>5. TimeLeft(R, u) <= til + z /\ til + z <= TimeLeft(R, u) + TickSize * (1 + 0)
  BY <1>3, <1>4
<1>6. FiresAsAsked(R, u, til + z, 0)
  BY <1>2, <1>3, <1>5 DEF FiresAsAsked, FiresInTime, FiresNotTooEarly
<1> QED BY <1>6 DEF R, til, z

\* What is asked for in microseconds.
LEMMA AfterTime ==
  ASSUME NEW S, Sound(S), TimerUnit \in DOMAIN S.event,
         NEW u \in Units, ~IsActive(S, u), NEW d \in Nat
  PROVE  FiresAsAsked(sim_timer_activate_after(S, u, d, TRUE), u, d, 0)
<1> DEFINE R == sim_timer_activate_after(S, u, d, TRUE)
<1>1. Adds(S, R, {u}) /\ Divided(S, R, u, d)
  <2>1. TRUE \in BOOLEAN
    OBVIOUS
  <2> QED BY <2>1, AfterAdds
<1> HIDE DEF R
<1>2. /\ Sound(R) /\ R.ticks = S.ticks /\ IsActive(R, u) /\ TimerUnit \in DOMAIN R.event
      /\ R.event[TimerUnit] = S.event[TimerUnit]
  BY <1>1 DEF Adds
<1>3. FiresInTime(R, u, d) /\ d <= TimeLeft(R, u) + TickSize /\ RestFits(R, u)
  BY <1>1, <1>2, DividedTime
<1>4. TickSize * (1 + 0) = TickSize
  BY TimerNumbers, SMT
<1>5. FiresAsAsked(R, u, d, 0)
  BY <1>3, <1>4 DEF FiresAsAsked, FiresNotTooEarly
<1> QED BY <1>5 DEF R
-----------------------------------------------------------------------------
(***************************************************************************)
(* The inductive invariant without stops.                                  *)
(***************************************************************************)

OnTime(S, l, c) == \A u \in Units : IsActive(S, u) => FiresAsAsked(S, u, l[u], c[u])

\* The machine is never at the prompt, the tick is an event of the timer's unit,
\* and every unit that waits fires as was asked.
TimedInv ==
  /\ IInv
  /\ pc = "instr"
  /\ TimerUnit \in DOMAIN rtc.event
  /\ OnTime(rtc, left, calibs)

LEMMA TimedInvIs ==
  ASSUME TimedInv
  PROVE  /\ Sound(rtc) /\ OwedIn(rtc) /\ OneTickIn(rtc) /\ GoodTimer(rtc)
         /\ TimerUnit \in DOMAIN rtc.event /\ ClockUnit \notin DOMAIN rtc.event
         /\ left \in [Units -> Nat \cup {-1}] /\ calibs \in [Units -> Nat]
         /\ pc = "instr" /\ OnTime(rtc, left, calibs)
BY DEF TimedInv, IInv, GoodTimer, OneTickIn, TypeOK

\* Of a unit that waits and has an event nothing is owed.
LEMMA EventOwesNothing ==
  ASSUME TimedInv, NEW u \in Units, u \in DOMAIN rtc.event
  PROVE  rtc.usecs_remaining[u] = 0
BY TimedInvIs DEF OnTime, IsActive, FiresAsAsked, FiresInTime

\* A call that adds u.
LEMMA CallOnTime ==
  ASSUME TimedInv, NEW u \in Units, NEW t \in Nat, NEW S, Adds(rtc, S, {u}), CallOf(S, u, t),
         IsActive(rtc, u) => S = rtc, ~IsActive(rtc, u) => FiresAsAsked(S, u, t, 0)
  PROVE  OnTime(rtc', left', calibs')
<1>1. /\ rtc' = S /\ IsActive(S, u)
      /\ left' = [left EXCEPT ![u] = IF IsActive(rtc, u) THEN left[u] ELSE t]
      /\ calibs' = [calibs EXCEPT ![u] = IF IsActive(rtc, u) THEN calibs[u] ELSE 0]
  BY DEF Adds, CallOf
<1>2. /\ left \in [Units -> Nat \cup {-1}] /\ calibs \in [Units -> Nat]
      /\ TimerUnit \in DOMAIN rtc.event /\ OnTime(rtc, left, calibs)
  BY TimedInvIs
<1>3. ASSUME NEW v \in Units, IsActive(S, v)
      PROVE  FiresAsAsked(S, v, left'[v], calibs'[v])
  <2>1. CASE v = u /\ IsActive(rtc, u)
    <3>1. left'[v] = left[v] /\ calibs'[v] = calibs[v] /\ S = rtc
      BY <1>1, <1>2, <2>1
    <3> QED BY <1>2, <2>1, <3>1 DEF OnTime
  <2>2. CASE v = u /\ ~IsActive(rtc, u)
    <3>1. left'[v] = t /\ calibs'[v] = 0
      BY <1>1, <1>2, <2>2
    <3> QED BY <2>2, <3>1
  <2>3. CASE v # u
    <3>1. left'[v] = left[v] /\ calibs'[v] = calibs[v]
      BY <1>1, <1>2, <2>3
    <3>2. IsActive(rtc, v) /\ v \notin {u}
      BY <1>3, <2>3 DEF Adds, IsActive
    <3>3. /\ TimeLeft(S, v) = TimeLeft(rtc, v) /\ (RestFits(rtc, v) => RestFits(S, v))
          /\ v \in DOMAIN S.event <=> v \in DOMAIN rtc.event
          /\ S.usecs_remaining[v] = rtc.usecs_remaining[v]
      BY <1>2, <3>2, AddsKeepTime
    <3>4. FiresAsAsked(rtc, v, left[v], calibs[v])
      BY <1>2, <3>2 DEF OnTime
    <3> QED BY <3>1, <3>3, <3>4, SameTime
  <2> QED BY <2>1, <2>2, <2>3
<1> QED BY <1>1, <1>3 DEF OnTime

LEMMA CoscheduleTmrOnTime ==
  ASSUME TimedInv, NEW u \in Units, NEW t \in Ticks, CoscheduleTmr(u, t)
  PROVE  TimerUnit \in DOMAIN rtc'.event /\ OnTime(rtc', left', calibs')
<1> DEFINE S == sim_clock_coschedule_tmr(rtc, u, t)
<1>1. t \in Nat /\ AskedInTicks(t) \in Nat
  BY TimeToTickIsNat, TimedInvIs
<1>2. AskedInTicks(t) = rtc.event[TimerUnit] + t * TickSize
  BY TimedInvIs DEF AskedInTicks, TimeToTick
<1>3. IsActive(rtc, u) => S = rtc
  BY DEF sim_clock_coschedule_tmr
<1>4. ~IsActive(rtc, u) => FiresAsAsked(S, u, AskedInTicks(t), 0)
  BY <1>1, <1>2, CoscheduleTime, TimedInvIs
<1>5. CallOf(S, u, AskedInTicks(t))
  BY DEF CoscheduleTmr
<1> HIDE DEF S
<1>6. Adds(rtc, S, {u})
  BY <1>1, CoscheduleAdds, TimedInvIs DEF S
<1>7. OnTime(rtc', left', calibs')
  BY <1>1, <1>3, <1>4, <1>5, <1>6, CallOnTime
<1> QED BY <1>5, <1>6, <1>7, TimedInvIs DEF CallOf, Adds

LEMMA ActivateAfterOnTime ==
  ASSUME TimedInv, NEW u \in Units, NEW d \in Usecs, ActivateAfter(u, d)
  PROVE  TimerUnit \in DOMAIN rtc'.event /\ OnTime(rtc', left', calibs')
<1> DEFINE S == sim_timer_activate_after(rtc, u, d, TRUE)
<1>1. d \in Nat /\ (pc = "instr") = TRUE
  BY TicksAssumption, TimedInvIs
<1>2. IsActive(rtc, u) => S = rtc
  BY DEF sim_timer_activate_after
<1>3. ~IsActive(rtc, u) => FiresAsAsked(S, u, d, 0)
  BY <1>1, AfterTime, TimedInvIs
<1>4. CallOf(S, u, d)
  BY <1>1 DEF ActivateAfter
<1> HIDE DEF S
<1>5. Adds(rtc, S, {u})
  BY <1>1, AfterAdds, TimedInvIs DEF S
<1>6. OnTime(rtc', left', calibs')
  BY <1>1, <1>2, <1>3, <1>4, <1>5, CallOnTime
<1> QED BY <1>4, <1>5, <1>6, TimedInvIs DEF CallOf, Adds

\* When a unit is cancelled no other unit fires later.
LEMMA CancelOnTime ==
  ASSUME TimedInv, NEW u \in Cancellable, NEW v \in Units, v # u, IsActive(rtc, v)
  PROVE  FiresAsAsked(sim_cancel(rtc, u), v, left[v], calibs[v])
<1> DEFINE C == sim_cancel(rtc, u)
<1>1. Cancellable # {} /\ u \in Units /\ u # TimerUnit
  BY TimerNumbers
<1>2. Drops(rtc, C, u)
  BY <1>1, CancelDrops, TimedInvIs
<1> HIDE DEF C
<1>3. /\ IsActive(C, v) /\ TimeLeft(C, v) <= TimeLeft(rtc, v)
      /\ v \in DOMAIN C.event <=> v \in DOMAIN rtc.event
      /\ C.usecs_remaining[v] = rtc.usecs_remaining[v]
  BY <1>1, <1>2, DropsKeepInTime, TimedInvIs
<1>4. TimeLeft(C, v) \in Nat /\ TimeLeft(rtc, v) \in Nat
  BY <1>1, <1>2, <1>3, TimeLeftIs, TimedInvIs DEF Drops
<1>5. FiresInTime(rtc, v, left[v])
  BY TimedInvIs DEF OnTime, FiresAsAsked
<1>6. left[v] \in Int
  BY TimedInvIs
<1>7. FiresInTime(C, v, left[v])
  BY <1>3, <1>4, <1>5, <1>6 DEF FiresInTime
<1> QED BY <1>1, <1>7 DEF FiresAsAsked, C

LEMMA CancelStepOnTime ==
  ASSUME TimedInv, NEW u \in Cancellable, Cancel(u)
  PROVE  TimerUnit \in DOMAIN rtc'.event /\ OnTime(rtc', left', calibs')
<1> DEFINE C == sim_cancel(rtc, u)
<1>1. u \in Units /\ u # TimerUnit
  BY TimerNumbers
<1>2. Drops(rtc, C, u) /\ ~IsActive(C, u)
  BY <1>1, CancelDrops, TimedInvIs
<1>3. ASSUME NEW v \in Units, v # u, IsActive(rtc, v)
      PROVE  FiresAsAsked(C, v, left[v], calibs[v])
  BY <1>3, CancelOnTime
<1>4. CallOf(C, u, 0)
  BY DEF Cancel
<1> HIDE DEF C
<1>5. rtc' = C /\ TimerUnit \in DOMAIN C.event
  BY <1>1, <1>2, <1>4, TimedInvIs DEF CallOf, Drops
<1>6. ASSUME NEW v \in Units, IsActive(C, v)
      PROVE  FiresAsAsked(C, v, left'[v], calibs'[v])
  <2>1. v # u
    BY <1>2, <1>6
  <2>2. IsActive(rtc, v)
    BY <1>2, <1>6 DEF Drops, IsActive
  <2>3. left'[v] = left[v] /\ calibs'[v] = calibs[v]
    BY <1>4, <2>1, TimedInvIs DEF CallOf
  <2> QED BY <1>3, <2>1, <2>2, <2>3
<1> QED BY <1>5, <1>6 DEF OnTime

LEMMA CoscheduleTmrAbsOnTime ==
  ASSUME TimedInv, NEW u \in Cancellable, NEW t \in Ticks, CoscheduleTmrAbs(u, t)
  PROVE  TimerUnit \in DOMAIN rtc'.event /\ OnTime(rtc', left', calibs')
<1> DEFINE C == sim_cancel(rtc, u)
           S == sim_clock_coschedule_tmr(C, u, t)
<1>1. u \in Units /\ u # TimerUnit /\ t \in Nat
  BY TimerNumbers, TimeToTickIsNat, TimedInvIs
<1>2. /\ Drops(rtc, C, u) /\ ~IsActive(C, u)
      /\ C.usecs_remaining[u] = IF IsActive(rtc, u) THEN 0 ELSE rtc.usecs_remaining[u]
  BY <1>1, CancelDrops, TimedInvIs
<1>3. ASSUME NEW v \in Units, v # u, IsActive(rtc, v)
      PROVE  FiresAsAsked(C, v, left[v], calibs[v])
  BY <1>3, CancelOnTime
<1>4. /\ rtc' = S /\ left' = [left EXCEPT ![u] = AskedInTicks(t)]
      /\ calibs' = [calibs EXCEPT ![u] = 0]
  BY DEF CoscheduleTmrAbs
<1>5. GoodTimer(C)
  BY CancelKeepsGood, TimedInvIs
<1> HIDE DEF C
<1>6. /\ Sound(C) /\ OwedIn(C) /\ TimerUnit \in DOMAIN C.event
      /\ C.event[TimerUnit] = rtc.event[TimerUnit]
  BY <1>1, <1>2, <1>5, TimedInvIs DEF Drops, GoodTimer
<1>7. Adds(C, S, {u}) /\ FiresAsAsked(S, u, C.event[TimerUnit] + t * TickSize, 0)
  BY <1>1, <1>2, <1>6, CoscheduleAdds, CoscheduleTime
<1> HIDE DEF S
<1>8. AskedInTicks(t) = C.event[TimerUnit] + t * TickSize
  BY <1>6, TimedInvIs DEF AskedInTicks, TimeToTick
<1>9. ASSUME NEW v \in Units, IsActive(S, v)
      PROVE  FiresAsAsked(S, v, left'[v], calibs'[v])
  <2>1. CASE v = u
    <3>1. left'[v] = AskedInTicks(t) /\ calibs'[v] = 0
      BY <1>4, <2>1, TimedInvIs
    <3> QED BY <1>7, <1>8, <2>1, <3>1
  <2>2. CASE v # u
    <3>1. left'[v] = left[v] /\ calibs'[v] = calibs[v]
      BY <1>4, <2>2, TimedInvIs
    <3>2. IsActive(C, v) /\ v \notin {u}
      BY <1>7, <1>9, <2>2 DEF Adds, IsActive
    <3>3. IsActive(rtc, v)
      BY <1>2, <3>2 DEF Drops, IsActive
    <3>4. /\ TimeLeft(S, v) = TimeLeft(C, v) /\ (RestFits(C, v) => RestFits(S, v))
          /\ v \in DOMAIN S.event <=> v \in DOMAIN C.event
          /\ S.usecs_remaining[v] = C.usecs_remaining[v]
      BY <1>6, <1>7, <3>2, AddsKeepTime
    <3>5. FiresAsAsked(C, v, left[v], calibs[v])
      BY <1>3, <2>2, <3>3
    <3> QED BY <3>1, <3>4, <3>5, SameTime
  <2> QED BY <2>1, <2>2
<1> QED BY <1>4, <1>6, <1>7, <1>9 DEF OnTime, Adds
LEMMA InstructionOnTime ==
  ASSUME TimedInv, Instruction
  PROVE  TimerUnit \in DOMAIN rtc'.event /\ OnTime(rtc', left', calibs')
<1> DEFINE R == OneLess(rtc)
<1>1. rtc' = R /\ \A u \in DOMAIN rtc.event : rtc.event[u] > 0
  BY DEF Instruction, OneLess
<1>2. DOMAIN R.event = DOMAIN rtc.event
  BY <1>1, OneLessKeeps, TimedInvIs
<1>3. ASSUME NEW u \in Units, IsActive(R, u)
      PROVE  FiresAsAsked(R, u, left'[u], calibs'[u])
  <2> DEFINE T == TimeLeft(rtc, u)
             l == left[u]
             c == calibs[u]
             k == IF l - 1 <= 0 THEN 0 ELSE c
             p == TickSize * (1 + c)
             z == TickSize * (1 + k)
  <2>1. /\ IsActive(rtc, u) /\ TimeLeft(R, u) = T - 1 /\ T >= 1
        /\ RestFits(rtc, u) => RestFits(R, u)
        /\ u \in DOMAIN R.event <=> u \in DOMAIN rtc.event
        /\ R.usecs_remaining[u] = rtc.usecs_remaining[u]
    BY <1>1, <1>3, OneLessTime, TimedInvIs
  <2> HIDE DEF R
  <2>2. /\ FiresInTime(rtc, u, l) /\ (Cancellable = {} => FiresNotTooEarly(rtc, u, l, c))
        /\ l \in Int /\ c \in Nat /\ T \in Nat
    BY <2>1, TimeLeftIs, TimedInvIs DEF OnTime, FiresAsAsked
  <2>3. T <= l
    BY <2>2 DEF FiresInTime
  <2>4. left'[u] = l - 1 /\ calibs'[u] = k
    <3>1. left'[u] = l - 1
      BY <2>1, <2>2, <2>3 DEF Instruction, Waiting
    <3>2. calibs'[u] = IF left'[u] <= 0 THEN 0 ELSE calibs[u]
      BY DEF Instruction
    <3> QED BY <3>1, <3>2
  <2>5. z \in Nat /\ (k = c => z = p) /\ k \in {0, c}
    <3>1. k \in Nat /\ k \in {0, c}
      BY <2>2
    <3> HIDE DEF k
    <3>2. z = TickSize + TickSize * k /\ TickSize * k \in Nat
      BY <3>1, TickProducts
    <3>3. z \in Nat
      BY <3>2, TimerNumbers
    <3> QED BY <3>1, <3>3
  <2>6. l - 1 <= 0 \/ k = c
    BY <2>2
  <2>7. FiresInTime(R, u, l - 1)
    BY <2>1, <2>2, <2>3 DEF FiresInTime
  <2>8. ASSUME Cancellable = {}
        PROVE  FiresNotTooEarly(R, u, l - 1, k)
    <3>1. l <= T + p /\ RestFits(R, u)
      BY <2>1, <2>2, <2>8 DEF FiresNotTooEarly
    <3> HIDE DEF p, z, k, T, l
    <3>2. l - 1 <= (T - 1) + z
      BY <2>1, <2>2, <2>5, <2>6, <3>1
    <3> QED BY <2>1, <3>1, <3>2 DEF FiresNotTooEarly, z
  <2> QED BY <2>4, <2>7, <2>8 DEF FiresAsAsked
<1> QED BY <1>1, <1>2, <1>3, TimedInvIs DEF OnTime

LEMMA TickOnTime ==
  ASSUME TimedInv, Tick
  PROVE  TimerUnit \in DOMAIN rtc'.event /\ OnTime(rtc', left', calibs')
<1> DEFINE C == WithoutEventOf(rtc, TimerUnit)
           R == sim_timer_tick_svc(C)
<1>1. /\ rtc' = R /\ rtc.event[TimerUnit] = 0 /\ left' = left
      /\ calibs' = [u \in Units |-> IF R.ticks = 0 /\ left[u] > 0 THEN calibs[u] + 1
                                                                  ELSE calibs[u]]
  BY DEF Tick, Dispatched, WithoutEvent, WithoutEventOf, CalibrationsCounted
<1>2. Ticked(C, R)
  BY TickKeepsGood, TimedInvIs
<1>3. /\ DOMAIN C.event \subseteq DOMAIN rtc.event /\ Coscheduled(C) = Coscheduled(rtc)
  <2>1. Drops(rtc, C, TimerUnit) /\ C.queue = rtc.queue
    BY WithoutEventDrops, TimedInvIs
  <2> QED BY <2>1 DEF Drops, Coscheduled
<1> HIDE DEF R
<1>4. ASSUME NEW u \in Units, IsActive(R, u)
      PROVE  FiresAsAsked(R, u, left'[u], calibs'[u])
  <2> DEFINE T == TimeLeft(rtc, u)
             W == TimeLeft(R, u)
             l == left[u]
             c == calibs[u]
             p == TickSize * (1 + c)
             z == TickSize * (1 + (c + 1))
             k == IF R.ticks = 0 /\ l > 0 THEN c + 1 ELSE c
             lost == IF R.ticks = 0 THEN TickSize ELSE 0
  <2>1. IsActive(rtc, u)
    BY <1>2, <1>3, <1>4, TimerNumbers DEF Ticked, DueUnits, IsActive
  <2>2. /\ FiresInTime(rtc, u, l) /\ (Cancellable = {} => FiresNotTooEarly(rtc, u, l, c))
        /\ l \in Int /\ c \in Nat /\ T \in Nat
    BY <2>1, TimeLeftIs, TimedInvIs DEF OnTime, FiresAsAsked
  <2>3. T <= l /\ (u \in DOMAIN rtc.event => rtc.usecs_remaining[u] = 0)
    BY <2>2 DEF FiresInTime
  <2>4. /\ W <= T /\ (u \in DOMAIN R.event => R.usecs_remaining[u] = 0)
        /\ RestFits(rtc, u) => RestFits(R, u) /\ T <= W + lost
    BY <1>1, <1>2, <2>1, <2>3, TickTime, TimedInvIs
  <2>5. W \in Nat
    BY <1>2, <1>4, TimeLeftIs DEF Ticked
  <2>6. left'[u] = l /\ calibs'[u] = k
    BY <1>1
  <2>7. p \in Nat /\ z = TickSize + p /\ TickSize \in Nat
    <3>1. p = TickSize + TickSize * c /\ TickSize * c \in Nat /\ z = TickSize + p
      BY <2>2, TickProducts
    <3> HIDE DEF z
    <3>2. p \in Nat
      BY <3>1, TimerNumbers
    <3> QED BY <3>1, <3>2, TimerNumbers
  <2>8. FiresInTime(R, u, l)
    BY <2>2, <2>3, <2>4, <2>5 DEF FiresInTime
  <2>9. ASSUME Cancellable = {}
        PROVE  FiresNotTooEarly(R, u, l, k)
    <3>1. l <= T + p /\ RestFits(R, u) /\ T <= W + lost
      BY <2>2, <2>4, <2>9 DEF FiresNotTooEarly
    <3>2. CASE R.ticks = 0 /\ l > 0
      <4>1. lost = TickSize /\ k = c + 1
        BY <3>2
      <4> HIDE DEF p, z, k, T, W, l, lost
      <4>2. l <= W + z
        BY <2>2, <2>5, <2>7, <3>1, <4>1
      <4> QED BY <3>1, <4>1, <4>2 DEF FiresNotTooEarly, z, W
    <3>3. CASE R.ticks = 0 /\ ~(l > 0)
      <4>1. k = c
        BY <3>3
      <4> HIDE DEF p, z, k, T, W, l, lost
      <4>2. l <= W + p
        BY <2>2, <2>5, <2>7, <3>3
      <4> QED BY <3>1, <4>1, <4>2 DEF FiresNotTooEarly, p, W
    <3>4. CASE R.ticks # 0
      <4>1. lost = 0 /\ k = c
        BY <3>4
      <4> HIDE DEF p, z, k, T, W, l, lost
      <4>2. l <= W + p
        BY <2>2, <2>5, <2>7, <3>1, <4>1
      <4> QED BY <3>1, <4>1, <4>2 DEF FiresNotTooEarly, p, W
    <3> QED BY <3>2, <3>3, <3>4
  <2> QED BY <2>6, <2>8, <2>9 DEF FiresAsAsked
<1> QED BY <1>1, <1>2, <1>4 DEF OnTime, Ticked

LEMMA ActOnTime ==
  ASSUME TimedInv, NEW u \in Units, Act(u)
  PROVE  TimerUnit \in DOMAIN rtc'.event /\ OnTime(rtc', left', calibs')
<1> DEFINE R == WithoutEventOf(rtc, u)
<1>1. /\ rtc' = R /\ u \in DOMAIN rtc.event /\ u # TimerUnit /\ left' = left /\ calibs' = calibs
  BY TimerNumbers DEF Act, Dispatched, WithoutEvent, WithoutEventOf
<1>2. Drops(rtc, R, u) /\ ~IsActive(R, u)
  BY <1>1, WithoutEventDrops, TimedInvIs
<1>3. ASSUME NEW v \in Units, IsActive(R, v)
      PROVE  FiresAsAsked(R, v, left[v], calibs[v])
  <2>1. v # u
    BY <1>2, <1>3
  <2>2. /\ IsActive(R, v) <=> IsActive(rtc, v)
        /\ IsActive(rtc, v) => TimeLeft(R, v) = TimeLeft(rtc, v)
        /\ RestFits(rtc, v) => RestFits(R, v)
        /\ v \in DOMAIN R.event <=> v \in DOMAIN rtc.event
        /\ R.usecs_remaining[v] = rtc.usecs_remaining[v]
    BY <1>1, <2>1, DispatchKeepsTime, TimedInvIs
  <2> HIDE DEF R
  <2>3. FiresAsAsked(rtc, v, left[v], calibs[v])
    BY <1>3, <2>2, TimedInvIs DEF OnTime
  <2> QED BY <1>3, <2>2, <2>3, SameTime
<1> QED BY <1>1, <1>2, <1>3, TimedInvIs DEF OnTime, Drops

LEMMA ActionReturnsOnTime ==
  ASSUME TimedInv, ActionReturns
  PROVE  TimerUnit \in DOMAIN rtc'.event /\ OnTime(rtc', left', calibs')
<1>1. /\ rtc' = rtc
      /\ left' = [left EXCEPT ![uptr] = IF uptr \in Waiting THEN @ ELSE 0]
      /\ calibs' = [calibs EXCEPT ![uptr] = IF uptr \in Waiting THEN @ ELSE 0]
  BY DEF ActionReturns
<1>2. ASSUME NEW v \in Units, IsActive(rtc, v)
      PROVE  FiresAsAsked(rtc, v, left'[v], calibs'[v])
  <2>1. v \in Waiting
    BY <1>2 DEF Waiting
  <2>2. left'[v] = left[v] /\ calibs'[v] = calibs[v]
    BY <1>1, <2>1, TimedInvIs
  <2> QED BY <1>2, <2>2, TimedInvIs DEF OnTime
<1> QED BY <1>1, <1>2, TimedInvIs DEF OnTime
\* Nothing is due that is owed a delay, and the clock's unit has no event.
LEMMA ProcessEventOnTime ==
  ASSUME TimedInv, ProcessEvent
  PROVE  pc' = pc /\ TimerUnit \in DOMAIN rtc'.event /\ OnTime(rtc', left', calibs')
<1>1. CASE Tick
  BY <1>1, TickOnTime DEF Tick
<1>2. CASE FirstTick
  BY <1>2, TimedInvIs DEF FirstTick, Dispatched
<1>3. ASSUME NEW u \in Units, Act(u)
      PROVE  pc' = pc /\ TimerUnit \in DOMAIN rtc'.event /\ OnTime(rtc', left', calibs')
  BY <1>3, ActOnTime DEF Act
<1>4. ASSUME NEW u \in Units, Requeue(u)
      PROVE  FALSE
  BY <1>4, EventOwesNothing DEF Requeue, Dispatched
<1> QED BY <1>1, <1>2, <1>3, <1>4 DEF ProcessEvent

LEMMA InitIsTimed ==
  ASSUME Init
  PROVE  TimedInv
<1>1. IInv
  BY InitIsGood
<1>2. pc = "instr" /\ rtc.event = [u \in {TimerUnit} |-> TickSize] /\ rtc.queue = <<>>
  BY DEF Init
<1>3. \A u \in Units : ~IsActive(rtc, u)
  BY <1>2, TimerNumbers DEF IsActive, Coscheduled
<1> QED BY <1>1, <1>2, <1>3 DEF TimedInv, OnTime

LEMMA NextKeepsTimedInv ==
  ASSUME MaxStops = 0, TimedInv, [Next]_vars
  PROVE  TimedInv'
<1>1. IInv'
  BY NextKeepsIInv DEF TimedInv
<1>2. SUFFICES pc' = pc /\ TimerUnit \in DOMAIN rtc'.event /\ OnTime(rtc', left', calibs')
  <2>1. ASSUME pc' = pc, TimerUnit \in DOMAIN rtc'.event, OnTime(rtc', left', calibs')
        PROVE  TimedInv'
    BY <1>1, <2>1 DEF TimedInv, OnTime, FiresAsAsked, FiresInTime, FiresNotTooEarly,
       IsActive, Coscheduled, TimeLeft, RestFits
  <2> QED BY <2>1
<1>3. CASE UNCHANGED vars
  BY <1>3, TimedInvIs DEF vars
<1>4. ASSUME NEW u \in Units, \/ \E t \in Ticks : CoscheduleTmr(u, t)
                              \/ \E d \in Usecs : ActivateAfter(u, d)
      PROVE  pc' = pc /\ TimerUnit \in DOMAIN rtc'.event /\ OnTime(rtc', left', calibs')
  BY <1>4, CoscheduleTmrOnTime, ActivateAfterOnTime DEF CoscheduleTmr, ActivateAfter, CallOf
<1>5. ASSUME NEW u \in Cancellable, \/ \E t \in Ticks : CoscheduleTmrAbs(u, t)
                                    \/ Cancel(u)
      PROVE  pc' = pc /\ TimerUnit \in DOMAIN rtc'.event /\ OnTime(rtc', left', calibs')
  BY <1>5, CoscheduleTmrAbsOnTime, CancelStepOnTime DEF CoscheduleTmrAbs, Cancel, CallOf
<1>6. CASE Instruction
  BY <1>6, InstructionOnTime DEF Instruction
<1>7. CASE ProcessEvent
  BY <1>7, ProcessEventOnTime
<1>8. CASE ActionReturns
  BY <1>8, ActionReturnsOnTime DEF ActionReturns
<1>9. ~Stop
  BY DEF Stop, TimedInv, IInv, TypeOK
<1>10. ~Continue
  BY DEF Continue, TimedInv
<1> QED BY <1>3, <1>4, <1>5, <1>6, <1>7, <1>8, <1>9, <1>10 DEF Next

LEMMA TimedInvHolds ==
  ASSUME MaxStops = 0
  PROVE  Spec => []TimedInv
<1>1. Init => TimedInv
  BY InitIsTimed
<1>2. TimedInv /\ [Next]_vars => TimedInv'
  BY NextKeepsTimedInv
<1> QED BY <1>1, <1>2, PTL DEF Spec

\* However a delay is divided between the coschedule queue, usecs_remaining and
\* the event queue, and whichever units are cancelled, no unit waits longer than
\* was asked, as long as the machine is not stopped.
THEOREM NoUnitIsLate ==
  ASSUME MaxStops = 0
  PROVE  Spec => []NeverLate
<1>1. TimedInv => NeverLate
  <2>1. ASSUME TimedInv, NEW u \in Units, IsActive(rtc, u)
        PROVE  left[u] >= 0
    <3>1. TimeLeft(rtc, u) \in Nat /\ TimeLeft(rtc, u) <= left[u]
      BY <2>1, TimedInvIs, TimeLeftIs DEF OnTime, FiresAsAsked, FiresInTime
    <3>2. left[u] \in Int
      BY <2>1, TimedInvIs
    <3> QED BY <3>1, <3>2
  <2> QED BY <2>1 DEF NeverLate, Waiting
<1> QED BY <1>1, TimedInvHolds, PTL

\* A unit is acted on at most a tick, and one for every calibration of the timer
\* since, before the time that was asked for.
THEOREM NoUnitIsTooEarly ==
  ASSUME MaxStops = 0, Cancellable = {}
  PROVE  Spec => OneTickEarlyPerCalibration
<1>1. TimedInv /\ [Next]_vars =>
        [\A u \in Units : uptr = NoUnit /\ uptr' = u =>
           left[u] <= TickSize * (1 + calibs[u])]_vars
  <2>1. ASSUME TimedInv, Next, NEW u \in Units, uptr = NoUnit, uptr' = u
        PROVE  Act(u)
    <3>1. uptr' # uptr /\ uptr' # NoUnit
      BY <2>1, TimerNumbers
    <3>2. ProcessEvent
      BY <2>1, <3>1 DEF Next, CoscheduleTmr, ActivateAfter, CoscheduleTmrAbs, Cancel, CallOf,
         Instruction, ActionReturns, Stop, Continue
    <3>3. \E v \in Units : Act(v)
      BY <3>1, <3>2 DEF ProcessEvent, Tick, FirstTick, Requeue
    <3> QED BY <2>1, <3>3 DEF Act
  <2>2. ASSUME TimedInv, NEW u \in Units, Act(u)
        PROVE  left[u] <= TickSize * (1 + calibs[u])
    <3> DEFINE z == TickSize * (1 + calibs[u])
    <3>1. u \in DOMAIN rtc.event /\ rtc.event[u] = 0 /\ rtc.usecs_remaining[u] = 0
      BY <2>2 DEF Act, Dispatched
    <3>2. TimeLeft(rtc, u) = 0
      BY <3>1 DEF TimeLeft
    <3>3. left[u] <= TimeLeft(rtc, u) + z
      BY <2>2, <3>1, TimedInvIs DEF OnTime, IsActive, FiresAsAsked, FiresNotTooEarly
    <3>4. z \in Nat
      <4>1. calibs[u] \in Nat
        BY <2>2, TimedInvIs
      <4>2. z = TickSize + TickSize * calibs[u] /\ TickSize * calibs[u] \in Nat
        BY <4>1, TickProducts
      <4> QED BY <4>2, TimerNumbers
    <3> HIDE DEF z
    <3>5. left[u] <= z
      BY <3>2, <3>3, <3>4
    <3> QED BY <3>5 DEF z
  <2>3. ASSUME TimedInv, Next
        PROVE  \A u \in Units : uptr = NoUnit /\ uptr' = u =>
                 left[u] <= TickSize * (1 + calibs[u])
    BY <2>1, <2>2, <2>3
  <2> QED BY <2>3
<1> QED BY <1>1, TimedInvHolds, PTL DEF Spec, OneTickEarlyPerCalibration

=============================================================================

-------------------------- MODULE EventQueueProofs --------------------------
(***************************************************************************)
(* Proofs about EventQueue: the routines of the package keep the clock     *)
(* sound, and so the invariants hold for any units, delays and modulus;    *)
(* what the routines do to the agenda, the absolute times at which units   *)
(* are due, and so that EventQueue implements EventClock.                  *)
(***************************************************************************)
EXTENDS EventQueue, DelayListProofs

-----------------------------------------------------------------------------
(***************************************************************************)
(* What the routines of the package preserve.                              *)
(***************************************************************************)

\* What holds of the clock between any two statements of its callers.
Sound(S) ==
  /\ S \in Clocks
  /\ InOrder(S.queue)
  /\ S.rtime = S.time % RTimeMod

\* sim_interval agrees with the queue.
Synced(S) == S.interval = HeadTime(S)

NoneOverdue(S) == \A i \in DOMAIN S.queue : S.queue[i].time >= 0

\* What the signal handler leaves of that while an event is processed.
Loose(S) == NoneOverdue(S) /\ 0 <= S.interval /\ S.interval <= HeadTime(S)

\* The fields of the clock have their types.
LEMMA ClockTypes ==
  ASSUME NEW S \in Clocks
  PROVE  /\ S.queue \in Seq(Entries) /\ S.interval \in Int /\ S.noqueue \in Int
         /\ S.time \in Int /\ S.rtime \in 0..(RTimeMod - 1)
         /\ S.usecs_remaining \in [Units -> Nat]
         /\ HeadTime(S) \in Int
<1>1. /\ S.queue \in Seq(Entries) /\ S.interval \in Int /\ S.noqueue \in Int
      /\ S.time \in Int /\ S.rtime \in 0..(RTimeMod - 1)
      /\ S.usecs_remaining \in [Units -> Nat]
  BY DEF Clocks
<1>2. S.queue # <<>> => S.queue[1].time \in Int
  BY <1>1, EntryTypes
<1> QED BY <1>1, <1>2 DEF HeadTime

\* sim_time and sim_rtime are moved by the same amount.
LEMMA AddTimeKeeps ==
  ASSUME NEW S, Sound(S), NEW d \in Int
  PROVE  LET R == AddTime(S, d)
         IN  /\ Sound(R) /\ R.time = S.time + d
             /\ R.queue = S.queue /\ R.interval = S.interval
             /\ R.noqueue = S.noqueue /\ R.usecs_remaining = S.usecs_remaining
<1> DEFINE R == AddTime(S, d)
<1>0. S \in Clocks /\ S.rtime = S.time % RTimeMod /\ InOrder(S.queue)
  BY DEF Sound
<1>1. RTimeMod \in Nat \ {0}
  BY RTimeAssumption
<1>2. (S.rtime + d) % RTimeMod = (S.time + d) % RTimeMod
  <2>1. S.time \in Int
    BY <1>0, ClockTypes
  <2>2. ((S.time % RTimeMod) + d) % RTimeMod = (S.time + d) % RTimeMod
    BY <2>1, <1>1, ModOfSum
  <2> QED BY <2>2, <1>0
<1>3. (S.time + d) % RTimeMod \in 0..(RTimeMod - 1) /\ S.time + d \in Int
  <2>1. S.time + d \in Int
    BY <1>0, ClockTypes
  <2> QED BY <2>1, <1>1, ModProperties
<1>4. /\ R.time = S.time + d /\ R.rtime = (S.time + d) % RTimeMod
      /\ R.queue = S.queue /\ R.interval = S.interval
      /\ R.noqueue = S.noqueue /\ R.usecs_remaining = S.usecs_remaining
  BY <1>0, <1>2 DEF AddTime, Clocks
<1>5. R \in Clocks
  BY <1>0, <1>2, <1>3 DEF AddTime, Clocks
<1> QED BY <1>0, <1>4, <1>5 DEF Sound

\* UPDATE_SIM_TIME moves time from the interval to sim_time: the current time, the
\* units on the queue and their order stay as they are.
LEMMA UpdateKeeps ==
  ASSUME NEW S, Sound(S)
  PROVE  LET R == UpdateSimTime(S)
         IN  /\ Sound(R) /\ Synced(R)
             /\ R.time = GTime(S) /\ GTime(R) = GTime(S)
             /\ R.interval = S.interval /\ R.usecs_remaining = S.usecs_remaining
             /\ (R.queue = <<>>) <=> (S.queue = <<>>)
             /\ Len(R.queue) = Len(S.queue) /\ Queued(R) = Queued(S)
             /\ \A i \in DOMAIN S.queue : /\ R.queue[i].unit = S.queue[i].unit
                                          /\ i > 1 => R.queue[i] = S.queue[i]
             /\ Synced(S) /\ NoneOverdue(S) => NoneOverdue(R)
             /\ 0 <= S.interval /\ NoneOverdue(S) => NoneOverdue(R)
<1> DEFINE d == HeadTime(S) - S.interval
           T == AddTime(S, d)
           R == UpdateSimTime(S)
<1>0. S \in Clocks
  BY DEF Sound
<1>1. d \in Int
  BY <1>0, ClockTypes
<1>2. /\ Sound(T) /\ T.time = S.time + d
      /\ T.queue = S.queue /\ T.interval = S.interval
      /\ T.noqueue = S.noqueue /\ T.usecs_remaining = S.usecs_remaining
  BY <1>1, AddTimeKeeps
<1>3. R = SetHeadTime(T, S.interval)
  BY DEF UpdateSimTime
<1> HIDE DEF T, R, d
<1>4. T \in Clocks /\ InOrder(T.queue) /\ T.rtime = T.time % RTimeMod
  BY <1>2 DEF Sound
<1>5. S.interval \in Int /\ S.queue \in Seq(Entries)
  BY <1>0, ClockTypes
<1>6. T.time = GTime(S)
  BY <1>0, <1>2, ClockTypes DEF GTime, d
<1>7. CASE S.queue = <<>>
  <2>1. R = [T EXCEPT !.noqueue = S.interval]
    BY <1>2, <1>3, <1>7 DEF SetHeadTime
  <2>2. /\ R \in Clocks /\ R.noqueue = S.interval /\ R.queue = T.queue
        /\ R.time = T.time /\ R.rtime = T.rtime /\ R.interval = T.interval
        /\ R.usecs_remaining = T.usecs_remaining
    BY <2>1, <1>4, <1>5 DEF Clocks
  <2>3. Synced(R) /\ R.time + HeadTime(R) - R.interval = R.time
    BY <2>2, <1>2, <1>4, <1>5, <1>7, ClockTypes DEF Synced, HeadTime
  <2>4. Sound(R)
    BY <2>2, <1>4 DEF Sound
  <2>5. NoneOverdue(R)
    BY <2>2, <1>2, <1>7 DEF NoneOverdue
  <2>6. Queued(R) = Queued(S)
    BY <2>2, <1>2 DEF Queued
  <2> QED BY <2>2, <2>3, <2>4, <2>5, <2>6, <1>2, <1>6, <1>7 DEF GTime, R
<1>8. CASE S.queue # <<>>
  <2> DEFINE n == Len(S.queue)
             q == [S.queue EXCEPT ![1] = [@ EXCEPT !.time = S.interval]]
  <2>1. R = [T EXCEPT !.queue = q]
    BY <1>2, <1>3, <1>4, <1>8 DEF SetHeadTime, Clocks
  <2>2. /\ n \in Nat \ {0} /\ DOMAIN S.queue = 1..n /\ 1 \in 1..n
        /\ \A i \in 1..n : S.queue[i] \in Entries
    BY <1>5, <1>8, EntryTypes
  <2>3. [S.queue[1] EXCEPT !.time = S.interval] \in Entries
    BY <2>2, <1>5 DEF Entries
  <2>4. q \in [1..n -> Entries]
    BY <2>2, <2>3, <1>5
  <2>5. q \in Seq(Entries) /\ Len(q) = n /\ DOMAIN q = 1..n
    BY <2>2, <2>4
  <2>6. /\ q[1].time = S.interval /\ q[1].unit = S.queue[1].unit
        /\ \A i \in 1..n : i > 1 => q[i] = S.queue[i]
    BY <2>2, <1>5 DEF Entries
  <2> HIDE DEF q
  <2>7. /\ R \in Clocks /\ R.queue = q /\ R.noqueue = T.noqueue
        /\ R.time = T.time /\ R.rtime = T.rtime /\ R.interval = T.interval
        /\ R.usecs_remaining = T.usecs_remaining
    BY <2>1, <2>5, <1>4 DEF Clocks
  <2>8. q # <<>>
    BY <2>2, <2>5
  <2>9. \A i \in 1..n : q[i].unit = S.queue[i].unit
    BY <2>2, <2>6
  <2>10. Synced(R) /\ R.time + HeadTime(R) - R.interval = R.time
    BY <2>6, <2>7, <2>8, <1>2, <1>4, <1>5, ClockTypes DEF Synced, HeadTime
  <2>11. InOrder(q)
    <3>1. \A i, j \in 1..n : q[i].unit = q[j].unit => i = j
      BY <2>2, <2>9, <1>2, <1>4 DEF InOrder
    <3>2. \A i \in 1..n : i > 1 => q[i].time >= 0
      BY <2>2, <2>6, <1>2, <1>4 DEF InOrder
    <3> QED BY <3>1, <3>2, <2>5 DEF InOrder
  <2>12. Sound(R)
    BY <2>7, <2>11, <1>4 DEF Sound
  <2>13. ASSUME Synced(S), NoneOverdue(S) PROVE NoneOverdue(R)
    <3>1. S.interval = S.queue[1].time
      BY <2>13, <1>8 DEF Synced, HeadTime
    <3>2. \A i \in 1..n : S.queue[i].time >= 0
      BY <2>2, <2>13 DEF NoneOverdue
    <3>3. \A i \in 1..n : q[i].time >= 0
      BY <3>1, <3>2, <2>2, <2>6
    <3> QED BY <3>3, <2>5, <2>7 DEF NoneOverdue
  <2>14. Queued(R) = Queued(S)
    BY <2>2, <2>5, <2>7, <2>9 DEF Queued
  <2>15. ASSUME 0 <= S.interval, NoneOverdue(S) PROVE NoneOverdue(R)
    <3>1. \A i \in 1..n : S.queue[i].time >= 0
      BY <2>2, <2>15 DEF NoneOverdue
    <3>2. \A i \in 1..n : q[i].time >= 0
      BY <3>1, <2>15, <2>2, <2>6, <1>5
    <3> QED BY <3>2, <2>5, <2>7 DEF NoneOverdue
  <2> QED BY <2>2, <2>5, <2>6, <2>7, <2>8, <2>9, <2>10, <2>12, <2>13, <2>14, <2>15,
             <1>2, <1>6, <1>8 DEF GTime, R
<1> QED BY <1>7, <1>8

\* sim_interval = noqueue_time = NOQUEUE_WAIT.
LEMMA FlagQueueEmptyKeeps ==
  ASSUME NEW S, Sound(S)
  PROVE  LET R == FlagQueueEmpty(S)
         IN  /\ Sound(R) /\ R.queue = S.queue /\ R.usecs_remaining = S.usecs_remaining
             /\ R.interval = NoQueueWait /\ R.time = S.time
             /\ S.queue = <<>> => Synced(R)
<1> DEFINE R == FlagQueueEmpty(S)
<1>1. S \in Clocks /\ InOrder(S.queue) /\ S.rtime = S.time % RTimeMod
  BY DEF Sound
<1>2. /\ R \in Clocks /\ R.queue = S.queue /\ R.usecs_remaining = S.usecs_remaining
      /\ R.interval = NoQueueWait /\ R.noqueue = NoQueueWait
      /\ R.time = S.time /\ R.rtime = S.rtime
  <2>1. NoQueueWait \in Int
    BY WaitAssumption
  <2> QED BY <1>1, <2>1 DEF FlagQueueEmpty, Clocks
<1> QED BY <1>1, <1>2 DEF Sound, Synced, HeadTime

\* What a call leaves as it is: delays are owed to queued units only, and
\* between an event and the next no entry is overdue.
Owed(S) == \A u \in Units : S.usecs_remaining[u] # 0 => u \in Queued(S)

Timely(S) == Synced(S) /\ NoneOverdue(S)

\* Where the interval agrees with the queue, the signal handler has left nothing.
LEMMA TimelyIsLoose ==
  ASSUME NEW S, Sound(S), Timely(S), S.queue = <<>> => S.interval >= 0
  PROVE  Loose(S)
<1>1. S.queue \in Seq(Entries) /\ S.interval \in Int /\ S.interval = HeadTime(S)
  BY ClockTypes DEF Sound, Timely, Synced
<1>2. CASE S.queue = <<>>
  BY <1>1, <1>2 DEF Loose, Timely
<1>3. CASE S.queue # <<>>
  <2>1. 1 \in DOMAIN S.queue
    BY <1>1, <1>3, EntryTypes
  <2> QED BY <1>1, <1>3, <2>1 DEF Loose, Timely, NoneOverdue, HeadTime
<1> QED BY <1>2, <1>3

\* _sim_activate.
LEMMA ActivateKeeps ==
  ASSUME NEW S, Sound(S), NEW u \in Units, NEW t \in Nat
  PROVE  LET R == _sim_activate(S, u, t)
         IN  /\ Sound(R) /\ Queued(R) = Queued(S) \cup {u}
             /\ R.usecs_remaining = S.usecs_remaining
             /\ Timely(S) => Timely(R)
             /\ Loose(S) => Loose(R)
<1> DEFINE R == _sim_activate(S, u, t)
<1>1. CASE u \in Queued(S)
  BY <1>1 DEF _sim_activate
<1>2. CASE u \notin Queued(S)
  <2> DEFINE T == UpdateSimTime(S)
             q == Insert(T.queue, InsertionPoint(T.queue, t), u, t)
  <2>1. /\ Sound(T) /\ Synced(T) /\ T.usecs_remaining = S.usecs_remaining
        /\ Queued(T) = Queued(S)
        /\ Synced(S) /\ NoneOverdue(S) => NoneOverdue(T)
    BY UpdateKeeps
  <2>2. R = [T EXCEPT !.queue = q, !.interval = q[1].time]
    BY <1>2 DEF _sim_activate
  <2> HIDE DEF T, R
  <2>3. /\ T \in Clocks /\ InOrder(T.queue) /\ T.rtime = T.time % RTimeMod
        /\ T.queue \in Seq(Entries)
    BY <2>1, ClockTypes DEF Sound
  <2>4. (\A i \in DOMAIN T.queue : T.queue[i].unit # u) /\ t \in Int
    BY <1>2, <2>1 DEF Queued
  <2>5. /\ q \in Seq(Entries) /\ Len(q) = Len(T.queue) + 1 /\ InOrder(q)
        /\ {q[i].unit : i \in DOMAIN q} = {T.queue[i].unit : i \in DOMAIN T.queue} \cup {u}
        /\ (\A i \in DOMAIN T.queue : T.queue[i].time >= 0) => \A i \in DOMAIN q : q[i].time >= 0
    <3> DEFINE p == T.queue
    <3>1. /\ p \in Seq(Entries) /\ InOrder(p)
          /\ \A i \in DOMAIN p : p[i].unit # u
      BY <2>3, <2>4
    <3> HIDE DEF p
    <3> DEFINE r == Insert(p, InsertionPoint(p, t), u, t)
    <3>2. /\ r \in Seq(Entries) /\ Len(r) = Len(p) + 1 /\ InOrder(r)
          /\ {r[i].unit : i \in DOMAIN r} = {p[i].unit : i \in DOMAIN p} \cup {u}
          /\ (t >= 0 /\ \A i \in DOMAIN p : p[i].time >= 0) => \A i \in DOMAIN r : r[i].time >= 0
      BY <3>1, <2>4, InsertKeepsOrder
    <3> HIDE DEF r
    <3>3. q = r
      BY DEF r, p
    <3> HIDE DEF q
    <3> QED BY <3>2, <3>3 DEF p
  <2> HIDE DEF q
  <2>6. q # <<>> /\ q[1].time \in Int
    <3>1. Len(q) >= 1
      BY <2>3, <2>5
    <3> QED BY <3>1, <2>5, EntryTypes
  <2>7. /\ R \in Clocks /\ R.queue = q /\ R.interval = q[1].time
        /\ R.time = T.time /\ R.rtime = T.rtime /\ R.usecs_remaining = T.usecs_remaining
    BY <2>2, <2>3, <2>5, <2>6 DEF Clocks
  <2>8. Sound(R)
    BY <2>3, <2>5, <2>7 DEF Sound
  <2>9. Synced(R)
    BY <2>6, <2>7 DEF Synced, HeadTime
  <2>10. Timely(S) \/ Loose(S) => NoneOverdue(R)
    <3>1. Timely(S) \/ Loose(S) => NoneOverdue(T)
      BY UpdateKeeps DEF Timely, Loose, T
    <3> QED BY <3>1, <2>5, <2>7 DEF NoneOverdue
  <2>11. Queued(R) = Queued(S) \cup {u}
    BY <2>1, <2>5, <2>7 DEF Queued
  <2>12. Loose(S) => Loose(R)
    BY <2>6, <2>7, <2>8, <2>9, <2>10, TimelyIsLoose DEF Timely
  <2> QED BY <2>1, <2>7, <2>8, <2>9, <2>10, <2>11, <2>12 DEF R, Timely
<1> QED BY <1>1, <1>2

\* sim_cancel.
LEMMA CancelKeeps ==
  ASSUME NEW S, Sound(S), NEW u \in Units
  PROVE  LET R == sim_cancel(S, u)
         IN  /\ Sound(R) /\ Queued(R) = Queued(S) \ {u}
             /\ u \in Queued(S) =>
                  R.usecs_remaining = [S.usecs_remaining EXCEPT ![u] = 0]
             /\ u \notin Queued(S) => R = S
             /\ Timely(S) => Timely(R)
             /\ Loose(S) => Loose(R)
<1> DEFINE R == sim_cancel(S, u)
<1>1. CASE u \notin Queued(S)
  BY <1>1 DEF sim_cancel
<1>2. CASE u \in Queued(S)
  <2> DEFINE T == UpdateSimTime(S)
             k == Index(T, u)
             q == Unlink(T.queue, k)
             V == [T EXCEPT !.queue = q, !.usecs_remaining[u] = 0]
  <2>1. /\ Sound(T) /\ Synced(T) /\ T.usecs_remaining = S.usecs_remaining
        /\ Queued(T) = Queued(S)
        /\ Synced(S) /\ NoneOverdue(S) => NoneOverdue(T)
    BY UpdateKeeps
  <2>2. R = IF q = <<>> THEN FlagQueueEmpty(V) ELSE [V EXCEPT !.interval = q[1].time]
    BY <1>2 DEF sim_cancel
  <2> HIDE DEF T, R
  <2>3. /\ T \in Clocks /\ InOrder(T.queue) /\ T.rtime = T.time % RTimeMod
        /\ T.queue \in Seq(Entries) /\ T.usecs_remaining \in [Units -> Nat]
    BY <2>1, ClockTypes DEF Sound
  <2>4. k \in DOMAIN T.queue /\ T.queue[k].unit = u
    BY <1>2, <2>1 DEF Queued, Index
  <2> HIDE DEF k
  <2>5. /\ q \in Seq(Entries) /\ InOrder(q)
        /\ {q[i].unit : i \in DOMAIN q} = {T.queue[i].unit : i \in DOMAIN T.queue} \ {u}
        /\ (\A i \in DOMAIN T.queue : T.queue[i].time >= 0) => \A i \in DOMAIN q : q[i].time >= 0
    BY <2>3, <2>4, UnlinkKeepsOrder
  <2> HIDE DEF q
  <2>6. /\ V \in Clocks /\ V.queue = q /\ V.time = T.time /\ V.rtime = T.rtime
        /\ V.usecs_remaining = [T.usecs_remaining EXCEPT ![u] = 0]
    BY <2>3, <2>5 DEF Clocks
  <2>7. Sound(V)
    BY <2>3, <2>5, <2>6 DEF Sound
  <2> HIDE DEF V
  <2>8. /\ Sound(R) /\ Synced(R) /\ R.queue = q
        /\ R.usecs_remaining = V.usecs_remaining
        /\ R.queue = <<>> => R.interval >= 0
    <3>1. CASE q = <<>>
      <4>1. R = FlagQueueEmpty(V)
        BY <2>2, <3>1
      <4> QED BY <4>1, <3>1, <2>6, <2>7, FlagQueueEmptyKeeps, WaitAssumption
    <3>2. CASE q # <<>>
      <4>1. q[1].time \in Int
        BY <3>2, <2>5, EntryTypes
      <4>2. R = [V EXCEPT !.interval = q[1].time]
        BY <2>2, <3>2
      <4>3. /\ R \in Clocks /\ R.queue = q /\ R.interval = q[1].time
            /\ R.time = V.time /\ R.rtime = V.rtime /\ R.usecs_remaining = V.usecs_remaining
        BY <4>1, <4>2, <2>6 DEF Clocks
      <4> QED BY <4>3, <3>2, <2>6, <2>7 DEF Sound, Synced, HeadTime
    <3> QED BY <3>1, <3>2
  <2>9. Timely(S) \/ Loose(S) => NoneOverdue(R)
    <3>1. Timely(S) \/ Loose(S) => NoneOverdue(T)
      BY UpdateKeeps DEF Timely, Loose, T
    <3> QED BY <3>1, <2>5, <2>8 DEF NoneOverdue
  <2>10. Queued(R) = Queued(S) \ {u}
    BY <2>1, <2>5, <2>8 DEF Queued
  <2>11. Loose(S) => Loose(R)
    BY <2>8, <2>9, TimelyIsLoose DEF Timely
  <2> QED BY <1>2, <2>1, <2>6, <2>8, <2>9, <2>10, <2>11 DEF R, Timely
<1> QED BY <1>1, <1>2

\* sim_activate_abs.
LEMMA AbsKeeps ==
  ASSUME NEW S, Sound(S), Owed(S), NEW u \in Units, NEW t \in Nat
  PROVE  LET R == sim_activate_abs(S, u, t)
         IN  Sound(R) /\ Owed(R) /\ (Timely(S) => Timely(R)) /\ (Loose(S) => Loose(R))
<1> DEFINE T == sim_cancel(S, u)
<1>1. /\ Sound(T) /\ Queued(T) = Queued(S) \ {u} /\ (Timely(S) => Timely(T))
      /\ Loose(S) => Loose(T)
      /\ u \in Queued(S) => T.usecs_remaining = [S.usecs_remaining EXCEPT ![u] = 0]
      /\ u \notin Queued(S) => T = S
  BY CancelKeeps
<1>2. S.usecs_remaining \in [Units -> Nat]
  BY ClockTypes DEF Sound
<1>3. Owed(T)
  BY <1>1, <1>2 DEF Owed
<1> HIDE DEF T
<1> DEFINE R == _sim_activate(T, u, t)
<1>4. /\ Sound(R) /\ Queued(R) = Queued(T) \cup {u} /\ R.usecs_remaining = T.usecs_remaining
      /\ Timely(T) => Timely(R)
      /\ Loose(T) => Loose(R)
  BY <1>1, ActivateKeeps
<1>5. sim_activate_abs(S, u, t) = R
  BY DEF sim_activate_abs, T
<1> HIDE DEF R
<1> QED BY <1>1, <1>3, <1>4, <1>5 DEF Owed

\* sim_activate_notbefore.
LEMMA NotBeforeKeeps ==
  ASSUME NEW S, Sound(S), Owed(S), NEW u \in Units, NEW rt \in Nat
  PROVE  LET R == sim_activate_notbefore(S, u, rt)
         IN  Sound(R) /\ Owed(R) /\ (Timely(S) => Timely(R)) /\ (Loose(S) => Loose(R))
<1> DEFINE T == sim_cancel(S, u)
           V == UpdateSimTime(T)
           d == (rt - V.rtime) % RTimeMod
           t == IF 2 * d >= RTimeMod THEN 0 ELSE d
<1>1. /\ Sound(T) /\ Queued(T) = Queued(S) \ {u} /\ (Timely(S) => Timely(T))
      /\ Loose(S) => Loose(T)
      /\ u \in Queued(S) => T.usecs_remaining = [S.usecs_remaining EXCEPT ![u] = 0]
      /\ u \notin Queued(S) => T = S
  BY CancelKeeps
<1>2. S.usecs_remaining \in [Units -> Nat]
  BY ClockTypes DEF Sound
<1>3. Owed(T)
  BY <1>1, <1>2 DEF Owed
<1> HIDE DEF T
<1>4. /\ Sound(V) /\ Synced(V) /\ Queued(V) = Queued(T) /\ V.usecs_remaining = T.usecs_remaining
      /\ Synced(T) /\ NoneOverdue(T) => NoneOverdue(V)
      /\ 0 <= T.interval /\ NoneOverdue(T) => NoneOverdue(V)
      /\ V.interval = T.interval
  BY <1>1, UpdateKeeps
<1>5. sim_activate_notbefore(S, u, rt) = _sim_activate(V, u, t)
  BY DEF sim_activate_notbefore, T
<1> HIDE DEF V
<1>6. t \in Nat
  <2>1. V.rtime \in Int /\ RTimeMod \in Nat \ {0}
    BY <1>4, RTimeAssumption, ClockTypes DEF Sound
  <2>2. rt - V.rtime \in Int
    BY <2>1
  <2>3. d \in 0..(RTimeMod - 1)
    BY <2>1, <2>2, ModProperties
  <2> QED BY <2>1, <2>3
<1> HIDE DEF t
<1> DEFINE R == _sim_activate(V, u, t)
<1>7. /\ Sound(R) /\ Queued(R) = Queued(V) \cup {u} /\ R.usecs_remaining = V.usecs_remaining
      /\ Timely(V) => Timely(R)
      /\ Loose(V) => Loose(R)
  BY <1>4, <1>6, ActivateKeeps
<1> HIDE DEF R
<1>8. (Timely(S) => Timely(V)) /\ (Loose(S) => Loose(V))
  <2>1. Loose(T) => Timely(V) /\ V.interval >= 0
    BY <1>4 DEF Timely, Loose
  <2> QED BY <1>1, <1>4, <2>1, TimelyIsLoose DEF Timely
<1>9. Owed(R)
  BY <1>3, <1>4, <1>7 DEF Owed
<1> QED BY <1>5, <1>7, <1>8, <1>9 DEF R

\* u itself may be owed the delay that is about to be queued.
LEMMA AfterKeeps ==
  ASSUME NEW S, Sound(S), NEW u \in Units, NEW us \in Nat, NEW running \in BOOLEAN,
         \A v \in Units \ {u} : S.usecs_remaining[v] # 0 => v \in Queued(S)
  PROVE  LET R == sim_timer_activate_after(S, u, us, running)
         IN  Sound(R) /\ Owed(R) /\ (Timely(S) => Timely(R)) /\ (Loose(S) => Loose(R))
<1> DEFINE R == sim_timer_activate_after(S, u, us, running)
<1>1. CASE u \in Queued(S)
  BY <1>1 DEF sim_timer_activate_after, Owed
<1>2. CASE u \notin Queued(S)
  <2> DEFINE r == IF running THEN 0 ELSE us
             t == IF running THEN InstDelay(us) ELSE IF us = 0 THEN 0 ELSE 1
             T == [S EXCEPT !.usecs_remaining[u] = r]
  <2>1. R = _sim_activate(T, u, t)
    BY <1>2 DEF sim_timer_activate_after
  <2>2. r \in Nat
    OBVIOUS
  <2>3. t \in Nat
    <3>1. InstNum * us \in Nat /\ InstDen \in Nat \ {0}
      BY RateAssumption
    <3>2. (InstNum * us) \div InstDen \in Nat
      BY <3>1, SMT
    <3> QED BY <3>2 DEF InstDelay
  <2> HIDE DEF t, r
  <2>4. /\ T \in Clocks /\ T.queue = S.queue /\ T.interval = S.interval
        /\ T.noqueue = S.noqueue /\ T.time = S.time /\ T.rtime = S.rtime
        /\ T.usecs_remaining = [S.usecs_remaining EXCEPT ![u] = r]
    BY <2>2 DEF Sound, Clocks
  <2> HIDE DEF T
  <2>5. /\ Sound(T) /\ Queued(T) = Queued(S)
        /\ (Timely(S) => Timely(T)) /\ (Loose(S) => Loose(T))
    BY <2>4 DEF Sound, Queued, Timely, Loose, Synced, NoneOverdue, HeadTime
  <2> HIDE DEF R
  <2>6. /\ Sound(R) /\ Queued(R) = Queued(T) \cup {u} /\ R.usecs_remaining = T.usecs_remaining
        /\ Timely(T) => Timely(R)
        /\ Loose(T) => Loose(R)
    BY <2>1, <2>3, <2>5, ActivateKeeps
  <2>7. Owed(R)
    <3>1. S.usecs_remaining \in [Units -> Nat]
      BY ClockTypes DEF Sound
    <3> QED BY <3>1, <2>4, <2>5, <2>6 DEF Owed
  <2> QED BY <2>5, <2>6, <2>7 DEF R
<1> QED BY <1>1, <1>2

\* The time is moved back to when the head was to fire.
LEMMA BackUpKeeps ==
  ASSUME NEW S, Sound(S), S.interval <= 0
  PROVE  LET R == BackUp(S)
         IN  /\ Sound(R) /\ R.interval = 0
             /\ R.usecs_remaining = S.usecs_remaining /\ Queued(R) = Queued(S)
             /\ (R.queue = <<>>) <=> (S.queue = <<>>)
<1>1. S.interval \in Int
  BY ClockTypes DEF Sound
<1>2. CASE S.interval < 0
  <2> DEFINE T == [S EXCEPT !.interval = 0]
             R == UpdateSimTime(T)
  <2>1. /\ T \in Clocks /\ T.queue = S.queue /\ T.interval = 0
        /\ T.time = S.time /\ T.rtime = S.rtime /\ T.usecs_remaining = S.usecs_remaining
    <3>1. S \in Clocks
      BY DEF Sound
    <3> QED BY <3>1 DEF Clocks
  <2> HIDE DEF T
  <2>2. Sound(T) /\ Queued(T) = Queued(S)
    BY <2>1 DEF Sound, Queued
  <2>3. /\ Sound(R) /\ R.interval = T.interval /\ R.usecs_remaining = T.usecs_remaining
        /\ (R.queue = <<>>) <=> (T.queue = <<>>)
        /\ Queued(R) = Queued(T)
    BY <2>2, UpdateKeeps
  <2>4. BackUp(S) = R
    BY <1>2 DEF BackUp, T
  <2> HIDE DEF R
  <2> QED BY <2>1, <2>2, <2>3, <2>4
<1>3. CASE ~(S.interval < 0)
  BY <1>1, <1>3 DEF BackUp
<1> QED BY <1>2, <1>3

\* The head is taken off the queue: what is behind it is not overdue.
LEMMA TakeHeadKeeps ==
  ASSUME NEW S, Sound(S), S.queue # <<>>, NEW c \in Int, c >= 0 => S.interval = 0 /\ c = 0
  PROVE  LET R == TakeHead(S, c)
         IN  /\ Sound(R) /\ Timely(R) /\ Loose(R)
             /\ R.usecs_remaining = S.usecs_remaining
             /\ Queued(S) = Queued(R) \cup {S.queue[1].unit}
<1> DEFINE q == Tail(S.queue)
           n == Len(S.queue)
           T == [S EXCEPT !.queue = q]
           R == TakeHead(S, c)
<1>1. /\ S \in Clocks /\ InOrder(S.queue) /\ S.rtime = S.time % RTimeMod
      /\ S.queue \in Seq(Entries) /\ S.interval \in Int
  BY ClockTypes DEF Sound
<1>2. /\ n \in Nat \ {0} /\ DOMAIN S.queue = 1..n
      /\ \A i \in 1..n : S.queue[i] \in Entries /\ S.queue[i].time \in Int
  BY <1>1, EntryTypes
<1>3. /\ q \in Seq(Entries) /\ Len(q) = n - 1 /\ DOMAIN q = 1..(n - 1)
      /\ \A i \in 1..(n - 1) : q[i] = S.queue[i + 1] /\ i + 1 \in 1..n /\ i + 1 > 1
  BY <1>1, <1>2
<1> HIDE DEF q
<1>4. InOrder(q) /\ \A i \in DOMAIN q : q[i].time >= 0
  <2>1. ASSUME NEW i \in DOMAIN q, NEW j \in DOMAIN q, q[i].unit = q[j].unit
        PROVE  i = j
    <3>1. i \in 1..(n - 1) /\ j \in 1..(n - 1)
      BY <1>3
    <3>2. /\ q[i] = S.queue[i + 1] /\ i + 1 \in 1..n
          /\ q[j] = S.queue[j + 1] /\ j + 1 \in 1..n
      BY <3>1, <1>3
    <3>3. i + 1 = j + 1
      BY <3>2, <2>1, <1>1, <1>2 DEF InOrder
    <3> QED BY <3>1, <3>3
  <2>2. \A i \in DOMAIN q : q[i].time >= 0
    BY <1>1, <1>2, <1>3 DEF InOrder
  <2> QED BY <2>1, <2>2 DEF InOrder
<1>5. /\ T \in Clocks /\ T.queue = q /\ T.interval = S.interval
      /\ T.time = S.time /\ T.rtime = S.rtime /\ T.usecs_remaining = S.usecs_remaining
  BY <1>1, <1>3 DEF Clocks
<1>6. R = IF T.queue = <<>> THEN FlagQueueEmpty(T)
          ELSE [T EXCEPT !.interval = (IF c < 0 THEN 0 ELSE @ + c) + T.queue[1].time]
  BY DEF TakeHead, q
<1> HIDE DEF T, R
<1>7. Sound(T)
  BY <1>1, <1>4, <1>5 DEF Sound
<1>8. /\ Sound(R) /\ Synced(R) /\ R.queue = q /\ R.usecs_remaining = S.usecs_remaining
      /\ R.queue = <<>> => R.interval >= 0
  <2>1. CASE q = <<>>
    <3>1. R = FlagQueueEmpty(T)
      BY <2>1, <1>5, <1>6
    <3> QED BY <3>1, <2>1, <1>5, <1>7, FlagQueueEmptyKeeps, WaitAssumption
  <2>2. CASE q # <<>>
    <3>1. q[1].time \in Int
      BY <2>2, <1>3, EntryTypes
    <3>2. (IF c < 0 THEN 0 ELSE T.interval + c) + q[1].time = q[1].time
      BY <3>1, <1>1, <1>5
    <3>3. R = [T EXCEPT !.interval = q[1].time]
      BY <2>2, <3>2, <1>5, <1>6 DEF Clocks
    <3>4. /\ R \in Clocks /\ R.queue = q /\ R.interval = q[1].time
          /\ R.time = T.time /\ R.rtime = T.rtime /\ R.usecs_remaining = T.usecs_remaining
      BY <3>1, <3>3, <1>5 DEF Clocks
    <3> QED BY <3>4, <2>2, <1>5, <1>7 DEF Sound, Synced, HeadTime
  <2> QED BY <2>1, <2>2
<1>9. Queued(S) = Queued(R) \cup {S.queue[1].unit}
  <2>1. ASSUME NEW j \in 1..n
        PROVE  S.queue[j].unit \in {q[i].unit : i \in 1..(n - 1)} \cup {S.queue[1].unit}
    <3>1. CASE j = 1
      BY <3>1
    <3>2. CASE j # 1
      <4> DEFINE i == j - 1
      <4>1. i \in 1..(n - 1) /\ i + 1 = j
        BY <3>2, <1>2
      <4>2. q[i] = S.queue[j]
        BY <4>1, <1>3
      <4> QED BY <4>1, <4>2
    <3> QED BY <3>1, <3>2
  <2>2. ASSUME NEW i \in 1..(n - 1)
        PROVE  q[i].unit \in {S.queue[j].unit : j \in 1..n}
    BY <1>3
  <2>3. S.queue[1].unit \in {S.queue[j].unit : j \in 1..n}
    <3>1. 1 \in 1..n
      BY <1>2
    <3> QED BY <3>1
  <2>4. /\ Queued(S) = {S.queue[j].unit : j \in 1..n}
        /\ Queued(R) = {q[i].unit : i \in 1..(n - 1)}
    BY <1>2, <1>3, <1>8 DEF Queued
  <2> HIDE DEF n
  <2> QED BY <2>1, <2>2, <2>3, <2>4
<1>10. Timely(R) /\ Loose(R)
  BY <1>4, <1>8, TimelyIsLoose DEF Timely, NoneOverdue
<1> QED BY <1>8, <1>9, <1>10 DEF R

-----------------------------------------------------------------------------
(***************************************************************************)
(* The inductive invariant.                                                *)
(***************************************************************************)

InEvent == pc \in {"action", "requeue", "requeued"}

\* The invariants of the runs, and what they need to be inductive: while an
\* event is processed, and no signal has interfered, the interval agrees with
\* the queue and no entry is overdue, since what is late is in
\* sim_interval_catchup, which is not positive and 0 between events.
IInv ==
  /\ TypeOK
  /\ QueueInOrder
  /\ RTimeFollowsTime
  /\ DeferredUnitIsQueued
  /\ InEvent => uptr \in Units /\ Loose(clk)
  /\ InEvent /\ ~stop_cpu => Timely(clk)
  /\ catchup <= 0
  /\ pc \in {"scp", "instr"} => catchup = 0

\* What the invariant says, in the terms of the lemmas above.
LEMMA IInvParts ==
  ASSUME IInv
  PROVE  /\ Sound(clk) /\ (pc # "requeue" => Owed(clk))
         /\ clk \in Clocks /\ catchup \in Int /\ stop_cpu \in BOOLEAN
         /\ pc \in {"scp", "instr", "action", "requeue", "requeued", "crashed"}
         /\ uptr \in Units \cup {NoUnit}
         /\ InEvent => uptr \in Units /\ Loose(clk)
         /\ InEvent /\ ~stop_cpu => Timely(clk)
         /\ catchup <= 0 /\ (pc \in {"scp", "instr"} => catchup = 0)
BY DEF IInv, TypeOK, QueueInOrder, RTimeFollowsTime, DeferredUnitIsQueued, Sound, Owed

\* IInv after a step that leaves no unit half requeued.
LEMMA IInvFromParts ==
  ASSUME Sound(clk)', Owed(clk)', (catchup \in Int)', (stop_cpu \in BOOLEAN)',
         (pc \in {"scp", "instr", "action", "requeue", "requeued", "crashed"})',
         (uptr \in Units \cup {NoUnit})',
         (InEvent => uptr \in Units /\ Loose(clk))',
         (InEvent /\ ~stop_cpu => Timely(clk))',
         (catchup <= 0)', (pc \in {"scp", "instr"} => catchup = 0)'
  PROVE  IInv'
BY DEF IInv, TypeOK, QueueInOrder, RTimeFollowsTime, DeferredUnitIsQueued, Sound, Owed

\* The queue is empty at first.
LEMMA InitIInv == Init => IInv
<1> SUFFICES ASSUME Init PROVE IInv
  OBVIOUS
<1>1. RTimeMod \in Nat \ {0} /\ 0 % RTimeMod = 0
  BY RTimeAssumption, SMT
<1>2. clk \in Clocks
  BY <1>1 DEF Init, Clocks
<1>3. clk.queue = <<>> /\ DOMAIN clk.queue = {} /\ clk.rtime = 0 /\ clk.time = 0
  BY DEF Init
<1>4. QueueInOrder
  BY <1>3 DEF QueueInOrder, InOrder
<1>5. RTimeFollowsTime
  BY <1>1, <1>3 DEF RTimeFollowsTime
<1>6. DeferredUnitIsQueued
  <2>1. \A u \in Units : clk.usecs_remaining[u] = 0
    BY DEF Init
  <2> QED BY <2>1 DEF DeferredUnitIsQueued
<1>7. TypeOK
  <2>1. pc = "scp" /\ uptr = NoUnit /\ catchup = 0 /\ stop_cpu = FALSE
    BY DEF Init
  <2>2. catchup \in Int
    BY <2>1
  <2>3. uptr \in Units \cup {NoUnit}
    BY <2>1
  <2>4. pc \in {"scp", "instr", "action", "requeue", "requeued", "crashed"}
    BY <2>1
  <2>5. stop_cpu \in BOOLEAN
    BY <2>1
  <2> QED BY <1>2, <2>2, <2>3, <2>4, <2>5 DEF TypeOK
<1>8. ~InEvent /\ catchup <= 0 /\ catchup = 0
  BY DEF Init, InEvent
<1> QED BY <1>4, <1>5, <1>6, <1>7, <1>8 DEF IInv

\* The top of the loop of sim_process_event.
LEMMA DispatchKeeps ==
  ASSUME NEW S, Sound(S), Owed(S), S.queue # <<>>, NEW c \in Int,
         c >= 0 => S.interval = 0 /\ c = 0, Dispatch(S, c), (stop_cpu \in BOOLEAN)'
  PROVE  IInv'
<1>1. /\ Sound(clk') /\ Timely(clk') /\ Loose(clk')
      /\ clk'.usecs_remaining = S.usecs_remaining
      /\ Queued(S) = Queued(clk') \cup {S.queue[1].unit}
  BY TakeHeadKeeps DEF Dispatch
<1>2. S.queue[1].unit \in Units
  BY ClockTypes, EntryTypes, SMTT(30) DEF Sound
<1>3. /\ uptr' = S.queue[1].unit /\ catchup' = c
      /\ pc' = IF S.usecs_remaining[uptr'] # 0 THEN "requeue" ELSE "action"
  BY DEF Dispatch
<1>4. DeferredUnitIsQueued'
  <2>1. ASSUME NEW u \in Units, clk'.usecs_remaining[u] # 0
        PROVE  u \in Queued(clk') \/ (pc' = "requeue" /\ u = uptr')
    <3>1. u \in Queued(S)
      BY <2>1, <1>1 DEF Owed
    <3> QED BY <3>1, <2>1, <1>1, <1>3
  <2>2. DeferredUnitIsQueued' = \A u \in Units : clk'.usecs_remaining[u] # 0 =>
           u \in Queued(clk') \/ (pc' = "requeue" /\ u = uptr')
    BY DEF DeferredUnitIsQueued, Queued
  <2> QED BY <2>1, <2>2
<1>5. TypeOK' /\ QueueInOrder' /\ RTimeFollowsTime'
  BY <1>1, <1>2, <1>3 DEF TypeOK, QueueInOrder, RTimeFollowsTime, Sound
<1>6. Timely(clk)' = Timely(clk') /\ Loose(clk)' = Loose(clk')
  BY DEF Timely, Loose, Synced, NoneOverdue, HeadTime
<1>7. catchup' <= 0 /\ ~(pc' \in {"scp", "instr"})
  BY <1>3
<1> QED BY <1>1, <1>2, <1>3, <1>4, <1>5, <1>6, <1>7 DEF IInv, InEvent

\* Every way back to the prompt.
LEMMA ReturnKeeps ==
  ASSUME NEW S, Sound(S), Owed(S), ReturnToScp(S), (stop_cpu \in BOOLEAN)'
  PROVE  IInv'
<1> DEFINE B == BackUp(S)
<1>8. Sound(B) /\ B.usecs_remaining = S.usecs_remaining /\ Queued(B) = Queued(S)
  <2>1. S.interval \in Int
    BY ClockTypes DEF Sound
  <2>2. CASE S.interval <= 0
    BY <2>2, BackUpKeeps
  <2>3. CASE S.interval > 0
    BY <2>1, <2>3 DEF BackUp
  <2> QED BY <2>1, <2>2, <2>3
<1> HIDE DEF B
<1>1. /\ Sound(UpdateSimTime(B))
      /\ UpdateSimTime(B).usecs_remaining = S.usecs_remaining
      /\ Queued(UpdateSimTime(B)) = Queued(S)
  BY <1>8, UpdateKeeps
<1>2. clk' = UpdateSimTime(B) /\ pc' = "scp" /\ uptr' = NoUnit /\ catchup' = 0
  BY DEF ReturnToScp, B
<1> HIDE DEF ReturnToScp
<1>3. Sound(clk') /\ Owed(clk')
  BY <1>1, <1>2 DEF Owed
<1>4. Sound(clk)' /\ Owed(clk)'
  BY <1>3 DEF Sound, Owed, Queued, InOrder
<1>5. catchup' \in Int /\ ~InEvent' /\ catchup' <= 0 /\ catchup' = 0
  BY <1>2 DEF InEvent
<1>6. pc' \in {"scp", "instr", "action", "requeue", "requeued", "crashed"}
  BY <1>2
<1>7. uptr' \in Units \cup {NoUnit}
  BY <1>2
<1> QED BY <1>4, <1>5, <1>6, <1>7, IInvFromParts

\* A call of a routine of the package.
LEMMA CallKeeps ==
  ASSUME IInv, NEW S, CallOf(S),
         Sound(clk) /\ Owed(clk) => /\ Sound(S) /\ Owed(S) /\ (Timely(clk) => Timely(S))
                                    /\ Loose(clk) => Loose(S)
  PROVE  IInv'
<1>1. pc # "requeue" /\ clk' = S /\ UNCHANGED <<pc, uptr, catchup, stop_cpu>>
  BY DEF CallOf, CallerRuns
<1>2. /\ Sound(clk') /\ Owed(clk')
      /\ (Timely(clk) => Timely(clk')) /\ (Loose(clk) => Loose(clk'))
  BY <1>1, IInvParts
<1>3. /\ Sound(clk)' /\ Owed(clk)'
      /\ (Timely(clk) => Timely(clk)') /\ (Loose(clk) => Loose(clk)')
  BY <1>2 DEF Sound, Owed, Queued, InOrder, Timely, Loose, Synced, NoneOverdue, HeadTime
<1>4. /\ (InEvent => uptr \in Units /\ Loose(clk))'
      /\ (InEvent /\ ~stop_cpu => Timely(clk))'
  BY <1>1, <1>3, IInvParts DEF InEvent
<1>8. catchup' <= 0 /\ (pc' \in {"scp", "instr"} => catchup' = 0)
  BY <1>1, IInvParts
<1>5. catchup' \in Int /\ stop_cpu' \in BOOLEAN
  BY <1>1, IInvParts
<1>6. pc' \in {"scp", "instr", "action", "requeue", "requeued", "crashed"}
  BY <1>1, IInvParts
<1>7. uptr' \in Units \cup {NoUnit}
  BY <1>1, IInvParts
<1> QED BY <1>3, <1>4, <1>5, <1>6, <1>7, <1>8, IInvFromParts

\* The calls of devices.
LEMMA CallsKeepIInv == IInv /\ Calls => IInv'
<1> SUFFICES ASSUME IInv, Calls PROVE IInv'
  OBVIOUS
<1>0. Delays \subseteq Nat /\ Usecs \subseteq Nat /\ RTimes \subseteq Nat
  BY DelaysAssumption, RTimeAssumption
<1>1. ASSUME NEW u \in Units, NEW t \in Delays, Activate(u, t) PROVE IInv'
  <2>1. Sound(clk) => /\ Sound(_sim_activate(clk, u, t))
                      /\ Queued(_sim_activate(clk, u, t)) = Queued(clk) \cup {u}
                      /\ _sim_activate(clk, u, t).usecs_remaining = clk.usecs_remaining
                      /\ Timely(clk) => Timely(_sim_activate(clk, u, t))
                      /\ Loose(clk) => Loose(_sim_activate(clk, u, t))
    BY <1>0, ActivateKeeps
  <2>2. Sound(clk) /\ Owed(clk) => Owed(_sim_activate(clk, u, t))
    BY <2>1 DEF Owed
  <2> QED BY <1>1, <2>1, <2>2, CallKeeps DEF Activate
<1>2. ASSUME NEW u \in Units, NEW t \in Delays, ActivateAbs(u, t) PROVE IInv'
  <2> DEFINE R == sim_activate_abs(clk, u, t)
  <2>1. Sound(clk) /\ Owed(clk) =>
          Sound(R) /\ Owed(R) /\ (Timely(clk) => Timely(R)) /\ (Loose(clk) => Loose(R))
    BY <1>0, AbsKeeps
  <2>2. CallOf(R)
    BY <1>2 DEF ActivateAbs
  <2> HIDE DEF R
  <2> QED BY <2>1, <2>2, CallKeeps
<1>3. ASSUME NEW u \in Units, NEW rt \in RTimes, ActivateNotBefore(u, rt) PROVE IInv'
  <2> DEFINE R == sim_activate_notbefore(clk, u, rt)
  <2>1. Sound(clk) /\ Owed(clk) =>
          Sound(R) /\ Owed(R) /\ (Timely(clk) => Timely(R)) /\ (Loose(clk) => Loose(R))
    BY <1>0, NotBeforeKeeps
  <2>2. CallOf(R)
    BY <1>3 DEF ActivateNotBefore
  <2> HIDE DEF R
  <2> QED BY <2>1, <2>2, CallKeeps
<1>4. ASSUME NEW u \in Units, NEW us \in Usecs, ActivateAfter(u, us) PROVE IInv'
  <2> DEFINE running == pc # "scp"
             R == sim_timer_activate_after(clk, u, us, running)
  <2>1. running \in BOOLEAN
    OBVIOUS
  <2>2. Sound(clk) /\ Owed(clk) =>
          Sound(R) /\ Owed(R) /\ (Timely(clk) => Timely(R)) /\ (Loose(clk) => Loose(R))
    <3>1. Owed(clk) => \A v \in Units \ {u} :
            clk.usecs_remaining[v] # 0 => v \in Queued(clk)
      BY DEF Owed
    <3>2. us \in Nat
      BY <1>0
    <3> HIDE DEF running
    <3> QED BY <2>1, <3>1, <3>2, AfterKeeps
  <2>3. CallOf(R)
    BY <1>4 DEF ActivateAfter
  <2> HIDE DEF R
  <2> QED BY <2>2, <2>3, CallKeeps
<1>5. ASSUME NEW u \in Units, Cancel(u) PROVE IInv'
  <2> DEFINE R == sim_cancel(clk, u)
  <2>1. Sound(clk) => /\ Sound(R) /\ Queued(R) = Queued(clk) \ {u}
                      /\ (u \in Queued(clk) =>
                            R.usecs_remaining = [clk.usecs_remaining EXCEPT ![u] = 0])
                      /\ (u \notin Queued(clk) => R = clk)
                      /\ (Timely(clk) => Timely(R)) /\ (Loose(clk) => Loose(R))
    BY CancelKeeps
  <2>2. clk.usecs_remaining \in [Units -> Nat]
    BY IInvParts, ClockTypes
  <2>3. CallOf(R)
    BY <1>5 DEF Cancel
  <2> HIDE DEF R
  <2>4. Sound(clk) /\ Owed(clk) => Owed(R)
    BY <2>1, <2>2 DEF Owed
  <2> QED BY <2>1, <2>3, <2>4, CallKeeps
<1>6. CASE ReadTime
  <2> DEFINE R == UpdateSimTime(clk)
  <2>1. Sound(clk) => /\ Sound(R) /\ Synced(R) /\ Queued(R) = Queued(clk)
                      /\ R.usecs_remaining = clk.usecs_remaining
                      /\ (Synced(clk) /\ NoneOverdue(clk) => NoneOverdue(R))
                      /\ (0 <= clk.interval /\ NoneOverdue(clk) => NoneOverdue(R))
                      /\ R.interval = clk.interval
    BY UpdateKeeps
  <2>2. CallOf(R)
    BY <1>6 DEF ReadTime
  <2> HIDE DEF R
  <2>3. Sound(clk) /\ Owed(clk) => Owed(R) /\ (Timely(clk) => Timely(R))
    BY <2>1 DEF Owed, Timely
  <2>4. Sound(clk) /\ Loose(clk) => Loose(R)
    <3>1. Sound(clk) /\ Loose(clk) => Timely(R) /\ R.interval >= 0
      BY <2>1 DEF Loose, Timely
    <3> QED BY <2>1, <3>1, TimelyIsLoose
  <2> QED BY <2>1, <2>2, <2>3, <2>4, CallKeeps
<1> QED BY <1>1, <1>2, <1>3, <1>4, <1>5, <1>6 DEF Calls

\* The end of an event, back to the machine, to the next event or to the prompt.
LEMMA EndEventKeeps ==
  ASSUME IInv, pc \in {"action", "requeued"}, NEW reason, EndEvent(reason)
  PROVE  IInv'
<1> DEFINE c == IF catchup < -1 THEN catchup + clk.queue[1].time ELSE 0
           S == IF catchup < -1 THEN AddTime(clk, clk.queue[1].time) ELSE clk
           S1 == IF S.queue = <<>> THEN FlagQueueEmpty(S) ELSE S
<1>1. /\ Sound(clk) /\ Owed(clk) /\ clk \in Clocks /\ catchup \in Int /\ stop_cpu \in BOOLEAN
      /\ uptr \in Units /\ (~stop_cpu => Timely(clk)) /\ catchup <= 0
  BY IInvParts DEF InEvent
<1>2. CASE catchup < -1 /\ clk.queue = <<>>
  <2>1. pc' = "crashed" /\ UNCHANGED <<clk, uptr, catchup, stop_cpu>>
    BY <1>2 DEF EndEvent
  <2>2. Sound(clk)' /\ Owed(clk)'
    BY <2>1, <1>1 DEF Sound, Owed, Queued, InOrder
  <2>3. ~InEvent'
    BY <2>1 DEF InEvent
  <2>4. catchup' \in Int /\ stop_cpu' \in BOOLEAN /\ catchup' <= 0
        /\ ~(pc' \in {"scp", "instr"})
    BY <2>1, <1>1
  <2>5. uptr' \in Units \cup {NoUnit}
    BY <2>1, <1>1
  <2>6. pc' \in {"scp", "instr", "action", "requeue", "requeued", "crashed"}
    BY <2>1
  <2> QED BY <2>2, <2>3, <2>4, <2>5, <2>6, IInvFromParts
<1>3. CASE ~(catchup < -1 /\ clk.queue = <<>>)
  <2>1. \/ /\ reason = "OK" /\ ~stop_cpu
           /\ S.queue # <<>> /\ S.interval + c <= 0
           /\ Dispatch(S, c)
           /\ UNCHANGED stop_cpu
        \/ /\ reason = "OK" /\ ~stop_cpu
           /\ S.queue = <<>> \/ S.interval + c > 0
           /\ clk' = S1
           /\ pc' = "instr"
           /\ uptr' = NoUnit
           /\ catchup' = 0
           /\ UNCHANGED stop_cpu
        \/ /\ reason # "OK" \/ stop_cpu
           /\ stop_cpu' = (stop_cpu /\ reason # "OK")
           /\ ReturnToScp(S1)
    BY <1>3 DEF EndEvent
  <2>2. catchup < -1 => clk.queue # <<>> /\ clk.queue[1].time \in Int
    BY <1>1, <1>3, ClockTypes, EntryTypes
  <2>3. /\ Sound(S) /\ S.queue = clk.queue /\ S.interval = clk.interval
        /\ S.usecs_remaining = clk.usecs_remaining
    <3>1. CASE catchup < -1
      <4>1. S = AddTime(clk, clk.queue[1].time)
        BY <3>1
      <4> QED BY <3>1, <4>1, <1>1, <2>2, AddTimeKeeps
    <3>2. CASE ~(catchup < -1)
      BY <3>2, <1>1
    <3> QED BY <3>1, <3>2
  <2>4. c \in Int /\ (catchup < -1 => c = catchup + clk.queue[1].time) /\ (~(catchup < -1) => c = 0)
    BY <1>1, <2>2
  <2>5. Owed(S)
    BY <1>1, <2>3 DEF Owed, Queued
  <2> HIDE DEF S, c
  <2>6. /\ Sound(S1) /\ Owed(S1)
    <3>1. Sound(S1) /\ S1.queue = S.queue /\ S1.usecs_remaining = S.usecs_remaining
      BY <2>3, FlagQueueEmptyKeeps
    <3> QED BY <3>1, <2>5 DEF Owed, Queued
  <2> HIDE DEF S1
  <2>7. CASE /\ reason = "OK" /\ ~stop_cpu
             /\ S.queue # <<>> /\ S.interval + c <= 0
             /\ Dispatch(S, c)
             /\ UNCHANGED stop_cpu
    \* Nothing is overdue but what is in catchup, so that the interval is 0.
    <3>1. /\ S.interval = clk.queue[1].time /\ clk.queue[1].time >= 0
          /\ S.interval \in Int
      <4>1. Timely(clk) /\ clk.queue # <<>> /\ clk.interval \in Int
        BY <1>1, <2>3, <2>7, ClockTypes
      <4>2. 1 \in DOMAIN clk.queue
        <5>1. clk.queue \in Seq(Entries)
          BY <1>1, ClockTypes
        <5> QED BY <5>1, <4>1, EntryTypes
      <4> QED BY <4>1, <4>2, <2>3 DEF Timely, Synced, NoneOverdue, HeadTime
    <3>2. c >= 0 => S.interval = 0 /\ c = 0
      BY <3>1, <2>4, <2>7
    <3>3. stop_cpu' \in BOOLEAN
      BY <1>1, <2>7
    <3> QED BY <3>2, <3>3, <2>3, <2>4, <2>5, <2>7, DispatchKeeps
  <2>8. CASE /\ reason = "OK" /\ ~stop_cpu
             /\ S.queue = <<>> \/ S.interval + c > 0
             /\ clk' = S1
             /\ pc' = "instr"
             /\ uptr' = NoUnit
             /\ catchup' = 0
             /\ UNCHANGED stop_cpu
    <3>1. Sound(clk)' /\ Owed(clk)'
      BY <2>6, <2>8 DEF Sound, Owed, Queued, InOrder
    <3>2. ~InEvent'
      BY <2>8 DEF InEvent
    <3>3. catchup' \in Int /\ stop_cpu' \in BOOLEAN /\ catchup' <= 0 /\ catchup' = 0
      BY <2>8, <1>1
    <3>4. uptr' \in Units \cup {NoUnit}
      BY <2>8
    <3>5. pc' \in {"scp", "instr", "action", "requeue", "requeued", "crashed"}
      BY <2>8
    <3> QED BY <3>1, <3>2, <3>3, <3>4, <3>5, IInvFromParts
  <2>9. CASE /\ reason # "OK" \/ stop_cpu
             /\ stop_cpu' = (stop_cpu /\ reason # "OK")
             /\ ReturnToScp(S1)
    <3>1. stop_cpu' \in BOOLEAN
      BY <2>9
    <3> QED BY <3>1, <2>6, <2>9, ReturnKeeps
  <2> QED BY <2>1, <2>7, <2>8, <2>9
<1> QED BY <1>2, <1>3

\* sim_process_event up to the first action routine.
LEMMA ProcessEventKeepsIInv == IInv /\ sim_process_event => IInv'
<1> SUFFICES ASSUME IInv, sim_process_event PROVE IInv'
  OBVIOUS
<1>1. /\ Sound(clk) /\ Owed(clk) /\ clk \in Clocks /\ catchup \in Int /\ stop_cpu \in BOOLEAN
      /\ uptr \in Units \cup {NoUnit} /\ pc = "instr" /\ clk.interval <= 0
      /\ catchup = 0
  BY IInvParts DEF sim_process_event, EventDue
<1>2. CASE stop_cpu
  <2>1. stop_cpu' \in BOOLEAN /\ ReturnToScp(clk)
    BY <1>2 DEF sim_process_event
  <2> QED BY <2>1, <1>1, ReturnKeeps
<1>3. CASE ~stop_cpu
  <2> DEFINE S == UpdateSimTime(clk)
  <2>1. /\ UNCHANGED stop_cpu
        /\ IF S.queue = <<>>
           THEN clk' = FlagQueueEmpty(S) /\ UNCHANGED <<pc, uptr, catchup>>
           ELSE Dispatch(BackUp(S), S.interval)
    BY <1>3 DEF sim_process_event
  <2>2. /\ Sound(S) /\ S.interval = clk.interval /\ S.usecs_remaining = clk.usecs_remaining
        /\ Queued(S) = Queued(clk)
    BY <1>1, UpdateKeeps
  <2> HIDE DEF S
  <2>3. Owed(S) /\ S.interval \in Int /\ stop_cpu' \in BOOLEAN
    BY <1>1, <2>1, <2>2, ClockTypes DEF Owed
  <2>4. CASE S.queue = <<>>
    <3> DEFINE R == FlagQueueEmpty(S)
    <3>1. clk' = R /\ UNCHANGED <<pc, uptr, catchup, stop_cpu>>
      BY <2>1, <2>4
    <3>2. Sound(R) /\ R.queue = S.queue /\ R.usecs_remaining = S.usecs_remaining
      BY <2>2, FlagQueueEmptyKeeps
    <3> HIDE DEF R
    <3>3. Sound(clk') /\ Owed(clk')
      BY <3>1, <3>2, <2>3 DEF Owed, Queued
    <3>4. Sound(clk)' /\ Owed(clk)'
      BY <3>3 DEF Sound, Owed, Queued, InOrder
    <3>5. ~InEvent' /\ catchup' \in Int /\ catchup' <= 0 /\ catchup' = 0
      BY <3>1, <1>1 DEF InEvent
    <3>6. uptr' \in Units \cup {NoUnit}
      BY <3>1, <1>1
    <3>7. pc' \in {"scp", "instr", "action", "requeue", "requeued", "crashed"}
      BY <3>1, <1>1
    <3> QED BY <2>3, <3>4, <3>5, <3>6, <3>7, IInvFromParts
  <2>5. CASE S.queue # <<>>
    <3> DEFINE R == BackUp(S)
               c == S.interval
    <3>1. Dispatch(R, c)
      BY <2>1, <2>5
    <3>2. S.interval <= 0
      BY <1>1, <2>2
    <3>3. /\ Sound(R) /\ R.interval = 0 /\ R.usecs_remaining = S.usecs_remaining
          /\ Queued(R) = Queued(S) /\ R.queue # <<>>
      BY <2>2, <2>5, <3>2, BackUpKeeps
    <3> HIDE DEF R
    <3>4. Owed(R)
      BY <2>3, <3>3 DEF Owed
    <3>5. c \in Int /\ (c >= 0 => c = 0)
      BY <2>3, <3>2
    <3> HIDE DEF c
    <3> QED BY <2>3, <3>1, <3>3, <3>4, <3>5, DispatchKeeps
  <2> QED BY <2>4, <2>5
<1> QED BY <1>2, <1>3

\* Every step keeps the invariant.
LEMMA NextKeepsIInv == IInv /\ [Next]_vars => IInv'
<1> SUFFICES ASSUME IInv, [Next]_vars PROVE IInv'
  OBVIOUS
<1> USE DEF InEvent
<1>0. /\ Sound(clk) /\ (pc # "requeue" => Owed(clk)) /\ clk \in Clocks
      /\ catchup \in Int /\ stop_cpu \in BOOLEAN
      /\ pc \in {"scp", "instr", "action", "requeue", "requeued", "crashed"}
      /\ uptr \in Units \cup {NoUnit}
      /\ InEvent => uptr \in Units /\ Loose(clk)
      /\ InEvent /\ ~stop_cpu => Timely(clk)
      /\ catchup <= 0 /\ (pc \in {"scp", "instr"} => catchup = 0)
  BY IInvParts
<1>1. CASE Calls
  BY <1>1, CallsKeepIInv
<1>2. ASSUME NEW n \in Bursts, Instruction(n) PROVE IInv'
  <2>1. /\ pc = "instr" /\ UNCHANGED <<pc, uptr, catchup, stop_cpu>>
        /\ clk' = [clk EXCEPT !.interval = @ - n]
    BY <1>2 DEF Instruction
  <2>2. clk.interval - n \in Int
    BY <1>0, BurstsAssumption, ClockTypes
  <2>3. /\ clk' \in Clocks /\ clk'.queue = clk.queue /\ clk'.time = clk.time
        /\ clk'.rtime = clk.rtime /\ clk'.usecs_remaining = clk.usecs_remaining
    BY <2>1, <2>2, <1>0 DEF Clocks
  <2>4. Sound(clk)' /\ Owed(clk)'
    BY <2>1, <2>3, <1>0 DEF Sound, Owed, Queued, InOrder
  <2> QED BY <2>1, <2>4, <1>0, IInvFromParts
<1>3. CASE sim_process_event
  BY <1>3, ProcessEventKeepsIInv
<1>4. CASE ActionReturns
  BY <1>4, EndEventKeeps DEF ActionReturns
<1>5. CASE Requeue
  <2> DEFINE us == clk.usecs_remaining[uptr]
             R == sim_timer_activate_after(clk, uptr, us, TRUE)
  <2>1. /\ pc = "requeue" /\ clk' = R /\ pc' = "requeued"
        /\ UNCHANGED <<uptr, catchup, stop_cpu>> /\ uptr \in Units
    BY <1>5, <1>0 DEF Requeue
  <2>2. us \in Nat
    BY <2>1, <1>0, ClockTypes
  <2>3. \A v \in Units \ {uptr} : clk.usecs_remaining[v] # 0 => v \in Queued(clk)
    BY <2>1 DEF IInv, DeferredUnitIsQueued
  <2> HIDE DEF us
  <2>4. Sound(R) /\ Owed(R) /\ (Timely(clk) => Timely(R)) /\ (Loose(clk) => Loose(R))
    BY <2>1, <2>2, <2>3, <1>0, AfterKeeps
  <2> HIDE DEF R
  <2>5. /\ Sound(clk)' /\ Owed(clk)'
        /\ (Timely(clk) => Timely(clk)') /\ (Loose(clk) => Loose(clk)')
    BY <2>1, <2>4 DEF Sound, Owed, Queued, InOrder, Timely, Loose, Synced, NoneOverdue, HeadTime
  <2> QED BY <2>1, <2>5, <1>0, IInvFromParts
<1>6. CASE Requeued
  BY <1>6, EndEventKeeps DEF Requeued
<1>7. CASE Halt
  <2>1. ReturnToScp(clk) /\ pc = "instr" /\ stop_cpu' \in BOOLEAN
    BY <1>7, <1>0 DEF Halt
  <2> QED BY <2>1, <1>0, ReturnKeeps
<1>8. CASE Interrupt
  <2>1. /\ stop_cpu' = TRUE /\ UNCHANGED <<pc, uptr, catchup>>
        /\ clk' = [clk EXCEPT !.interval = 0]
    BY <1>8 DEF Interrupt
  <2>2. /\ clk' \in Clocks /\ clk'.queue = clk.queue /\ clk'.time = clk.time
        /\ clk'.rtime = clk.rtime /\ clk'.usecs_remaining = clk.usecs_remaining
    <3>1. clk \in Clocks
      BY <1>0
    <3>2. clk' = [clk EXCEPT !.interval = 0]
      BY <2>1
    <3> QED BY <3>1, <3>2 DEF Clocks
  <2>3. QueueInOrder' /\ RTimeFollowsTime'
    BY <2>2, <1>0 DEF Sound, QueueInOrder, RTimeFollowsTime, InOrder
  <2>4. DeferredUnitIsQueued'
    BY <2>1, <2>2 DEF IInv, DeferredUnitIsQueued, Queued
  <2>5. TypeOK'
    <3>1. catchup' \in Int /\ uptr' \in Units \cup {NoUnit}
      BY <2>1, <1>0
    <3>2. pc' \in {"scp", "instr", "action", "requeue", "requeued", "crashed"}
      BY <2>1, <1>0
    <3>3. stop_cpu' \in BOOLEAN
      BY <2>1
    <3> QED BY <2>2, <3>1, <3>2, <3>3 DEF TypeOK
  <2>6. InEvent => Loose(clk)'
    <3>1. SUFFICES ASSUME InEvent PROVE Loose(clk)'
      OBVIOUS
    <3>2. HeadTime(clk)' >= 0 /\ clk'.interval = 0
      <4>1. /\ clk.queue \in Seq(Entries) /\ Loose(clk) /\ clk.interval \in Int
            /\ clk.noqueue \in Int
        BY <1>0, <3>1, ClockTypes
      <4>2. clk'.interval = 0 /\ clk'.queue = clk.queue /\ clk'.noqueue = clk.noqueue
        BY <2>1, <1>0 DEF Clocks
      <4>3. CASE clk.queue = <<>>
        BY <4>1, <4>2, <4>3 DEF Loose, HeadTime
      <4>4. CASE clk.queue # <<>>
        <5>1. 1 \in DOMAIN clk.queue
          BY <4>1, <4>4, EntryTypes
        <5> QED BY <4>1, <4>2, <4>4, <5>1 DEF Loose, NoneOverdue, HeadTime
      <4> QED BY <4>3, <4>4
    <3>3. NoneOverdue(clk)'
      BY <3>1, <2>2, <1>0 DEF Loose, NoneOverdue
    <3> QED BY <3>2, <3>3 DEF Loose
  <2> QED BY <2>1, <2>3, <2>4, <2>5, <2>6, <1>0 DEF IInv
<1>9. CASE RunBootPrep
  <2> DEFINE R == [u \in Units |-> IF u \in Queued(clk) THEN 0 ELSE clk.usecs_remaining[u]]
  <2>1. /\ UNCHANGED <<pc, uptr, catchup, stop_cpu>> /\ pc = "scp"
        /\ clk' = [clk EXCEPT !.queue = <<>>, !.interval = 0, !.noqueue = 0,
                              !.time = 0, !.rtime = 0, !.usecs_remaining = R]
    BY <1>9 DEF RunBootPrep
  <2>2. RTimeMod \in Nat \ {0} /\ 0 % RTimeMod = 0 /\ 0 \in 0..(RTimeMod - 1)
    BY RTimeAssumption, SMT
  <2>3. R \in [Units -> Nat] /\ <<>> \in Seq(Entries)
    <3>1. clk.usecs_remaining \in [Units -> Nat]
      BY <1>0, ClockTypes
    <3> QED BY <3>1
  <2>7. \A u \in Units : R[u] = 0
    BY <2>1, <1>0 DEF Owed
  <2> HIDE DEF R
  <2>4. /\ clk' \in Clocks /\ clk'.queue = <<>> /\ clk'.time = 0 /\ clk'.rtime = 0
        /\ clk'.usecs_remaining = R
    <3>1. clk' = [queue |-> <<>>, interval |-> 0, noqueue |-> 0, time |-> 0,
                  rtime |-> 0, usecs_remaining |-> R]
      BY <2>1, <1>0 DEF Clocks
    <3> QED BY <3>1, <2>2, <2>3 DEF Clocks
  <2>5. InOrder(clk.queue)'
    <3>1. DOMAIN clk'.queue = {}
      BY <2>4
    <3> QED BY <3>1 DEF InOrder
  <2>6. Sound(clk)' /\ Owed(clk)'
    BY <2>2, <2>4, <2>5, <2>7 DEF Sound, Owed
  <2> QED BY <2>1, <2>6, <1>0, IInvFromParts
<1>10. CASE Run
  <2>1. /\ UNCHANGED <<clk, uptr, catchup>> /\ pc = "scp" /\ pc' = "instr"
        /\ stop_cpu' = FALSE
    BY <1>10 DEF Run
  <2>2. Sound(clk)' /\ Owed(clk)'
    BY <2>1, <1>0 DEF Sound, Owed, Queued, InOrder
  <2> QED BY <2>1, <2>2, <1>0, IInvFromParts
<1>11. CASE UNCHANGED vars
  BY <1>11, <1>0 DEF vars, IInv, TypeOK, QueueInOrder, RTimeFollowsTime, InOrder,
                     DeferredUnitIsQueued, Queued, Timely, Loose, Synced, NoneOverdue, HeadTime
<1> QED BY <1>1, <1>2, <1>3, <1>4, <1>5, <1>6, <1>7, <1>8, <1>9, <1>10, <1>11
        DEF Next

\* The invariant holds at all times.
LEMMA IInvHolds == Spec => []IInv
BY InitIInv, NextKeepsIInv, PTL DEF Spec

\* Every variable has its type.
THEOREM TypeCorrect == Spec => []TypeOK
<1>1. IInv => TypeOK
  BY DEF IInv
<1> QED BY <1>1, IInvHolds, PTL

\* However _sim_activate links entries in and sim_cancel unlinks them, from
\* instructions, action routines and the prompt, sim_clock_queue is in clock order
\* and has every unit once.
THEOREM QueueStaysInOrder == Spec => []QueueInOrder
<1>1. IInv => QueueInOrder
  BY DEF IInv
<1> QED BY <1>1, IInvHolds, PTL

\* sim_rtime is sim_time with rollover, whatever moves the two.
THEOREM CountersAgree == Spec => []RTimeFollowsTime
<1>1. IInv => RTimeFollowsTime
  BY DEF IInv
<1> QED BY <1>1, IInvHolds, PTL

\* No activation finds a usecs_remaining that an earlier one has left over.
THEOREM DelayIsOwedToQueuedUnits == Spec => []DeferredUnitIsQueued
<1>1. IInv => DeferredUnitIsQueued
  BY DEF IInv
<1> QED BY <1>1, IInvHolds, PTL

\* What an action routine activates is timed from when its event was due, however
\* late it is called, unless the signal handler has interfered.
THEOREM ActionsAreTimedFromDueTime == Spec => []ActionSeesDueTime
<1>1. IInv => ActionSeesDueTime
  BY DEF IInv, InEvent, Timely, Synced, ActionSeesDueTime
<1> QED BY <1>1, IInvHolds, PTL

\* sim_process_event does not let the machine go on with an event that is due.
THEOREM NothingIsDueOnReturn == Spec => NothingDueOnReturn
<1>1. IInv /\ [Next]_vars =>
        [(pc \in {"action", "requeued"} /\ pc' = "instr") => clk'.interval > 0]_vars
  <2> SUFFICES ASSUME IInv, Next, pc \in {"action", "requeued"}, pc' = "instr"
               PROVE  clk'.interval > 0
    BY DEF vars
  <2> DEFINE c == IF catchup < -1 THEN catchup + clk.queue[1].time ELSE 0
             S == IF catchup < -1 THEN AddTime(clk, clk.queue[1].time) ELSE clk
             S1 == IF S.queue = <<>> THEN FlagQueueEmpty(S) ELSE S
  <2>1. PICK reason : EndEvent(reason)
    <3>1. ASSUME Calls PROVE FALSE
      BY <3>1 DEF Calls, Activate, ActivateAbs, ActivateNotBefore, ActivateAfter,
                  Cancel, ReadTime, CallOf
    <3> QED BY <3>1 DEF Next, Instruction, sim_process_event, ActionReturns, Requeue,
                        Requeued, Halt, Interrupt, RunBootPrep, Run
  <2>2. /\ Sound(clk) /\ clk \in Clocks /\ catchup \in Int /\ (~stop_cpu => Timely(clk))
    BY IInvParts DEF InEvent
  <2>3. /\ ~(catchup < -1 /\ clk.queue = <<>>)
        /\ ~stop_cpu /\ (S.queue = <<>> \/ S.interval + c > 0) /\ clk' = S1
    BY <2>1 DEF EndEvent, Dispatch, ReturnToScp
  <2>4. catchup < -1 => /\ clk.queue # <<>> /\ clk.queue[1].time \in Int
                        /\ clk.interval = clk.queue[1].time
    <3>1. catchup < -1 => clk.queue # <<>>
      BY <2>3
    <3>2. clk.queue \in Seq(Entries)
      BY <2>2, ClockTypes
    <3> QED BY <3>1, <3>2, <2>2, <2>3, EntryTypes DEF Timely, Synced, HeadTime
  <2>5. /\ Sound(S) /\ S.queue = clk.queue /\ S.interval = clk.interval
    BY <2>2, <2>4, AddTimeKeeps
  <2>6. CASE S.queue = <<>>
    <3>1. S1 = FlagQueueEmpty(S)
      BY <2>6
    <3>2. FlagQueueEmpty(S).interval = NoQueueWait
      BY <2>5, FlagQueueEmptyKeeps
    <3> QED BY <3>1, <3>2, <2>3, WaitAssumption
  <2>7. CASE S.queue # <<>>
    <3>1. clk'.interval = clk.interval /\ clk.interval \in Int /\ clk.interval + c > 0
      BY <2>2, <2>3, <2>5, <2>7, ClockTypes
    <3>2. CASE catchup < -1
      BY <3>1, <3>2, <2>2, <2>4
    <3>3. CASE ~(catchup < -1)
      BY <3>1, <3>3
    <3> QED BY <3>2, <3>3
  <2> QED BY <2>6, <2>7
<1> QED BY <1>1, IInvHolds, PTL DEF Spec, NothingDueOnReturn

-----------------------------------------------------------------------------
(***************************************************************************)
(* The times at which units are due.                                       *)
(***************************************************************************)

\* A unit that is queued has a place on the queue, and a time at which it is due.
LEMMA QueuedHasPlace ==
  ASSUME NEW S, Sound(S), NEW u \in Queued(S)
  PROVE  /\ Index(S, u) \in DOMAIN S.queue /\ S.queue[Index(S, u)].unit = u
         /\ \A i \in DOMAIN S.queue : S.queue[i].unit = u => i = Index(S, u)
         /\ S.queue # <<>> /\ S.queue \in Seq(Entries)
         /\ Accum(S.queue)[Index(S, u)] \in Int
         /\ Due(S, u) = S.time + Accum(S.queue)[Index(S, u)]
<1>1. S.queue \in Seq(Entries) /\ InOrder(S.queue)
  BY ClockTypes DEF Sound
<1>2. Index(S, u) \in DOMAIN S.queue /\ S.queue[Index(S, u)].unit = u
  BY DEF Queued, Index
<1>3. \A i \in DOMAIN S.queue : S.queue[i].unit = u => i = Index(S, u)
  BY <1>1, <1>2 DEF InOrder
<1>4. S.queue # <<>> /\ Accum(S.queue)[Index(S, u)] \in Int
  <2>1. Index(S, u) \in 1..Len(S.queue)
    BY <1>1, <1>2, EntryTypes
  <2> QED BY <2>1, <1>1, AccumProperties
<1> QED BY <1>1, <1>2, <1>3, <1>4 DEF Due, DueAt

\* A delay in instructions is what the rate gives, rounded down, and one when that
\* is nothing.
LEMMA DelayInInstructions ==
  ASSUME NEW us \in Nat
  PROVE  /\ (InstNum * us) \div InstDen \in Int
         /\ InstDelay(us) =
              (InstNum * us) \div InstDen + IF TooShort(us) THEN 1 ELSE 0
<1> DEFINE o == InstNum * us
<1>1. o \in Nat /\ InstDen \in Nat \ {0} /\ (us = 0 => o = 0)
  BY RateAssumption
<1> HIDE DEF o
<1>2. o \div InstDen \in Int /\ (o \div InstDen = 0 <=> o < InstDen)
  BY <1>1
<1> DEFINE k == o \div InstDen
<1>3. InstDelay(us) = IF k = 0 /\ us # 0 THEN 1 ELSE k
  BY DEF InstDelay, o
<1>4. TooShort(us) <=> us # 0 /\ o < InstDen
  BY DEF TooShort, o
<1> HIDE DEF k
<1>5. k \in Int /\ (k = 0 <=> o < InstDen)
  BY <1>2 DEF k
<1>6. InstDelay(us) = k + IF TooShort(us) THEN 1 ELSE 0
  BY <1>1, <1>3, <1>4, <1>5
<1> QED BY <1>5, <1>6 DEF k, o

\* sim_activate_time, as a device asks for it in an instruction or an action
\* routine, is right however long sim_time has not been brought up to date, also for
\* a unit that is still owed a delay.
THEOREM ActivateTimesAreExact == Spec => []ActivateTimeIsExact
<1>1. IInv => ActivateTimeIsExact
  <2> DEFINE us(u) == clk.usecs_remaining[u]
             short(u) == IF TooShort(us(u)) THEN 1 ELSE 0
  <2> SUFFICES ASSUME IInv, clk.interval >= 0, NEW u \in Queued(clk)
               PROVE  GTime(clk) + sim_activate_time(clk, u) - 1 =
                        CalledAt(clk, u) - short(u)
    BY DEF ActivateTimeIsExact
  <2> DEFINE a == Accum(clk.queue)[Index(clk, u)]
             h == clk.queue[1].time
             k == (InstNum * us(u)) \div InstDen
             z == short(u)
  <2>1. clk.queue # <<>> /\ a \in Int /\ Due(clk, u) = clk.time + a
    BY IInvParts, QueuedHasPlace
  <2>2. clk.time \in Int /\ clk.interval \in Int /\ HeadTime(clk) \in Int /\ HeadTime(clk) = h
    BY <2>1, IInvParts, ClockTypes DEF HeadTime
  <2>3. sim_activate_time(clk, u) = clk.interval + a - h + 1 + k
    <3> DEFINE p == IF clk.interval > 0 THEN clk.interval ELSE 0
    <3>1. sim_activate_time(clk, u) = p + a - h + 1 + k
      BY DEF sim_activate_time
    <3>2. p = clk.interval
      BY <2>2
    <3> HIDE DEF p
    <3> QED BY <3>1, <3>2
  <2>4. GTime(clk) = clk.time + h - clk.interval
    BY <2>2 DEF GTime
  <2>5. us(u) \in Nat
    <3>1. /\ clk.usecs_remaining \in [Units -> Nat]
          /\ clk.queue \in Seq(Entries)
      BY IInvParts, ClockTypes
    <3>2. u \in Units
      BY <3>1, EntryTypes DEF Queued
    <3> QED BY <3>1, <3>2
  <2>6. k \in Int /\ InstDelay(us(u)) = k + z
    <3> HIDE DEF us
    <3> QED BY <2>5, DelayInInstructions
  <2>7. CalledAt(clk, u) = clk.time + a + (k + z)
    BY <2>1, <2>6 DEF CalledAt
  <2>8. z \in Int
    OBVIOUS
  <2> DEFINE t == clk.time
             v == clk.interval
             G == GTime(clk)
             A == sim_activate_time(clk, u)
             C == CalledAt(clk, u)
  <2>9. G = t + h - v /\ A = v + a - h + 1 + k /\ C = t + a + (k + z)
    BY <2>3, <2>4, <2>7
  <2>10. t \in Int /\ h \in Int /\ v \in Int /\ a \in Int /\ k \in Int /\ z \in Int
    BY <2>1, <2>2, <2>6, <2>8
  <2> HIDE DEF a, h, k, z, t, v, G, A, C
  <2>11. G + A - 1 = C - z
    BY <2>9, <2>10
  <2> QED BY <2>11 DEF z, G, A, C
<1> QED BY <1>1, IInvHolds, PTL

-----------------------------------------------------------------------------
(***************************************************************************)
(* What the routines do to the agenda.                                     *)
(***************************************************************************)

\* The agenda has the units of the queue, in its order.
LEMMA AgendaTypes ==
  ASSUME NEW S, Sound(S)
  PROVE  /\ Agenda(S) \in Seq([unit : Units, due : Int])
         /\ Len(Agenda(S)) = Len(S.queue) /\ DOMAIN Agenda(S) = 1..Len(S.queue)
         /\ Len(S.queue) \in Nat /\ S.queue \in Seq(Entries)
         /\ (Agenda(S) = <<>>) <=> (S.queue = <<>>)
         /\ \A i \in 1..Len(S.queue) :
              /\ Agenda(S)[i] = [unit |-> S.queue[i].unit, due |-> DueAt(S, i)]
              /\ Agenda(S)[i].unit = S.queue[i].unit
              /\ Agenda(S)[i].due = S.time + Accum(S.queue)[i]
              /\ Accum(S.queue)[i] \in Int
<1> DEFINE n == Len(S.queue)
           a == Agenda(S)
<1>1. /\ S.queue \in Seq(Entries) /\ S.time \in Int /\ n \in Nat /\ DOMAIN S.queue = 1..n
      /\ \A i \in 1..n : S.queue[i].unit \in Units
      /\ \A i \in 1..n : Accum(S.queue)[i] \in Int
  BY ClockTypes, EntryTypes, AccumProperties DEF Sound
<1>2. a = [i \in 1..n |-> [unit |-> S.queue[i].unit, due |-> DueAt(S, i)]]
  BY <1>1 DEF Agenda
<1>3. \A i \in 1..n : DueAt(S, i) = S.time + Accum(S.queue)[i] /\ DueAt(S, i) \in Int
  BY <1>1 DEF DueAt
<1> HIDE DEF a
<1>4. \A i \in 1..n : /\ a[i] = [unit |-> S.queue[i].unit, due |-> DueAt(S, i)]
                      /\ a[i] \in [unit : Units, due : Int]
                      /\ a[i].unit = S.queue[i].unit
                      /\ a[i].due = S.time + Accum(S.queue)[i]
  <2> TAKE i \in 1..n
  <2>1. a[i] = [unit |-> S.queue[i].unit, due |-> DueAt(S, i)]
    BY <1>2
  <2>2. a[i].unit = S.queue[i].unit /\ a[i].due = DueAt(S, i)
    BY <2>1
  <2>3. S.queue[i].unit \in Units /\ DueAt(S, i) \in Int
    BY <1>1, <1>3
  <2>4. a[i] \in [unit : Units, due : Int]
    BY <2>1, <2>3
  <2>5. DueAt(S, i) = S.time + Accum(S.queue)[i]
    BY <1>3
  <2> QED BY <2>1, <2>2, <2>4, <2>5
<1>5. a \in [1..n -> [unit : Units, due : Int]]
  BY <1>2, <1>4
<1>6. a \in Seq([unit : Units, due : Int]) /\ Len(a) = n /\ DOMAIN a = 1..n
  <2> DEFINE X == [unit : Units, due : Int]
  <2>1. n \in Nat /\ a \in [1..n -> X]
    BY <1>1, <1>5
  <2> HIDE DEF n, X
  <2>2. a \in Seq(X) /\ Len(a) = n /\ DOMAIN a = 1..n
    BY <2>1
  <2> QED BY <2>2 DEF X
<1>7. (a = <<>>) <=> (S.queue = <<>>)
  BY <1>1, <1>6
<1> QED BY <1>1, <1>4, <1>6, <1>7 DEF a

\* Clocks with the same units due at the same times have the same agenda.
LEMMA SameAgenda ==
  ASSUME NEW S, Sound(S), NEW R, Sound(R), Len(R.queue) = Len(S.queue),
         \A i \in 1..Len(S.queue) :
           /\ R.queue[i].unit = S.queue[i].unit
           /\ R.time + Accum(R.queue)[i] = S.time + Accum(S.queue)[i]
  PROVE  Agenda(R) = Agenda(S)
<1> DEFINE n == Len(S.queue)
<1>1. DOMAIN S.queue = 1..n /\ DOMAIN R.queue = 1..n
  <2>1. S.queue \in Seq(Entries) /\ R.queue \in Seq(Entries)
    BY ClockTypes DEF Sound
  <2> QED BY <2>1, EntryTypes
<1>2. \A i \in 1..n : R.queue[i].unit = S.queue[i].unit /\ DueAt(R, i) = DueAt(S, i)
  BY DEF DueAt
<1>3. Agenda(S) = [i \in 1..n |-> [unit |-> S.queue[i].unit, due |-> DueAt(S, i)]]
  BY <1>1 DEF Agenda
<1>4. Agenda(R) = [i \in 1..n |-> [unit |-> R.queue[i].unit, due |-> DueAt(R, i)]]
  BY <1>1 DEF Agenda
<1> HIDE DEF n
<1> QED BY <1>2, <1>3, <1>4

\* UPDATE_SIM_TIME moves no event.
LEMMA UpdateAgenda ==
  ASSUME NEW S, Sound(S)
  PROVE  Agenda(UpdateSimTime(S)) = Agenda(S)
<1> DEFINE R == UpdateSimTime(S)
           n == Len(S.queue)
           d == S.interval - HeadTime(S)
<1>1. /\ Sound(R) /\ Synced(R) /\ R.time = GTime(S) /\ R.interval = S.interval
      /\ Len(R.queue) = n
      /\ (R.queue = <<>>) <=> (S.queue = <<>>)
      /\ \A i \in DOMAIN S.queue : /\ R.queue[i].unit = S.queue[i].unit
                                   /\ i > 1 => R.queue[i] = S.queue[i]
  BY UpdateKeeps
<1> HIDE DEF R
<1>2. /\ S.queue \in Seq(Entries) /\ R.queue \in Seq(Entries)
      /\ S.time \in Int /\ S.interval \in Int /\ HeadTime(S) \in Int
  BY <1>1, ClockTypes DEF Sound
<1>3. /\ n \in Nat /\ DOMAIN S.queue = 1..n
      /\ \A i \in 1..n : Accum(S.queue)[i] \in Int
  BY <1>2, EntryTypes, AccumProperties
<1>4. R.time = S.time - d /\ d \in Int
  BY <1>1, <1>2 DEF GTime
<1>5. n > 0 => R.queue[1].time = S.queue[1].time + d
  <2>1. n > 0 => S.queue # <<>> /\ R.queue # <<>>
    BY <1>1, <1>2
  <2>2. n > 0 => R.queue[1].time = S.interval /\ HeadTime(S) = S.queue[1].time
    BY <2>1, <1>1 DEF Synced, HeadTime
  <2> QED BY <2>2, <1>2
<1> HIDE DEF d
<1>6. \A i \in 1..n : i > 1 => R.queue[i].time = S.queue[i].time
  BY <1>1, <1>3
<1>7. \A i \in 1..n : Accum(R.queue)[i] = Accum(S.queue)[i] + d
  <2> DEFINE q == S.queue
             r == R.queue
  <2>1. /\ q \in Seq(Entries) /\ r \in Seq(Entries) /\ Len(r) = Len(q)
        /\ Len(q) > 0 => r[1].time = q[1].time + d
        /\ \A i \in 1..Len(q) : i > 1 => r[i].time = q[i].time
    BY <1>1, <1>2, <1>5, <1>6
  <2> HIDE DEF q, r
  <2>2. \A i \in 1..Len(q) : Accum(r)[i] = Accum(q)[i] + d
    BY <2>1, <1>4, AccumOfShifted
  <2> QED BY <2>2 DEF q, r
<1>8. \A i \in 1..n : /\ R.queue[i].unit = S.queue[i].unit
                      /\ R.time + Accum(R.queue)[i] = S.time + Accum(S.queue)[i]
  <2> TAKE i \in 1..n
  <2>1. R.queue[i].unit = S.queue[i].unit
    BY <1>1, <1>3
  <2>2. /\ Accum(R.queue)[i] = Accum(S.queue)[i] + d /\ Accum(S.queue)[i] \in Int
        /\ S.time \in Int
    BY <1>2, <1>3, <1>7
  <2> QED BY <2>1, <2>2, <1>4
<1>9. Agenda(R) = Agenda(S)
  BY <1>1, <1>8, SameAgenda
<1> QED BY <1>9 DEF R

\* b is the agenda a with u linked in for the time d, behind what is due no later.
LinkedIn(a, b, u, d) ==
  \E k \in 1..(Len(a) + 1) :
    /\ \A i \in DOMAIN a : IF i < k THEN a[i].due <= d ELSE a[i].due > d
    /\ b = Abstract!InsertAt(a, k, [unit |-> u, due |-> d])

\* _sim_activate links the unit in for t instructions from now, and the time
\* does not change.
LEMMA ActivateAgenda ==
  ASSUME NEW S, Sound(S), NEW u \in Units, u \notin Queued(S), NEW t \in Nat
  PROVE  LET R == _sim_activate(S, u, t)
         IN  GTime(R) = GTime(S) /\ LinkedIn(Agenda(S), Agenda(R), u, GTime(S) + t)
<1> DEFINE T == UpdateSimTime(S)
           p == InsertionPoint(T.queue, t)
           q == Insert(T.queue, p, u, t)
           n == Len(T.queue)
           R == _sim_activate(S, u, t)
           a == Agenda(T)
           b == Agenda(R)
           e == [unit |-> u, due |-> GTime(S) + t]
<1>1. Sound(T) /\ Synced(T) /\ T.time = GTime(S) /\ Queued(T) = Queued(S) /\ a = Agenda(S)
  BY UpdateKeeps, UpdateAgenda
<1>2. Sound(R)
  BY ActivateKeeps
<1>3. R = [T EXCEPT !.queue = q, !.interval = q[1].time]
  BY DEF _sim_activate
<1> HIDE DEF T, R
<1>4. /\ T \in Clocks /\ T.queue \in Seq(Entries) /\ InOrder(T.queue)
      /\ T.time \in Int /\ R.queue \in Seq(Entries) /\ t \in Int
  BY <1>1, <1>2, ClockTypes DEF Sound
<1>5. R.queue = q /\ R.interval = q[1].time /\ R.time = T.time
  BY <1>3, <1>4 DEF Clocks
<1>6. /\ p \in 0..n /\ n \in Nat
      /\ \A i \in 1..p : Accum(T.queue)[i] <= t
      /\ p < n => t < Accum(T.queue)[p + 1]
      /\ \A i \in 1..n : Accum(T.queue)[i] \in Int
  <2>1. /\ p \in 0..n /\ \A i \in 1..p : Accum(T.queue)[i] <= t
        /\ p < n => t < Accum(T.queue)[p + 1]
    BY <1>4, InsertionPointExists
  <2>2. n \in Nat /\ \A i \in 0..n : Accum(T.queue)[i] \in Int
    BY <1>4, AccumProperties, EntryTypes
  <2> HIDE DEF p, n
  <2> QED BY <2>1, <2>2
<1> HIDE DEF p
<1>7. /\ Len(q) = n + 1
      /\ \A i \in 1..(n + 1) :
           /\ q[i].unit =
                IF i <= p THEN T.queue[i].unit ELSE IF i = p + 1 THEN u ELSE T.queue[i - 1].unit
           /\ Accum(q)[i] =
                IF i <= p THEN Accum(T.queue)[i] ELSE IF i = p + 1 THEN t ELSE Accum(T.queue)[i - 1]
  <2> DEFINE s == T.queue
  <2>1. s \in Seq(Entries) /\ p \in 0..Len(s) /\ Insert(s, p, u, t) \in Seq(Entries)
    BY <1>4, <1>5, <1>6
  <2> HIDE DEF s
  <2>2. /\ Len(Insert(s, p, u, t)) = Len(s) + 1
        /\ \A i \in 1..(Len(s) + 1) :
             /\ Insert(s, p, u, t)[i].unit =
                  IF i <= p THEN s[i].unit ELSE IF i = p + 1 THEN u ELSE s[i - 1].unit
             /\ Accum(Insert(s, p, u, t))[i] =
                  IF i <= p THEN Accum(s)[i] ELSE IF i = p + 1 THEN t ELSE Accum(s)[i - 1]
    BY <2>1, <1>4, AccumOfInsert
  <2> QED BY <2>2 DEF s
<1> HIDE DEF q
<1>8. /\ Len(a) = n /\ DOMAIN a = 1..n
      /\ \A i \in 1..n : /\ a[i] = [unit |-> T.queue[i].unit, due |-> DueAt(T, i)]
                         /\ DueAt(T, i) = T.time + Accum(T.queue)[i]
                         /\ a[i].due = T.time + Accum(T.queue)[i]
  BY <1>1, AgendaTypes DEF DueAt
<1>9. /\ DOMAIN b = 1..(n + 1) /\ Len(b) = n + 1
      /\ \A i \in 1..(n + 1) : /\ b[i] = [unit |-> q[i].unit, due |-> DueAt(R, i)]
                               /\ DueAt(R, i) = T.time + Accum(q)[i]
      /\ b \in Seq([unit : Units, due : Int])
  <2>1. Len(R.queue) = n + 1
    BY <1>5, <1>7
  <2> HIDE DEF n
  <2>2. /\ DOMAIN b = 1..(n + 1) /\ Len(b) = n + 1
        /\ \A i \in 1..(n + 1) : b[i] = [unit |-> R.queue[i].unit, due |-> DueAt(R, i)]
        /\ b \in Seq([unit : Units, due : Int])
    BY <2>1, <1>2, AgendaTypes
  <2>3. \A i \in 1..(n + 1) : DueAt(R, i) = T.time + Accum(q)[i]
    BY <1>5 DEF DueAt
  <2> QED BY <2>2, <2>3, <1>5
<1>10. GTime(R) = GTime(S)
  <2>1. q # <<>> /\ q[1].time \in Int
    BY <1>4, <1>5, <1>6, <1>7, EntryTypes
  <2>2. GTime(R) = R.time + q[1].time - q[1].time
    BY <2>1, <1>5 DEF GTime, HeadTime
  <2> QED BY <2>1, <2>2, <1>1, <1>4, <1>5
<1> DEFINE k == p + 1
<1>11. k \in 1..(Len(a) + 1)
  BY <1>6, <1>8
<1>12. ASSUME NEW i \in 1..n
       PROVE  IF i < k THEN a[i].due <= GTime(S) + t ELSE a[i].due > GTime(S) + t
  <2>1. a[i].due = T.time + Accum(T.queue)[i] /\ Accum(T.queue)[i] \in Int /\ T.time = GTime(S)
        /\ T.time \in Int
    BY <1>1, <1>4, <1>6, <1>8
  <2>2. CASE i < k
    <3>1. i \in 1..p
      BY <2>2, <1>6
    <3> QED BY <2>1, <2>2, <3>1, <1>6
  <2>3. CASE ~(i < k)
    <3>1. p < n /\ p + 1 \in 1..n /\ p + 1 <= i
      BY <2>3, <1>6
    <3>2. Accum(T.queue)[p + 1] <= Accum(T.queue)[i] /\ Accum(T.queue)[p + 1] \in Int
      BY <3>1, <1>4, <1>6, AccumInOrder
    <3> QED BY <2>1, <2>3, <3>1, <3>2, <1>6
  <2> QED BY <2>2, <2>3
<1>13. ASSUME NEW i \in 1..(n + 1)
       PROVE  b[i] = IF i < k THEN a[i] ELSE IF i = k THEN e ELSE a[i - 1]
  <2>1. b[i] = [unit |-> q[i].unit, due |-> T.time + Accum(q)[i]]
    BY <1>9
  <2>2. CASE i <= p
    <3>1. i \in 1..n /\ i < k
      BY <2>2, <1>6
    <3>2. q[i].unit = T.queue[i].unit /\ Accum(q)[i] = Accum(T.queue)[i]
      BY <2>2, <1>7
    <3>3. a[i] = [unit |-> T.queue[i].unit, due |-> T.time + Accum(T.queue)[i]]
      BY <3>1, <1>8
    <3> QED BY <2>1, <3>1, <3>2, <3>3
  <2>3. CASE i = k
    <3>1. q[i].unit = u /\ Accum(q)[i] = t
      BY <2>3, <1>6, <1>7
    <3> QED BY <2>1, <2>3, <3>1, <1>1
  <2>4. CASE i > k
    <3>1. i - 1 \in 1..n /\ ~(i < k) /\ i # k /\ ~(i <= p) /\ i # p + 1
      BY <2>4, <1>6
    <3>2. q[i].unit = T.queue[i - 1].unit /\ Accum(q)[i] = Accum(T.queue)[i - 1]
      BY <3>1, <1>7
    <3>3. a[i - 1] = [unit |-> T.queue[i - 1].unit, due |-> T.time + Accum(T.queue)[i - 1]]
      BY <3>1, <1>8
    <3> QED BY <2>1, <3>1, <3>2, <3>3
  <2> QED BY <2>2, <2>3, <2>4, <1>6
<1> HIDE DEF a, b, e, k
<1>14. b = [i \in 1..(n + 1) |-> b[i]]
  BY <1>9
<1>15. b = [i \in 1..(Len(a) + 1) |-> IF i < k THEN a[i] ELSE IF i = k THEN e ELSE a[i - 1]]
  BY <1>8, <1>13, <1>14
<1>16. b = Abstract!InsertAt(a, k, e)
  BY <1>15 DEF Abstract!InsertAt
<1>17. LinkedIn(a, b, u, GTime(S) + t)
  BY <1>8, <1>11, <1>12, <1>16 DEF LinkedIn, e
<1> QED BY <1>1, <1>10, <1>17 DEF a, b, R

\* A clock in step with its queue shows sim_time.
LEMMA SyncedTime ==
  ASSUME NEW S, Sound(S), Synced(S)
  PROVE  GTime(S) = S.time
BY ClockTypes DEF Sound, Synced, GTime

\* A unit is on the agenda if it is on the queue, at the same place.
LEMMA PlaceOnAgenda ==
  ASSUME NEW S, Sound(S), NEW u
  PROVE  /\ Abstract!On(Agenda(S), u) <=> u \in Queued(S)
         /\ u \in Queued(S) =>
              (CHOOSE k \in DOMAIN Agenda(S) : Agenda(S)[k].unit = u) = Index(S, u)
<1> DEFINE n == Len(S.queue)
           a == Agenda(S)
<1>1. /\ DOMAIN a = 1..n /\ \A i \in 1..n : a[i].unit = S.queue[i].unit
      /\ DOMAIN S.queue = 1..n
  BY AgendaTypes, EntryTypes
<1> HIDE DEF a, n
<1>2. Abstract!On(a, u) <=> u \in Queued(S)
  BY <1>1 DEF Abstract!On, Queued
<1>3. ASSUME u \in Queued(S)
      PROVE  (CHOOSE k \in DOMAIN a : a[k].unit = u) = Index(S, u)
  <2>1. /\ Index(S, u) \in 1..n /\ S.queue[Index(S, u)].unit = u
        /\ \A i \in 1..n : S.queue[i].unit = u => i = Index(S, u)
    BY <1>1, <1>3, QueuedHasPlace
  <2> QED BY <2>1, <1>1
<1> QED BY <1>2, <1>3 DEF a

\* sim_cancel takes the unit off the agenda, and the time does not change.
LEMMA CancelAgenda ==
  ASSUME NEW S, Sound(S), NEW u \in Units
  PROVE  LET R == sim_cancel(S, u)
         IN  GTime(R) = GTime(S) /\ Agenda(R) = Abstract!Without(Agenda(S), u)
<1>1. CASE u \notin Queued(S)
  BY <1>1, PlaceOnAgenda DEF sim_cancel, Abstract!Without
<1>2. CASE u \in Queued(S)
  <2> DEFINE T == UpdateSimTime(S)
             k == Index(T, u)
             n == Len(T.queue)
             q == Unlink(T.queue, k)
             V == [T EXCEPT !.queue = q, !.usecs_remaining[u] = 0]
             R == sim_cancel(S, u)
             a == Agenda(T)
             b == Agenda(R)
  <2>1. /\ Sound(T) /\ Synced(T) /\ T.time = GTime(S) /\ Queued(T) = Queued(S)
        /\ a = Agenda(S)
    BY UpdateKeeps, UpdateAgenda
  <2>2. Sound(R)
    BY CancelKeeps
  <2>3. R = IF q = <<>> THEN FlagQueueEmpty(V) ELSE [V EXCEPT !.interval = q[1].time]
    BY <1>2 DEF sim_cancel
  <2> HIDE DEF T, R
  <2>4. T \in Clocks /\ T.queue \in Seq(Entries) /\ InOrder(T.queue) /\ T.time \in Int
    BY <2>1, ClockTypes DEF Sound
  <2>5. /\ k \in 1..n /\ DOMAIN T.queue = 1..n /\ n \in Nat
        /\ (CHOOSE i \in DOMAIN a : a[i].unit = u) = k
        /\ Abstract!On(a, u)
    BY <1>2, <2>1, <2>4, QueuedHasPlace, PlaceOnAgenda, EntryTypes
  <2> HIDE DEF k
  <2>6. q \in Seq(Entries) /\ Len(q) = n - 1
    BY <2>4, <2>5, UnlinkKeepsOrder
  <2>7. \A i \in 1..(n - 1) :
           /\ q[i].unit = IF i < k THEN T.queue[i].unit ELSE T.queue[i + 1].unit
           /\ Accum(q)[i] = IF i < k THEN Accum(T.queue)[i] ELSE Accum(T.queue)[i + 1]
    <3> DEFINE s == T.queue
    <3>1. s \in Seq(Entries) /\ k \in DOMAIN s /\ Unlink(s, k) \in Seq(Entries)
      BY <2>4, <2>5, <2>6
    <3> HIDE DEF s
    <3>2. \A i \in 1..(Len(s) - 1) :
             /\ Unlink(s, k)[i].unit = IF i < k THEN s[i].unit ELSE s[i + 1].unit
             /\ Accum(Unlink(s, k))[i] = IF i < k THEN Accum(s)[i] ELSE Accum(s)[i + 1]
      BY <3>1, AccumOfUnlink
    <3> QED BY <3>2 DEF s
  <2> HIDE DEF q
  <2>8. V.queue = q /\ V.time = T.time /\ V \in Clocks
    <3>1. T.usecs_remaining \in [Units -> Nat]
      BY <2>4, ClockTypes
    <3> QED BY <3>1, <2>4, <2>6 DEF Clocks
  <2> HIDE DEF V
  <2>9. R.queue = q /\ R.time = T.time /\ Synced(R)
    <3>1. CASE q = <<>>
      BY <3>1, <2>3, <2>8 DEF FlagQueueEmpty, Clocks, Synced, HeadTime
    <3>2. CASE q # <<>>
      BY <3>2, <2>3, <2>8 DEF Clocks, Synced, HeadTime
    <3> QED BY <3>1, <3>2
  <2>10. GTime(R) = GTime(S)
    BY <2>1, <2>2, <2>9, SyncedTime
  <2>11. /\ Len(a) = n /\ DOMAIN a = 1..n
         /\ \A i \in 1..n : a[i] = [unit |-> T.queue[i].unit, due |-> T.time + Accum(T.queue)[i]]
    BY <2>1, AgendaTypes DEF DueAt
  <2>12. /\ DOMAIN b = 1..(n - 1)
         /\ \A i \in 1..(n - 1) : b[i] = [unit |-> q[i].unit, due |-> T.time + Accum(q)[i]]
         /\ b \in Seq([unit : Units, due : Int])
    <3>1. Len(R.queue) = n - 1
      BY <2>6, <2>9
    <3> HIDE DEF n
    <3>2. /\ DOMAIN b = 1..(n - 1)
          /\ \A i \in 1..(n - 1) : b[i] = [unit |-> R.queue[i].unit, due |-> DueAt(R, i)]
          /\ b \in Seq([unit : Units, due : Int])
      BY <3>1, <2>2, AgendaTypes
    <3> QED BY <3>2, <2>9 DEF DueAt
  <2>13. ASSUME NEW i \in 1..(n - 1)
         PROVE  b[i] = IF i < k THEN a[i] ELSE a[i + 1]
    <3>1. i \in 1..n /\ i + 1 \in 1..n
      BY <2>5
    <3>2. b[i] = [unit |-> q[i].unit, due |-> T.time + Accum(q)[i]]
      BY <2>12
    <3>3. CASE i < k
      BY <3>1, <3>2, <3>3, <2>7, <2>11
    <3>4. CASE ~(i < k)
      BY <3>1, <3>2, <3>4, <2>7, <2>11
    <3> QED BY <3>3, <3>4
  <2> HIDE DEF a, b
  <2>14. b = [i \in 1..(n - 1) |-> b[i]]
    BY <2>12
  <2>15. b = [i \in 1..(Len(a) - 1) |-> IF i < k THEN a[i] ELSE a[i + 1]]
    BY <2>11, <2>13, <2>14
  <2>16. b = Abstract!Without(a, u)
    BY <2>5, <2>15 DEF Abstract!Without, Abstract!RemoveAt
  <2> QED BY <2>1, <2>10, <2>16 DEF b, R
<1> QED BY <1>1, <1>2

\* sim_activate_abs moves the unit to its new time.
LEMMA AbsAgenda ==
  ASSUME NEW S, Sound(S), NEW u \in Units, NEW t \in Nat
  PROVE  LET R == sim_activate_abs(S, u, t)
         IN  /\ GTime(R) = GTime(S)
             /\ LinkedIn(Abstract!Without(Agenda(S), u), Agenda(R), u, GTime(S) + t)
<1> DEFINE T == sim_cancel(S, u)
<1>1. Sound(T) /\ u \notin Queued(T)
  BY CancelKeeps
<1>2. GTime(T) = GTime(S) /\ Agenda(T) = Abstract!Without(Agenda(S), u)
  BY CancelAgenda
<1>3. sim_activate_abs(S, u, t) = _sim_activate(T, u, t)
  BY DEF sim_activate_abs
<1> HIDE DEF T
<1>4. /\ GTime(_sim_activate(T, u, t)) = GTime(T)
      /\ LinkedIn(Agenda(T), Agenda(_sim_activate(T, u, t)), u, GTime(T) + t)
  BY <1>1, ActivateAgenda
<1> QED BY <1>2, <1>3, <1>4

\* sim_activate_notbefore moves the unit to a time that has not passed.
LEMMA NotBeforeAgenda ==
  ASSUME NEW S, Sound(S), NEW u \in Units, NEW rt \in Nat
  PROVE  LET R == sim_activate_notbefore(S, u, rt)
         IN  /\ GTime(R) = GTime(S)
             /\ \E t \in Nat :
                  LinkedIn(Abstract!Without(Agenda(S), u), Agenda(R), u, GTime(S) + t)
<1> DEFINE T == sim_cancel(S, u)
           V == UpdateSimTime(T)
           d == (rt - V.rtime) % RTimeMod
           t == IF 2 * d >= RTimeMod THEN 0 ELSE d
<1>1. Sound(T) /\ u \notin Queued(T)
  BY CancelKeeps
<1>2. GTime(T) = GTime(S) /\ Agenda(T) = Abstract!Without(Agenda(S), u)
  BY CancelAgenda
<1>3. sim_activate_notbefore(S, u, rt) = _sim_activate(V, u, t)
  BY DEF sim_activate_notbefore
<1> HIDE DEF T
<1>4. Sound(V) /\ Queued(V) = Queued(T) /\ GTime(V) = GTime(T) /\ Agenda(V) = Agenda(T)
  BY <1>1, UpdateKeeps, UpdateAgenda
<1> HIDE DEF V
<1>5. t \in Nat
  <2>1. V.rtime \in Int /\ RTimeMod \in Nat \ {0}
    BY <1>4, RTimeAssumption, ClockTypes DEF Sound
  <2>2. rt - V.rtime \in Int
    BY <2>1
  <2>3. d \in 0..(RTimeMod - 1)
    BY <2>1, <2>2, ModProperties
  <2> HIDE DEF d
  <2> QED BY <2>1, <2>3
<1> HIDE DEF t
<1>6. /\ GTime(_sim_activate(V, u, t)) = GTime(V)
      /\ LinkedIn(Agenda(V), Agenda(_sim_activate(V, u, t)), u, GTime(V) + t)
  BY <1>1, <1>4, <1>5, ActivateAgenda
<1> QED BY <1>2, <1>3, <1>4, <1>5, <1>6

\* sim_timer_activate_after puts a unit that is not queued on the agenda.
LEMMA AfterAgenda ==
  ASSUME NEW S, Sound(S), NEW u \in Units, u \notin Queued(S), NEW us \in Nat,
         NEW running \in BOOLEAN
  PROVE  LET R == sim_timer_activate_after(S, u, us, running)
         IN  /\ GTime(R) = GTime(S)
             /\ \E t \in Nat : LinkedIn(Agenda(S), Agenda(R), u, GTime(S) + t)
<1> DEFINE r == IF running THEN 0 ELSE us
           t == IF running THEN InstDelay(us) ELSE IF us = 0 THEN 0 ELSE 1
           T == [S EXCEPT !.usecs_remaining[u] = r]
<1>1. sim_timer_activate_after(S, u, us, running) = _sim_activate(T, u, t)
  BY DEF sim_timer_activate_after
<1>2. r \in Nat
  OBVIOUS
<1>3. t \in Nat
  <2>1. InstNum * us \in Nat /\ InstDen \in Nat \ {0}
    BY RateAssumption
  <2>2. (InstNum * us) \div InstDen \in Nat
    BY <2>1, SMT
  <2> QED BY <2>2 DEF InstDelay
<1> HIDE DEF t, r
<1>4. /\ T \in Clocks /\ T.queue = S.queue /\ T.interval = S.interval
      /\ T.noqueue = S.noqueue /\ T.time = S.time /\ T.rtime = S.rtime
  BY <1>2 DEF Sound, Clocks
<1> HIDE DEF T
<1>5. Sound(T) /\ Queued(T) = Queued(S) /\ GTime(T) = GTime(S) /\ Agenda(T) = Agenda(S)
  BY <1>4 DEF Sound, Queued, GTime, HeadTime, Agenda, DueAt
<1>6. /\ GTime(_sim_activate(T, u, t)) = GTime(T)
      /\ LinkedIn(Agenda(T), Agenda(_sim_activate(T, u, t)), u, GTime(T) + t)
  BY <1>3, <1>5, ActivateAgenda
<1> QED BY <1>1, <1>3, <1>5, <1>6

\* Back to when the head was to fire: the agenda stays.
LEMMA BackUpAgenda ==
  ASSUME NEW S, Sound(S), S.interval <= 0
  PROVE  LET R == BackUp(S)
         IN  /\ GTime(R) = S.time + HeadTime(S) /\ Agenda(R) = Agenda(S)
             /\ Synced(S) => Synced(R) /\ R.time = GTime(R)
<1>1. S \in Clocks /\ S.interval \in Int /\ S.time \in Int /\ HeadTime(S) \in Int
  BY ClockTypes DEF Sound
<1>2. CASE S.interval < 0
  <2> DEFINE T == [S EXCEPT !.interval = 0]
  <2>1. /\ T \in Clocks /\ T.queue = S.queue /\ T.interval = 0 /\ T.noqueue = S.noqueue
        /\ T.time = S.time /\ T.rtime = S.rtime
    BY <1>1 DEF Clocks
  <2>2. BackUp(S) = UpdateSimTime(T)
    BY <1>2 DEF BackUp
  <2> HIDE DEF T
  <2>3. Sound(T) /\ Agenda(T) = Agenda(S) /\ HeadTime(T) = HeadTime(S)
    BY <2>1 DEF Sound, Agenda, DueAt, HeadTime
  <2>4. GTime(T) = S.time + HeadTime(S)
    BY <2>1, <2>3, <1>1 DEF GTime
  <2>5. /\ GTime(UpdateSimTime(T)) = GTime(T) /\ UpdateSimTime(T).time = GTime(T)
        /\ Synced(UpdateSimTime(T)) /\ Agenda(UpdateSimTime(T)) = Agenda(T)
    BY <2>3, UpdateKeeps, UpdateAgenda
  <2> QED BY <2>2, <2>3, <2>4, <2>5
<1>3. CASE ~(S.interval < 0)
  <2>1. S.interval = 0 /\ BackUp(S) = S
    BY <1>1, <1>3 DEF BackUp
  <2> QED BY <2>1, <1>1, SyncedTime DEF GTime
<1> QED BY <1>2, <1>3

\* S is Z with sim_time moved on to when the head is to fire: then the head is
\* taken off the agenda, and the time is when it was to fire.
LEMMA TakeHeadAgenda ==
  ASSUME NEW S, Sound(S), S.queue # <<>>, NEW c \in Int, c >= 0 => S.interval = 0 /\ c = 0,
         NEW Z, Sound(Z), Z.queue = S.queue, S.time = Z.time + S.queue[1].time
  PROVE  LET R == TakeHead(S, c)
         IN  /\ GTime(R) = S.time /\ Agenda(Z)[1].due = S.time
             /\ Agenda(R) = Tail(Agenda(Z)) /\ Agenda(Z) # <<>>
<1> DEFINE q == Tail(S.queue)
           n == Len(S.queue)
           h == S.queue[1].time
           T == [S EXCEPT !.queue = q]
           R == TakeHead(S, c)
           a == Agenda(Z)
           b == Agenda(R)
<1>1. /\ S \in Clocks /\ S.queue \in Seq(Entries) /\ S.interval \in Int /\ S.time \in Int
      /\ Z.time \in Int
  BY ClockTypes DEF Sound
<1>2. /\ n \in Nat \ {0} /\ 1 \in 1..n /\ h \in Int
      /\ \A i \in 1..n : Accum(S.queue)[i] \in Int
      /\ Accum(S.queue)[1] = h
  <2>1. /\ n \in Nat \ {0} /\ 1 \in 1..n /\ h \in Int /\ 1 - 1 = 0
    BY <1>1, EntryTypes
  <2>2. /\ \A i \in 0..n : Accum(S.queue)[i] \in Int
        /\ Accum(S.queue)[0] = 0
        /\ Accum(S.queue)[1] = Accum(S.queue)[1 - 1] + h
    BY <2>1, <1>1, AccumProperties
  <2> HIDE DEF n, h
  <2> QED BY <2>1, <2>2
<1>3. /\ q \in Seq(Entries) /\ Len(q) = n - 1
      /\ \A i \in 1..(n - 1) : /\ q[i] = S.queue[i + 1]
                               /\ Accum(q)[i] = Accum(S.queue)[i + 1] - h
  <2> DEFINE s == S.queue
  <2>1. s \in Seq(Entries) /\ s # <<>>
    BY <1>1
  <2> HIDE DEF s
  <2>2. /\ Tail(s) \in Seq(Entries) /\ Len(Tail(s)) = Len(s) - 1
        /\ \A i \in 1..(Len(s) - 1) :
              /\ Tail(s)[i] = s[i + 1]
              /\ Accum(Tail(s))[i] = Accum(s)[i + 1] - s[1].time
    BY <2>1, AccumOfTail
  <2> QED BY <2>2 DEF s
<1> HIDE DEF q
<1>4. Sound(R) /\ Synced(R)
  BY TakeHeadKeeps DEF Timely
<1>5. R.queue = q /\ R.time = S.time
  <2>1. /\ T \in Clocks /\ T.queue = q /\ T.time = S.time
    BY <1>1, <1>3 DEF Clocks
  <2>2. R = IF T.queue = <<>> THEN FlagQueueEmpty(T)
            ELSE [T EXCEPT !.interval = (IF c < 0 THEN 0 ELSE @ + c) + T.queue[1].time]
    BY DEF TakeHead, q
  <2> HIDE DEF T, R
  <2> QED BY <2>1, <2>2 DEF FlagQueueEmpty, Clocks
<1>6. GTime(R) = S.time
  BY <1>4, <1>5, SyncedTime
<1>7. /\ Len(a) = n /\ a \in Seq([unit : Units, due : Int])
      /\ \A i \in 1..n : a[i] = [unit |-> S.queue[i].unit, due |-> Z.time + Accum(S.queue)[i]]
  <2>1. /\ a \in Seq([unit : Units, due : Int]) /\ Len(a) = Len(Z.queue)
        /\ \A i \in 1..Len(Z.queue) :
             a[i] = [unit |-> Z.queue[i].unit, due |-> DueAt(Z, i)]
    BY AgendaTypes
  <2>2. Z.queue = S.queue
    OBVIOUS
  <2> HIDE DEF a
  <2> QED BY <2>1, <2>2 DEF DueAt
<1>8. /\ DOMAIN b = 1..(n - 1) /\ Len(b) = n - 1
      /\ \A i \in 1..(n - 1) : b[i] = [unit |-> q[i].unit, due |-> S.time + Accum(q)[i]]
      /\ b \in Seq([unit : Units, due : Int])
  <2>1. Len(R.queue) = n - 1
    BY <1>3, <1>5
  <2> HIDE DEF n
  <2>2. /\ DOMAIN b = 1..(n - 1) /\ Len(b) = n - 1
        /\ \A i \in 1..(n - 1) : b[i] = [unit |-> R.queue[i].unit, due |-> DueAt(R, i)]
        /\ b \in Seq([unit : Units, due : Int])
    BY <2>1, <1>4, AgendaTypes
  <2> QED BY <2>2, <1>5 DEF DueAt
<1>9. ASSUME NEW i \in 1..(n - 1)
      PROVE  b[i] = a[i + 1]
  <2>1. i + 1 \in 1..n
    BY <1>2
  <2>2. /\ b[i] = [unit |-> S.queue[i + 1].unit, due |-> S.time + (Accum(S.queue)[i + 1] - h)]
        /\ a[i + 1] = [unit |-> S.queue[i + 1].unit, due |-> Z.time + Accum(S.queue)[i + 1]]
        /\ Accum(S.queue)[i + 1] \in Int
    BY <2>1, <1>2, <1>3, <1>7, <1>8
  <2>3. S.time + (Accum(S.queue)[i + 1] - h) = Z.time + Accum(S.queue)[i + 1]
    BY <2>2, <1>1, <1>2
  <2> QED BY <2>2, <2>3
<1>10. a[1].due = S.time
  <2>1. 1 \in 1..Len(Z.queue)
    BY <1>2
  <2>2. a[1].due = Z.time + Accum(Z.queue)[1]
    BY <2>1, AgendaTypes
  <2>3. S.time = Z.time + h /\ Accum(Z.queue)[1] = h
    BY <1>2
  <2> HIDE DEF a, h
  <2> QED BY <2>2, <2>3
<1> HIDE DEF a, b, h
<1>11. b = Tail(a) /\ a # <<>>
  <2> DEFINE X == [unit : Units, due : Int]
  <2>1. a \in Seq(X) /\ b \in Seq(X) /\ Len(a) = n /\ Len(b) = n - 1 /\ n \in Nat /\ n >= 1
    BY <1>2, <1>7, <1>8
  <2> HIDE DEF X, n
  <2>2. /\ Tail(a) \in Seq(X) /\ Len(Tail(a)) = n - 1 /\ a # <<>>
        /\ \A i \in 1..(n - 1) : Tail(a)[i] = a[i + 1]
    BY <2>1
  <2> QED BY <2>1, <2>2, <1>9
<1> QED BY <1>6, <1>10, <1>11 DEF a, b, R

\* sim_time is moved on by itself: every event is later by as much.
LEMMA AddTimeAgenda ==
  ASSUME NEW S, Sound(S), NEW d \in Int
  PROVE  LET R == AddTime(S, d)
         IN  GTime(R) = GTime(S) + d /\ Agenda(R) = Abstract!Moved(Agenda(S), d)
<1> DEFINE R == AddTime(S, d)
           n == Len(S.queue)
           a == Agenda(S)
           b == Agenda(R)
<1>1. /\ Sound(R) /\ R.time = S.time + d /\ R.queue = S.queue
      /\ R.interval = S.interval /\ R.noqueue = S.noqueue
  BY AddTimeKeeps
<1> HIDE DEF R
<1>2. S.time \in Int /\ S.interval \in Int /\ HeadTime(S) \in Int /\ HeadTime(R) = HeadTime(S)
  BY <1>1, ClockTypes DEF Sound, HeadTime
<1>3. GTime(R) = GTime(S) + d
  BY <1>1, <1>2 DEF GTime
<1>4. /\ DOMAIN a = 1..n /\ \A i \in 1..n : Accum(S.queue)[i] \in Int
      /\ \A i \in 1..n : a[i] = [unit |-> S.queue[i].unit, due |-> S.time + Accum(S.queue)[i]]
  BY AgendaTypes DEF DueAt
<1>5. /\ DOMAIN b = 1..n /\ b \in Seq([unit : Units, due : Int])
      /\ \A i \in 1..n : b[i] = [unit |-> S.queue[i].unit, due |-> R.time + Accum(S.queue)[i]]
  <2>1. /\ DOMAIN b = 1..Len(R.queue) /\ b \in Seq([unit : Units, due : Int])
        /\ \A i \in 1..Len(R.queue) :
             b[i] = [unit |-> R.queue[i].unit, due |-> R.time + Accum(R.queue)[i]]
    BY <1>1, AgendaTypes DEF DueAt
  <2> QED BY <2>1, <1>1
<1> DEFINE f(i) == [a[i] EXCEPT !.due = @ + d]
<1>6. ASSUME NEW i \in 1..n PROVE b[i] = f(i)
  <2> DEFINE x == S.queue[i].unit
             y == S.time + Accum(S.queue)[i]
             z == R.time + Accum(S.queue)[i]
  <2>1. z = y + d
    BY <1>1, <1>2, <1>4
  <2>2. b[i] = [unit |-> x, due |-> z] /\ a[i] = [unit |-> x, due |-> y]
    BY <1>4, <1>5
  <2> HIDE DEF a, b, x, y, z
  <2> QED BY <2>1, <2>2
<1> HIDE DEF a, b, f
<1>7. b = [i \in 1..n |-> b[i]]
  BY <1>5
<1>8. b = [i \in DOMAIN a |-> f(i)]
  BY <1>4, <1>6, <1>7
<1>9. b = Abstract!Moved(a, d)
  BY <1>8 DEF Abstract!Moved, f
<1> QED BY <1>3, <1>9 DEF a, b, R

\* The entries of the agenda are in the order of their times.
LEMMA AgendaInOrder ==
  ASSUME NEW S, Sound(S), NEW i \in DOMAIN Agenda(S), NEW j \in DOMAIN Agenda(S), i <= j
  PROVE  Agenda(S)[i].due <= Agenda(S)[j].due
<1>1. S.queue \in Seq(Entries) /\ InOrder(S.queue) /\ S.time \in Int
  BY ClockTypes DEF Sound
<1>2. /\ i \in 1..Len(S.queue) /\ j \in 1..Len(S.queue)
      /\ Agenda(S)[i].due = S.time + Accum(S.queue)[i] /\ Accum(S.queue)[i] \in Int
      /\ Agenda(S)[j].due = S.time + Accum(S.queue)[j] /\ Accum(S.queue)[j] \in Int
  BY AgendaTypes
<1>3. Accum(S.queue)[i] <= Accum(S.queue)[j]
  BY <1>1, <1>2, AccumInOrder
<1> QED BY <1>1, <1>2, <1>3

\* The first unit of the agenda is due when the interval has run down.
LEMMA HeadIsDue ==
  ASSUME NEW S, Sound(S), S.queue # <<>>
  PROVE  /\ 1 \in DOMAIN Agenda(S) /\ Agenda(S) # <<>>
         /\ S.queue[1].time \in Int /\ HeadTime(S) = S.queue[1].time
         /\ Agenda(S)[1].due = S.time + S.queue[1].time
         /\ Agenda(S)[1].due = GTime(S) + S.interval
<1> DEFINE h == S.queue[1].time
<1>1. S.queue \in Seq(Entries) /\ S.time \in Int /\ S.interval \in Int
  BY ClockTypes DEF Sound
<1>2. 1 \in 1..Len(S.queue) /\ h \in Int /\ HeadTime(S) = h /\ 1 - 1 = 0
  BY <1>1, EntryTypes DEF HeadTime
<1>3. Accum(S.queue)[1] = h
  <2>1. Accum(S.queue)[1] = Accum(S.queue)[1 - 1] + h /\ Accum(S.queue)[0] = 0
    BY <1>1, <1>2, AccumProperties
  <2> HIDE DEF h
  <2> QED BY <2>1, <1>2
<1>4. /\ 1 \in DOMAIN Agenda(S) /\ Agenda(S) # <<>>
      /\ Agenda(S)[1].due = S.time + Accum(S.queue)[1]
  BY <1>2, AgendaTypes
<1>5. GTime(S) = S.time + h - S.interval
  BY <1>2 DEF GTime
<1> HIDE DEF h
<1>6. GTime(S) + S.interval = S.time + h
  BY <1>1, <1>2, <1>5
<1> QED BY <1>2, <1>3, <1>4, <1>6 DEF h

-----------------------------------------------------------------------------
(***************************************************************************)
(* Every step is a step of EventClock.                                     *)
(***************************************************************************)

\* A catch-up has moved the clock on to the event that is first now.
MovesOn == CatchUpEnds /\ GTime(clk') - GTime(clk) = clk.queue[1].time

\* What a step does to the agenda, with what EventClock does not say: how far an
\* instruction goes, for which units that are queued a new time is asked for, and when
\* and how far a catch-up moves the events that wait.
AgendaStep ==
  \/ /\ Abstract!Advance
     /\ \E n \in Bursts : GTime(clk') = GTime(clk) + n
     /\ \A i \in DOMAIN Agenda(clk) : Agenda(clk)[i].due > GTime(clk)
  \/ \E u \in Units : \/ Abstract!Schedule(u) /\ (u \in Queued(clk) => Rescheduled(u))
                      \/ Abstract!Unschedule(u)
  \/ Abstract!Dispatch
  \/ Abstract!Resume /\ (-catchup > 1 => MovesOn)
  \/ Abstract!Skip
  \/ Abstract!Reset
  \/ UNCHANGED Abstract!vars

\* The agenda of the next state.
LEMMA PrimedAgenda ==
  Agenda(clk)' = Agenda(clk') /\ GTime(clk)' = GTime(clk')
BY DEF Agenda, DueAt, GTime, HeadTime, Accum

\* Nothing that EventClock shows has changed.
LEMMA Stutters ==
  ASSUME GTime(clk') = GTime(clk), Agenda(clk') = Agenda(clk), UNCHANGED catchup
  PROVE  AgendaStep
BY PrimedAgenda DEF AgendaStep, Abstract!vars

\* A routine that links a unit in.
LEMMA Schedules ==
  ASSUME NEW u \in Units, NEW t \in Nat, Sound(clk),
         LinkedIn(Abstract!Without(Agenda(clk), u), Agenda(clk'), u, GTime(clk) + t),
         GTime(clk') = GTime(clk), UNCHANGED catchup
  PROVE  Abstract!Schedule(u)
<1> DEFINE a == Abstract!Without(Agenda(clk), u)
           b == Agenda(clk')
           e == [unit |-> u, due |-> GTime(clk) + t]
<1>1. PICK k \in 1..(Len(a) + 1) :
        /\ \A i \in DOMAIN a : IF i < k THEN a[i].due <= GTime(clk) + t
                                        ELSE a[i].due > GTime(clk) + t
        /\ b = Abstract!InsertAt(a, k, e)
  BY DEF LinkedIn
<1> HIDE DEF a, b
<1>2. k \in DOMAIN b /\ b[k] = e
  BY <1>1 DEF Abstract!InsertAt
<1>3. GTime(clk) \in Int
  BY ClockTypes DEF Sound, GTime
<1>4. e.unit = u /\ e.due = GTime(clk) + t /\ e.due >= GTime(clk)
  BY <1>3
<1> HIDE DEF e
<1>5. \E i \in 1..(Len(a) + 1), j \in DOMAIN b :
        /\ b[j].unit = u /\ b[j].due >= GTime(clk)
        /\ \A m \in DOMAIN a : IF m < i THEN a[m].due <= b[j].due ELSE a[m].due > b[j].due
        /\ b = Abstract!InsertAt(a, i, b[j])
  BY <1>1, <1>2, <1>4
<1> QED BY <1>5, PrimedAgenda DEF Abstract!Schedule, a, b
\* A routine that links in a unit that is not queued, or moves one that is.
LEMMA SchedulesUnit ==
  ASSUME NEW u \in Units, Abstract!Schedule(u), u \in Queued(clk) => Rescheduled(u)
  PROVE  AgendaStep
BY DEF AgendaStep

\* The calls of devices.
LEMMA CallsAreAgendaSteps ==
  ASSUME IInv, Calls
  PROVE  AgendaStep
<1>0. /\ Sound(clk) /\ Delays \subseteq Nat /\ Usecs \subseteq Nat /\ RTimes \subseteq Nat
  BY IInvParts, DelaysAssumption, RTimeAssumption
<1>1. ASSUME NEW u \in Units, NEW t \in Delays, Activate(u, t) PROVE AgendaStep
  <2> DEFINE R == _sim_activate(clk, u, t)
  <2>1. clk' = R /\ UNCHANGED catchup
    BY <1>1 DEF Activate, CallOf
  <2>2. CASE u \in Queued(clk)
    <3>1. R = clk
      BY <2>2 DEF _sim_activate
    <3> QED BY <2>1, <3>1, Stutters
  <2>3. CASE u \notin Queued(clk)
    <3>1. GTime(R) = GTime(clk) /\ LinkedIn(Agenda(clk), Agenda(R), u, GTime(clk) + t)
      BY <1>0, <2>3, ActivateAgenda
    <3>2. Abstract!Without(Agenda(clk), u) = Agenda(clk)
      BY <1>0, <2>3, PlaceOnAgenda DEF Abstract!Without
    <3> HIDE DEF R
    <3>3. Abstract!Schedule(u)
      BY <1>0, <2>1, <3>1, <3>2, Schedules
    <3> QED BY <3>3, <2>3, SchedulesUnit
  <2> QED BY <2>2, <2>3
<1>2. ASSUME NEW u \in Units, NEW t \in Delays, ActivateAbs(u, t) PROVE AgendaStep
  <2> DEFINE R == sim_activate_abs(clk, u, t)
  <2>1. clk' = R /\ UNCHANGED catchup
    BY <1>2 DEF ActivateAbs, CallOf
  <2>2. /\ GTime(R) = GTime(clk)
        /\ LinkedIn(Abstract!Without(Agenda(clk), u), Agenda(R), u, GTime(clk) + t)
    BY <1>0, AbsAgenda
  <2> HIDE DEF R
  <2>3. Abstract!Schedule(u)
    BY <1>0, <2>1, <2>2, Schedules
  <2>4. Rescheduled(u)
    BY <1>2 DEF Rescheduled
  <2> QED BY <2>3, <2>4, SchedulesUnit
<1>3. ASSUME NEW u \in Units, NEW rt \in RTimes, ActivateNotBefore(u, rt) PROVE AgendaStep
  <2> DEFINE R == sim_activate_notbefore(clk, u, rt)
  <2>1. clk' = R /\ UNCHANGED catchup
    BY <1>3 DEF ActivateNotBefore, CallOf
  <2>2. GTime(R) = GTime(clk) /\ \E t \in Nat :
          LinkedIn(Abstract!Without(Agenda(clk), u), Agenda(R), u, GTime(clk) + t)
    BY <1>0, NotBeforeAgenda
  <2> HIDE DEF R
  <2>3. Abstract!Schedule(u)
    BY <1>0, <2>1, <2>2, Schedules
  <2>4. Rescheduled(u)
    BY <1>3 DEF Rescheduled
  <2> QED BY <2>3, <2>4, SchedulesUnit
<1>4. ASSUME NEW u \in Units, NEW us \in Usecs, ActivateAfter(u, us) PROVE AgendaStep
  <2> DEFINE running == pc # "scp"
             R == sim_timer_activate_after(clk, u, us, running)
  <2>1. clk' = R /\ UNCHANGED catchup /\ running \in BOOLEAN
    BY <1>4 DEF ActivateAfter, CallOf
  <2> HIDE DEF running
  <2>2. CASE u \in Queued(clk)
    <3>1. R = clk
      BY <2>2 DEF sim_timer_activate_after
    <3> QED BY <2>1, <3>1, Stutters
  <2>3. CASE u \notin Queued(clk)
    <3>1. GTime(R) = GTime(clk) /\ \E t \in Nat :
            LinkedIn(Agenda(clk), Agenda(R), u, GTime(clk) + t)
      BY <1>0, <2>1, <2>3, AfterAgenda
    <3>2. Abstract!Without(Agenda(clk), u) = Agenda(clk)
      BY <1>0, <2>3, PlaceOnAgenda DEF Abstract!Without
    <3> HIDE DEF R
    <3>3. Abstract!Schedule(u)
      BY <1>0, <2>1, <3>1, <3>2, Schedules
    <3> QED BY <3>3, <2>3, SchedulesUnit
  <2> QED BY <2>2, <2>3
<1>5. ASSUME NEW u \in Units, Cancel(u) PROVE AgendaStep
  <2> DEFINE R == sim_cancel(clk, u)
  <2>1. clk' = R /\ UNCHANGED catchup
    BY <1>5 DEF Cancel, CallOf
  <2>2. GTime(R) = GTime(clk) /\ Agenda(R) = Abstract!Without(Agenda(clk), u)
    BY <1>0, CancelAgenda
  <2> HIDE DEF R
  <2>3. Abstract!Unschedule(u)
    BY <2>1, <2>2, PrimedAgenda DEF Abstract!Unschedule
  <2> QED BY <2>3 DEF AgendaStep
<1>6. CASE ReadTime
  <2> DEFINE R == UpdateSimTime(clk)
  <2>1. clk' = R /\ UNCHANGED catchup
    BY <1>6 DEF ReadTime, CallOf
  <2>2. GTime(R) = GTime(clk) /\ Agenda(R) = Agenda(clk)
    BY <1>0, UpdateKeeps, UpdateAgenda
  <2> HIDE DEF R
  <2> QED BY <2>1, <2>2, Stutters
<1> QED BY <1>1, <1>2, <1>3, <1>4, <1>5, <1>6 DEF Calls

\* The top of the loop: S is Z with the time moved on to when the head is due,
\* and c is what is late for the next event.
LEMMA DispatchesUnit ==
  ASSUME NEW S, Sound(S), S.queue # <<>>, NEW c \in Int, c >= 0 => S.interval = 0 /\ c = 0,
         NEW Z, Sound(Z), Z.queue = S.queue, S.time = Z.time + S.queue[1].time,
         Agenda(Z) = Agenda(clk), Dispatch(S, c), GTime(clk) \in Int, catchup \in Int,
         S.time <= GTime(clk) - catchup,
         \/ -c = GTime(clk) - catchup - S.time
         \/ catchup = -1 /\ c = 0
  PROVE  AgendaStep
<1> DEFINE R == TakeHead(S, c)
<1>1. /\ GTime(R) = S.time /\ Agenda(Z)[1].due = S.time
      /\ Agenda(R) = Tail(Agenda(Z)) /\ Agenda(Z) # <<>>
  BY TakeHeadAgenda
<1>2. clk' = R /\ catchup' = c
  BY DEF Dispatch
<1> HIDE DEF R
<1>3. /\ GTime(clk)' = S.time /\ Agenda(clk)' = Tail(Agenda(clk))
      /\ Agenda(clk)[1].due = S.time /\ Agenda(clk) # <<>>
  BY <1>1, <1>2, PrimedAgenda
<1> DEFINE g == GTime(clk)
           s == S.time
<1>5. s <= g + (-catchup) /\ (\/ -c = g + (-catchup) - s
                              \/ -catchup = 1 /\ -c = 0)
  <2>1. s \in Int /\ g \in Int
    BY ClockTypes DEF Sound
  <2>2. s <= g - catchup /\ (-c = g - catchup - s \/ (catchup = -1 /\ c = 0))
    OBVIOUS
  <2> HIDE DEF g, s
  <2> QED BY <2>1, <2>2
<1>6. Abstract!Dispatch
  BY <1>2, <1>3, <1>5 DEF Abstract!Dispatch
<1> QED BY <1>6 DEF AgendaStep

\* Back at the prompt, the agenda is the same, and the time is that of the queue or
\* when the head was due, if it is overdue.
LEMMA ReturnAgenda ==
  ASSUME NEW S, Sound(S), ReturnToScp(S)
  PROVE  /\ catchup' = 0 /\ Agenda(clk') = Agenda(S)
         /\ GTime(clk') = IF S.interval < 0 THEN GTime(S) + S.interval ELSE GTime(S)
<1> DEFINE B == BackUp(S)
           R == UpdateSimTime(B)
<1>1. clk' = R /\ catchup' = 0
  BY DEF ReturnToScp
<1>2. S.interval \in Int /\ S.time \in Int /\ HeadTime(S) \in Int
  BY ClockTypes DEF Sound
<1>3. CASE S.interval < 0
  <2>1. S.interval <= 0
    BY <1>2, <1>3
  <2>2. Sound(B) /\ GTime(B) = S.time + HeadTime(S) /\ Agenda(B) = Agenda(S)
    BY <2>1, BackUpKeeps, BackUpAgenda
  <2> HIDE DEF B
  <2>3. GTime(R) = GTime(B) /\ Agenda(R) = Agenda(B)
    BY <2>2, UpdateKeeps, UpdateAgenda
  <2>4. GTime(S) + S.interval = S.time + HeadTime(S)
    <3> DEFINE h == HeadTime(S)
    <3>1. GTime(S) = S.time + h - S.interval /\ h \in Int
      BY <1>2 DEF GTime
    <3> HIDE DEF h
    <3>2. GTime(S) + S.interval = S.time + h
      BY <3>1, <1>2
    <3> QED BY <3>2 DEF h
  <2> HIDE DEF R
  <2> QED BY <1>1, <1>3, <2>2, <2>3, <2>4
<1>4. CASE ~(S.interval < 0)
  <2>1. B = S
    BY <1>4 DEF BackUp
  <2> HIDE DEF B
  <2>2. GTime(R) = GTime(S) /\ Agenda(R) = Agenda(S)
    BY <2>1, UpdateKeeps, UpdateAgenda
  <2> HIDE DEF R
  <2> QED BY <1>1, <1>4, <2>2
<1> QED BY <1>3, <1>4

\* With no unit queued the agenda is empty, and flagging that brings the time to
\* sim_time.
LEMMA FlagAgenda ==
  ASSUME NEW S, Sound(S), S.queue = <<>>
  PROVE  LET R == FlagQueueEmpty(S)
         IN  Agenda(R) = <<>> /\ Agenda(S) = <<>> /\ GTime(R) = S.time
<1> DEFINE R == FlagQueueEmpty(S)
<1>1. Sound(R) /\ R.queue = S.queue /\ R.time = S.time /\ Synced(R)
  BY FlagQueueEmptyKeeps DEF Timely
<1> HIDE DEF R
<1>2. Agenda(R) = <<>> /\ Agenda(S) = <<>>
  BY <1>1, AgendaTypes
<1>3. GTime(R) = R.time
  BY <1>1, SyncedTime
<1> QED BY <1>1, <1>2, <1>3 DEF R

\* Between the prompt and the machine no event is late.
LEMMA NothingIsLate ==
  ASSUME IInv, pc \in {"scp", "instr"}
  PROVE  /\ Sound(clk) /\ catchup = 0 /\ catchup \in Int
         /\ GTime(clk) \in Int /\ clk.interval \in Int
         /\ clk.time \in Int /\ HeadTime(clk) \in Int
<1>1. Sound(clk) /\ catchup = 0 /\ catchup \in Int /\ clk \in Clocks
  BY IInvParts
<1>2. clk.interval \in Int /\ clk.time \in Int /\ HeadTime(clk) \in Int
  BY <1>1, ClockTypes
<1>3. GTime(clk) \in Int
  BY <1>2 DEF GTime
<1> QED BY <1>1, <1>2, <1>3

\* The machine returns to the prompt between two events.
LEMMA ReturnIsAgendaStep ==
  ASSUME IInv, pc = "instr", ReturnToScp(clk)
  PROVE  AgendaStep
<1>1. /\ Sound(clk) /\ catchup = 0 /\ GTime(clk) \in Int /\ clk.interval \in Int
  BY NothingIsLate
<1>2. /\ catchup' = 0 /\ Agenda(clk') = Agenda(clk)
      /\ GTime(clk') = IF clk.interval < 0 THEN GTime(clk) + clk.interval ELSE GTime(clk)
  BY <1>1, ReturnAgenda
<1>3. CASE clk.interval < 0
  <2>1. Agenda(clk) # <<>> => Agenda(clk)[1].due = GTime(clk) + clk.interval
    <3>1. (Agenda(clk) = <<>>) <=> (clk.queue = <<>>)
      BY <1>1, AgendaTypes
    <3> QED BY <3>1, <1>1, HeadIsDue
  <2>2. Abstract!Skip
    BY <1>1, <1>2, <1>3, <2>1, PrimedAgenda DEF Abstract!Skip
  <2> QED BY <2>2 DEF AgendaStep
<1>4. CASE ~(clk.interval < 0)
  BY <1>1, <1>2, <1>4, Stutters
<1> QED BY <1>3, <1>4

\* sim_process_event up to the first action routine.
LEMMA ProcessEventIsAgendaStep ==
  ASSUME IInv, sim_process_event
  PROVE  AgendaStep
<1>1. pc = "instr" /\ clk.interval <= 0
  BY DEF sim_process_event, EventDue
<1>2. /\ Sound(clk) /\ catchup = 0 /\ GTime(clk) \in Int /\ clk.interval \in Int
  BY <1>1, NothingIsLate
<1>3. CASE stop_cpu
  <2>1. ReturnToScp(clk)
    BY <1>3 DEF sim_process_event
  <2> QED BY <2>1, <1>1, ReturnIsAgendaStep
<1>4. CASE ~stop_cpu
  <2> DEFINE S == UpdateSimTime(clk)
  <2>1. IF S.queue = <<>>
        THEN clk' = FlagQueueEmpty(S) /\ UNCHANGED <<pc, uptr, catchup>>
        ELSE Dispatch(BackUp(S), S.interval)
    BY <1>4 DEF sim_process_event
  <2>2. /\ Sound(S) /\ S.interval = clk.interval /\ S.time = GTime(clk) /\ Synced(S)
        /\ Agenda(S) = Agenda(clk)
    BY <1>2, UpdateKeeps, UpdateAgenda
  <2> HIDE DEF S
  <2>3. CASE S.queue = <<>>
    <3> DEFINE R == FlagQueueEmpty(S)
    <3>1. clk' = R /\ UNCHANGED catchup
      BY <2>1, <2>3
    <3>2. Agenda(R) = <<>> /\ Agenda(S) = <<>> /\ GTime(R) = S.time
      BY <2>2, <2>3, FlagAgenda
    <3> HIDE DEF R
    <3> QED BY <3>1, <3>2, <2>2, Stutters
  <2>4. CASE S.queue # <<>>
    <3> DEFINE R == BackUp(S)
               c == S.interval
    <3>1. Dispatch(R, c) /\ c \in Int /\ c <= 0
      BY <1>1, <1>2, <2>1, <2>2, <2>4
    <3>2. Sound(R) /\ R.interval = 0 /\ R.queue # <<>>
      BY <2>2, <2>4, <3>1, BackUpKeeps
    <3>3. Agenda(R) = Agenda(S) /\ Synced(R) /\ R.time = S.time + c
      <4>1. GTime(R) = S.time + HeadTime(S) /\ Agenda(R) = Agenda(S) /\ Synced(R)
        BY <2>2, <3>1, BackUpAgenda
      <4>2. GTime(R) = R.time
        BY <4>1, <3>2, SyncedTime
      <4> QED BY <4>1, <4>2, <2>2 DEF Synced
    <3> HIDE DEF R, c
    <3>4. R.time = R.time + R.queue[1].time
      <4>1. R.queue[1].time = 0 /\ R.time \in Int
        BY <3>2, <3>3, ClockTypes DEF Sound, Synced, HeadTime
      <4> QED BY <4>1
    <3>5. c >= 0 => R.interval = 0 /\ c = 0
      BY <3>1, <3>2
    <3>6. R.time <= GTime(clk) - catchup /\ -c = GTime(clk) - catchup - R.time
      BY <1>2, <2>2, <3>1, <3>3
    <3> QED BY <1>2, <2>2, <3>1, <3>2, <3>3, <3>4, <3>5, <3>6, DispatchesUnit
  <2> QED BY <2>3, <2>4
<1> QED BY <1>3, <1>4

\* What the bottom of the loop leaves behind when no further event is dispatched: the
\* time from which a catch-up starts, on an agenda moved by as much.
LEMMA ResumesAgenda ==
  ASSUME Sound(clk), Loose(clk), catchup \in Int, catchup <= 0,
         ~(catchup < -1 /\ clk.queue = <<>>), NEW S, NEW V,
         S = IF catchup < -1 THEN AddTime(clk, clk.queue[1].time) ELSE clk,
         V = IF S.queue = <<>> THEN FlagQueueEmpty(S) ELSE S,
         catchup' = 0, Agenda(clk') = Agenda(V), GTime(clk') = GTime(V),
         pc \in {"action", "requeued"}, pc' \in {"instr", "scp"}
  PROVE  AgendaStep
<1>1. /\ clk.queue \in Seq(Entries) /\ clk.interval \in Int /\ clk.time \in Int
      /\ HeadTime(clk) \in Int /\ GTime(clk) = clk.time + HeadTime(clk) - clk.interval
  BY ClockTypes DEF Sound, GTime
<1>2. GTime(clk) \in Int /\ clk.time <= GTime(clk)
  BY <1>1 DEF Loose
<1>3. -(catchup') = 0
  BY MinusZero
<1>4. CASE catchup < -1
  <2> DEFINE h == clk.queue[1].time
             g == GTime(clk)
             l == -catchup
  <2>1. clk.queue # <<>> /\ 1 \in DOMAIN clk.queue
    BY <1>1, <1>4, EntryTypes
  <2>2. h \in Int /\ h >= 0
    BY <1>1, <2>1, EntryTypes DEF Loose, NoneOverdue
  <2>3. S = AddTime(clk, h)
    BY <1>4
  <2> HIDE DEF h
  <2>4. GTime(S) = g + h /\ Agenda(S) = Abstract!Moved(Agenda(clk), h) /\ S.queue = clk.queue
    BY <2>2, <2>3, AddTimeAgenda, AddTimeKeeps
  <2>5. V = S
    BY <2>1, <2>4
  <2>6. l > 1 /\ g + h >= g /\ (g + h) - g = h
    BY <1>2, <1>4, <2>2
  <2>7. GTime(clk)' = g + h /\ Agenda(clk)' = Abstract!Moved(Agenda(clk), (g + h) - g)
    BY <2>4, <2>5, <2>6, PrimedAgenda
  <2>9. GTime(clk') - GTime(clk) = h
    BY <2>4, <2>5, <2>6
  <2>10. MovesOn
    BY <1>4, <2>9 DEF MovesOn, CatchUpEnds, h
  <2> HIDE DEF l
  <2>8. Abstract!Resume
    BY <1>3, <2>6, <2>7 DEF Abstract!Resume, l
  <2> QED BY <2>8, <2>10 DEF AgendaStep
<1>6. ~(catchup < -1) => ~(-catchup > 1)
  OBVIOUS
<1>5. CASE ~(catchup < -1)
  <2>1. S = clk /\ -catchup <= 1
    BY <1>5
  <2>2. CASE clk.queue = <<>>
    <3>1. Agenda(V) = <<>> /\ Agenda(clk) = <<>> /\ GTime(V) = clk.time
      BY <2>1, <2>2, FlagAgenda
    <3>2. GTime(clk)' = clk.time /\ Agenda(clk)' = <<>>
      BY <3>1, PrimedAgenda
    <3>3. clk.time = GTime(clk) \/ clk.time < GTime(clk)
      BY <1>1, <1>2
    <3>4. Abstract!Resume
      BY <1>3, <2>1, <3>1, <3>2, <3>3 DEF Abstract!Resume
    <3> QED BY <1>5, <1>6, <3>4 DEF AgendaStep
  <2>3. CASE clk.queue # <<>>
    <3>1. V = clk
      BY <2>1, <2>3
    <3>2. GTime(clk)' = GTime(clk) /\ Agenda(clk)' = Agenda(clk)
      BY <3>1, PrimedAgenda
    <3>3. Abstract!Resume
      BY <1>3, <2>1, <3>2 DEF Abstract!Resume
    <3> QED BY <1>5, <1>6, <3>3 DEF AgendaStep
  <2> QED BY <2>2, <2>3
<1> QED BY <1>4, <1>5

\* The end of an event.
LEMMA EndEventIsAgendaStep ==
  ASSUME IInv, pc \in {"action", "requeued"}, NEW reason, EndEvent(reason)
  PROVE  AgendaStep
<1> DEFINE c == IF catchup < -1 THEN catchup + clk.queue[1].time ELSE 0
           S == IF catchup < -1 THEN AddTime(clk, clk.queue[1].time) ELSE clk
           V == IF S.queue = <<>> THEN FlagQueueEmpty(S) ELSE S
<1>1. /\ Sound(clk) /\ clk \in Clocks /\ catchup \in Int /\ catchup <= 0
      /\ Loose(clk) /\ (~stop_cpu => Timely(clk))
  BY IInvParts DEF InEvent
<1>2. /\ clk.queue \in Seq(Entries) /\ clk.interval \in Int /\ clk.time \in Int
      /\ HeadTime(clk) \in Int /\ GTime(clk) = clk.time + HeadTime(clk) - clk.interval
  BY <1>1, ClockTypes DEF GTime
<1>3. GTime(clk) \in Int
  BY <1>2
<1>4. CASE catchup < -1 /\ clk.queue = <<>>
  <2>1. UNCHANGED <<clk, catchup>>
    BY <1>4 DEF EndEvent
  <2> QED BY <2>1, Stutters
<1>5. CASE ~(catchup < -1 /\ clk.queue = <<>>)
  <2>1. \/ /\ ~stop_cpu /\ S.queue # <<>> /\ S.interval + c <= 0
           /\ Dispatch(S, c)
        \/ clk' = V /\ catchup' = 0 /\ pc' = "instr"
        \/ ReturnToScp(V)
    BY <1>5 DEF EndEvent
  <2>2. clk.queue # <<>> => /\ clk.queue[1].time \in Int /\ clk.queue[1].time >= 0
                            /\ HeadTime(clk) = clk.queue[1].time
    <3>1. clk.queue # <<>> => 1 \in DOMAIN clk.queue
      BY <1>2, EntryTypes
    <3> QED BY <3>1, <1>1, <1>2, EntryTypes DEF Loose, NoneOverdue, HeadTime
  <2>3. /\ Sound(S) /\ S.queue = clk.queue /\ S.interval = clk.interval
        /\ S.time = IF catchup < -1 THEN clk.time + clk.queue[1].time ELSE clk.time
    <3>1. CASE catchup < -1
      <4>1. S = AddTime(clk, clk.queue[1].time)
        BY <3>1
      <4> QED BY <3>1, <4>1, <1>1, <1>5, <2>2, AddTimeKeeps
    <3>2. CASE ~(catchup < -1)
      BY <3>2, <1>1
    <3> QED BY <3>1, <3>2
  <2>4. S = IF catchup < -1 THEN AddTime(clk, clk.queue[1].time) ELSE clk
    OBVIOUS
  <2>5. c = IF catchup < -1 THEN catchup + clk.queue[1].time ELSE 0
    OBVIOUS
  <2> HIDE DEF S, c
  <2>6. V = IF S.queue = <<>> THEN FlagQueueEmpty(S) ELSE S
    OBVIOUS
  <2>7. Sound(V) /\ (V.interval = S.interval \/ V.interval = NoQueueWait)
    BY <2>3, FlagQueueEmptyKeeps
  <2> HIDE DEF V
  <2>8. CASE /\ ~stop_cpu /\ S.queue # <<>> /\ S.interval + c <= 0
             /\ Dispatch(S, c)
    <3> DEFINE h == clk.queue[1].time
               g == GTime(clk)
    <3>1. h \in Int /\ h >= 0 /\ S.interval = h /\ clk.time = g
      <4>1. Timely(clk) /\ clk.queue # <<>>
        BY <1>1, <2>3, <2>8
      <4>2. clk.interval = HeadTime(clk) /\ GTime(clk) = clk.time
        BY <4>1, <1>1, SyncedTime DEF Timely, Synced
      <4> QED BY <4>1, <4>2, <2>2, <2>3
    <3>2. /\ c = IF catchup < -1 THEN catchup + h ELSE 0
          /\ S.time = IF catchup < -1 THEN g + h ELSE g
      BY <2>3, <2>5, <3>1
    <3>3. S.queue = clk.queue /\ S.queue[1].time = h
      BY <2>3
    <3> HIDE DEF h, g
    <3>4. g \in Int /\ c \in Int /\ (c >= 0 => S.interval = 0 /\ c = 0)
      BY <1>1, <1>3, <2>8, <3>1, <3>2 DEF g
    <3>5. S.time <= g - catchup /\ (-c = g - catchup - S.time \/ (catchup = -1 /\ c = 0))
      BY <1>1, <2>8, <3>1, <3>2, <3>4
    <3>6. CASE catchup < -1
      <4>1. Sound(clk) /\ clk.queue = S.queue /\ S.time = clk.time + S.queue[1].time
            /\ Agenda(clk) = Agenda(clk)
        BY <1>1, <3>1, <3>2, <3>3, <3>6
      <4> QED BY <4>1, <1>1, <2>3, <2>8, <3>4, <3>5, DispatchesUnit DEF g
    <3>7. CASE ~(catchup < -1)
      <4>1. S = clk /\ h = 0 /\ S.time = S.time + S.queue[1].time
        BY <2>4, <2>8, <3>1, <3>2, <3>3, <3>4, <3>7
      <4> QED BY <4>1, <1>1, <2>3, <2>8, <3>4, <3>5, DispatchesUnit DEF g
    <3> QED BY <3>6, <3>7
  <2>9. CASE clk' = V /\ catchup' = 0 /\ pc' = "instr"
    <3>1. Agenda(clk') = Agenda(V) /\ GTime(clk') = GTime(V) /\ catchup' = 0
      BY <2>9
    <3> QED BY <2>9, <3>1, <1>1, <1>5, <2>4, <2>6, ResumesAgenda
  <2>10. CASE ReturnToScp(V)
    <3>1. ~(V.interval < 0)
      BY <1>1, <1>2, <2>3, <2>7, WaitAssumption DEF Loose
    <3>2. Agenda(clk') = Agenda(V) /\ GTime(clk') = GTime(V) /\ catchup' = 0
      BY <3>1, <2>7, <2>10, ReturnAgenda
    <3>3. pc' = "scp"
      BY <2>10 DEF ReturnToScp
    <3> QED BY <3>2, <3>3, <1>1, <1>5, <2>4, <2>6, ResumesAgenda
  <2> QED BY <2>1, <2>8, <2>9, <2>10
<1> QED BY <1>4, <1>5

\* Every step of the queue is a step of the agenda.
LEMMA NextIsAgendaStep ==
  ASSUME IInv, [Next]_vars
  PROVE  AgendaStep
<1>0. /\ Sound(clk) /\ clk \in Clocks /\ catchup \in Int
      /\ clk.queue \in Seq(Entries) /\ clk.interval \in Int /\ clk.time \in Int
      /\ HeadTime(clk) \in Int /\ GTime(clk) = clk.time + HeadTime(clk) - clk.interval
  BY IInvParts, ClockTypes DEF GTime
<1>1. CASE Calls
  BY <1>1, CallsAreAgendaSteps
<1>2. ASSUME NEW n \in Bursts, Instruction(n) PROVE AgendaStep
  <2>1. /\ pc = "instr" /\ UNCHANGED catchup /\ clk.interval > 0
        /\ clk' = [clk EXCEPT !.interval = @ - n]
        /\ n \in Nat /\ n > 0
    BY <1>0, <1>2, BurstsAssumption DEF Instruction, EventDue
  <2>2. catchup = 0 /\ GTime(clk) \in Int
    BY <2>1, NothingIsLate
  <2>3. /\ clk'.queue = clk.queue /\ clk'.time = clk.time /\ clk'.noqueue = clk.noqueue
        /\ clk'.interval = clk.interval - n
    BY <2>1, <1>0 DEF Clocks
  <2>4. GTime(clk') = GTime(clk) + n /\ Agenda(clk') = Agenda(clk)
    <3>1. HeadTime(clk') = HeadTime(clk)
      BY <2>3 DEF HeadTime
    <3>2. GTime(clk') = clk.time + HeadTime(clk) - (clk.interval - n)
      BY <3>1, <2>3 DEF GTime
    <3>3. Agenda(clk') = Agenda(clk)
      BY <2>3 DEF Agenda, DueAt
    <3> DEFINE h == HeadTime(clk)
               g == GTime(clk)
    <3>4. GTime(clk') = clk.time + h - (clk.interval - n) /\ g = clk.time + h - clk.interval
      BY <3>2, <1>0
    <3>5. h \in Int
      BY <1>0
    <3> HIDE DEF h, g
    <3>6. GTime(clk') = g + n
      BY <3>4, <3>5, <1>0, <2>1
    <3> QED BY <3>3, <3>6 DEF g
  <2>5. ASSUME NEW i \in DOMAIN Agenda(clk) PROVE Agenda(clk)[i].due > GTime(clk)
    <3>1. i \in 1..Len(clk.queue) /\ clk.queue # <<>> /\ Agenda(clk)[i].due \in Int
      <4>1. i \in 1..Len(clk.queue)
        BY <1>0, AgendaTypes
      <4>2. Agenda(clk)[i].due = clk.time + Accum(clk.queue)[i] /\ Accum(clk.queue)[i] \in Int
        BY <1>0, <4>1, AgendaTypes
      <4>3. clk.queue # <<>>
        BY <4>1
      <4> QED BY <1>0, <4>1, <4>2, <4>3
    <3>2. /\ 1 \in DOMAIN Agenda(clk) /\ Agenda(clk)[1].due = GTime(clk) + clk.interval
      BY <1>0, <3>1, HeadIsDue
    <3>3. Agenda(clk)[1].due <= Agenda(clk)[i].due
      BY <1>0, <3>1, <3>2, AgendaInOrder
    <3> QED BY <1>0, <2>1, <2>2, <3>1, <3>2, <3>3
  <2>6. Abstract!Advance
    <3>1. GTime(clk') > GTime(clk)
      BY <2>1, <2>2, <2>4
    <3>2. -catchup = 0
      BY <2>2, MinusZero
    <3> QED BY <2>1, <2>4, <3>1, <3>2, PrimedAgenda DEF Abstract!Advance
  <2> QED BY <2>4, <2>5, <2>6 DEF AgendaStep
<1>3. CASE sim_process_event
  BY <1>3, ProcessEventIsAgendaStep
<1>4. CASE ActionReturns
  BY <1>4, EndEventIsAgendaStep DEF ActionReturns
<1>5. CASE Requeue
  <2> DEFINE us == clk.usecs_remaining[uptr]
             R == sim_timer_activate_after(clk, uptr, us, TRUE)
  <2>1. clk' = R /\ UNCHANGED catchup /\ uptr \in Units
    BY <1>5, IInvParts DEF Requeue, InEvent
  <2>2. us \in Nat
    BY <1>0, <2>1, ClockTypes
  <2> HIDE DEF us
  <2>3. CASE uptr \in Queued(clk)
    <3>1. R = clk
      BY <2>3 DEF sim_timer_activate_after
    <3> QED BY <2>1, <3>1, Stutters
  <2>4. CASE uptr \notin Queued(clk)
    <3>1. GTime(R) = GTime(clk) /\ \E t \in Nat :
            LinkedIn(Agenda(clk), Agenda(R), uptr, GTime(clk) + t)
      BY <1>0, <2>1, <2>2, <2>4, AfterAgenda
    <3>2. Abstract!Without(Agenda(clk), uptr) = Agenda(clk)
      BY <1>0, <2>4, PlaceOnAgenda DEF Abstract!Without
    <3> HIDE DEF R
    <3>3. Abstract!Schedule(uptr)
      BY <1>0, <2>1, <3>1, <3>2, Schedules
    <3> QED BY <2>1, <3>3, <2>4, SchedulesUnit
  <2> QED BY <2>3, <2>4
<1>6. CASE Requeued
  BY <1>6, EndEventIsAgendaStep DEF Requeued
<1>7. CASE Halt
  BY <1>7, ReturnIsAgendaStep DEF Halt
<1>8. CASE Interrupt
  <2>1. clk' = [clk EXCEPT !.interval = 0] /\ UNCHANGED catchup
    BY <1>8 DEF Interrupt
  <2>2. /\ clk'.queue = clk.queue /\ clk'.time = clk.time /\ clk'.noqueue = clk.noqueue
        /\ clk'.interval = 0
    BY <2>1, <1>0 DEF Clocks
  <2>3. GTime(clk') = clk.time + HeadTime(clk) /\ Agenda(clk') = Agenda(clk)
    <3>1. GTime(clk') = clk.time + HeadTime(clk) - 0
      BY <2>2 DEF GTime, HeadTime
    <3> QED BY <3>1, <2>2, <1>0 DEF Agenda, DueAt
  <2>4. Agenda(clk) # <<>> => Agenda(clk)[1].due = clk.time + HeadTime(clk)
    <3>1. (Agenda(clk) = <<>>) <=> (clk.queue = <<>>)
      BY <1>0, AgendaTypes
    <3> QED BY <3>1, <1>0, HeadIsDue
  <2>5. Abstract!Skip
    BY <2>1, <2>3, <2>4, PrimedAgenda DEF Abstract!Skip
  <2> QED BY <2>5 DEF AgendaStep
<1>9. CASE RunBootPrep
  <2>1. /\ clk'.queue = <<>> /\ clk'.interval = 0 /\ clk'.noqueue = 0 /\ clk'.time = 0
        /\ UNCHANGED catchup
    BY <1>0, <1>9 DEF RunBootPrep, Clocks
  <2>2. GTime(clk') = 0
    BY <2>1 DEF GTime, HeadTime
  <2>3. Agenda(clk') = <<>>
    BY <2>1 DEF Agenda
  <2>4. Abstract!Reset
    BY <2>1, <2>2, <2>3, PrimedAgenda DEF Abstract!Reset
  <2> QED BY <2>4 DEF AgendaStep
<1>10. CASE Run
  BY <1>10, Stutters DEF Run
<1>11. CASE UNCHANGED vars
  BY <1>11, Stutters DEF vars
<1> QED BY <1>1, <1>2, <1>3, <1>4, <1>5, <1>6, <1>7, <1>8, <1>9, <1>10, <1>11
        DEF Next

\* The clock and the queue start as the agenda does.
LEMMA InitIsAgendaInit == Init => Abstract!Init
<1> SUFFICES ASSUME Init PROVE Abstract!Init
  OBVIOUS
<1>1. clk.queue = <<>> /\ clk.interval = 0 /\ clk.noqueue = 0 /\ clk.time = 0 /\ catchup = 0
  BY DEF Init
<1>2. GTime(clk) = 0
  BY <1>1 DEF GTime, HeadTime
<1>3. Agenda(clk) = <<>>
  BY <1>1 DEF Agenda
<1>4. -catchup = 0
  BY <1>1, MinusZero
<1> QED BY <1>2, <1>3, <1>4 DEF Abstract!Init

\* The queue with its relative delays, the interval that is counted down and the catching
\* up keep the promises of an agenda of absolute times: what is asked for is linked in
\* at its time, the first entry and no other is called, when its time has come, and no
\* other step moves an entry except the end of a catch-up, which moves all of them.
THEOREM EventQueueImplementsEventClock == Spec => ImplementsEventClock
<1>1. IInv /\ [Next]_vars => [Abstract!Next]_(Abstract!vars)
  BY NextIsAgendaStep DEF AgendaStep, Abstract!Next
<1>2. Spec => []IInv
  BY IInvHolds
<1> QED BY <1>1, <1>2, InitIsAgendaInit, PTL DEF Spec, ImplementsEventClock, Abstract!Spec

-----------------------------------------------------------------------------
(***************************************************************************)
(* How late an event can be: no later than an instruction runs on after    *)
(* the event was due.                                                      *)
(***************************************************************************)

\* What is taken off an agenda leaves the other entries.
LEMMA WithoutEntries ==
  ASSUME NEW X, NEW a \in Seq(X), NEW u
  PROVE  LET b == Abstract!Without(a, u)
         IN  /\ b \in Seq(X)
             /\ \A i \in DOMAIN b : \E j \in DOMAIN a : b[i] = a[j]
<1> DEFINE b == Abstract!Without(a, u)
           n == Len(a)
<1>1. n \in Nat /\ DOMAIN a = 1..n /\ \A i \in 1..n : a[i] \in X
  OBVIOUS
<1>2. CASE Abstract!On(a, u)
  <2> DEFINE k == CHOOSE k \in DOMAIN a : a[k].unit = u
  <2>1. k \in 1..n
    BY <1>1, <1>2 DEF Abstract!On
  <2> HIDE DEF k
  <2>2. b = [i \in 1..(n - 1) |-> IF i < k THEN a[i] ELSE a[i + 1]]
    BY <1>2 DEF Abstract!Without, Abstract!RemoveAt, k
  <2> HIDE DEF b, n
  <2>3. \A i \in 1..(n - 1) : i \in 1..n /\ i + 1 \in 1..n
    BY <1>1
  <2>4. \A i \in 1..(n - 1) : b[i] = a[i] \/ b[i] = a[i + 1]
    BY <2>2
  <2>5. b \in [1..(n - 1) -> X] /\ n - 1 \in Nat
    BY <1>1, <2>1, <2>2, <2>3
  <2>6. b \in Seq(X) /\ DOMAIN b = 1..(n - 1)
    BY <2>5
  <2>7. \A i \in 1..(n - 1) : \E j \in 1..n : b[i] = a[j]
    BY <2>3, <2>4
  <2> QED BY <1>1, <2>6, <2>7 DEF b
<1>3. CASE ~Abstract!On(a, u)
  BY <1>3 DEF Abstract!Without
<1> QED BY <1>2, <1>3

\* What is put on an agenda leaves the other entries.
LEMMA InsertAtEntries ==
  ASSUME NEW X, NEW a \in Seq(X), NEW k \in 1..(Len(a) + 1), NEW e
  PROVE  \A i \in DOMAIN Abstract!InsertAt(a, k, e) :
           \/ Abstract!InsertAt(a, k, e)[i] = e
           \/ \E j \in DOMAIN a : Abstract!InsertAt(a, k, e)[i] = a[j]
<1> DEFINE b == Abstract!InsertAt(a, k, e)
           n == Len(a)
<1>1. n \in Nat /\ DOMAIN a = 1..n /\ k \in 1..(n + 1)
  OBVIOUS
<1>2. b = [i \in 1..(n + 1) |-> IF i < k THEN a[i] ELSE IF i = k THEN e ELSE a[i - 1]]
  BY DEF Abstract!InsertAt
<1> HIDE DEF b, n
<1>3. ASSUME NEW i \in 1..(n + 1) PROVE b[i] = e \/ \E j \in 1..n : b[i] = a[j]
  <2>1. CASE i < k
    BY <2>1, <1>1, <1>2
  <2>2. CASE i = k
    BY <2>2, <1>2
  <2>3. CASE i > k
    <3>1. i - 1 \in 1..n /\ b[i] = a[i - 1]
      BY <2>3, <1>1, <1>2
    <3> QED BY <3>1
  <2> QED BY <1>1, <2>1, <2>2, <2>3
<1>4. DOMAIN b = 1..(n + 1)
  BY <1>2
<1> QED BY <1>1, <1>3, <1>4 DEF b

\* An entry of the agenda that was not there before has just been asked for, or all
\* of the agenda has been moved, which happens only when more than one instruction
\* has been caught up.
LEMMA NewEntries ==
  ASSUME IInv, IInv', AgendaStep, NEW i \in DOMAIN Agenda(clk')
  PROVE  \/ \E j \in DOMAIN Agenda(clk) : Agenda(clk')[i] = Agenda(clk)[j]
         \/ /\ Agenda(clk')[i].due >= GTime(clk)
            /\ LET u == Agenda(clk')[i].unit IN u \in Queued(clk) => Rescheduled(u)
            /\ GTime(clk') = GTime(clk) /\ UNCHANGED (-catchup)
         \/ /\ -catchup > 1 /\ -(catchup') = 0 /\ MovesOn
            /\ Agenda(clk') = Abstract!Moved(Agenda(clk), GTime(clk') - GTime(clk))
<1> DEFINE a == Agenda(clk)
           b == Agenda(clk')
           E == [unit : Units, due : Int]
<1>1. a \in Seq(E) /\ b \in Seq(E)
  <2>1. Sound(clk) /\ Sound(clk)'
    BY IInvParts DEF IInv, TypeOK, QueueInOrder, RTimeFollowsTime, Sound
  <2>2. Sound(clk')
    BY <2>1 DEF Sound, InOrder
  <2> QED BY <2>1, <2>2, AgendaTypes
<1>2. Agenda(clk)' = b /\ GTime(clk)' = GTime(clk')
  BY PrimedAgenda
<1> HIDE DEF b
<1>3. i \in DOMAIN b
  BY DEF b
<1>4. ASSUME NEW u \in Units, Abstract!Schedule(u), u \in Queued(clk) => Rescheduled(u)
      PROVE  \/ \E j \in DOMAIN a : b[i] = a[j]
             \/ /\ b[i].due >= GTime(clk)
                /\ b[i].unit \in Queued(clk) => Rescheduled(b[i].unit)
                /\ GTime(clk') = GTime(clk) /\ UNCHANGED (-catchup)
  <2> DEFINE w == Abstract!Without(a, u)
  <2>1. PICK k \in 1..(Len(w) + 1), j \in DOMAIN b :
          b[j].unit = u /\ b[j].due >= GTime(clk) /\ b = Abstract!InsertAt(w, k, b[j])
    BY <1>2, <1>4 DEF Abstract!Schedule
  <2>2. w \in Seq(E) /\ \A m \in DOMAIN w : \E n \in DOMAIN a : w[m] = a[n]
    BY <1>1, WithoutEntries
  <2> HIDE DEF w, a, E
  <2>3. b[i] = b[j] \/ \E m \in DOMAIN w : b[i] = w[m]
    BY <1>3, <2>1, <2>2, InsertAtEntries
  <2>4. GTime(clk') = GTime(clk) /\ UNCHANGED (-catchup)
    BY <1>2, <1>4 DEF Abstract!Schedule
  <2> QED BY <1>4, <2>1, <2>2, <2>3, <2>4
<1>5. ASSUME NEW u \in Units, Abstract!Unschedule(u) PROVE \E j \in DOMAIN a : b[i] = a[j]
  <2>1. b = Abstract!Without(a, u)
    BY <1>2, <1>5 DEF Abstract!Unschedule
  <2> QED BY <1>1, <1>3, <2>1, WithoutEntries
<1>6. ASSUME Abstract!Dispatch PROVE \E j \in DOMAIN a : b[i] = a[j]
  <2>1. b = Tail(a) /\ a # <<>>
    BY <1>2, <1>6 DEF Abstract!Dispatch
  <2>2. i + 1 \in DOMAIN a /\ b[i] = a[i + 1]
    <3> HIDE DEF a, E
    <3> QED BY <1>1, <1>3, <2>1
  <2> HIDE DEF a
  <2> QED BY <2>2
<1>7. b = a => \E j \in DOMAIN a : b[i] = a[j]
  <2> HIDE DEF a
  <2> QED BY <1>3
<1>8. b # <<>>
  BY <1>3
<1>9. ASSUME Abstract!Resume /\ (-catchup > 1 => MovesOn)
      PROVE  \/ b = a
             \/ /\ -catchup > 1 /\ -(catchup') = 0 /\ MovesOn
                /\ b = Abstract!Moved(a, GTime(clk') - GTime(clk))
  BY <1>2, <1>9 DEF Abstract!Resume
<1>10. Abstract!Advance \/ Abstract!Skip \/ UNCHANGED Abstract!vars => b = a
  BY <1>2 DEF Abstract!Advance, Abstract!Skip, Abstract!vars
<1>11. Abstract!Reset => b = <<>>
  BY <1>2 DEF Abstract!Reset
<1> QED BY <1>4, <1>5, <1>6, <1>7, <1>8, <1>9, <1>10, <1>11 DEF AgendaStep, b

\* With instructions that take up to K off the interval: what has run on after an
\* event was due is less than K, counting what has not been caught up.
NotTooLate(K) ==
  /\ -catchup <= K - 1
  /\ \A i \in DOMAIN Agenda(clk) :
       Agenda(clk)[i].due >= GTime(clk) + (-catchup) - (K - 1)

\* At first there are no events.
LEMMA InitNotTooLate == ASSUME NEW K \in Nat \ {0}, Init PROVE NotTooLate(K)
<1>1. Agenda(clk) = <<>> /\ -catchup = 0
  BY InitIsAgendaInit DEF Abstract!Init
<1> HIDE DEF Init
<1>2. -catchup <= K - 1
  BY <1>1
<1> QED BY <1>1, <1>2 DEF NotTooLate

\* Agenda and time before and after a step.
LEMMA AgendaFacts ==
  ASSUME IInv, IInv'
  PROVE  LET a == Agenda(clk)
             b == Agenda(clk')
         IN  /\ a \in Seq([unit : Units, due : Int]) /\ b \in Seq([unit : Units, due : Int])
             /\ \A j \in DOMAIN a : a[j].due \in Int /\ 1 \in DOMAIN a /\ a[1].due <= a[j].due
             /\ \A j \in DOMAIN b : b[j].due \in Int
             /\ GTime(clk) \in Int /\ GTime(clk') \in Int
             /\ -catchup \in Int /\ -catchup >= 0 /\ -(catchup') \in Int
<1> DEFINE a == Agenda(clk)
           b == Agenda(clk')
           E == [unit : Units, due : Int]
<1>1. Sound(clk) /\ Sound(clk')
  <2>1. Sound(clk) /\ Sound(clk)'
    BY IInvParts DEF IInv, TypeOK, QueueInOrder, RTimeFollowsTime, Sound
  <2> QED BY <2>1 DEF Sound, InOrder
<1>2. a \in Seq(E) /\ b \in Seq(E)
  BY <1>1, AgendaTypes
<1>3. (\A j \in DOMAIN a : a[j] \in E /\ 1 \in DOMAIN a /\ 1 <= j) /\ (\A j \in DOMAIN b : b[j] \in E)
  <2> HIDE DEF a, b, E
  <2>1. DOMAIN a = 1..Len(a) /\ Len(a) \in Nat
    BY <1>2
  <2>2. \A j \in 1..Len(a) : 1 \in 1..Len(a) /\ 1 <= j
    BY <2>1
  <2> QED BY <1>2, <2>1, <2>2
<1>4. (\A j \in DOMAIN a : a[j].due \in Int) /\ (\A j \in DOMAIN b : b[j].due \in Int)
  <2> HIDE DEF a, b
  <2> QED BY <1>3
<1>5. \A j \in DOMAIN a : a[1].due <= a[j].due
  BY <1>1, <1>3, AgendaInOrder
<1>6. GTime(clk) \in Int /\ GTime(clk') \in Int
  BY <1>1, ClockTypes DEF Sound, GTime
<1>7. catchup \in Int /\ catchup <= 0 /\ catchup' \in Int
  BY DEF IInv, TypeOK
<1>8. -catchup \in Int /\ -catchup >= 0 /\ -(catchup') \in Int
  BY <1>7
<1> QED BY <1>2, <1>3, <1>4, <1>5, <1>6, <1>8

\* An agenda that is moved.
LEMMA MovedEntries ==
  ASSUME NEW a \in Seq([unit : Units, due : Int]), NEW d, NEW i \in DOMAIN Abstract!Moved(a, d)
  PROVE  /\ i \in DOMAIN a /\ Abstract!Moved(a, d)[i].due = a[i].due + d
         /\ Abstract!Moved(a, d)[i].unit = a[i].unit
<1>1. Abstract!Moved(a, d) = [j \in DOMAIN a |-> [a[j] EXCEPT !.due = @ + d]]
  BY DEF Abstract!Moved
<1>2. i \in DOMAIN a
  BY <1>1
<1> DEFINE r == a[i]
<1>3. r \in [unit : Units, due : Int]
  <2> DEFINE E == [unit : Units, due : Int]
  <2>1. a \in Seq(E)
    OBVIOUS
  <2> HIDE DEF E
  <2>2. r \in E
    BY <2>1, <1>2
  <2> QED BY <2>2 DEF E
<1>5. Abstract!Moved(a, d)[i] = [r EXCEPT !.due = @ + d]
  BY <1>1, <1>2
<1> HIDE DEF r
<1>4. [r EXCEPT !.due = @ + d].due = r.due + d /\ [r EXCEPT !.due = @ + d].unit = r.unit
  BY <1>3
<1> QED BY <1>2, <1>4, <1>5 DEF r

\* No step makes it later.
LEMMA NotTooLateKeeps ==
  ASSUME NEW K \in Nat \ {0}, Bursts \subseteq 1..K, IInv, IInv', AgendaStep, NotTooLate(K)
  PROVE  NotTooLate(K)'
<1> DEFINE a == Agenda(clk)
           b == Agenda(clk')
           g == GTime(clk)
           h == GTime(clk')
           l == -catchup
           m == -(catchup')
           z == K - 1
<1>1. /\ \A j \in DOMAIN a : a[j].due \in Int /\ 1 \in DOMAIN a /\ a[1].due <= a[j].due
      /\ \A j \in DOMAIN b : b[j].due \in Int
      /\ g \in Int /\ h \in Int /\ l \in Int /\ l >= 0 /\ m \in Int /\ z \in Int /\ z >= 0
  BY AgendaFacts
<1>2. l <= z /\ \A j \in DOMAIN a : a[j].due >= g + l - z
  BY DEF NotTooLate
<1>3. Agenda(clk)' = b /\ GTime(clk)' = h /\ (-catchup)' = m
  BY PrimedAgenda
<1>4. /\ m <= z
      /\ \/ \A j \in DOMAIN a : a[j].due >= h + m - z
         \/ m = 0 /\ b = Abstract!Moved(a, h - g)
         \/ b = <<>>
  <2>1. CASE /\ Abstract!Advance /\ \E n \in Bursts : h = g + n
             /\ \A j \in DOMAIN a : a[j].due > g
    <3>1. PICK n \in 1..K : h = g + n
      BY <2>1
    <3>2. l = 0 /\ m = l
      BY <2>1, <1>3 DEF Abstract!Advance
    <3> HIDE DEF a, b, g, h, l, m
    <3>3. h - z <= g + 1
      BY <1>1, <3>1
    <3> QED BY <1>1, <2>1, <3>2, <3>3
  <2>2. CASE h = g /\ m = l
    <3> HIDE DEF a, b, g, h, l, m, z
    <3> QED BY <1>2, <2>2
  <2>3. CASE Abstract!Dispatch
    <3>1. /\ a # <<>> /\ a[1].due <= g + l /\ h = a[1].due
          /\ m = g + l - h \/ (l = 1 /\ m = 0)
      BY <2>3, <1>3 DEF Abstract!Dispatch
    <3>2. 1 \in DOMAIN a
      BY <3>1, <1>1, AgendaFacts
    <3> HIDE DEF a, b, g, h, l, m, z
    <3>3. m <= z
      BY <1>1, <1>2, <3>1, <3>2
    <3> QED BY <1>1, <3>1, <3>3
  <2>4. CASE Abstract!Resume
    <3>1. /\ m = 0
          /\ h = g \/ a = <<>> \/ b = Abstract!Moved(a, h - g)
      BY <2>4, <1>3 DEF Abstract!Resume
    <3> HIDE DEF a, b, g, h, l, m, z
    <3>2. a = <<>> => \A j \in DOMAIN a : a[j].due >= h + m - z
      OBVIOUS
    <3>3. ASSUME h = g, NEW j \in DOMAIN a PROVE a[j].due >= h + m - z
      BY <1>1, <1>2, <3>1, <3>3
    <3> QED BY <1>1, <3>1, <3>2, <3>3
  <2>5. CASE Abstract!Skip
    <3>1. m = l /\ (a = <<>> \/ h = a[1].due)
      BY <2>5, <1>3 DEF Abstract!Skip
    <3> HIDE DEF a, b, g, h, l, m, z
    <3>2. a = <<>> => \A j \in DOMAIN a : a[j].due >= h + m - z
      OBVIOUS
    <3>3. ASSUME h = a[1].due, NEW j \in DOMAIN a PROVE a[j].due >= h + m - z
      BY <1>1, <1>2, <3>1, <3>3
    <3> QED BY <1>2, <3>1, <3>2, <3>3
  <2>6. CASE Abstract!Reset
    <3>1. m = l /\ b = <<>>
      BY <2>6, <1>3 DEF Abstract!Reset
    <3> HIDE DEF a, b, g, h, l, m, z
    <3> QED BY <1>2, <3>1
  <2> QED BY <2>1, <2>2, <2>3, <2>4, <2>5, <2>6, <1>3
          DEF AgendaStep, Abstract!Schedule, Abstract!Unschedule, Abstract!vars
<1>5. ASSUME NEW i \in DOMAIN b PROVE b[i].due >= h + m - z
  <2>1. \/ \E j \in DOMAIN a : b[i] = a[j]
        \/ b[i].due >= g /\ h = g /\ m = l
        \/ b = Abstract!Moved(a, h - g) /\ m = 0
    BY <1>3, NewEntries
  <2> HIDE DEF a, b, g, h, l, m, z
  <2>2. ASSUME b = Abstract!Moved(a, h - g) PROVE i \in DOMAIN a /\ b[i].due = a[i].due + (h - g)
    <3>1. a \in Seq([unit : Units, due : Int])
      BY AgendaFacts DEF a
    <3> QED BY <2>2, <3>1, MovedEntries
  <2>3. b # <<>>
    OBVIOUS
  <2>4. CASE \A j \in DOMAIN a : a[j].due >= h + m - z
    <3>1. CASE b = Abstract!Moved(a, h - g) /\ m = 0
      BY <1>1, <1>2, <2>2, <3>1
    <3> QED BY <1>1, <1>2, <2>1, <2>4, <3>1
  <2>5. CASE m = 0 /\ b = Abstract!Moved(a, h - g)
    BY <1>1, <1>2, <2>2, <2>5
  <2> QED BY <1>4, <2>3, <2>4, <2>5
<1> QED BY <1>3, <1>4, <1>5 DEF NotTooLate

\* When no instruction takes more than K off the interval, the clock is never more than
\* K - 1 behind, and no event is ever due further back than that: catching up on one
\* event after the other does not make the next one later.
THEOREM LatenessIsBounded ==
  ASSUME NEW K \in Nat \ {0}, Bursts \subseteq 1..K
  PROVE  Spec => []NotTooLate(K)
<1>1. Init => NotTooLate(K)
  BY InitNotTooLate
<1>2. IInv /\ IInv' /\ NotTooLate(K) /\ [Next]_vars => NotTooLate(K)'
  BY NextIsAgendaStep, NotTooLateKeeps
<1>3. Spec => []IInv
  BY IInvHolds
<1> QED BY <1>1, <1>2, <1>3, PTL DEF Spec

-----------------------------------------------------------------------------
(***************************************************************************)
(* When units are due, step by step.                                       *)
(***************************************************************************)

\* The time at which a unit is due is that of its entry on the agenda.
LEMMA DueOnAgenda ==
  ASSUME NEW S, Sound(S), NEW u
  PROVE  /\ \A i \in DOMAIN Agenda(S) :
              Agenda(S)[i].unit = u => u \in Queued(S) /\ Due(S, u) = Agenda(S)[i].due
         /\ u \in Queued(S) => \E i \in DOMAIN Agenda(S) : Agenda(S)[i].unit = u
<1> DEFINE n == Len(S.queue)
<1>1. /\ S.queue \in Seq(Entries) /\ InOrder(S.queue) /\ DOMAIN Agenda(S) = 1..n
      /\ \A i \in 1..n : Agenda(S)[i].unit = S.queue[i].unit /\ Agenda(S)[i].due = DueAt(S, i)
  BY AgendaTypes DEF Sound, DueAt
<1>2. DOMAIN S.queue = 1..n
  BY <1>1, EntryTypes
<1>3. ASSUME NEW i \in 1..n, S.queue[i].unit = u
      PROVE  u \in Queued(S) /\ Index(S, u) = i
  <2>1. u \in Queued(S)
    BY <1>2, <1>3 DEF Queued
  <2>2. \A j \in 1..n : S.queue[j].unit = u => j = i
    BY <1>1, <1>2, <1>3 DEF InOrder
  <2> QED BY <1>2, <1>3, <2>1, <2>2 DEF Index
<1> HIDE DEF n
<1> QED BY <1>1, <1>2, <1>3 DEF Queued, Due

\* An event that nobody reschedules stays due at the same time, however late the
\* machine is.  Only the end of a catch-up moves the events that wait, all of them by
\* the delay of the first.
THEOREM EventsStayDue == Spec => DueIsStable
<1>1. ASSUME IInv, IInv', [Next]_vars, NEW u \in Queued(clk) \cap Queued(clk')
      PROVE  \/ Due(clk', u) = Due(clk, u)
             \/ Rescheduled(u)
             \/ CatchUpEnds /\ Due(clk', u) = Due(clk, u) + clk.queue[1].time
  <2>1. Sound(clk) /\ Sound(clk')
    <3>1. Sound(clk) /\ Sound(clk)'
      BY <1>1, IInvParts DEF IInv, TypeOK, QueueInOrder, RTimeFollowsTime, Sound
    <3> QED BY <3>1 DEF Sound, InOrder
  <2>2. PICK i \in DOMAIN Agenda(clk') :
          Agenda(clk')[i].unit = u /\ Due(clk', u) = Agenda(clk')[i].due
    BY <1>1, <2>1, DueOnAgenda
  <2>3. AgendaStep
    BY <1>1, NextIsAgendaStep
  <2>4. CASE \E j \in DOMAIN Agenda(clk) : Agenda(clk')[i] = Agenda(clk)[j]
    BY <2>1, <2>2, <2>4, DueOnAgenda
  <2>5. CASE u \in Queued(clk) => Rescheduled(u)
    BY <1>1, <2>5
  <2>6. CASE MovesOn /\ Agenda(clk') = Abstract!Moved(Agenda(clk), GTime(clk') - GTime(clk))
    <3> DEFINE a == Agenda(clk)
               d == GTime(clk') - GTime(clk)
    <3>1. a \in Seq([unit : Units, due : Int]) /\ i \in DOMAIN Abstract!Moved(a, d)
      BY <2>1, <2>6, AgendaTypes
    <3> HIDE DEF a, d
    <3>2. /\ i \in DOMAIN a /\ Abstract!Moved(a, d)[i].due = a[i].due + d
          /\ Abstract!Moved(a, d)[i].unit = a[i].unit
      BY <3>1, MovedEntries
    <3>3. a[i].unit = u /\ Due(clk', u) = a[i].due + d
      BY <2>2, <2>6, <3>2 DEF a, d
    <3>4. Due(clk, u) = a[i].due
      BY <2>1, <3>2, <3>3, DueOnAgenda DEF a
    <3>5. d = clk.queue[1].time /\ CatchUpEnds
      BY <2>6 DEF MovesOn, d
    <3> QED BY <3>3, <3>4, <3>5
  <2> QED BY <1>1, <2>2, <2>3, <2>4, <2>5, <2>6, NewEntries
<1>2. IInv /\ IInv' /\ [Next]_vars =>
        [\A u \in Queued(clk) \cap Queued(clk') :
           \/ Due(clk', u) = Due(clk, u)
           \/ Rescheduled(u)
           \/ CatchUpEnds /\ Due(clk', u) = Due(clk, u) + clk.queue[1].time]_vars
  BY <1>1
<1> QED BY <1>2, IInvHolds, PTL DEF Spec, DueIsStable
\* A unit that is linked in is due when it was asked for.
LEMMA LinkedInIsDue ==
  ASSUME NEW S, Sound(S), NEW a, Len(a) \in Nat, NEW u, NEW d, LinkedIn(a, Agenda(S), u, d)
  PROVE  Due(S, u) = d
<1> DEFINE b == Agenda(S)
           e == [unit |-> u, due |-> d]
<1>1. PICK k \in 1..(Len(a) + 1) : b = Abstract!InsertAt(a, k, e)
  BY DEF LinkedIn
<1> HIDE DEF b
<1>2. k \in DOMAIN b /\ b[k] = e
  BY <1>1 DEF Abstract!InsertAt
<1>3. k \in DOMAIN b /\ b[k].unit = u /\ b[k].due = d
  BY <1>2
<1> HIDE DEF e
<1> QED BY <1>3, DueOnAgenda DEF b

\* sim_activate_notbefore finds the next time at which sim_rtime is rt, or asks for
\* now when that is half the circle away or more.
LEMMA NotBeforeIsDue ==
  ASSUME NEW S, Sound(S), NEW u \in Units, NEW rt \in 0..(RTimeMod - 1),
         Sound(sim_activate_notbefore(S, u, rt))
  PROVE  LET d == (rt - (GTime(S) % RTimeMod)) % RTimeMod
             t == IF 2 * d >= RTimeMod THEN 0 ELSE d
         IN  Due(sim_activate_notbefore(S, u, rt), u) = GTime(S) + t
<1> DEFINE T == sim_cancel(S, u)
           V == UpdateSimTime(T)
           d == (rt - V.rtime) % RTimeMod
           t == IF 2 * d >= RTimeMod THEN 0 ELSE d
           R == sim_activate_notbefore(S, u, rt)
<1>1. Sound(T) /\ u \notin Queued(T)
  BY CancelKeeps
<1>2. GTime(T) = GTime(S)
  BY CancelAgenda
<1>3. R = _sim_activate(V, u, t)
  BY DEF sim_activate_notbefore
<1> HIDE DEF T, R
<1>4. Sound(V) /\ Synced(V) /\ Queued(V) = Queued(T) /\ GTime(V) = GTime(T)
  BY <1>1, UpdateKeeps
<1> HIDE DEF V
<1>5. V.rtime = GTime(S) % RTimeMod
  BY <1>2, <1>4, SyncedTime DEF Sound
<1>6. t \in Nat
  <2>1. V.rtime \in Int /\ RTimeMod \in Nat \ {0}
    BY <1>4, RTimeAssumption, ClockTypes DEF Sound
  <2>2. rt - V.rtime \in Int
    BY <2>1
  <2>3. d \in 0..(RTimeMod - 1)
    BY <2>1, <2>2, ModProperties
  <2> HIDE DEF d
  <2> QED BY <2>1, <2>3
<1>7. t = LET c == (rt - (GTime(S) % RTimeMod)) % RTimeMod
          IN  IF 2 * c >= RTimeMod THEN 0 ELSE c
  BY <1>5
<1> HIDE DEF t
<1>8. LinkedIn(Agenda(V), Agenda(R), u, GTime(V) + t)
  BY <1>1, <1>3, <1>4, <1>6, ActivateAgenda
<1>9. Len(Agenda(V)) \in Nat
  BY <1>4, AgendaTypes
<1>10. Due(R, u) = GTime(V) + t
  BY <1>8, <1>9, LinkedInIsDue DEF R
<1> QED BY <1>2, <1>4, <1>7, <1>10 DEF R

\* sim_activate_notbefore is right wherever the 32-bit counter has wrapped around, for
\* every width of it, however late the machine is and wherever the unit was before.
THEOREM NotBeforeHolds == Spec => NotBeforeIsHonoured
<1>1. ASSUME IInv, IInv', NEW u \in Units, NEW rt \in RTimes, ActivateNotBefore(u, rt)
      PROVE  LET now == GTime(clk)
                 due == Due(clk', u)
             IN  \/ due >= now /\ 2 * (due - now) < RTimeMod /\ due % RTimeMod = rt
                 \/ /\ due = now
                    /\ \A e \in 0..(RTimeMod - 1) :
                         2 * e < RTimeMod => (now + e) % RTimeMod # rt
  <2> DEFINE n == GTime(clk)
             d == (rt - (n % RTimeMod)) % RTimeMod
             due == Due(clk', u)
             M == RTimeMod
  <2>1. Sound(clk) /\ Sound(clk') /\ clk' = sim_activate_notbefore(clk, u, rt)
    <3>1. Sound(clk) /\ Sound(clk)'
      BY <1>1, IInvParts DEF IInv, TypeOK, QueueInOrder, RTimeFollowsTime, Sound
    <3> QED BY <1>1, <3>1 DEF Sound, InOrder, ActivateNotBefore, CallOf
  <2>2. rt \in 0..(M - 1) /\ M \in Nat \ {0}
    BY RTimeAssumption
  <2>3. n \in Int
    BY <2>1, ClockTypes DEF Sound, GTime
  <2>4. due = n + IF 2 * d >= M THEN 0 ELSE d
    BY <2>1, <2>2, NotBeforeIsDue
  <2> HIDE DEF n, due, M
  <2>5. /\ d \in 0..(M - 1) /\ (n + d) % M = rt
        /\ \A e \in 0..(M - 1) : (n + e) % M = rt => e = d
    BY <2>2, <2>3, NextWithRemainder DEF M
  <2> HIDE DEF d
  <2>6. CASE 2 * d >= M
    <3>1. due = n
      BY <2>3, <2>4, <2>6
    <3>2. \A e \in 0..(M - 1) : 2 * e < M => e # d
      BY <2>2, <2>5, <2>6
    <3> QED BY <3>1, <3>2, <2>5 DEF n, due, M
  <2>7. CASE ~(2 * d >= M)
    <3>1. due = n + d /\ due >= n /\ due - n = d /\ 2 * d < M
      BY <2>2, <2>3, <2>4, <2>5, <2>7
    <3> QED BY <3>1, <2>5 DEF n, due, M
  <2> QED BY <2>6, <2>7
<1>2. IInv /\ IInv' /\ [Next]_vars =>
        [\A u \in Units, rt \in RTimes : ActivateNotBefore(u, rt) =>
           LET now == GTime(clk)
               due == Due(clk', u)
           IN  \/ due >= now /\ 2 * (due - now) < RTimeMod /\ due % RTimeMod = rt
               \/ /\ due = now
                  /\ \A d \in 0..(RTimeMod - 1) :
                       2 * d < RTimeMod => (now + d) % RTimeMod # rt]_vars
  BY <1>1
<1> QED BY <1>2, IInvHolds, PTL DEF Spec, NotBeforeIsHonoured

=============================================================================

----------------------------- MODULE DelayList ------------------------------
(***************************************************************************)
(* A list of units in the order in which they fire, the time of an entry   *)
(* being relative to the entry before it: sim_clock_queue, and the         *)
(* coschedule queue of a timer, which is kept by the same code.            *)
(***************************************************************************)
EXTENDS Integers, Sequences

CONSTANT Units      \* UNITs that devices put on the list

Entries == [unit : Units, time : Int]

\* A unit is on the list once, and only the head can be overdue.
InOrder(q) ==
  /\ \A i, j \in DOMAIN q : q[i].unit = q[j].unit => i = j
  /\ \A i \in DOMAIN q : i > 1 => q[i].time >= 0

\* The sum of the first i delays, for every i.
Accum(q) == LET a[i \in 0..Len(q)] == IF i = 0 THEN 0 ELSE a[i - 1] + q[i].time
            IN  a

\* A mutant of InsertionPoint: in front of the entries that fire as late.
InsertionPointInFront(q, t) ==
  CHOOSE k \in 0..Len(q) : /\ \A i \in 1..k : Accum(q)[i] < t
                           /\ k < Len(q) => t <= Accum(q)[k + 1]

\* After how many entries an entry that fires in t instructions goes: behind
\* every entry that fires no later.
InsertionPoint(q, t) ==
  CHOOSE k \in 0..Len(q) : /\ \A i \in 1..k : Accum(q)[i] <= t
                           /\ k < Len(q) => t < Accum(q)[k + 1]

\* A mutant of Insert: the entry behind u keeps its time.
InsertWithoutTaking(q, k, u, t) ==
  [i \in 1..(Len(q) + 1) |->
     IF i <= k THEN q[i]
     ELSE IF i = k + 1 THEN [unit |-> u, time |-> t - Accum(q)[k]]
     ELSE q[i - 1]]

\* q with u linked in after the k-th entry: the entry behind u gives up the
\* time that u takes.
Insert(q, k, u, t) ==
  LET d == t - Accum(q)[k] IN
  [i \in 1..(Len(q) + 1) |->
     IF i <= k THEN q[i]
     ELSE IF i = k + 1 THEN [unit |-> u, time |-> d]
     ELSE IF i = k + 2 THEN [q[k + 1] EXCEPT !.time = @ - d]
     ELSE q[i - 1]]

\* q without its k-th entry: the entry behind it takes over its time.
Unlink(q, k) ==
  [i \in 1..(Len(q) - 1) |->
     IF i < k THEN q[i]
     ELSE IF i = k THEN [q[k + 1] EXCEPT !.time = @ + q[k].time]
     ELSE q[i + 1]]
=============================================================================

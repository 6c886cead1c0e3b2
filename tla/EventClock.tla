----------------------------- MODULE EventClock -----------------------------
(***************************************************************************)
(* What the event queue of scp.c promises to devices, without intervals    *)
(* and relative delays: an agenda of units with the absolute times at      *)
(* which their action routines are to be called, and a clock.  EventQueue  *)
(* implements it.                                                          *)
(*                                                                         *)
(* The virtual machine notices an event only between instructions, so that *)
(* an event may be dispatched late.  Its action routine then sees the time *)
(* at which it was to be called; late is how much more has really passed.  *)
(***************************************************************************)
EXTENDS Integers, Sequences

CONSTANT Units

VARIABLES now, late, agenda

vars == <<now, late, agenda>>

\* a with e as its k-th entry, and a without its k-th entry.
InsertAt(a, k, e) ==
  [i \in 1..(Len(a) + 1) |-> IF i < k THEN a[i] ELSE IF i = k THEN e ELSE a[i - 1]]

RemoveAt(a, k) == [i \in 1..(Len(a) - 1) |-> IF i < k THEN a[i] ELSE a[i + 1]]

On(a, u) == \E k \in DOMAIN a : a[k].unit = u

Without(a, u) ==
  IF On(a, u) THEN RemoveAt(a, CHOOSE k \in DOMAIN a : a[k].unit = u) ELSE a

\* Everything on a, d later.
Moved(a, d) == [i \in DOMAIN a |-> [a[i] EXCEPT !.due = @ + d]]

\* Instructions are executed.
Advance ==
  /\ late = 0
  /\ now' > now
  /\ UNCHANGED <<late, agenda>>

\* u is to be called at a time that has not passed, whether or not it was on
\* the agenda; behind the units that are to be called no later.
Schedule(u) ==
  /\ LET a == Without(agenda, u) IN
     \E k \in 1..(Len(a) + 1), j \in DOMAIN agenda' :
       LET e == agenda'[j] IN
       /\ e.unit = u /\ e.due >= now
       /\ \A i \in DOMAIN a : IF i < k THEN a[i].due <= e.due ELSE a[i].due > e.due
       /\ agenda' = InsertAt(a, k, e)
  /\ UNCHANGED <<now, late>>

Unschedule(u) == agenda' = Without(agenda, u) /\ UNCHANGED <<now, late>>

\* The first unit is called, when its time has come and not before.  What is
\* late for it stays late for the next, but for one instruction.
Dispatch ==
  /\ agenda # <<>>
  /\ agenda[1].due <= now + late
  /\ now' = agenda[1].due
  /\ agenda' = Tail(agenda)
  /\ late' = now + late - now' \/ (late = 1 /\ late' = 0)

\* Nothing more is dispatched.  What was late is forgotten; when that is more
\* than one instruction, clock and agenda are moved on by a common amount.  With
\* nothing on the agenda, time that an interrupt has skipped may be given back.
Resume ==
  /\ late' = 0
  /\ \/ UNCHANGED <<now, agenda>> /\ late <= 1
     \/ agenda = <<>> /\ now' < now /\ UNCHANGED agenda
     \/ late > 1 /\ now' >= now /\ agenda' = Moved(agenda, now' - now)

\* The user interrupts: the time that remains until the first event is skipped.
Skip ==
  /\ now' = IF agenda = <<>> THEN now' ELSE agenda[1].due
  /\ UNCHANGED <<late, agenda>>

Reset == now' = 0 /\ agenda' = <<>> /\ UNCHANGED late

Init == now = 0 /\ late = 0 /\ agenda = <<>>

Next ==
  \/ Advance
  \/ \E u \in Units : Schedule(u) \/ Unschedule(u)
  \/ Dispatch
  \/ Resume
  \/ Skip
  \/ Reset

Spec == Init /\ [][Next]_vars
=============================================================================

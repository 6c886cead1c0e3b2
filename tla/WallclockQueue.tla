--------------------------- MODULE WallclockQueue ----------------------------
(***************************************************************************)
(* The wall clock queue (src/sim_timer.c, SIM_ASYNCH_CLOCKS).  When the    *)
(* asynchronous clock is on, the main thread puts a unit with a long delay *)
(* in real time on sim_wallclock_queue, which a timer thread waits for:    *)
(* when the time of the first unit is near, the thread takes it off and    *)
(* asks for it on the asynchronous queue (AsyncQueue).  A unit that would  *)
(* be the first is handed over in sim_wallclock_entry, and the thread is   *)
(* woken to sort it in.  When the machine stops the thread is ended, and   *)
(* what is on the queue moves to the event queue (EventQueue).             *)
(*                                                                         *)
(* sim_timer_lock protects all this, and the thread holds it whenever it   *)
(* does not wait: what happens under the lock is one action.  Times count  *)
(* down: due[u] is what remains until a_due_time, and stops at Late.       *)
(***************************************************************************)
EXTENDS Integers, Sequences, SequencesExt

CONSTANTS
  Units,        \* UNITs that are activated with a delay in real time
  AtPrompt,     \* the timer units, also activated while the machine stands still
  Delays,       \* the delays
  HalfIdle,     \* half of sim_idle_rate_ms
  NoUnit        \* no unit

\* A time that is over; and a wait without an end, longer than every delay.
Late == -1
Forever == 1000

\* Shorter delays are left to the event queue.
ASSUME WallclockAssumption ==
  /\ AtPrompt \subseteq Units /\ NoUnit \notin Units
  /\ HalfIdle \in Nat \ {0}
  /\ Delays \subseteq 2 * HalfIdle + 1 .. Forever - 1

VARIABLES
  queue,      \* sim_wallclock_queue
  entry,      \* sim_wallclock_entry
  linked,     \* the units with an a_next that is not NULL
  due,        \* a_due_time, as the time that remains
  scheduled,  \* the units on the asynchronous queue or the event queue
  running,    \* sim_is_running
  thread,     \* the timer thread: "none", "top" of its loop, "waiting", or
              \*   "expired": timed out but still without the lock
  until,      \* the time that remains of its wait
  pc,         \* the main thread: "run", "busy": waits for the prior entry to be
              \*   digested, "signal": about to signal, "stop": about to stop
              \*   the thread, "join": waits for it
  newcomer,   \* the unit it waits with
  raced,      \* not in the code: the unit that was timed has been cancelled
              \*   since the time was over
  owed        \* not in the code: activated since its last event or cancel

vars == <<queue, entry, linked, due, scheduled, running, thread, until, pc,
          newcomer, raced, owed>>

Down(t) == IF t = Late THEN Late ELSE t - 1

\* A unit goes behind those that are due before it, or with it.
Place(d, q) ==
  CHOOSE i \in 1 .. Len(q) + 1 :
    (\A j \in 1 .. i - 1 : due[q[j]] <= d) /\ (i <= Len(q) => d < due[q[i]])

Init ==
  /\ queue = <<>> /\ entry = NoUnit /\ linked = {}
  /\ due = [u \in Units |-> Late]
  /\ scheduled = {}
  /\ running = FALSE
  /\ thread = "none" /\ until = Forever
  /\ pc = "run" /\ newcomer = NoUnit
  /\ raced = FALSE
  /\ owed = [u \in Units |-> FALSE]

-----------------------------------------------------------------------------
(***************************************************************************)
(* The timer thread.                                                       *)
(***************************************************************************)
threadOnly == <<running, pc, newcomer, owed>>

\* A mutant of TakeOff: a_next is not cleared.
TakeOffLinked(q) ==
  /\ queue' = Tail(q)
  /\ scheduled' = scheduled \cup {Head(q)}
  /\ due' = [due EXCEPT ![Head(q)] = Late]
  /\ UNCHANGED linked

\* A unit is taken off the queue and asked for, without a delay: the time to
\* wait for is over, and is half of sim_idle_rate_ms before a_due_time.
TakeOff(q) ==
  /\ queue' = Tail(q)
  /\ linked' = linked \ {Head(q)}
  /\ scheduled' = scheduled \cup {Head(q)}
  /\ due' = [due EXCEPT ![Head(q)] = Late]

Sorted(q) == IF entry = NoUnit THEN q ELSE InsertAt(q, Place(due[entry], q), entry)

WaitFor(t) == thread' = "waiting" /\ until' = t

Scan ==
  /\ thread = "top" /\ running
  /\ entry' = NoUnit
  /\ LET q == Sorted(queue) IN
       \/ q = <<>> /\ queue' = q /\ WaitFor(Forever)
          /\ UNCHANGED <<linked, due, scheduled>>
       \/ q # <<>> /\ due[Head(q)] > HalfIdle
          /\ queue' = q /\ WaitFor(due[Head(q)] - HalfIdle)
          /\ UNCHANGED <<linked, due, scheduled>>
       \/ q # <<>> /\ due[Head(q)] <= HalfIdle
          /\ TakeOff(q) /\ UNCHANGED <<thread, until>>
  /\ UNCHANGED <<threadOnly, raced>>

Timeout ==
  /\ thread = "waiting" /\ until <= 0
  /\ thread' = "expired"
  /\ UNCHANGED <<queue, entry, linked, due, scheduled, until, raced, threadOnly>>

\* pthread_cond_timedwait has its lock and returns: the unit that is now the
\* first is taken off.
Expire ==
  /\ thread = "expired"
  /\ thread' = "top" /\ raced' = FALSE
  /\ IF queue = <<>> THEN UNCHANGED <<queue, linked, due, scheduled>>
                     ELSE TakeOff(queue)
  /\ UNCHANGED <<entry, until, threadOnly>>

\* A mutant of WakeUp: every end of a wait is a timeout.
WakeUpAsTimeout ==
  /\ thread = "waiting"
  /\ thread' = "expired"
  /\ UNCHANGED <<queue, entry, linked, due, scheduled, until, raced, threadOnly>>

\* POSIX lets a wait end without a reason.
WakeUp ==
  /\ thread = "waiting"
  /\ thread' = "top"
  /\ UNCHANGED <<queue, entry, linked, due, scheduled, until, raced, threadOnly>>

Exit ==
  /\ thread = "top" /\ ~running
  /\ thread' = "none"
  /\ UNCHANGED <<queue, entry, linked, due, scheduled, until, raced, threadOnly>>

-----------------------------------------------------------------------------
(***************************************************************************)
(* The main thread.  A signal is lost on a thread that does not wait.      *)
(***************************************************************************)
Signalled == IF thread = "waiting" THEN "top" ELSE thread

is_active(u) == u \in linked \cup scheduled

\* sim_timer_activate_after, with a long delay.
Activate(u, d) ==
  /\ pc = "run" /\ ~is_active(u)
  /\ running \/ u \in AtPrompt
  /\ due' = [due EXCEPT ![u] = d]
  /\ linked' = linked \cup {u}
  /\ owed' = [owed EXCEPT ![u] = TRUE]
  /\ LET place == Place(d, queue) IN
       \/ /\ place > 1
          /\ queue' = InsertAt(queue, place, u)
          /\ UNCHANGED <<entry, pc, newcomer>>
       \/ /\ place = 1 /\ thread # "none" /\ entry # NoUnit
          /\ newcomer' = u /\ pc' = "busy"
          /\ UNCHANGED <<queue, entry>>
       \/ /\ place = 1 /\ (thread = "none" \/ entry = NoUnit)
          /\ entry' = u /\ pc' = "signal"
          /\ UNCHANGED <<queue, newcomer>>
  /\ UNCHANGED <<scheduled, running, thread, until, raced>>

Digested ==
  /\ pc = "busy" /\ entry = NoUnit
  /\ entry' = newcomer /\ newcomer' = NoUnit
  /\ pc' = "signal"
  /\ UNCHANGED <<queue, linked, due, scheduled, running, thread, until, raced,
                 owed>>

\* A mutant of Signal: the thread is not woken for a unit that comes first.
SignalNobody ==
  /\ pc = "signal"
  /\ pc' = "run"
  /\ UNCHANGED <<queue, entry, linked, due, scheduled, running, thread, until,
                 newcomer, raced, owed>>

\* The lock is released before the signal.
Signal ==
  /\ pc = "signal"
  /\ pc' = "run"
  /\ thread' = Signalled
  /\ UNCHANGED <<queue, entry, linked, due, scheduled, running, until, newcomer,
                 raced, owed>>

\* The queue, unlinked from u.
Without(u) ==
  IF u \in Range(queue) THEN RemoveAt(queue, CHOOSE i \in DOMAIN queue : queue[i] = u)
  ELSE queue

\* sim_cancel: _sim_wallclock_cancel, and if the thread was faster, the
\* asynchronous queue is migrated and the event queue searched.
Cancel(u) ==
  /\ pc = "run" /\ is_active(u)
  /\ entry' = IF entry = u THEN NoUnit ELSE entry
  /\ queue' = Without(u)
  /\ linked' = IF u = entry \/ u \in Range(queue) THEN linked \ {u} ELSE linked
  /\ scheduled' = scheduled \ {u}
  /\ due' = [due EXCEPT ![u] = Late]
  /\ owed' = [owed EXCEPT ![u] = FALSE]
  /\ IF queue # <<>> /\ u = Head(queue)
     THEN thread' = Signalled /\ raced' = (raced \/ thread = "expired")
     ELSE UNCHANGED <<thread, raced>>
  /\ UNCHANGED <<running, until, pc, newcomer>>

\* The unit's event.
Fire(u) ==
  /\ pc = "run" /\ running /\ u \in scheduled
  /\ scheduled' = scheduled \ {u}
  /\ owed' = [owed EXCEPT ![u] = FALSE]
  /\ UNCHANGED <<queue, entry, linked, due, running, thread, until, pc, newcomer,
                 raced>>

\* sim_start_timer_services waits until the thread runs.
Start ==
  /\ pc = "run" /\ ~running
  /\ running' = TRUE /\ thread' = "top"
  /\ UNCHANGED <<queue, entry, linked, due, scheduled, until, pc, newcomer, raced,
                 owed>>

\* The run command clears sim_is_running ...
Stop ==
  /\ pc = "run" /\ running
  /\ running' = FALSE
  /\ pc' = "stop"
  /\ UNCHANGED <<queue, entry, linked, due, scheduled, thread, until, newcomer,
                 raced, owed>>

\* ... and calls sim_stop_timer_services, which wakes the thread and waits for its
\* end.  If the thread has ended by itself, the queue stays as it is.
StopServices ==
  /\ pc = "stop"
  /\ thread' = Signalled
  /\ pc' = IF thread = "none" THEN "run" ELSE "join"
  /\ UNCHANGED <<queue, entry, linked, due, scheduled, running, until, newcomer,
                 raced, owed>>

\* A mutant of Migrate: the units are not activated.
MigrateNothing ==
  /\ pc = "join" /\ thread = "none"
  /\ pc' = "run"
  /\ queue' = <<>>
  /\ UNCHANGED <<entry, linked, due, scheduled, running, thread, until, newcomer,
                 raced, owed>>

\* When the thread has ended.
Migrate ==
  /\ pc = "join" /\ thread = "none"
  /\ pc' = "run"
  /\ queue' = <<>>
  /\ linked' = linked \ Range(queue)
  /\ scheduled' = scheduled \cup Range(queue)
  /\ due' = [u \in Units |-> IF u \in Range(queue) THEN Late ELSE due[u]]
  /\ UNCHANGED <<entry, running, thread, until, newcomer, raced, owed>>

Tick ==
  /\ due' = [u \in Units |-> Down(due[u])]
  /\ until' = IF until = Forever THEN until ELSE Down(until)
  /\ UNCHANGED <<queue, entry, linked, scheduled, running, thread, pc, newcomer,
                 raced, owed>>

-----------------------------------------------------------------------------
ThreadStep == Scan \/ Timeout \/ Expire \/ Exit
MainStep == Digested \/ Signal \/ StopServices \/ Migrate

Next ==
  \/ Scan \/ Timeout \/ Expire \/ WakeUp \/ Exit
  \/ \E u \in Units : (\E d \in Delays : Activate(u, d)) \/ Cancel(u) \/ Fire(u)
  \/ Digested \/ Signal \/ Start \/ Stop \/ StopServices \/ Migrate
  \/ Tick

\* Both threads go on, the time too, and a unit on the event queue has its turn.
Fairness ==
  /\ WF_vars(ThreadStep) /\ WF_vars(MainStep) /\ WF_vars(Tick)
  /\ \A u \in Units : SF_vars(Fire(u))

Spec == Init /\ [][Next]_vars /\ Fairness

-----------------------------------------------------------------------------
\* The types.
TypeOK ==
  /\ queue \in Seq(Units)
  /\ entry \in Units \cup {NoUnit} /\ newcomer \in Units \cup {NoUnit}
  /\ linked \subseteq Units /\ scheduled \subseteq Units
  /\ due \in [Units -> Late .. Forever] /\ until \in Late .. Forever
  /\ running \in BOOLEAN /\ raced \in BOOLEAN
  /\ thread \in {"none", "top", "waiting", "expired"}
  /\ pc \in {"run", "busy", "signal", "stop", "join"}
  /\ owed \in [Units -> BOOLEAN]

\* The queue is in the order of the times though two threads insert.
QueueIsSorted ==
  \A i, j \in DOMAIN queue : i < j => due[queue[i]] <= due[queue[j]]

\* With the types and the order of the queue: a unit that counts as active is on
\* its way: on the queue in one place, or the entry, or the one that waits to
\* be, or scheduled - whichever thread moves it.
OnOneList ==
  /\ TypeOK /\ QueueIsSorted
  /\ \A i, j \in DOMAIN queue : queue[i] = queue[j] => i = j
  /\ \A u \in linked :
       u \in Range(queue) \/ u = entry \/ u = newcomer
  /\ entry = NoUnit \/ entry # newcomer
  /\ entry \notin Range(queue) /\ newcomer \notin Range(queue)
  /\ linked \cap scheduled = {}
  /\ \A u \in Units : owed[u] => is_active(u)

\* The thread never waits beyond the time of the first unit: what comes before
\* it, in the queue or as the entry, comes with a signal that is not lost.
NeverOversleeps ==
  thread = "waiting" /\ running /\ pc # "signal" =>
    /\ entry = NoUnit
    /\ queue # <<>> => until <= due[Head(queue)] - HalfIdle \/ until = Late

TakenOff(u) == u \in scheduled' \ scheduled /\ pc # "join"

\* "due time adjusted by 1/2 a minimal sleep interval": the thread asks for no
\* unit earlier than that, but for the one behind a unit that is cancelled just
\* when its time is over.
EarlyOnlyAfterCancel ==
  [][\A u \in Units : TakenOff(u) => due[u] <= HalfIdle \/ raced]_vars

\* While the machine runs, every activation is followed by the unit's event, or
\* by its cancellation.
WaitIsServed == \A u \in Units : owed[u] ~> (~owed[u] \/ ~running)
=============================================================================

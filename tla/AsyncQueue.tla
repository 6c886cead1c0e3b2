------------------------------ MODULE AsyncQueue ------------------------------
(***************************************************************************)
(* How other threads get units onto the event queue (SIM_ASYNCH_IO).  A    *)
(* thread that calls sim_activate or sim_activate_abs puts the unit on     *)
(* sim_asynch_queue, makes the main thread look soon (sim_asynch_check)    *)
(* and wakes it if it idles.  The main thread migrates the queue to the    *)
(* event queue, in sim_aio_update_queue: it takes the whole list and calls *)
(* the activation routine of unit after unit, outside the lock, and since  *)
(* those routines ask whether the unit is active and so update the queue   *)
(* themselves, it does so recursively, while threads queue more.           *)
(*                                                                         *)
(* sim_asynch_lock is held within one action only.  The main thread's      *)
(* calls are a list of operations that remain to be done, first the        *)
(* innermost.  Delays are left out: any unit on the event queue, which     *)
(* EventQueue models, may be the next to fire.                             *)
(***************************************************************************)
EXTENDS Integers, Sequences

CONSTANTS
  Units,         \* UNITs that threads activate
  Rescheduled,   \* those that devices in the main thread activate and cancel
  Threads,       \* the threads, of network or other devices
  Latency,       \* sim_asynch_inst_latency
  MaxRequests,   \* bound: how often threads call an activation routine
  NoUnit         \* the unit of an operation that is not about one

ASSUME UnitsAssumption == Rescheduled \subseteq Units /\ NoUnit \notin Units
ASSUME LatencyAssumption == Latency \in Nat \ {0} /\ MaxRequests \in Nat

VARIABLES
  aq,         \* sim_asynch_queue, linked by a_next
  call,       \* a_activate_call of every unit
  check,      \* sim_asynch_check
  loaded,     \* its value in the main thread's register
  idle_wait,  \* sim_idle_wait
  clock,      \* the units on sim_clock_queue
  pc,         \* the main thread: "run", "store": about to store the decremented
              \*   sim_asynch_check, "wait": in pthread_cond_timedwait
  todo,       \* what remains to be done of the routines the main thread is in
  tpc,        \* the threads: "work", "force", "look" and "signal": about to
              \*   clear sim_asynch_check, to read sim_idle_wait, to signal
  asked,      \* not in the code: a thread has asked for the unit since its last
              \*   event was processed or cancelled
  waited,     \* not in the code: AIO_CHECK_EVENTs since sim_asynch_queue had an
              \*   entry and was not looked at
  requests    \* how often threads have called an activation routine

vars == <<aq, call, check, loaded, idle_wait, clock, pc, todo, tpc, asked, waited,
          requests>>

shared == <<aq, call, tpc, requests>>       \* what sim_aio_activate changes

-----------------------------------------------------------------------------
Op(o, u) == [op |-> o, unit |-> u, rest |-> <<>>]

\* AIO_UPDATE_QUEUE
UpdateQueue == <<Op("update", NoUnit)>>

\* The routines, as the operations they consist of.
_sim_activate(u) == UpdateQueue \o <<Op("insert", u)>>

\* A mutant of sim_cancel: it does not update the queue.
sim_cancelAtOnce(u) == <<Op("remove", u)>>

sim_cancel(u) == UpdateQueue \o <<Op("ifany", u)>>

\* A mutant of sim_activate_abs: the calls are swapped.
sim_activate_absBackwards(u) == _sim_activate(u) \o sim_cancel(u)

sim_activate_abs(u) == sim_cancel(u) \o _sim_activate(u)

sim_process_event == UpdateQueue \o <<Op("fire", NoUnit)>>

\* The unit's a_activate_call.
Activation(u) == IF call[u] = "sim_activate" THEN _sim_activate(u) ELSE sim_activate_abs(u)

\* A mutant of Migrate: the unit is not unlinked.
MigrateLinked(q) ==
  IF q = <<>> THEN <<>>
  ELSE <<Op("call", q[1]), [op |-> "migrate", unit |-> NoUnit, rest |-> q]>>

\* sim_aio_update_queue from where the lock is held and q is the list that
\* remains: the first unit is unlinked, and called with the lock released.
Migrate(q) ==
  IF q = <<>> THEN <<>>
  ELSE <<Op("call", q[1]), [op |-> "migrate", unit |-> NoUnit, rest |-> Tail(q)]>>

\* The list entries whose a_next is not NULL: of sim_asynch_queue, and of the
\* lists that are being migrated.
OnAsyncList(u) ==
  \/ \E i \in DOMAIN aq : aq[i] = u
  \/ \E k \in DOMAIN todo : \E i \in DOMAIN todo[k].rest : todo[k].rest[i] = u

-----------------------------------------------------------------------------
(***************************************************************************)
(* sim_aio_activate, by thread t.                                          *)
(***************************************************************************)

\* A mutant of Request: a unit that is queued already is queued again.
RequestAgain(t, u, caller) ==
  /\ tpc[t] = "work" /\ requests < MaxRequests
  /\ requests' = requests + 1
  /\ tpc' = [tpc EXCEPT ![t] = "force"]
  /\ aq' = <<u>> \o aq
  /\ call' = [call EXCEPT ![u] = caller]
  /\ asked' = [asked EXCEPT ![u] = TRUE]
  /\ UNCHANGED <<check, loaded, idle_wait, clock, pc, todo, waited>>

\* Under the lock, the unit is pushed on the queue unless it is on a list.
Request(t, u, caller) ==
  /\ tpc[t] = "work" /\ requests < MaxRequests
  /\ requests' = requests + 1
  /\ tpc' = [tpc EXCEPT ![t] = "force"]
  /\ aq' = IF OnAsyncList(u) THEN aq ELSE <<u>> \o aq
  /\ call' = [call EXCEPT ![u] = IF OnAsyncList(u) THEN "sim_activate_abs" ELSE caller]
  /\ asked' = [asked EXCEPT ![u] = TRUE]
  /\ UNCHANGED <<check, loaded, idle_wait, clock, pc, todo, waited>>

\* "try to force check"
ForceCheck(t) ==
  /\ tpc[t] = "force"
  /\ tpc' = [tpc EXCEPT ![t] = "look"]
  /\ check' = 0
  /\ UNCHANGED <<aq, call, loaded, idle_wait, clock, pc, todo, asked, waited, requests>>

Look(t) ==
  /\ tpc[t] = "look"
  /\ tpc' = [tpc EXCEPT ![t] = IF idle_wait THEN "signal" ELSE "work"]
  /\ UNCHANGED <<aq, call, check, loaded, idle_wait, clock, pc, todo, asked, waited,
                 requests>>

\* pthread_cond_signal, lost on a main thread that does not wait any more.
Signal(t) ==
  /\ tpc[t] = "signal"
  /\ tpc' = [tpc EXCEPT ![t] = "work"]
  /\ pc' = IF pc = "wait" THEN "woken" ELSE pc
  /\ UNCHANGED <<aq, call, check, loaded, idle_wait, clock, todo, asked, waited, requests>>

-----------------------------------------------------------------------------
(***************************************************************************)
(* The main thread in the routines of the package.                         *)
(***************************************************************************)

Doing(o) == pc = "run" /\ todo # <<>> /\ todo[1].op = o

\* sim_aio_update_queue grabs the list, all of it.
Update ==
  /\ Doing("update")
  /\ todo' = Migrate(aq) \o Tail(todo)
  /\ aq' = <<>>
  /\ waited' = 0
  /\ UNCHANGED <<call, check, loaded, idle_wait, clock, pc, tpc, asked, requests>>

\* It comes back from an activation routine.
MigrateNext ==
  /\ Doing("migrate")
  /\ todo' = Migrate(todo[1].rest) \o Tail(todo)
  /\ UNCHANGED <<shared, check, loaded, idle_wait, clock, pc, asked, waited>>

\* a_activate_call is read without the lock, when a thread may have set it anew.
Call ==
  /\ Doing("call")
  /\ todo' = Activation(todo[1].unit) \o Tail(todo)
  /\ UNCHANGED <<shared, check, loaded, idle_wait, clock, pc, asked, waited>>

\* _sim_activate when the queue is up to date: a unit that is active, on a list
\* or on the event queue, is left alone.
Insert ==
  /\ Doing("insert")
  /\ clock' = IF OnAsyncList(todo[1].unit) THEN clock ELSE clock \cup {todo[1].unit}
  /\ todo' = Tail(todo)
  /\ UNCHANGED <<shared, check, loaded, idle_wait, pc, asked, waited>>

\* sim_cancel when the queue is up to date, and again after sim_is_active has
\* brought it up to date.
IfAny ==
  /\ Doing("ifany")
  /\ todo' = (IF clock = {} THEN <<>> ELSE UpdateQueue \o <<Op("remove", todo[1].unit)>>)
             \o Tail(todo)
  /\ UNCHANGED <<shared, check, loaded, idle_wait, clock, pc, asked, waited>>

\* The sim_cancel is a device's, not one of sim_activate_abs.
Dropping == Len(todo) > 1 /\ todo[2].op = "cancelled"

\* A request that a device's sim_cancel has met is cancelled.
Remove ==
  /\ Doing("remove")
  /\ clock' = clock \ {todo[1].unit}
  /\ todo' = Tail(todo)
  /\ asked' = [asked EXCEPT ![todo[1].unit] =
                 @ /\ ~(Dropping /\ ~OnAsyncList(todo[1].unit))]
  /\ UNCHANGED <<shared, check, loaded, idle_wait, pc, waited>>

\* The device's sim_cancel returns.
Cancelled ==
  /\ Doing("cancelled")
  /\ todo' = Tail(todo)
  /\ UNCHANGED <<shared, check, loaded, idle_wait, clock, pc, asked, waited>>

\* The loop of sim_process_event takes u off the event queue and acts on it.
Fire(u) ==
  /\ Doing("fire") /\ u \in clock
  /\ clock' = clock \ {u}
  /\ asked' = [asked EXCEPT ![u] = FALSE]
  /\ todo' = <<Op("action", u)>> \o Tail(todo)
  /\ UNCHANGED <<shared, check, loaded, idle_wait, pc, waited>>

FireNothing ==
  /\ Doing("fire") /\ clock = {}
  /\ todo' = Tail(todo)
  /\ UNCHANGED <<shared, check, loaded, idle_wait, clock, pc, asked, waited>>

\* The action routine returns (AIO_EVENT_COMPLETE), and the next event may be due.
ActionReturns ==
  /\ Doing("action")
  /\ \E next \in {<<>>, <<Op("fire", NoUnit)>>} :
       todo' = UpdateQueue \o next \o Tail(todo)
  /\ UNCHANGED <<shared, check, loaded, idle_wait, clock, pc, asked, waited>>

-----------------------------------------------------------------------------
(***************************************************************************)
(* The main thread in the virtual machine.                                 *)
(***************************************************************************)

Free == pc = "run" /\ todo = <<>>

\* AIO_CHECK_EVENT decrements a counter that threads write to.
CheckLoad ==
  /\ Free
  /\ pc' = "store"
  /\ loaded' = check
  /\ UNCHANGED <<shared, check, idle_wait, clock, todo, asked, waited>>

CheckStore ==
  /\ pc = "store"
  /\ pc' = "run"
  /\ check' = loaded - 1
  /\ todo' = IF loaded - 1 < 0 THEN UpdateQueue \o <<Op("reset", NoUnit)>> ELSE <<>>
  /\ waited' = IF aq = <<>> THEN 0 ELSE waited + 1
  /\ loaded' = 0
  /\ UNCHANGED <<shared, idle_wait, clock, asked>>

\* A mutant of Reset: the counter is set without regard to the latency.
ResetLate ==
  /\ Doing("reset")
  /\ check' = 2 * Latency
  /\ todo' = Tail(todo)
  /\ UNCHANGED <<shared, loaded, idle_wait, clock, pc, asked, waited>>

Reset ==
  /\ Doing("reset")
  /\ check' = Latency
  /\ todo' = Tail(todo)
  /\ UNCHANGED <<shared, loaded, idle_wait, clock, pc, asked, waited>>

\* sim_interval has run down.
EventDue ==
  /\ Free
  /\ todo' = sim_process_event
  /\ UNCHANGED <<shared, check, loaded, idle_wait, clock, pc, asked, waited>>

\* Devices call the package, from instructions and from action routines.
DeviceCalls(routine) ==
  /\ Free \/ Doing("action")
  /\ todo' = routine \o todo
  /\ UNCHANGED <<shared, check, loaded, idle_wait, clock, pc, waited>>

DeviceActivates(u) == DeviceCalls(_sim_activate(u)) /\ UNCHANGED asked

DeviceActivatesAbs(u) == DeviceCalls(sim_activate_abs(u)) /\ UNCHANGED asked

DeviceCancels(u) ==
  /\ DeviceCalls(sim_cancel(u) \o <<Op("cancelled", u)>>)
  /\ asked' = [asked EXCEPT ![u] = FALSE]

\* sim_idle finds an event to wait for and calls sim_idle_ms_sleep.
Idle ==
  /\ Free /\ clock # {}
  /\ pc' = "wait"
  /\ idle_wait' = TRUE
  /\ UNCHANGED <<shared, check, loaded, clock, todo, asked, waited>>

\* pthread_cond_timedwait returns: the thread was signalled (or POSIX lets it
\* return without a reason), and the queue is updated ...
Wake ==
  /\ pc \in {"wait", "woken"}
  /\ pc' = "run"
  /\ idle_wait' = FALSE
  /\ check' = 0
  /\ todo' = UpdateQueue
  /\ UNCHANGED <<shared, loaded, clock, asked, waited>>

\* ... or the time is over.
Timeout ==
  /\ pc = "wait"
  /\ pc' = "run"
  /\ idle_wait' = FALSE
  /\ UNCHANGED <<shared, check, loaded, clock, todo, asked, waited>>

Init ==
  /\ aq = <<>>
  /\ call = [u \in Units |-> "sim_activate"]
  /\ check = 0 /\ loaded = 0
  /\ idle_wait = FALSE
  /\ clock = {}
  /\ pc = "run"
  /\ todo = <<>>
  /\ tpc = [t \in Threads |-> "work"]
  /\ asked = [u \in Units |-> FALSE]
  /\ waited = 0
  /\ requests = 0

ThreadStep(t) == ForceCheck(t) \/ Look(t) \/ Signal(t)

RoutineStep ==
  \/ Update \/ MigrateNext \/ Call \/ Insert \/ IfAny \/ Remove \/ Cancelled
  \/ FireNothing \/ CheckStore \/ Reset

Next ==
  \/ \E t \in Threads :
       \/ \E u \in Units, caller \in {"sim_activate", "sim_activate_abs"} :
            Request(t, u, caller)
       \/ ThreadStep(t)
  \/ RoutineStep
  \/ \E u \in Units : Fire(u)
  \/ ActionReturns
  \/ CheckLoad
  \/ EventDue
  \/ \E u \in Rescheduled : DeviceActivates(u) \/ DeviceActivatesAbs(u) \/ DeviceCancels(u)
  \/ Idle \/ Wake \/ Timeout

\* The threads run, and the main thread goes on in its routines; an instruction
\* and an action routine make finitely many calls, so that the machine executes
\* instructions and calls sim_process_event; a unit on the event queue has its
\* turn (EventIsDispatched of EventQueue); a wait ends at its timeout.
Fairness ==
  /\ \A t \in Threads : WF_vars(ThreadStep(t))
  /\ WF_vars(RoutineStep)
  /\ \A u \in Units : SF_vars(Fire(u))
  /\ SF_vars(ActionReturns)
  /\ SF_vars(CheckLoad)
  /\ SF_vars(EventDue)
  /\ WF_vars(Wake \/ Timeout)

Spec == Init /\ [][Next]_vars /\ Fairness
-----------------------------------------------------------------------------
(***************************************************************************)
(* Properties.                                                             *)
(***************************************************************************)

Ops == {"update", "migrate", "call", "insert", "ifany", "remove", "cancelled",
        "fire", "action", "reset"}

\* Every variable has its type.
TypeOK ==
  /\ aq \in Seq(Units)
  /\ call \in [Units -> {"sim_activate", "sim_activate_abs"}]
  /\ check \in Nat \cup {-1} /\ loaded \in Nat \cup {-1}
  /\ idle_wait \in BOOLEAN
  /\ clock \subseteq Units
  /\ pc \in {"run", "store", "wait", "woken"}
  /\ todo \in Seq([op : Ops, unit : Units \cup {NoUnit}, rest : Seq(Units)])
  /\ tpc \in [Threads -> {"work", "force", "look", "signal"}]
  /\ asked \in [Units -> BOOLEAN]
  /\ waited \in Nat /\ requests \in 0..MaxRequests

\* The lists that are linked by a_next: the queue, and what is being migrated.
List(k) == IF k = 0 THEN aq ELSE todo[k].rest

\* With the types: a unit is on one list once, whatever threads and nested
\* updates do: the lists share the link a_next.
OnOneAsyncList ==
  /\ TypeOK
  /\ \A j, k \in 0..Len(todo) : \A i \in DOMAIN List(j), n \in DOMAIN List(k) :
       List(j)[i] = List(k)[n] => j = k /\ i = n

Pending(u) ==
  \/ u \in clock
  \/ OnAsyncList(u)
  \/ \E k \in DOMAIN todo : todo[k].unit = u /\ todo[k].op \in {"call", "insert"}

\* What a thread has asked for is on its way to the event queue or there, at
\* every point of a migration: no call is lost between the lists.
NoRequestIsLost == \A u \in Units : asked[u] => Pending(u)

\* When sim_cancel returns to a device, the unit is only still pending if a
\* thread has asked for it in the meantime.
CancelIsFinal ==
  Doing("cancelled") => (Pending(todo[1].unit) => asked[todo[1].unit])

\* The main thread looks at the queue after at most sim_asynch_inst_latency
\* instructions and one more, also when its decrement of sim_asynch_check
\* overwrites what a thread has stored there.
PickedUpInTime == waited <= Latency + 1

\* sim_idle_ms_sleep is to "sleep specified number of milliseconds or until
\* awakened by an asynchronous event": the main thread is not left asleep with an
\* event on the queue and no thread about to wake it.
EventEndsSleep ==
  pc = "wait" /\ aq # <<>> => \E t \in Threads : tpc[t] # "work"

\* Every request is followed by an event of the unit, or cancelled, unless the
\* device reschedules the unit for ever.
RequestIsServed ==
  \A u \in Units : <>[][~DeviceActivatesAbs(u)]_vars => (asked[u] ~> ~asked[u])
=============================================================================

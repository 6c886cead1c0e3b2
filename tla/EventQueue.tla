----------------------------- MODULE EventQueue -----------------------------
(***************************************************************************)
(* The event queue of the simulator control program (scp.c, "Event queue   *)
(* package").  Units wait on sim_clock_queue, a list in clock order whose  *)
(* entries hold their delay relative to the entry before them; the virtual *)
(* machine counts sim_interval down and calls sim_process_event when it is *)
(* no longer positive.  sim_time and sim_rtime are only brought up to date *)
(* by UPDATE_SIM_TIME, so that the current time is always a sum of         *)
(* sim_time, the delay of the head entry and sim_interval.                 *)
(*                                                                         *)
(* The five variables of the clock and the delays still owed to units      *)
(* (usecs_remaining) are one record, clk, since every routine of the       *)
(* package is a composition of updates of them.  The build is the one      *)
(* without SIM_ASYNCH_IO: AsyncQueue adds the other threads.               *)
(***************************************************************************)
EXTENDS DelayList, FiniteSets

CONSTANTS
  Delays,         \* delays that sim_activate is called with, in instructions
  Usecs,          \* delays that sim_activate_after is called with
  Bursts,         \* what one instruction takes off sim_interval
  RTimes,         \* times that sim_activate_notbefore is called with
  NoQueueWait,    \* NOQUEUE_WAIT, sim_interval while the queue is empty
  RTimeMod,       \* 2^32, the modulus of sim_rtime
  InstNum,        \* the execution rate (sim_timer_inst_per_sec) is
  InstDen,        \*   InstNum/InstDen instructions in a microsecond
  MaxTime,        \* bound: no event is asked for after this time
                  \*   (sim_activate_notbefore: until sim_rtime has wrapped around)
  NoUnit          \* uptr while no event is processed

ASSUME UnitsAssumption == NoUnit \notin Units
ASSUME DelaysAssumption == Delays \subseteq Nat /\ Usecs \subseteq Nat
ASSUME BurstsAssumption == Bursts \subseteq Nat \ {0}
ASSUME WaitAssumption == NoQueueWait \in Nat \ {0}
ASSUME RTimeAssumption == RTimeMod \in Nat \ {0} /\ RTimes \subseteq 0..(RTimeMod - 1)
ASSUME RateAssumption == InstNum \in Nat \ {0} /\ InstDen \in Nat \ {0}
ASSUME BoundAssumption == MaxTime \in Nat

VARIABLES
  clk,        \* sim_clock_queue, sim_interval, noqueue_time, sim_time,
              \*   sim_rtime and the usecs_remaining of every unit
  pc,         \* "scp": at the prompt, "instr": in sim_instr, "action": in
              \*   the action routine of uptr, "requeue" and "requeued":
              \*   about to queue uptr for the delay it is still owed, and
              \*   done so, "crashed": a wild read has ended the program
  uptr,       \* the unit sim_process_event has taken off the queue
  catchup,    \* sim_interval_catchup
  stop_cpu    \* stop flag, set by the signal handler

vars == <<clk, pc, uptr, catchup, stop_cpu>>

(***************************************************************************)
(* The time of the clock.                                                  *)
(***************************************************************************)

\* What the head of the queue, or noqueue_time when there is none, says
\* sim_interval was when sim_time was last brought up to date.
HeadTime(S) == IF S.queue = <<>> THEN S.noqueue ELSE S.queue[1].time

\* sim_gtime.
GTime(S) == S.time + HeadTime(S) - S.interval

SetHeadTime(S, x) ==
  IF S.queue = <<>> THEN [S EXCEPT !.noqueue = x]
                    ELSE [S EXCEPT !.queue[1].time = x]

\* Mutants of AddTime: sim_rtime is not a 32-bit counter, or not advanced.
AddTimeUnbounded(S, d) == [S EXCEPT !.time = @ + d, !.rtime = @ + d]
AddTimeOnly(S, d) == [S EXCEPT !.time = @ + d]

\* sim_time and sim_rtime move together; sim_rtime wraps around.
AddTime(S, d) == [S EXCEPT !.time = @ + d, !.rtime = (@ + d) % RTimeMod]

UpdateSimTime(S) ==
  SetHeadTime(AddTime(S, HeadTime(S) - S.interval), S.interval)

(***************************************************************************)
(* The queue.                                                              *)
(***************************************************************************)

\* The absolute time at which the i-th entry is to fire.
DueAt(S, i) == S.time + Accum(S.queue)[i]

Queued(S) == {S.queue[i].unit : i \in DOMAIN S.queue}

Index(S, u) == CHOOSE i \in DOMAIN S.queue : S.queue[i].unit = u

Due(S, u) == DueAt(S, Index(S, u))

\* A mutant of FlagQueueEmpty: nothing makes the machine go on.
FlagQueueEmptyAtOnce(S) == [S EXCEPT !.interval = 0, !.noqueue = 0]

\* sim_interval = noqueue_time = NOQUEUE_WAIT
FlagQueueEmpty(S) == [S EXCEPT !.interval = NoQueueWait, !.noqueue = NoQueueWait]

\* A mutant of _sim_activate: it does not ask whether u is active.
_sim_activateAgain(S, u, t) ==
  LET S1 == UpdateSimTime(S)
      q  == Insert(S1.queue, InsertionPoint(S1.queue, t), u, t)
  IN  [S1 EXCEPT !.queue = q, !.interval = q[1].time]

_sim_activate(S, u, t) ==
  IF u \in Queued(S) THEN S
  ELSE LET S1 == UpdateSimTime(S)
           q  == Insert(S1.queue, InsertionPoint(S1.queue, t), u, t)
       IN  [S1 EXCEPT !.queue = q, !.interval = q[1].time]

\* A mutant of sim_cancel: usecs_remaining stays.
sim_cancelOwing(S, u) ==
  IF u \notin Queued(S) THEN S
  ELSE LET S1 == UpdateSimTime(S)
           S2 == [S1 EXCEPT !.queue = Unlink(S1.queue, Index(S1, u))]
       IN  IF S2.queue = <<>> THEN FlagQueueEmpty(S2)
                              ELSE [S2 EXCEPT !.interval = S2.queue[1].time]

sim_cancel(S, u) ==
  IF u \notin Queued(S) THEN S
  ELSE LET S1 == UpdateSimTime(S)
           q  == Unlink(S1.queue, Index(S1, u))
           S2 == [S1 EXCEPT !.queue = q, !.usecs_remaining[u] = 0]
       IN  IF q = <<>> THEN FlagQueueEmpty(S2)
                       ELSE [S2 EXCEPT !.interval = q[1].time]

sim_activate_abs(S, u, t) == _sim_activate(sim_cancel(S, u), u, t)

\* A mutant of sim_activate_notbefore: the wrap-around of sim_rtime is forgotten.
sim_activate_notbeforeUnwrapped(S, u, rt) ==
  LET S1 == UpdateSimTime(sim_cancel(S, u))
  IN  _sim_activate(S1, u, IF rt <= S1.rtime THEN 0 ELSE rt - S1.rtime)

\* rt is a value of sim_rtime; half the circle ahead of now counts as past.
sim_activate_notbefore(S, u, rt) ==
  LET S1 == UpdateSimTime(sim_cancel(S, u))
      d  == (rt - S1.rtime) % RTimeMod
  IN  _sim_activate(S1, u, IF 2 * d >= RTimeMod THEN 0 ELSE d)

\* A delay of usecs in instructions, at least one unless it is zero.
InstDelay(usecs) ==
  LET i == (InstNum * usecs) \div InstDen
  IN  IF i = 0 /\ usecs # 0 THEN 1 ELSE i

\* No timer is calibrated (sim_calb_tmr is -1): while the machine does not run
\* the whole delay is owed to the unit, which waits one instruction instead.
sim_timer_activate_after(S, u, usecs, running) ==
  IF u \in Queued(S) THEN S
  ELSE IF running
       THEN _sim_activate([S EXCEPT !.usecs_remaining[u] = 0], u, InstDelay(usecs))
       ELSE _sim_activate([S EXCEPT !.usecs_remaining[u] = usecs], u,
                          IF usecs = 0 THEN 0 ELSE 1)

\* A mutant of sim_activate_time: what u is owed is not considered.
sim_activate_timeQueued(S, u) ==
  IF u \notin Queued(S) THEN 0
  ELSE LET h == IF S.interval > 0 THEN S.interval ELSE 0
       IN  h + Accum(S.queue)[Index(S, u)] - S.queue[1].time + 1

\* sim_activate_time: 1 more than the instructions until the action of u is
\* called, 0 when u is not queued.  An overdue head counts as due now; the delay
\* that u is owed is rounded down.  (_sim_timer_activate_time, which is asked
\* first, answers for the queues of other modules only.)
sim_activate_time(S, u) ==
  IF u \notin Queued(S) THEN 0
  ELSE LET h == IF S.interval > 0 THEN S.interval ELSE 0
       IN  h + Accum(S.queue)[Index(S, u)] - S.queue[1].time + 1
             + ((InstNum * S.usecs_remaining[u]) \div InstDen)

(***************************************************************************)
(* sim_process_event.                                                      *)
(***************************************************************************)

\* The time is moved back to when the head was to fire, if that has passed.
BackUp(S) == IF S.interval < 0 THEN UpdateSimTime([S EXCEPT !.interval = 0]) ELSE S

\* A mutant of TakeHead: what is late is not taken out of sim_interval.
TakeHeadAddingUp(S, c) ==
  LET S1 == [S EXCEPT !.queue = Tail(@)]
  IN  IF S1.queue = <<>> THEN FlagQueueEmpty(S1)
      ELSE [S1 EXCEPT !.interval = @ + c + S1.queue[1].time]

\* S after the head has been taken off, c being sim_interval_catchup.
TakeHead(S, c) ==
  LET S1 == [S EXCEPT !.queue = Tail(@)]
  IN  IF S1.queue = <<>> THEN FlagQueueEmpty(S1)
      ELSE [S1 EXCEPT !.interval = (IF c < 0 THEN 0 ELSE @ + c) + S1.queue[1].time]

\* The top of the loop: uptr is the head, and is acted on or requeued.
Dispatch(S, c) ==
  LET u == S.queue[1].unit IN
  /\ clk' = TakeHead(S, c)
  /\ uptr' = u
  /\ catchup' = c
  /\ pc' = IF S.usecs_remaining[u] # 0 THEN "requeue" ELSE "action"

\* Back at the prompt, when sim_instr has returned: sim_stop_timer_services gives
\* back the time by which the machine has run past an event ("No catching up
\* after stopping").
ReturnToScp(S) ==
  /\ clk' = UpdateSimTime(BackUp(S))
  /\ pc' = "scp"
  /\ uptr' = NoUnit
  /\ catchup' = 0

\* What the virtual machine tests before an instruction.
EventDue == clk.interval <= 0

\* A mutant of sim_process_event: the stop flag is cleared before it is read.
sim_process_eventNotStopped ==
  /\ pc = "instr" /\ EventDue
  /\ stop_cpu' = FALSE
  /\ LET S == UpdateSimTime(clk) IN
     IF S.queue = <<>>
     THEN clk' = FlagQueueEmpty(S) /\ UNCHANGED <<pc, uptr, catchup>>
     ELSE Dispatch(BackUp(S), S.interval)

sim_process_event ==
  /\ pc = "instr" /\ EventDue
  /\ IF stop_cpu
     THEN /\ stop_cpu' = FALSE
          /\ ReturnToScp(clk)
     ELSE LET S == UpdateSimTime(clk) IN
          /\ UNCHANGED stop_cpu
          /\ IF S.queue = <<>>
             THEN /\ clk' = FlagQueueEmpty(S)
                  /\ UNCHANGED <<pc, uptr, catchup>>
             ELSE Dispatch(BackUp(S), S.interval)

\* The bottom of the loop, for the reason that the action returned.
\* While behind by more than one, the clock is moved to the next entry, which
\* is read even when there is none.
EndEvent(reason) ==
  IF catchup < -1 /\ clk.queue = <<>>
  THEN pc' = "crashed" /\ UNCHANGED <<clk, uptr, catchup, stop_cpu>>
  ELSE LET c  == IF catchup < -1 THEN catchup + clk.queue[1].time ELSE 0
           S  == IF catchup < -1 THEN AddTime(clk, clk.queue[1].time) ELSE clk
           S1 == IF S.queue = <<>> THEN FlagQueueEmpty(S) ELSE S
       IN  \/ /\ reason = "OK" /\ ~stop_cpu
              /\ S.queue # <<>> /\ S.interval + c <= 0
              /\ Dispatch(S, c)
              /\ UNCHANGED stop_cpu
           \/ /\ reason = "OK" /\ ~stop_cpu
              /\ S.queue = <<>> \/ S.interval + c > 0
              /\ clk' = S1
              /\ pc' = "instr"
              /\ uptr' = NoUnit
              /\ catchup' = 0
              /\ UNCHANGED stop_cpu
           \/ /\ reason # "OK" \/ stop_cpu
              /\ stop_cpu' = (stop_cpu /\ reason # "OK")
              /\ ReturnToScp(S1)

\* The action routine returns: SCPE_OK, or any reason that ends sim_instr.
ActionReturns ==
  /\ pc = "action"
  /\ \E reason \in {"OK", "STOP"} : EndEvent(reason)

\* A unit that is still owed a delay is not acted on but queued for it.
Requeue ==
  /\ pc = "requeue"
  /\ clk' = sim_timer_activate_after(clk, uptr, clk.usecs_remaining[uptr], TRUE)
  /\ pc' = "requeued"
  /\ UNCHANGED <<uptr, catchup, stop_cpu>>

Requeued == pc = "requeued" /\ EndEvent("OK")

(***************************************************************************)
(* The callers: devices, from instructions, from action routines and from  *)
(* commands at the prompt; the virtual machine; the user.                  *)
(***************************************************************************)

CallerRuns == pc \in {"scp", "instr", "action"}

\* The bound on the times that are asked for.
InTime(t) == GTime(clk) + t <= MaxTime

CallOf(S) == /\ CallerRuns
             /\ clk' = S
             /\ UNCHANGED <<pc, uptr, catchup, stop_cpu>>

Activate(u, t) == InTime(t) /\ CallOf(_sim_activate(clk, u, t))

ActivateAbs(u, t) == InTime(t) /\ CallOf(sim_activate_abs(clk, u, t))

ActivateNotBefore(u, rt) ==
  /\ GTime(clk) <= RTimeMod
  /\ CallOf(sim_activate_notbefore(clk, u, rt))

ActivateAfter(u, usecs) ==
  /\ InTime(InstDelay(usecs) + 1)
  /\ CallOf(sim_timer_activate_after(clk, u, usecs, pc # "scp"))

Cancel(u) == CallOf(sim_cancel(clk, u))

\* sim_gtime or sim_grtime is called.
ReadTime == CallOf(UpdateSimTime(clk))

\* An instruction: sim_instr calls sim_process_event before the next one as
\* soon as sim_interval is no longer positive.
Instruction(n) ==
  /\ pc = "instr" /\ ~EventDue
  /\ clk.queue # <<>> \/ stop_cpu \/ GTime(clk) < MaxTime
  /\ clk' = [clk EXCEPT !.interval = @ - n]
  /\ UNCHANGED <<pc, uptr, catchup, stop_cpu>>

\* sim_instr returns for a reason of its own: a halt, a breakpoint.
Halt == pc = "instr" /\ ReturnToScp(clk) /\ UNCHANGED stop_cpu

\* int_handler: the user's interrupt, or SIGTERM, while the machine runs.
Interrupt ==
  /\ pc \in {"instr", "action", "requeue", "requeued"} /\ ~stop_cpu
  /\ GTime(clk) <= MaxTime
  /\ stop_cpu' = TRUE
  /\ clk' = [clk EXCEPT !.interval = 0]
  /\ UNCHANGED <<pc, uptr, catchup>>

\* RUN and BOOT start with an empty queue at time 0, every queued unit having
\* been cancelled ...
RunBootPrep ==
  /\ pc = "scp"
  /\ clk' = [clk EXCEPT !.queue = <<>>, !.interval = 0, !.noqueue = 0,
                        !.time = 0, !.rtime = 0,
                        !.usecs_remaining = [u \in Units |->
                             IF u \in Queued(clk) THEN 0 ELSE @[u]]]
  /\ UNCHANGED <<pc, uptr, catchup, stop_cpu>>

\* ... and sim_instr is entered, as for CONTINUE.
Run ==
  /\ pc = "scp" /\ GTime(clk) <= MaxTime
  /\ pc' = "instr"
  /\ stop_cpu' = FALSE
  /\ UNCHANGED <<clk, uptr, catchup>>

Init ==
  /\ clk = [queue |-> <<>>, interval |-> 0, noqueue |-> 0, time |-> 0,
            rtime |-> 0, usecs_remaining |-> [u \in Units |-> 0]]
  /\ pc = "scp"
  /\ uptr = NoUnit
  /\ catchup = 0
  /\ stop_cpu = FALSE

Calls ==
  \/ \E u \in Units : \/ \E t \in Delays : Activate(u, t) \/ ActivateAbs(u, t)
                      \/ \E rt \in RTimes : ActivateNotBefore(u, rt)
                      \/ \E us \in Usecs : ActivateAfter(u, us)
                      \/ Cancel(u)
  \/ ReadTime

Next ==
  \/ Calls
  \/ \E n \in Bursts : Instruction(n)
  \/ sim_process_event
  \/ ActionReturns
  \/ Requeue
  \/ Requeued
  \/ Halt
  \/ Interrupt
  \/ RunBootPrep
  \/ Run

\* The virtual machine keeps executing instructions and calling
\* sim_process_event, whatever finite number of calls an instruction makes (an
\* instruction can take an event off the queue and put it back, which disables
\* sim_process_event for a moment: hence SF), and every action routine returns.
Fairness ==
  /\ SF_vars(\E n \in Bursts : Instruction(n))
  /\ SF_vars(sim_process_event)
  /\ WF_vars(ActionReturns)
  /\ WF_vars(Requeue)
  /\ WF_vars(Requeued)

Spec == Init /\ [][Next]_vars /\ Fairness
-----------------------------------------------------------------------------
(***************************************************************************)
(* Properties.                                                             *)
(***************************************************************************)

Clocks == [queue : Seq(Entries), interval : Int, noqueue : Int, time : Int,
           rtime : 0..(RTimeMod - 1), usecs_remaining : [Units -> Nat]]

\* Every variable has its type.
TypeOK ==
  /\ clk \in Clocks
  /\ pc \in {"scp", "instr", "action", "requeue", "requeued", "crashed"}
  /\ uptr \in Units \cup {NoUnit}
  /\ catchup \in Int
  /\ stop_cpu \in BOOLEAN

\* However _sim_activate and sim_cancel link and unlink entries, a unit is on
\* sim_clock_queue once and the entries are in clock order: only the head can
\* have a negative delay, when it is overdue.
QueueInOrder == InOrder(clk.queue)

\* sim_grtime is sim_gtime with rollover, through every update, catch-up and
\* reset that moves the two counters.
RTimeFollowsTime == clk.rtime = clk.time % RTimeMod

\* sim_interval and the delay of the head never part while an event is being
\* processed, unless the signal handler has interfered: what an action routine
\* activates or cancels is timed from when its event was due.
ActionSeesDueTime ==
  pc \in {"action", "requeue", "requeued"} /\ ~stop_cpu =>
    clk.interval = HeadTime(clk)

\* A delay is owed only to a unit that waits to be requeued: an activation of
\* its own never finds a left over usecs_remaining and loses its action.
DeferredUnitIsQueued ==
  \A u \in Units : clk.usecs_remaining[u] # 0 =>
    u \in Queued(clk) \/ (pc = "requeue" /\ u = uptr)

\* When sim_process_event lets the machine go on, no event is due.
NothingDueOnReturn ==
  [][(pc \in {"action", "requeued"} /\ pc' = "instr") => clk'.interval > 0]_vars

\* When the action of u is called: a unit that is owed a delay is queued again
\* when it is due, for InstDelay of what it is owed.
CalledAt(S, u) == Due(S, u) + InstDelay(S.usecs_remaining[u])

\* A delay of less than one instruction.
TooShort(usecs) == usecs # 0 /\ InstNum * usecs < InstDen

\* sim_activate_time tells when the action of a unit is called, while the machine
\* has not run past an event.  An owed delay that is shorter than an instruction
\* is waited for, but not told.
ActivateTimeIsExact ==
  clk.interval >= 0 => \A u \in Queued(clk) :
    GTime(clk) + sim_activate_time(clk, u) - 1 =
      CalledAt(clk, u) - IF TooShort(clk.usecs_remaining[u]) THEN 1 ELSE 0

\* The queue with its relative delays is an agenda of absolute times.
Agenda(S) == [i \in DOMAIN S.queue |-> [unit |-> S.queue[i].unit, due |-> DueAt(S, i)]]

Abstract == INSTANCE EventClock WITH
  now <- GTime(clk), late <- -catchup, agenda <- Agenda(clk)

ImplementsEventClock == Abstract!Spec

\* The comment of sim_process_event: "we backup time to when the first event was
\* supposed to fire and advance it from there until things have caught up", so
\* over events that are there, and not beyond what the machine has executed.
CatchUpStopsAtNow ==
  [][(pc \in {"action", "requeued"} /\ pc' \in {"instr", "crashed"}) =>
       pc' = "instr" /\ GTime(clk') <= GTime(clk) - catchup]_vars

\* sim_activate_notbefore: u is due when sim_rtime is rt for the next time, if
\* that is less than half the circle ahead, and else now, wherever sim_rtime has
\* wrapped around and however late the machine is.
NotBeforeIsHonoured ==
  [][\A u \in Units, rt \in RTimes : ActivateNotBefore(u, rt) =>
       LET now == GTime(clk)
           due == Due(clk', u)
       IN  \/ due >= now /\ 2 * (due - now) < RTimeMod /\ due % RTimeMod = rt
           \/ /\ due = now
              /\ \A d \in 0..(RTimeMod - 1) :
                   2 * d < RTimeMod => (now + d) % RTimeMod # rt]_vars

Rescheduled(u) == \/ \E t \in Delays : ActivateAbs(u, t)
                  \/ \E rt \in RTimes : ActivateNotBefore(u, rt)

\* The catch-up ends before the next event although the machine is later than
\* one instruction: time has been moved to that event.
CatchUpEnds ==
  pc \in {"action", "requeued"} /\ catchup < -1 /\ pc' \in {"instr", "scp"}

\* An event that nobody reschedules stays due at the same time, whatever is
\* linked in before it or unlinked, and whether the machine stops, is late or is
\* interrupted.  Only when a catch-up ends too far, time takes every event with it,
\* by the delay of the first.
DueIsStable ==
  [][\A u \in Queued(clk) \cap Queued(clk') :
       \/ Due(clk', u) = Due(clk, u)
       \/ Rescheduled(u)
       \/ CatchUpEnds /\ Due(clk', u) = Due(clk, u) + clk.queue[1].time]_vars

DueNow(u) == u \in Queued(clk) /\ Due(clk, u) <= GTime(clk)

\* An event that is due is acted on, requeued or cancelled, unless it is
\* rescheduled again and again or the machine stops: it is not overtaken for
\* ever by events that reschedule themselves without a delay.
EventIsDispatched ==
  \A u \in Units : <>[][~Rescheduled(u)]_vars =>
    (DueNow(u) ~> (~DueNow(u) \/ pc \in {"scp", "crashed"}))

\* The user's interrupt stops the machine.
InterruptStops == stop_cpu ~> pc \in {"scp", "crashed"}
=============================================================================

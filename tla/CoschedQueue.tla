---------------------------- MODULE CoschedQueue ----------------------------
(***************************************************************************)
(* Units that are scheduled together with the ticks of a clock             *)
(* (sim_timer.c).  The tick of a registered clock is an event of the       *)
(* timer's own unit; its service routine runs the clock and then puts the  *)
(* units of the timer's coschedule queue whose ticks have been counted on  *)
(* the event queue, for now.  Delays that reach beyond the timer's next    *)
(* calibration wait on that queue as well, owing the rest of the delay to  *)
(* the unit (usecs_remaining).  When the machine stops, everything moves   *)
(* to the event queue, the tick itself becoming an event of the clock's    *)
(* unit.                                                                   *)
(*                                                                         *)
(* There is one timer, calibrated, and the machine executes one            *)
(* instruction in a microsecond: a microsecond and an instruction are the  *)
(* same amount of time.  The event queue is what EventQueue shows it to    *)
(* implement, the times at which units are due.                            *)
(***************************************************************************)
EXTENDS DelayList

CONSTANTS
  Ticks,        \* ticks that sim_clock_coschedule_tmr is called with
  Usecs,        \* delays that sim_activate_after is called with
  Cancellable,  \* units that sim_cancel is called for
  Hz,           \* ticks in a second, after which the timer is calibrated
  TickSize,     \* rtc->currd, instructions in a tick
  MaxStops,     \* bound: how often the machine stops
  TimerUnit,    \* rtc->timer_unit, whose event is the tick
  ClockUnit,    \* rtc->clock_unit, the clock device
  NoUnit        \* uptr while no action routine runs

ASSUME UnitsAssumption == /\ {TimerUnit, ClockUnit, NoUnit} \cap Units = {}
                          /\ TimerUnit # ClockUnit /\ Cancellable \subseteq Units
ASSUME TicksAssumption == Ticks \subseteq Nat /\ Usecs \subseteq Nat
ASSUME TimerAssumption == Hz \in Nat \ {0} /\ TickSize \in Nat \ {0} /\ MaxStops \in Nat

VARIABLES
  rtc,     \* the timer and what waits for it: clock_cosched_queue,
           \*   cosched_interval and ticks of the timer, the event queue as
           \*   the time left of every unit on it, and usecs_remaining
  pc,      \* "scp": at the prompt, "instr": in sim_instr
  uptr,    \* the unit whose action routine runs
  left,    \* not in the code: the time left of what was asked for a unit, -1
           \*   when it waits longer
  calibs,  \* not in the code: how often the timer was calibrated while there
           \*   was time left
  stops    \* how often the machine has stopped

vars == <<rtc, pc, uptr, left, calibs, stops>>

-----------------------------------------------------------------------------
Coscheduled(S) == {S.queue[i].unit : i \in DOMAIN S.queue}

\* sim_is_active, of a unit that is not a clock.
IsActive(S, u) == u \in DOMAIN S.event \cup Coscheduled(S)

Restricted(f, D) == [x \in D |-> f[x]]

_sim_activate(S, u, t) ==
  IF IsActive(S, u) THEN S
  ELSE [S EXCEPT !.event = [v \in DOMAIN @ \cup {u} |-> IF v = u THEN t ELSE @[v]]]

\* A mutant of InstTilTick: the 1 that sim_activate_time adds is taken off twice.
InstTilTickLess(S) ==
  IF TimerUnit \in DOMAIN S.event THEN S.event[TimerUnit] - 1 ELSE -1

\* The instructions until the timer's tick, -1 when its unit is not active.
InstTilTick(S) == IF TimerUnit \in DOMAIN S.event THEN S.event[TimerUnit] ELSE -1

\* Mutants of sim_clock_coschedule_tmr: it does not ask whether u is active; it
\* does not set cosched_interval for a new head; it sets it for every entry.
sim_clock_coschedule_tmrAgain(S, u, ticks) ==
  LET q == Insert(S.queue, InsertionPoint(S.queue, ticks), u, ticks)
  IN  [S EXCEPT !.queue = q, !.cosched_interval = q[1].time]

sim_clock_coschedule_tmrBehind(S, u, ticks) ==
  IF IsActive(S, u) THEN S
  ELSE [S EXCEPT !.queue = Insert(@, InsertionPoint(@, ticks), u, ticks)]

sim_clock_coschedule_tmrNewest(S, u, ticks) ==
  LET k == InsertionPoint(S.queue, ticks)
      q == Insert(S.queue, k, u, ticks)
  IN  IF IsActive(S, u) THEN S
      ELSE [S EXCEPT !.queue = q, !.cosched_interval = q[k + 1].time]

\* cosched_interval means nothing while the queue is empty, and is 0 then.
sim_clock_coschedule_tmr(S, u, ticks) ==
  IF IsActive(S, u) THEN S
  ELSE LET q0 == IF S.queue = <<>> THEN <<>>
                 ELSE [S.queue EXCEPT ![1].time = S.cosched_interval]
           q  == Insert(q0, InsertionPoint(q0, ticks), u, ticks)
       IN  [S EXCEPT !.queue = q,
                     !.cosched_interval = IF q[1].unit = u THEN q[1].time ELSE @]

\* A mutant of _sim_coschedule_cancel: usecs_remaining stays.
_sim_coschedule_cancelOwing(S, u) ==
  LET k == CHOOSE i \in DOMAIN S.queue : S.queue[i].unit = u
  IN  [S EXCEPT !.queue = Unlink(@, k),
                !.cosched_interval = IF Len(S.queue) = 1 THEN 0 ELSE @]

_sim_coschedule_cancel(S, u) ==
  LET k == CHOOSE i \in DOMAIN S.queue : S.queue[i].unit = u
      q == Unlink(S.queue, k)
  IN  [S EXCEPT !.queue = q, !.usecs_remaining[u] = 0,
                !.cosched_interval = IF q = <<>> THEN 0 ELSE @]

sim_cancel(S, u) ==
  IF u \in Coscheduled(S) THEN _sim_coschedule_cancel(S, u)
  ELSE IF u \in DOMAIN S.event
       THEN [S EXCEPT !.event = Restricted(@, DOMAIN @ \ {u}), !.usecs_remaining[u] = 0]
       ELSE S

\* A long delay is divided: the unit waits for the tick before the next
\* calibration, or for the next tick, and is owed the rest.
sim_timer_activate_after(S, u, usecs, running) ==
  LET owing(C, d)     == [C EXCEPT !.usecs_remaining[u] = d]
      til_tick        == InstTilTick(S)
      ticks_til_calib == Hz - S.ticks
      til_calib       == til_tick + (ticks_til_calib - 1) * TickSize
  IN  IF IsActive(S, u) THEN S
      ELSE IF ~running
           THEN owing(_sim_activate(S, u, IF usecs = 0 THEN 0 ELSE 1), usecs)
      ELSE IF til_tick > 0 /\ usecs > til_calib
           THEN owing(sim_clock_coschedule_tmr(S, u, ticks_til_calib - 1),
                      usecs - til_calib)
      ELSE IF til_tick > 0 /\ usecs > 2 * TickSize /\ ticks_til_calib > 1
           THEN owing(sim_clock_coschedule_tmr(S, u, 0), usecs - til_tick)
      ELSE owing(_sim_activate(S, u, usecs), 0)

\* A mutant of ClockAction: the next tick is not scheduled.
ClockActionOnce(S) == [S EXCEPT !.ticks = (@ + 1) % Hz]

\* The clock's action routine: sim_rtcn_calb counts the tick, and the next one
\* is scheduled with sim_activate_after, as an event of the timer's unit.
ClockAction(S) ==
  _sim_activate([S EXCEPT !.ticks = (@ + 1) % Hz], TimerUnit, TickSize)

\* A mutant of Reschedule: what is owed to the unit is not taken off.
RescheduleAgain(S, u) == _sim_activate(S, u, IF S.usecs_remaining[u] # 0 THEN 1 ELSE 0)

\* A unit whose time has come, but that is owed a delay, is scheduled for that.
Reschedule(S, u) ==
  IF S.usecs_remaining[u] # 0
  THEN sim_timer_activate_after(S, u, S.usecs_remaining[u], TRUE)
  ELSE _sim_activate(S, u, 0)

\* The tick is counted off the head of the queue, and all entries that are due
\* are taken off and rescheduled in order.
sim_timer_tick_svc(S) ==
  LET S1   == ClockAction(S)
      q    == IF S1.queue = <<>> THEN <<>>
              ELSE [S1.queue EXCEPT ![1].time = S1.cosched_interval - 1]
      n    == InsertionPoint(q, 0)
      rest == [i \in 1..(Len(q) - n) |->
                 IF i = 1 THEN [q[n + 1] EXCEPT !.time = Accum(q)[n + 1]] ELSE q[n + i]]
      S2   == [S1 EXCEPT !.queue = rest,
                         !.cosched_interval = IF rest = <<>> THEN 0 ELSE rest[1].time]
      after[i \in 0..n] == IF i = 0 THEN S2 ELSE Reschedule(after[i - 1], q[i].unit)
  IN  after[n]

\* Where the units go when the machine stops: the tick of the timer becomes an
\* event of the clock, and the coscheduled units are to fire with it, being
\* owed what lies beyond.
sim_stop_timer_services(S) ==
  LET active     == TimerUnit \in DOMAIN S.event
      clock_time == IF active THEN S.event[TimerUnit] + 1 ELSE 0
      accum(i)   == S.cosched_interval + Accum(S.queue)[i]
      place(u)   == CHOOSE i \in DOMAIN S.queue : S.queue[i].unit = u
  IN  [S EXCEPT
         !.queue = <<>>,
         !.cosched_interval = 0,
         !.event = [u \in (DOMAIN @ \ {TimerUnit}) \cup Coscheduled(S)
                            \cup (IF active THEN {ClockUnit} ELSE {}) |->
                      IF u \in DOMAIN @ THEN @[u] ELSE clock_time],
         !.usecs_remaining = [u \in Units |->
            IF u \in Coscheduled(S)
            THEN @[u] + TickSize * (IF accum(place(u)) > 0 THEN accum(place(u)) - 1 ELSE 0)
            ELSE @[u]]]

-----------------------------------------------------------------------------
Waiting == {u \in Units : IsActive(rtc, u)}

TimeToTick(S) == IF TimerUnit \in DOMAIN S.event THEN S.event[TimerUnit]
                                                 ELSE S.event[ClockUnit]

\* A call by a device or a command that asks for unit u to fire in t, and that
\* makes S of the queues: unless u is active already, the time is noted.
CallOf(S, u, t) ==
  /\ rtc' = S
  /\ left' = [left EXCEPT ![u] = IF ~IsActive(S, u) THEN 0
                                 ELSE IF IsActive(rtc, u) THEN @ ELSE t]
  /\ calibs' = [calibs EXCEPT ![u] = IF IsActive(S, u) /\ IsActive(rtc, u) THEN @ ELSE 0]
  /\ UNCHANGED <<pc, uptr, stops>>

\* "ticks - 0 means on the next tick, 1 means the second tick, etc."
AskedInTicks(ticks) == TimeToTick(rtc) + ticks * TickSize

CoscheduleTmr(u, ticks) ==
  CallOf(sim_clock_coschedule_tmr(rtc, u, ticks), u, AskedInTicks(ticks))

\* sim_clock_coschedule_tmr_abs
CoscheduleTmrAbs(u, ticks) ==
  /\ rtc' = sim_clock_coschedule_tmr(sim_cancel(rtc, u), u, ticks)
  /\ left' = [left EXCEPT ![u] = AskedInTicks(ticks)]
  /\ calibs' = [calibs EXCEPT ![u] = 0]
  /\ UNCHANGED <<pc, uptr, stops>>

ActivateAfter(u, usecs) ==
  CallOf(sim_timer_activate_after(rtc, u, usecs, pc = "instr"), u, usecs)

Cancel(u) == CallOf(sim_cancel(rtc, u), u, 0)

\* Time passes while the machine executes an instruction and nothing is due.
Instruction ==
  /\ pc = "instr" /\ uptr = NoUnit
  /\ \A u \in DOMAIN rtc.event : rtc.event[u] > 0
  /\ rtc' = [rtc EXCEPT !.event = [u \in DOMAIN @ |-> @[u] - 1]]
  /\ left' = [u \in Units |-> IF u \notin Waiting THEN 0
                              ELSE IF left[u] >= 0 THEN left[u] - 1 ELSE -1]
  /\ calibs' = [u \in Units |-> IF left'[u] <= 0 THEN 0 ELSE calibs[u]]
  /\ UNCHANGED <<pc, uptr, stops>>

\* sim_process_event takes u, which is due, off the event queue.
Dispatched(u) ==
  /\ pc = "instr" /\ uptr = NoUnit
  /\ u \in DOMAIN rtc.event /\ rtc.event[u] = 0

WithoutEvent(u) == [rtc EXCEPT !.event = Restricted(@, DOMAIN @ \ {u})]

\* The timer is calibrated when the ticks of a second have been counted.
CalibrationsCounted ==
  calibs' = [u \in Units |-> IF rtc'.ticks = 0 /\ left[u] > 0 THEN calibs[u] + 1
                                                              ELSE calibs[u]]

Tick ==
  /\ Dispatched(TimerUnit)
  /\ rtc' = sim_timer_tick_svc(WithoutEvent(TimerUnit))
  /\ CalibrationsCounted
  /\ UNCHANGED <<pc, uptr, left, stops>>

\* After a stop the clock's own unit is due, and no tick is counted.
FirstTick ==
  /\ Dispatched(ClockUnit)
  /\ rtc' = ClockAction(WithoutEvent(ClockUnit))
  /\ CalibrationsCounted
  /\ UNCHANGED <<pc, uptr, left, stops>>

Act(u) ==
  /\ Dispatched(u) /\ rtc.usecs_remaining[u] = 0
  /\ rtc' = WithoutEvent(u)
  /\ uptr' = u
  /\ UNCHANGED <<pc, left, calibs, stops>>

\* A unit that is owed a delay is requeued instead.
Requeue(u) ==
  /\ Dispatched(u) /\ rtc.usecs_remaining[u] # 0
  /\ rtc' = Reschedule(WithoutEvent(u), u)
  /\ UNCHANGED <<pc, uptr, left, calibs, stops>>

ProcessEvent ==
  \/ Tick
  \/ FirstTick
  \/ \E u \in Units : Act(u) \/ Requeue(u)

ActionReturns ==
  /\ uptr # NoUnit
  /\ uptr' = NoUnit
  /\ left' = [left EXCEPT ![uptr] = IF uptr \in Waiting THEN @ ELSE 0]
  /\ calibs' = [calibs EXCEPT ![uptr] = IF uptr \in Waiting THEN @ ELSE 0]
  /\ UNCHANGED <<rtc, pc, stops>>

Stop ==
  /\ pc = "instr" /\ uptr = NoUnit /\ stops < MaxStops
  /\ pc' = "scp"
  /\ stops' = stops + 1
  /\ rtc' = sim_stop_timer_services(rtc)
  /\ UNCHANGED <<uptr, left, calibs>>

\* sim_start_timer_services leaves the timer of a device's clock alone.
Continue ==
  /\ pc = "scp"
  /\ pc' = "instr"
  /\ UNCHANGED <<rtc, uptr, left, calibs, stops>>

\* The clock has just ticked for the first time.
Init ==
  /\ rtc = [queue |-> <<>>, cosched_interval |-> 0, ticks |-> 1 % Hz,
            event |-> [u \in {TimerUnit} |-> TickSize],
            usecs_remaining |-> [u \in Units |-> 0]]
  /\ pc = "instr"
  /\ uptr = NoUnit
  /\ left = [u \in Units |-> 0]
  /\ calibs = [u \in Units |-> 0]
  /\ stops = 0

Next ==
  \/ \E u \in Units : \/ \E t \in Ticks : CoscheduleTmr(u, t)
                      \/ \E d \in Usecs : ActivateAfter(u, d)
  \/ \E u \in Cancellable : \/ \E t \in Ticks : CoscheduleTmrAbs(u, t)
                            \/ Cancel(u)
  \/ Instruction
  \/ ProcessEvent
  \/ ActionReturns
  \/ Stop
  \/ Continue

EventIsDue == pc = "instr" /\ uptr = NoUnit /\ \E u \in DOMAIN rtc.event : rtc.event[u] = 0

\* The machine keeps executing instructions and calling sim_process_event, and
\* every action routine returns.  The fairness is strong, since an instruction
\* can cancel an event that is due, which disables the processing for a moment;
\* the second conjunct is SF_vars(ProcessEvent), that action being enabled when
\* an event is due.
Fairness ==
  /\ SF_vars(Instruction)
  /\ []<>EventIsDue => []<><<ProcessEvent>>_vars
  /\ WF_vars(ActionReturns)

Spec == Init /\ [][Next]_vars /\ Fairness
-----------------------------------------------------------------------------
(***************************************************************************)
(* Properties.                                                             *)
(***************************************************************************)

\* The units that have an event are due in so many instructions, and the ticks in a
\* second are counted up to Hz.
IsTimer(S) ==
  /\ S \in [queue : Seq(Entries), cosched_interval : Int, ticks : 0..(Hz - 1),
            event : {S.event}, usecs_remaining : [Units -> Nat]]
  /\ DOMAIN S.event \subseteq Units \cup {TimerUnit, ClockUnit}
  /\ S.event \in [DOMAIN S.event -> Nat]

\* Every variable has its type.
TypeOK ==
  /\ IsTimer(rtc)
  /\ pc \in {"scp", "instr"}
  /\ uptr \in Units \cup {NoUnit}
  /\ left \in [Units -> Nat \cup {-1}]
  /\ calibs \in [Units -> Nat]
  /\ stops \in 0..MaxStops

\* With the types: a unit is on one queue at a time, and once, though it moves
\* between the coschedule queue and the event queue in many ways: the two queues
\* share the link of a unit.
OnOneQueue ==
  /\ TypeOK
  /\ Coscheduled(rtc) \cap DOMAIN rtc.event = {}
  /\ \A i, j \in DOMAIN rtc.queue : rtc.queue[i].unit = rtc.queue[j].unit => i = j

\* usecs_remaining is only left in a unit that waits: a unit that is cancelled
\* or has been acted on does not find an old delay when it is activated again.
OnlyWaitingUnitsAreOwed ==
  \A u \in Units : rtc.usecs_remaining[u] # 0 => u \in Waiting

\* The clock is never lost, nor ticks twice: through stops and continuations
\* there is one event for the next tick, of the timer's or of the clock's unit.
OneTickIsPending == TimerUnit \in DOMAIN rtc.event <=> ClockUnit \notin DOMAIN rtc.event

\* No unit waits longer than was asked, in ticks or in microseconds, however
\* its delay is divided between the two queues and usecs_remaining.
NeverLate == \A u \in Waiting : left[u] >= 0

\* What the tick and sim_stop_timer_services count with: the head of the coschedule
\* queue waits for cosched_interval ticks.
IntervalIsOfHead ==
  rtc.queue # <<>> => rtc.cosched_interval = rtc.queue[1].time

\* The head of the coschedule queue is cancelled.
HeadIsCancelled ==
  \E u \in Cancellable :
    /\ rtc.queue # <<>> /\ rtc.queue[1].unit = u
    /\ Cancel(u) \/ \E t \in Ticks : CoscheduleTmrAbs(u, t)

\* cosched_interval follows the head of the queue through every insertion, tick and
\* stop and every cancellation of another unit.  Only when the head is cancelled does it
\* stay behind, and then until the next tick at most.
IntervalFollowsHead ==
  [][~IntervalIsOfHead' => HeadIsCancelled \/ (~IntervalIsOfHead /\ ~Tick)]_vars

\* The tick at which a unit is to fire is counted down to 0 and not beyond, so that
\* an action routine can run a tick before the time that was asked for; and a delay
\* that is divided loses a tick once between two calibrations, but no more.
OneTickEarlyPerCalibration ==
  [][\A u \in Units : uptr = NoUnit /\ uptr' = u =>
       left[u] <= TickSize * (1 + calibs[u])]_vars

\* When the machine stops, "coscheduled units" are "scheduled to fire at the
\* same time as the related clock unit is to fire with excess time reflected in
\* the unit usecs_remaining value": no more time than they had left (one
\* instruction being lost in the scheduling).
StopAddsNoDelay ==
  [][pc = "instr" /\ pc' = "scp" =>
       \A u \in Coscheduled(rtc) :
         rtc'.event[u] + rtc'.usecs_remaining[u] <= left[u] + 1]_vars

\* A unit that waits is acted on, or cancelled, or the machine stops.
WaitIsServed ==
  \A u \in Units : <>[][~\E t \in Ticks : CoscheduleTmrAbs(u, t)]_vars =>
    (u \in Waiting ~> (uptr = u \/ u \notin Waiting \/ pc = "scp"))
=============================================================================

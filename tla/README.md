# A specification of the SIMH event system and of PDP-10 devices

This directory holds TLA+ models of the simulator control program of this
repository (`scp.c`, `sim_timer.c` and `sim_defs.h`), which the PDP-6/PDP-10,
B5500, IBM 7000, IBM 360, ICL 1900 and SEL 32 simulators are linked with, and of
two parts of the PDP-10 simulators built on it. They are checked with TLC on
small instances; all their safety properties that hold, and that the event queue implements
its abstract specification, are proved for all instances with TLAPS.

The part modelled first is the one that every device of every simulator relies
on: the event queue, the units that wait for clock ticks or for the time of day,
and the way other threads get events onto the queue. Of the PDP-10 it is what
programs see of events, the priority interrupts (`kx10_cpu.c`), and the one
device that takes part in a protocol with machines outside, the IMP, with its
DHCP client (`kx10_imp.c`).

## 1. Inventory

| Component | State | Operations | Hard behaviour |
|---|---|---|---|
| Event queue (`scp.c`, "Event queue package") | `sim_clock_queue` with relative delays, `sim_interval`, `noqueue_time`, `sim_time`, `sim_rtime`, `usecs_remaining` of each unit, `stop_cpu` | `sim_activate`, `_abs`, `_notbefore`, `_after`, `sim_cancel`, `sim_activate_time`, `sim_gtime`, `sim_process_event`, `run_cmd`, `int_handler` | the time is a sum of three variables; actions call the package in the middle of `sim_process_event`; the machine may be late; the signal handler |
| Clock coscheduling (`sim_timer.c`) | per timer `clock_cosched_queue`, `cosched_interval`, `ticks` | `sim_clock_coschedule_tmr`, `_sim_coschedule_cancel`, `sim_timer_activate_after`, `sim_timer_tick_svc`, `sim_stop_timer_services` | `cosched_interval` duplicates the head's delay; long delays are split; everything moves on a stop |
| Asynchronous activation (`scp.c`, `sim_defs.h`) | `sim_asynch_queue`, `sim_asynch_check`, `sim_idle_wait`, `a_next` and `a_activate_call` of each unit | `sim_aio_activate`, `sim_aio_update_queue`, `AIO_CHECK_EVENT`, `sim_idle_ms_sleep` | threads; nested migration outside the lock; a counter decremented by one thread and cleared by others; a condition variable |
| Clock calibration, idling, throttling (`sim_timer.c`) | `rtcs[]`, idle and throttle state machines | `sim_rtcn_calb`, `sim_idle`, `sim_throt_svc`, `_rtcn_configure_calibrated_clock` | floating point ratios of host time; the calibrated timer may change |
| Wall clock queue (`sim_timer.c`) | `sim_wallclock_queue`, `sim_wallclock_entry`, `a_due_time` and `a_next` of each unit, the timer thread | `_timer_thread`, long delays of `sim_timer_activate_after`, `_sim_wallclock_cancel`, start and stop of the services | hand-over of one entry at a time between two threads; timed waits that race with cancellations; stops |
| Priority interrupts (`kx10_cpu.c`, `kx10_pt.c`) | `dev_irq`, `IOB_PI`, `pi_pending`, `PIR`, `PIH`, `PIE`, `pi_enable`, `pi_cycle`, `pi_enc`, the devices' flags and levels | `set_interrupt`, `clr_interrupt`, `check_irq_level`, `check_apr_irq`, `set_pi_hold`, `restore_pi_hold`, `CONO PI`, `CONO APR`, the devices' CONO and DATAI | `pi_pending` is a cache of three registers; requests are kept in two forms; events between the look and the jump |
| IMP (`kx10_imp.c`) | DHCP state, address, server, lease counters, retry times; ARP table; packet queues; host interface | `imp_dhcp_timer`, `imp_do_dhcp_client`, attach, detach; `imp_srv`, `imp_eth_srv`, address translation | messages lost, late, repeated; retries; a lease counted by both sides |
| SCP commands, breakpoints, EXPECT/SEND (`scp.c`) | tables | command routines | sequential |
| Terminal multiplexer, console (`sim_tmxr.c`, `sim_console.c`) | ring buffers and connection state of lines | poll, get, put | buffers at their limit, connections lost |
| Disk, tape, Ethernet (`sim_disk.c`, `sim_tape.c`, `sim_ether.c`) | contexts with I/O threads, packet queues | asynchronous read and write | hand-shake with an I/O thread |
| Simulators (`PDP10`, `B5500`, `I7000`, `IBM360`, `ICL1900`, `SEL32`) | registers, memory, devices | `sim_instr`, device service routines | priority interrupts, front-end protocols |
| Displays, SLiRP, build files | | | vendored or without behaviour of interest |

How they interact. A simulator's `sim_instr` loop does `AIO_CHECK_EVENT`, calls
`sim_process_event` when `sim_interval <= 0`, and executes an instruction, which
counts `sim_interval` down. Device routines call `sim_activate` and `sim_cancel`
from instructions, from their action routines (called by `sim_process_event`) and
from commands. A clock device asks for its next tick with
`sim_activate_after`; for a registered clock that schedules the timer's own unit,
whose service routine `sim_timer_tick_svc` runs the clock's action and then
activates the units coscheduled with it. Reader and I/O threads call the same
activation routines, which divert them to `sim_asynch_queue`; with the asynchronous
clock on, the timer thread is one of them. Action routines of PDP-10 devices call
`set_interrupt`; `sim_instr` looks for interrupts before each instruction, after the
events, and the program's routines talk to the devices with CONO, DATAI and
DATAO, which clear the requests. The IMP's timer is an event once a second; its
packets come from the reader thread of `sim_ether.c`.

What makes each correct: an event fires at the time asked for, once, in order,
unless it is cancelled; time is monotone where it should be and never invented;
a unit is on one queue only (the queues share its links); no request is lost
between queues or threads; the machine can be stopped and continued at any
point. For the interrupts: a request that is enabled is served, one that is not
made is not, and routines nest by level. For the DHCP client: the IMP only uses
an address it has been granted and that has not been given up, whatever the
network does, and obtains one in the end.

`PROJECT.json` lists every component, and under "hazards" the lines at which these
can go wrong.

## 2. Modules

| Module | Models | Used by |
|---|---|---|
| `DelayList` | the list with relative delays, and the scans of `_sim_activate`, `sim_cancel`, `sim_clock_coschedule_tmr` as operators | `EventQueue`, `CoschedQueue` |
| `EventClock` | abstract: an agenda, the units in the order in which they are to be called with their absolute times, a clock, and how late the machine is | `EventQueue` implements it |
| `EventQueue` | the event queue package, the run command, the signal handler | `MCEventQueue`, `EventQueueProofs` |
| `CoschedQueue` | one calibrated timer with its coschedule queue, on top of an event queue of absolute times | `MCCoschedQueue`, `CoschedQueueProofs` |
| `AsyncQueue` | threads and the main thread around `sim_asynch_queue` | `MCAsyncQueue`, `AsyncQueueProofs` |
| `WallclockQueue` | the main thread and the timer thread around `sim_wallclock_queue` | `MCWallclockQueue`, `WallclockQueueProofs` |
| `PriorityInterrupts` | the interrupt system of the KA10 with processor, clock and paper tape reader | `MCPriorityInterrupts`, `PriorityInterruptsProofs` |
| `DhcpClient` | the IMP's DHCP client, the servers and the network | `MCDhcpClient`, `DhcpClientProofs` |
| `MC*` | model values and symmetry for TLC | the runs |
| `ProofBasics` | lemmas about numbers | `DelayListProofs`, `WallclockQueueProofs`, `DhcpClientProofs` |
| `DelayListProofs` | lemmas about `DelayList`: what the scans, insertions and removals do to order and sums | `EventQueueProofs`, `CoschedQueueProofs` |
| `EventQueueProofs` | theorems about `EventQueue` | |
| `CoschedQueueProofs` | theorems about `CoschedQueue` | |
| `AsyncQueueProofs` | theorems about `AsyncQueue` | |
| `WallclockQueueProofs` | theorems about `WallclockQueue` | |
| `PriorityInterruptsProofs` | theorems about `PriorityInterrupts` | |
| `DhcpClientProofs` | theorems about `DhcpClient` | |

### EventQueue and the code

`clk` is the record of `sim_clock_queue`, `sim_interval`, `noqueue_time`, `sim_time`,
`sim_rtime` and `usecs_remaining`; the routines of the package are operators from a
record to a record (`UpdateSimTime`, `_sim_activate`, `sim_cancel`, ...), so that one
can be composed of others as in the code, `sim_activate_abs` being `sim_cancel`
followed by `_sim_activate`. The actions are their calls by devices and commands,
instructions (`Instruction`, with `Bursts` for instructions that take more than one
off `sim_interval`), and `sim_process_event`, which is cut at the action routine:
`sim_process_event` runs to the first action, `ActionReturns` (or `Requeue` and
`Requeued` for a unit that is owed a delay) from there to the next action or the end.
Between the two the action routine may call anything. `catchup` is the local
variable `sim_interval_catchup`. `Interrupt` is the signal handler, between any two
of these steps. `pc = "crashed"` is a state the program enters by reading through
`QUEUE_LIST_END`, the address 1.

`sim_activate_time` asks `_sim_timer_activate_time` first, which answers -1 for a unit that is
on none of the timers' queues, as those of this module are; what a unit is still owed
(`usecs_remaining`) it adds, converted to instructions by the execution rate.

Not in the model: `sim_step`, `sim_runlimit` and the flush unit (which are units like
others), debug output, error messages, and values of `int32` that overflow (delays
are far below 2^31, `sim_interval` likewise). `sim_rtime` does wrap around.

### CoschedQueue and the code

The event queue is here what `EventQueue` shows it to be, the time left of every
unit. One instruction is one microsecond, so that `usecs_remaining` and instructions
are one unit of measure; conversions and their rounding are left out. `left` and `calibs`
are ghosts: how long from now the time asked for is, and how often the timer has been
calibrated since it was asked for. `Tick` is `sim_timer_tick_svc`,
`FirstTick` is the clock's own event after a stop. `TickSize` is constant:
calibration changes it in the code, which is why a long delay is
split at all, but the properties concern the accounting of ticks.

### AsyncQueue and the code

Each action holds `sim_asynch_lock` at most once. What the main thread is doing is
a stack, `todo`, whose first element is done next: `_sim_activate` is "update the
queue, then insert", `sim_cancel` is "update, and if any event is queued, update
again and remove", and `sim_aio_update_queue` pushes the call of the first unit of its
list and a "migrate" record with the rest of it. The lists that nested migrations
still hold are in these records. A thread's request is four steps: the locked part,
the store to `sim_asynch_check`, the read of `sim_idle_wait`, and the signal.
`AIO_CHECK_EVENT`'s decrement is a load and a store. `asked` and `waited` are ghosts.
The model is of both builds, with atomic operations and without, the list being
only changed under the lock in either. Delays are left out: any unit on the event
queue may fire next.

### WallclockQueue and the code

`sim_timer_lock` protects the queue, and the timer thread holds it except while it
waits: an action of the thread is what it does from one wait to the next, or one
round of its loop. `Scan` sorts in the entry, and then waits or takes the first unit
off. A wait ends by `Timeout`, after which the thread still has to get the lock
(`thread = "expired"`, then `Expire`), by a signal, or for no reason (`WakeUp`). The
main thread gives the lock up in four places, which are the values of `pc`: while it
waits for the prior entry ("busy"), before it signals ("signal"), before it stops
the thread ("stop") and while it joins it ("join"). The units of the asynchronous
queue and the event queue are one set, `scheduled`: how they get from one to the
other is in `AsyncQueue`. Times count down: `due[u]` is what remains until `a_due_time`.
`owed` and `raced` are ghosts.

The delay of the activation by the thread is 0 in every case, although the comment at
`sim_timer.c:2343` wants "the last fractional part of the due time ... done by counting
instructions": the thread has always waited until `due_time` is over, so that
`inst_delay` is never positive. Left out is that a clock unit and its timer unit stand
for each other (as in `CoschedQueue`, where they are two units), and the recomputing
of instruction delays at a stop. `AtPrompt`, the units that may be activated while the
machine stands still, is empty in the run: when there are two of them the second
overwrites the first in `sim_wallclock_entry`, which is only waited for when the
thread runs, and `OnOneList` fails.

### PriorityInterrupts and the code

`bus` is the record of `dev_irq`, `IOB_PI` and `pi_pending`, and the routines that change them
are operators on it (`set_interrupt`, `clr_interrupt`, `check_apr_irq`), applied one after
the other as the instructions do. A level is a number, 1 the highest, where the code
has the bit `0200 >> lvl`. What `check_irq_level` does is in four operators: `Requests`,
`Unblocked`, `Looks` (when it is called) and `Looked` (`pi_pending` cleared). `Interrupt` is the
start of an interrupt cycle; `Transfer` is a block transfer (`BLKI`) as its instruction,
which leaves the level as it is unless the count overflows, `Jump` is a jump, which
holds the level. All other instructions contain `Instruction`: there is no interrupt to
take, and the look before has been made. Events (`ptr_svc`, `rtc_srv`) come between any
two steps, in the middle of a cycle, too, where the code calls `sim_process_event`
before the instruction of the interrupt.

`PICommands` and `APRCommands` are what programs do with CONO; `clk_lvls` is a ghost, the
levels that the clock has had since its flag is up and it is on. Three things of the
code are modelled as they are and are worth knowing: a CONO APR that gives the clock a
new level, but does not enable it anew (bit 02000), leaves the clock asking for the old
level, or not asking, until its next tick (`kx10_cpu.c:1753-1775`); with the system
turned off the program's own requests still interrupt, but devices' do not; and
`restore_pi_hold` drops the program's request for the level that ends, even one made
after it began. The assumption that a program makes requests only on levels with a
jump is needed: a block transfer does not take a request back, and would be
executed for ever. Left out: the multiplexed channel, ITS and BBN options, the
check for non-existent memory on fetch, UUOs and traps, HALT, and the vectored
interrupts of the KI, KL and KS.

### DhcpClient and the code

`imp_dhcp_timer` is the client's second: `CountLease` and `ForgetServer` are its first half, the
counters, and `KeepLease`, `Extend`, `StartDiscovery`, `Wait` and `Retry` are the branches of
its switch. Packets arrive between the seconds (`AcceptOffer`, `AcceptAck`, `AcceptNak`; in
any other state they are ignored). Messages are sets of records; sending, losing,
repeating and reordering need no actions of their own, as a message stays deliverable for
`Lifetime` seconds or is never delivered. An answer of a server removes the
message, since a copy would be answered alike; the client repeats its requests every
second while it extends the lease, so that duplicates exist all the same.
A transaction number is current or not: `++dhcp_xid` makes all messages on their way
outdated. The addresses are named after the server that leases them.

Nothing is assumed of the times that a server grants: the client takes the options as
they are sent (`kx10_imp.c:2608-2613`), and what it makes up for a server that leaves them
out need not be in order either: T1 = T2 for leases of 1 and 2 seconds, and a T2 that is
too small when `7 * dhcp_lease`, computed in 32 bits, wraps (19 years). RFC 2131, 4.4.5
wants T1 < T2 < lease. `TimesInOrder` and `RebindsInTime` say so, in the properties and
theorems that need it: without it the client goes from REBINDING back to RENEWING,
without a server (T1 = T2), or loses its lease without having forgotten the server (T2
not before the end).

Assumptions about what is not in the repository: a server starts to count a lease when
it sends the ACK; a RELEASE on its way is gone before the IMP is attached again; and the
servers' second is the IMP's. The IMP's timer is an event of the simulator, so that a
stop of the simulator freezes the client's count while the servers go on: that is
outside the model.

Modelled as they are: a repeated request names `imp->dhcpip`, which is not the server
whose offer was accepted; a client in REQUESTING never goes back to DISCOVER; the
address stays in `ip` after the lease has ended; the ARP entry of the server is not
recorded for a mask of 32 bits, since the brace of the loop at `kx10_imp.c:2614` closes
after it.

## 3. Runs

| Run | Shows |
|---|---|
| `EventQueue` | instructions take 3 off `sim_interval`, so that several events are missed at once and catch-ups end before, at and beyond what was executed: types, order of the queue, agreement of the counters (modulus 3, so that they wrap), action routines see the due time, owed delays, `sim_activate_time`, nothing due on return, due times do not move but at the end of a catch-up that goes too far, `sim_activate_notbefore` makes a unit due when it was asked to, `EventQueue` implements `EventClock`, and liveness: due events are dispatched, interrupts stop the machine |
| `EventQueueCatchUp` | instructions of 1 and 4: the catch-up of a late machine reads the entry behind the end of the queue, against the comment of `sim_process_event` |
| `CoschedStops` | two units, a second of two ticks, one stop, cancellations: a unit is on one queue (with the types), owed delays belong to units that wait, there is one tick pending, and every unit that waits is acted on; `cosched_interval` is the head's but after a cancellation of the head, until the next tick |
| `CoschedOnTime` | three units, ticks and delays of up to 22 instructions, a second of three ticks of 2 instructions, so that the longest delay is divided three times or more: never late, at most one tick early and one more for each calibration |
| `CoschedStopDelay` | a stop adds to the delays of coscheduled units, against the comment of `sim_stop_timer_services` |
| `AsyncMigrates` | two units, two threads, three requests: a unit is on one list (with the types), no request is lost, cancellations are final, and the queue is looked at in time |
| `AsyncServed` | two requests of a thread for two units, of which a device reschedules and cancels one: every request leads to an event |
| `AsyncSleep` | the wakeup that is lost |
| `Wallclock` | three units with two delays, starts, stops, cancellations and wakeups without a reason: a unit is in one place, with the types and the order of the queue, the thread never sleeps too long, takes a unit off early only after a cancellation, and every activation leads to an event |
| `Interrupts` | two levels, one of them with a block transfer, three devices, programs that set up, enable, disable, request and reset at any time: requests are seen and current, interrupts have a cause, routines nest, standing requests are served |
| `ImpDhcp` | two servers, of which each has one of two leases, one with its times in order and one with T1 = T2; messages of up to a second; the IMP is detached and attached: the address in use is still granted, requests reach the server that can grant them, and a lease with its times in order goes through its stages |
| `ImpDhcpServed` | one server, also with a lease that does not end: an attached IMP obtains a lease |

`EventQueue` and `EventQueueCatchUp` have `CHECK_DEADLOCK FALSE` because the program ends when
it crashes on the wild read (section 4); it is the only way it can stop.

`CoschedOnTime` has neither stops nor cancellations, because each of them breaks a
property of that run (see the next section).

Bounds. `MaxTime` bounds the times at which events are asked for (a guard of the
calls, and of instructions when nothing is queued); three units are enough for an
entry to have one before and one behind it, and for two events to be missed at
once. `RTimeMod` is 3 instead of 2^32, so that the counter wraps within the bound, and
`sim_activate_notbefore` is called while the time is at most `RTimeMod`, once around. An
instruction takes two microseconds (`InstNum` / `InstDen` = 1/2), so that the 3 that a unit may be
owed are not a whole number of instructions. `sim_activate_time` does not tell an owed
delay of less than one instruction, which the theorem `ActivateTimesAreExact` covers and
the run does not reach.
`NoQueueWait` is 2 instead of 1000000: its size plays no role other than being
positive. `Hz` is the number of ticks between calibrations, at most 4. `MaxStops`
bounds how often the machine stops. `MaxRequests` bounds the requests of threads:
with three, two of them can be on the list while a third arrives during its
migration. `Latency` is at most 2 instead of 20. `HalfIdle` is 1, and the delays of
`Wallclock` are 3 and 5: long enough for a unit to be overtaken by another and for the
thread to wait for either; `Late` stands for every time that is over. With `N` = 2 levels
in `Interrupts` one can be held while the other is asked for, and a look can be blocked;
the safety properties have been checked once with three levels, too (1.6 million
states), and are proved for any number. `LeaseMod` is 32 instead of 2^32; the
leases of 2 and 4 seconds are long enough for every stage to last a second, and for a
lease to end while a message is on its way (`Lifetime` = 1); `FirstRetry` and `LastRetry` are 1
and 2 seconds instead of 4 and 64, so that the time between retries doubles once.

## 4. What the runs say about the code

Three violations are findings in `PROJECT.json`, with the lines and the comments they
contradict:

* `sim_process_event` catches up in whole delays of the next entry while more than one
  instruction is left to catch up (`scp.c:11982-11986`), and takes the delay without asking
  whether there is an entry: after the last event it reads through `QUEUE_LIST_END`, which
  TLC finds in six states (`EventQueueCatchUp`: an event, an instruction that goes 3 beyond
  it, the action returns). When the next event is not due yet, time is moved beyond what
  the machine has executed, and all events with it: with events due at 1 and 5 and an
  instruction that takes 4, the machine has executed to 4, its time is then 5, and the
  second event is due at 9. Late machines are ordinary, as KA10 instructions take one off
  `sim_interval` for every access to memory.
* `sim_stop_timer_services` counts the head's interval twice (`CoschedStopDelay`).
* A request that arrives just before the main thread sleeps does not end the sleep
  (`AsyncSleep`).

Two more findings are bounded by properties that hold, and that name the only way in
which the code departs from what it should do:

* `_sim_coschedule_cancel` of the head leaves `cosched_interval` behind (`sim_timer.c:3015`), and
  the next unit fires early by what it had to wait after the head.
  `IntervalFollowsHead` says that nothing else does, and that the next tick ends it: it
  gives the head the wrong interval.
* A clock whose level is changed while it asks (`kx10_cpu.c:1753`) goes on asking for the old
  level, and when its next tick sets the bit of the new one in `IOB_PI`, that of the old one
  stays and is interrupted though nobody asks. `RequestsAreCurrent` and `InterruptHasCause`
  allow the clock exactly the levels that it has had since its flag is up.

The other properties hold within limits that say something of the code as well:

* `DueIsStable` has to leave out the end of a catch-up, which moves all events by the delay
  of the first. No other step moves an event that nobody reschedules.
* `OneTickEarlyPerCalibration` cannot be made "never early": the tick service routine counts
  down before it compares, so that units fire one tick earlier than the comment of
  `sim_clock_coschedule_tmr` says. A delay that reaches beyond the next calibration is put on
  the coschedule queue for `ticks_til_calib - 1` ticks, comes off one tick before that, and is
  owed what would be left after it: one tick is lost, and another one when what is left is
  divided again at the next calibration. It never loses two between the same calibrations.
  All this holds only without cancellations, of the head that is.
* `EarlyOnlyAfterCancel`: when the timer thread has timed out and the main thread
  cancels the first unit before the thread has the lock, the next unit is taken off
  and activated at once, however long its delay.
* A stop of the machine that meets a timeout of the timer thread leaves the units on
  the wall clock queue (`StopServices` with `thread = "none"`), although they "are now
  migrated to the normal event queue" (`sim_timer.c:2652`), and so does one while a unit
  is still in `sim_wallclock_entry`. They are timed after the next start, which is why
  `WaitIsServed` is about a machine that runs.
* A unit that is coscheduled between CONTINUE and the first tick, which is an event of
  the clock's own unit, is passed by at that tick (no run of its own; it is why
  `NeverLate` is checked without stops).

## 5. Fairness

* `EventQueue`: the machine keeps executing instructions and calling
  `sim_process_event` (the loop of `sim_instr`), whatever finite number of calls the
  devices make in between. The fairness is strong because an instruction can take
  the due event off the queue and put it back, which disables the action in between.
  Action routines return.
* `CoschedQueue`: the same.
* `AsyncQueue`: threads run; the routines of the main thread go on; a call of
  `sim_process_event` and an `AIO_CHECK_EVENT` come again and again; an event that is
  on the queue has its turn (which `EventIsDispatched` shows in `EventQueue`); a wait
  ends by its timeout. `pthread_cond_signal` is given no fairness beyond that, and
  spurious wakeups are possible but not assumed.
* `WallclockQueue`: both threads go on, time goes on, and a unit on the event queue has
  its turn. Without the signal the thread would be woken by its timeout at the latest.
* `PriorityInterrupts`: the CPU goes on with the instructions of an interrupt (`Cycle`), and
  the routines of the interrupts come to their JEN, which is the program's part. Ordinary
  instructions have no fairness: `Interrupt` is enabled instead of them.
* `DhcpClient`: the timer goes on while the IMP is attached, and a server to which
  DISCOVERs and REQUESTs are sent again and again offers and grants at last, and its
  answers arrive: the fairness is strong because every one of them may be lost,
  and about messages of the current transaction.

The liveness properties of `EventQueue`, `CoschedQueue` and `AsyncQueue` exclude a unit
that is rescheduled for ever (`<>[][~...]_vars`): that is a postponement the caller
asks for.

## 6. Proofs

`EventQueueProofs` proves, for any sets of units, delays and bursts, so however late the
machine is, any modulus and any execution rate:

* `TypeCorrect`: `Spec => []TypeOK`
* `QueueStaysInOrder`: `Spec => []QueueInOrder`
* `CountersAgree`: `Spec => []RTimeFollowsTime`
* `DelayIsOwedToQueuedUnits`: `Spec => []DeferredUnitIsQueued`
* `ActionsAreTimedFromDueTime`: `Spec => []ActionSeesDueTime`
* `NothingIsDueOnReturn`: `Spec => NothingDueOnReturn`
* `ActivateTimesAreExact`: `Spec => []ActivateTimeIsExact`
* `EventsStayDue`: `Spec => DueIsStable`
* `NotBeforeHolds`: `Spec => NotBeforeIsHonoured`
* `EventQueueImplementsEventClock`: `Spec => ImplementsEventClock`
* `LatenessIsBounded`: when `Bursts \subseteq 1..K`, `Spec => []NotTooLate(K)`

Assumptions: the named ASSUMEs of `EventQueue` (delays are naturals, an instruction
takes at least one off `sim_interval`, `NOQUEUE_WAIT` and the modulus are positive).
`MaxTime` is any natural number: the theorems do not depend on how small it is.

The argument. `IInv` is the inductive invariant. `TypeOK`, `QueueInOrder`, `RTimeFollowsTime`
and `DeferredUnitIsQueued` are conjuncts of it; what it adds is that the unit whose event
is being processed is one of `Units`, and that `sim_interval` then agrees with the
delay of the head and no entry is overdue, unless the signal handler has
interfered (`Timely`). Without that, an activation from an action routine, which
brings `sim_time` up to date first, could move the time and leave a negative
delay behind the head, and `ActionSeesDueTime` and `NothingDueOnReturn` would not
follow: with it, `NothingDueOnReturn` is the loop condition of `sim_process_event`,
read with the `sim_interval_catchup` that is dropped on return.

`QueueInOrder` in turn needs that inserting behind the entries that fire no later,
and unlinking an entry into the one behind it, leave all delays behind the head
non-negative (`InsertKeepsOrder`, `UnlinkKeepsOrder`). `InsertionPoint` is a CHOOSE, so
that its existence has to be shown (`InsertionPointExists`): the sums of the delays exist as a
function (`SumsExist`; induction over the naturals comes from the existence of
least elements in `ProofBasics`), and so does the first one that is too large. Then
each routine of the package keeps a record sound (the lemmas `...Keeps`), and each
action is a composition of routines: `InitIInv` is the base, `NextKeepsIInv` the
induction step with a case for every action, and `IInvHolds` combines them.

The assumption that delays are naturals matters: `sim_activate` with a negative delay
puts the unit in front with a negative `sim_interval`, which the package does not rule out.

TLC finds `IInv` invariant in the instance of `EventQueue`, too.

The refinement. `Agenda(S)` gives every entry of the queue its absolute time, the sum of the
delays up to it added to the time that `sim_gtime` would return; `now` is that time and `late`
is what is in `sim_interval_catchup`. Each routine is shown to do to the agenda what its name
says (`UpdateAgenda`, `BackUpAgenda`, the lemmas of `sim_cancel`, `_sim_activate` and the
dispatch), from what `DelayListProofs` says of sums: an insertion changes no sum and a removal
only drops one. Initial states map to initial states (`InitIsAgendaInit`), and each action
is a step of the agenda or a stutter (`NextIsAgendaStep`, a case for every action). That
`EventClock` lets the end of a catch-up move the agenda as a whole when the machine
was more than one instruction late, and lets an interrupt skip time, is what the code
does, not what was convenient: a specification without them is not implemented.

`EventsStayDue` is read off the same steps of the agenda: each of them keeps the times of the
units that it does not name, but for the end of a catch-up. `NotBeforeHolds` needs that
`sim_rtime` is the time modulo `RTimeMod` (`RTimeFollowsTime`), and that the unit is linked in at
the delay that the comparison of the two times has chosen (`LinkedInIsDue`, `NotBeforeIsDue`).
`ActivateTimesAreExact` adds the conversion of what is owed (`DelayInInstructions`).

`NotTooLate(K)` is an invariant of the agenda: the clock is at most K - 1 behind, and no
entry is due further back than that.

`DelayListProofs` has the lemmas that this and the next module share, about sequences of
entries only: that the sums exist, that the insertion point exists and splits the list,
that `Insert` and `Unlink` keep the list in order, and what they do to every sum.

`CoschedQueueProofs` proves, for any units, ticks, delays, tick size and ticks in a second:

* `UnitsAreOnOneQueue`: `Spec => []OnOneQueue`
* `OnlyWaitersAreOwed`: `Spec => []OnlyWaitingUnitsAreOwed`
* `TheTickIsPending`: `Spec => []OneTickIsPending`
* `IntervalFollowsTheHead`: `Spec => IntervalFollowsHead`
* `NoUnitIsLate`: when `MaxStops = 0`, `Spec => []NeverLate`
* `NoUnitIsTooEarly`: when `MaxStops = 0` and `Cancellable = {}`,
  `Spec => OneTickEarlyPerCalibration`

Assumptions: `UnitsAssumption`, `TicksAssumption` and `TimerAssumption`. The hypotheses are
the code's: `_sim_coschedule_cancel` does not bring `cosched_interval` up to date, which
lets units fire early, and a stop adds the head's ticks
twice, which makes them late (`CoschedStopDelay`). Cancellations make no unit late, so that
`NoUnitIsLate` says more than its run, which has none.

The first three need that the queues are `Sound`: the coschedule queue is in order, shares no
unit with the event queue, and the tick is never further away than `TickSize`. Every
routine is described by what it adds (`Adds`) or takes off (`Drops`), with the ticks
until each other unit fires (`TicksTo`) unchanged by the first and not increased by the second,
so that compositions need not be looked into. The tick is the largest: `CountedKeeps` is
about the list that is left when the entries that are due have come off (`RestOf`), and
`EachIsServed` about the loop that reschedules them one after the other, by induction on
their number: each may find its successors on neither queue and itself divided again.
`IInv` adds that a unit that is owed a delay waits, and that there is one event for
the next tick. `IntervalFollowsTheHead` has no invariant of its own, since the property allows
the interval to be wrong: its lemmas say of each routine that it keeps a right interval
right (`CancelKeepsInterval` of any but the head), and of the tick that it makes it right.

The times are about `TimeLeft`, what a unit still has to wait for: its event or the tick that
takes it off the coschedule queue, and what it is owed. The inductive invariant
`TimedInv` says that it is at most `left`, and that a unit on the event queue is owed nothing
(`FiresInTime`); and that it is at least `left` less a tick and one for each calibration
(`FiresNotTooEarly`). For the latter it has to be known where a delay can still lose
a tick (`RestFits`): a unit that is owed something comes off the queue at the tick that
calibrates or the one before, or is owed no more than is left until then, so that
what is divided again in between loses nothing (`DividedTime`). `TickTime` is the step in which
both are used: a tick makes nothing later, and only the one that calibrates makes a
unit earlier, by at most a tick. TLC finds `IInv` invariant in the instance of `CoschedStops`, and
`TimedInv` in that of `CoschedOnTime`, also with cancellations.

`AsyncQueueProofs` proves, for any units, threads, latency and number of requests:

* `ListsShareNoUnit`: `Spec => []OnOneAsyncList`
* `RequestsAreKept`: `Spec => []NoRequestIsLost`
* `CancelsHold`: `Spec => []CancelIsFinal`
* `QueueIsLookedAt`: `Spec => []PickedUpInTime`

Assumptions: `UnitsAssumption` and `LatencyAssumption`. TLC explores a few nested calls; the
proofs are about a stack of any depth. The inductive invariant says which operations may
stand on which (`StackOK`: an update of the queue never stands directly on a cancel that
returns, the removal of `sim_activate_abs` always on the insertion that makes up for it),
that all the lists of the stack and `sim_asynch_queue` have their units once (`AllOnce`), that
from the first update of a device's cancel on its unit is queued only by a new request
(`Fresh`), and that `sim_asynch_check`, or the value that the main thread has read of it, is
at most what is left of the latency (`Paced`): an overwritten store of a thread cannot make
it more. `AllOnce` follows in every step from lists being cut at the front and moved
(`EndsAllOnce`), but for a request, which finds the unit on no list. The first part
of the module is about pushing one operation (`Pushed`), the second about the routines as a
series of those (`Over`), the third has a lemma for every action; `RoutineSteps` and
`StackSteps` hold what the actions of the main thread have in common. TLC finds the invariant
in the instance of `AsyncMigrates`, too.

`WallclockQueueProofs` proves, for any units, any long delays and any `HalfIdle`, when no
unit is activated at the prompt:

* `UnitsStayOnOneList`: `Spec => []OnOneList`
* `ThreadNeverOversleeps`: `Spec => []NeverOversleeps`
* `NothingIsEarly`: `Spec => EarlyOnlyAfterCancel`

Assumptions: `WallclockAssumption`, and `AtPrompt = {}`. The latter is needed: while no timer
thread runs, a second unit that comes first would overwrite `sim_wallclock_entry` and
the first would be active for ever. The inductive invariant says exactly where the
units are that are linked (`Places`), that the main thread waits or hands over a unit only
while the timer thread lives (`Control`), and what the timer thread waits for
(`Waits`): half of `sim_idle_rate_ms` before the time of the first unit, which,
when the wait has timed out, is near, unless it was cancelled after that. An entry
is there only while a signal is to come, which is what makes the wait right, and the
cancel of the first unit wakes the thread, as does every unit that comes before it. The
first part of the module is about queues in order: what `InsertAt` and `RemoveAt` make of
a sequence, shown of functions first (`InsertAmong`, `RemoveAmong`). `Place` is a CHOOSE,
whose existence is `PlaceFits`. TLC finds the invariant in the instance of `Wallclock`, too.

`PriorityInterruptsProofs` proves, for any number of levels, any levels with block
transfers and any commands of programs:

* `TypesAreKept`: `Spec => []TypeOK`
* `NoRequestIsPassedOver`: `Spec => []RequestIsSeen`
* `DevicesAskAsFlagged`: `Spec => []RequestsAreCurrent`
* `NoSpuriousInterrupt`: `Spec => InterruptHasCause`
* `LevelsNest`: `Spec => HeldLevelsNest`

The only assumption is `PIAssumption`. The inductive invariant says of the bus that a
device that asks is accounted for in `IOB_PI`, and that `pi_pending` is only off when
nothing is asked for (`Sound`); of the program's requests, which `pi_pending` does not
cover, that each is blocked, or will be by the jump that is about to be executed
(`ProgramSeen`): this is why it is right to clear `pi_pending` although `PIR` is not looked
at, and it needs the assumption about block transfers. `CauseKnown` is the converse:
`IOB_PI` has no level for which nobody asks, except for one that the clock has had since its
flag is up. For `LevelsNest`
the level of a cycle is above all that are held until its jump (`LevelIsAbove`). The
lemmas `SetKeeps`, `ClrKeeps` and `CheckKeeps` say what the routines do to the bus; CONO APR
is five of them in sequence.

`DhcpClientProofs` proves, for any servers, any leases and any `Lifetime` of messages:

* `TypesAreKept`: `Spec => []TypeOK`
* `AddressStaysGranted`: `Spec => []AddressIsGranted`
* `StagesAdvance`: `Spec => LeaseStagesAdvance`, which is about leases with T1 < T2 < lease
* `RequestsReachTheOwner`: when `RebindsInTime`, `Spec => []RequestNamesOwner`

The only assumption is `DhcpAssumption`, which gives the types of the constants and says
nothing of the order of the times that a server grants. The hypothesis `RebindsInTime` is
that every lease that ends has T2 < lease: with T2 not before the end, a lease ends without
having been rebound and leaves its server in `dhcpip`, and the retry of a later request
names it (TLC finds this in twelve states with a lease of 2 seconds and T2 = 2). The
inductive invariant has five parts beside the types and the property itself.
`ServerKnown`: `dhcpip` is `ip` or forgotten while there is a lease, and forgotten when there is
none. `ServerIsForgotten`: while `dhcpip` is known, `dhcp_rebind` has not run out and will
before the lease. `CountersInOrder`: what the three counters of a lease whose times are in
order are in each stage, negative when they have run out. `LeaseIsHeld`: a server still holds
the lease of a grant that is on its way, less the age of the message, and the client is
behind its server by the age of the message that it got. `ReleaseIsLast`: while a RELEASE
is on its way the IMP is detached and nothing else is about its transaction, so that the
server does not give up an address that is used again. `SecondOfLease` is what
`imp_dhcp_timer` makes of the counters of any lease, `SecondInOrder` of one whose times are in
order, `HeldASecondLater` what a second makes of a lease.
TLC finds this invariant, too.

Only model-checked: liveness (`EventIsDispatched`, `InterruptStops`, both `WaitIsServed`,
`RequestIsServed`, `StandingRequestInterrupts`, `LeaseIsObtained`), which is out of the prover's
reach, and the three violations. All invariants and action properties of the runs that pass
are proved, some of them under the hypotheses named above.

## 7. Not modelled

See the components with the status `not_modelled`. Of the modelled parts: several
timers and the choice of the calibrated one; catch-up ticks; the delays of
asynchronous requests; `a_check_completion` (asynchronous disk and tape I/O, which
no simulator here turns on); the polling thread of the multiplexer (`SIM_ASYNCH_MUX`
is defined by no build file); a signal in the middle of `UPDATE_SIM_TIME`; timer units
that are activated at the prompt while the asynchronous clock is on; interrupts of
the KI, KL and KS, the multiplexed channel and ITS; of the IMP everything but the DHCP
client.

The repository is mostly instruction sets and devices of some twenty machines, each
sequential: the models cover the parts where several activities meet, and only a
small share of the lines.

## 8. Plan

Done: sections 2 to 6. What is left, in this order:

1. `CalibratedTimers`: `sim_register_clock_unit_tmr`, `_rtcn_configure_calibrated_clock` and the
   internal timer, with two timers: units follow the calibrated clock and are not
   stranded on one that is gone.
2. The IMP's host interface: leaders, RFNMs and the queue of packets that wait for ARP.
3. `DiskIO`: the hand-shake of `_disk_io` with the main thread, with the disk's
   completion check inside the migration.
4. Delays in `AsyncQueue` (requests that meet an activation of the main thread;
   the order of the list), and `SignalRace`: the handler inside `UPDATE_SIM_TIME`.
5. `TmxrLine`: receive and transmit rings of a line, against queues of bytes.
6. The DTE-20 front-end protocol, and the shared memory of the auxiliary processors.
7. Sequential algorithms as functions: tape positioning, EXPECT matching.

Theorems planned: the abstract specifications of `AsyncQueue` (a set of requests) and
`WallclockQueue` (absolute due times) with their refinements; and `NeverLate` with stops, with
the ticks of the head that a stop adds as a further term.

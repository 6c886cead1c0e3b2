SPECIFICATION Spec
CONSTANTS
  Units = {u1, u2}
  u1 = u1
  u2 = u2
  Ticks = {0, 3}
  Usecs = {5, 9}
  Cancellable = {u1, u2}
  Hz = 2
  TickSize = 2
  MaxStops = 1
  TimerUnit = TimerUnit
  ClockUnit = ClockUnit
  NoUnit = NoUnit
INVARIANTS OnOneQueue OnlyWaitingUnitsAreOwed OneTickIsPending
PROPERTIES IntervalFollowsHead WaitIsServed

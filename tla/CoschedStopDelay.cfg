SPECIFICATION Spec
CONSTANTS
  Units = {u1}
  u1 = u1
  Ticks = {2}
  Usecs = {}
  Cancellable = {}
  Hz = 4
  TickSize = 2
  MaxStops = 1
  TimerUnit = TimerUnit
  ClockUnit = ClockUnit
  NoUnit = NoUnit
PROPERTIES StopAddsNoDelay

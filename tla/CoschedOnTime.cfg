SPECIFICATION Spec
CONSTANTS
  Units = {u1, u2, u3}
  u1 = u1
  u2 = u2
  u3 = u3
  Ticks = {0, 1, 3}
  Usecs = {1, 4, 22}
  Cancellable = {}
  Hz = 3
  TickSize = 2
  MaxStops = 0
  TimerUnit = TimerUnit
  ClockUnit = ClockUnit
  NoUnit = NoUnit
SYMMETRY Symmetry
INVARIANTS NeverLate
PROPERTIES OneTickEarlyPerCalibration

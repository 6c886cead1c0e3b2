SPECIFICATION Spec
CONSTANTS
  Units = {u1, u2}
  Rescheduled = {u1, u2}
  Threads = {t1, t2}
  Latency = 2
  MaxRequests = 3
  NoUnit = NoUnit
INVARIANT EventEndsSleep

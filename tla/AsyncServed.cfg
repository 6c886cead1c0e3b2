SPECIFICATION Spec
CONSTANTS
  Units = {u1, u2}
  Rescheduled = {u1}
  Threads = {t1}
  Latency = 1
  MaxRequests = 2
  NoUnit = NoUnit
PROPERTY RequestIsServed

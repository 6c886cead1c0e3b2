SPECIFICATION Spec
CONSTANTS
  Units = {u1, u2}
  Delays = {1, 5}
  Usecs = {}
  Bursts = {1, 4}
  RTimes = {}
  NoQueueWait = 2
  RTimeMod = 3
  InstNum = 1
  InstDen = 2
  MaxTime = 5
  NoUnit = NoUnit
CHECK_DEADLOCK FALSE
PROPERTY CatchUpStopsAtNow

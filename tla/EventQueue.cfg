SPECIFICATION Spec
CONSTANTS
  Units = {u1, u2, u3}
  Delays = {0, 3}
  Usecs = {3}
  Bursts = {3}
  RTimes = {0}
  NoQueueWait = 2
  RTimeMod = 3
  InstNum = 1
  InstDen = 2
  MaxTime = 3
  NoUnit = NoUnit
CHECK_DEADLOCK FALSE
INVARIANTS TypeOK QueueInOrder RTimeFollowsTime ActionSeesDueTime DeferredUnitIsQueued ActivateTimeIsExact
PROPERTIES NothingDueOnReturn ImplementsEventClock DueIsStable NotBeforeIsHonoured EventIsDispatched InterruptStops

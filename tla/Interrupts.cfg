SPECIFICATION Spec
CONSTANTS
  N = 2
  BlockLevels = {1}
  PICommands <- Commands
  APRCommands <- ClockCommands
INVARIANTS TypeOK RequestIsSeen RequestsAreCurrent
PROPERTIES InterruptHasCause HeldLevelsNest StandingRequestInterrupts

SPECIFICATION Spec
CONSTANTS
  Units = {u1, u2, u3}
  AtPrompt = {}
  Delays = {3, 5}
  HalfIdle = 1
  NoUnit = NoUnit
INVARIANTS OnOneList NeverOversleeps
PROPERTIES EarlyOnlyAfterCancel WaitIsServed

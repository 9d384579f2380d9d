CONSTANTS
  e1 = e1
  e2 = e2
  e3 = e3
  NoEntry = NoEntry
  Entries = {e1, e2, e3}
  Local = {e1}
  Ticks <- MCTicks
  Version <- TwoVersions
  MaxOps = 1
  Overlap = FALSE
CHECK_DEADLOCK FALSE
SPECIFICATION Spec
INVARIANTS QueueInOrder 
PROPERTIES CancelledStaysOver EntriesAreStarted

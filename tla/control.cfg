SPECIFICATION FairSpec
CONSTANTS
  IsParent = TRUE
  HasParentScript = FALSE
  Settings <- AllSettings
INVARIANTS ThreadsInOrder RunsEndOnce NoOrphanProcess
PROPERTIES CancelReturns EveryRunIsWrappedUp

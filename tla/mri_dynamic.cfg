SPECIFICATION FairSpec
CONSTANTS
  NodeCount = 2
  RunCount = 2
  Schedule = "dynamic"
  Concurrent = 1
  MaxCrashes = 2
  MaxRestarts = 0
  MaxLostReplies = 0
  ChildrenAreSlow = TRUE
  GraceSuffices = TRUE
INVARIANTS NoOrphan EntriesInOrder
PROPERTIES NameIsForLife NoTakeover AllocationSpec EveryRunCompletes

SPECIFICATION Spec
CONSTANTS
  NodeCount = 2
  RunCount = 3
  Schedule = "static"
  Concurrent = 1
  MaxCrashes = 1
  MaxRestarts = 1
  MaxLostReplies = 1
  ChildrenAreSlow = FALSE
  GraceSuffices = FALSE
INVARIANTS TypeOK OneExecutorPerRun
PROPERTIES CompletedIsFinal

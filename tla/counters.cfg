SPECIFICATION FairSpec
CONSTANTS
  n1 = n1
  n2 = n2
  Nodes <- TwoNodes
  RunsOf <- RunsOfTwo
  Concurrent = 2
  RepeatIsSet = TRUE
  MaxCrashes = 1
  MaxLostReplies = 1
  GraceSuffices = TRUE
INVARIANTS CountersAgree MarkedRunsAreCounted
PROPERTIES JobCompletesForGood

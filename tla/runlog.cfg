SPECIFICATION Spec
CONSTANTS
  r1 = r1
  s1 = s1
  Runs = {r1}
  Siblings = {s1}
  MaxMetrics = 2
  MaxFaults = 1
CHECK_DEADLOCK FALSE
INVARIANTS LogInOrder DocumentIsCurrent PairedWithItsHparams AggregatedOrBeside

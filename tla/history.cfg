CONSTANTS
  r1 = r1
  r2 = r2
  r3 = r3
  s1 = s1
  Runs = {r1, r2, r3}
  Children = {r3}
  Searchers = {s1}
  LegacyNext = 1
  LegacyRuns = {1, 3, 4, 5, 6}
  MaxRestarts = 2
  MaxFailures = 1
CHECK_DEADLOCK FALSE
SPECIFICATION HistorySpec
SYMMETRY Commands
INVARIANTS IInv MissedWereLate
 

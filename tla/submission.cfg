CONSTANTS
  NodeCount = 2
  RunCount = 2
  Jobs <- EveryService
CHECK_DEADLOCK FALSE
SPECIFICATION Spec
INVARIANTS SubmissionInOrder 
PROPERTIES  JobCompletes

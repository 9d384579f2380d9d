CONSTANTS
  NodeCount = 2
  RunCount = 2
  Jobs <- OnPool
CHECK_DEADLOCK FALSE
SPECIFICATION Spec
PROPERTIES ClaimsSurvive

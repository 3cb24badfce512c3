SPECIFICATION Spec
CONSTANTS
  Attempts = 2
  MaxSubmissions = 2
  MaxResets = 2
  MaxExecutions = 2
INVARIANTS JobKeepsItsTopics ResetIsClean
CHECK_DEADLOCK FALSE

SPECIFICATION Spec
CONSTANTS
  Retention = 1
  RetainLast = 2
  MinInputFiles = 2
  Retries = 1
  MaxTime = 2
  MaxAppends = 2
  MaxDagRuns = 1
  MaxManual = 1
INVARIANTS EveryRowOnce SuccessIsUnchanged UndisturbedSucceeds SnapshotsAreReadable
CHECK_DEADLOCK FALSE

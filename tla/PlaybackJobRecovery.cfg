SPECIFICATION Spec
CONSTANTS
  Partitions = {"p1", "p2"}
  Ids = {"e0", "e1", "e2", "e3", "e4", "e5"}
  Keys = {"k1", "k2"}
  MaxTime = 5
  Logs <- InTimeOrNullLogs
  LateHandling = TRUE
  DedupEnabled = TRUE
  SlowPartitions = FALSE
  Ttl = 1
  WatermarkDelay = 2
  WindowSize = 2
  RestartAttempts = 1
  TolerableFailures = 1
  MaxNow = 0
  MaxCheckpoints = 1
  MaxFaults = 2
  MaxSubmissions = 1
INVARIANTS FiredRowsArePublished DlqIsDurable
CHECK_DEADLOCK FALSE

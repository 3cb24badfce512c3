SPECIFICATION Spec
CONSTANTS
  Partitions = {"p1", "p2"}
  Ids = {"e0", "e1", "e2", "e3", "e4", "e5"}
  Keys = {"k1", "k2"}
  MaxTime = 5
  Logs <- NullLogs
  LateHandling = TRUE
  DedupEnabled = TRUE
  SlowPartitions = FALSE
  Ttl = 1
  WatermarkDelay = 2
  WindowSize = 2
  RestartAttempts = 1
  TolerableFailures = 0
  MaxNow = 0
  MaxCheckpoints = 1
  MaxFaults = 0
  MaxSubmissions = 1
INVARIANTS ValidationNeverStopsTheJob
CHECK_DEADLOCK FALSE

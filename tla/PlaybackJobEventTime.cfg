SPECIFICATION Spec
CONSTANTS
  Partitions = {"p1", "p2"}
  Ids = {"e0", "e1", "e2", "e3", "e4", "e5"}
  Keys = {"k1", "k2"}
  MaxTime = 5
  Logs <- UnorderedLogs
  LateHandling = TRUE
  DedupEnabled = TRUE
  SlowPartitions = FALSE
  Ttl = 1
  WatermarkDelay = 2
  WindowSize = 2
  RestartAttempts = 1
  TolerableFailures = 0
  MaxNow = 1
  MaxCheckpoints = 1
  MaxFaults = 1
  MaxSubmissions = 1
INVARIANTS LateIsJustified AcceptedIsCounted DuplicatesApartByTtl
CHECK_DEADLOCK FALSE

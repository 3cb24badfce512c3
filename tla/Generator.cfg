SPECIFICATION GeneratorSpec
CONSTANTS
  Commands = {"bootstrap", "first", "second", "sameDay", "unknown", "none"}
  Requested <- Requests
  None = None
  Deliveries <- TwoOfADay
  UserCount = 3
  ContentCount = 2
  Apart <- NotWithSameDay
  Objects <- Generated
  Names <- NamesOf
  Bytes <- BytesOf
  Absent = Absent
  HistoryDays = 2
  BaseCount = 13
  RowsPerFile = 4
  RateNum = 1
  RateDen = 4
  Draw <- Extremes
  Changed <- LastUser
  Count = 7
  BufferSize = 3
  Invalids = 1
  Lates = 1
  Swaps = 2
  Duplicates = 1
  Schedules <- ThreeSchedules
  Delays = {0, 5}
  LateDelays = {900}
  WatermarkDelay = 11
INVARIANTS DoneIsStored HistoryIsWhole SummaryIsTrue FlaggedIsOvertaken OnlyMarkedIsLate
PROPERTY ObjectsAreImmutable
CHECK_DEADLOCK FALSE

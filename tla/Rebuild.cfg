SPECIFICATION Spec
CONSTANTS
  Hour = 2
  DayHours = 2
  WeekDays = 2
  MonthDays = 3
  CompletionPercent = 90
  EndOfTime = 99
  Landings <- Everything
  LastTime = 9
  Introduced = 2
INVARIANTS UserHistoryIsAsOf EveryFactResolves RollupsKeepTotals ReingestionChangesNothing HistoryIsDeliveries FeaturesArePointInTime
CHECK_DEADLOCK FALSE

SPECIFICATION Spec
CONSTANTS
  Hour = 2
  DayHours = 2
  WeekDays = 2
  MonthDays = 3
  CompletionPercent = 90
  EndOfTime = 99
  Rows <- LateUser
  Delivered <- NewSession
  Starts <- EmptyOrFirst
  Retries = 1
  MaxIngests = 1
  MaxDp2Runs = 1
  MaxDp3Runs = 1
INVARIANTS SilverIsOfOneReading GoldIsOfOneSilver ServingCoversTheMart SuccessIsComplete FeaturesAreOfOneGold
CHECK_DEADLOCK FALSE

SPECIFICATION Spec
CONSTANTS
  casual = casual
  sick = sick
  earned = earned
  None = None
  NoCap = NoCap
  Buckets = {earned}
  Rule <- OneRule
  Joined <- OneStart
  Months = 2
  MonthDays = 2
  GraceDays = 2
  MaxDay = 5
  MaxPosts = 0
  MaxCrashes = 0
CHECK_DEADLOCK FALSE
INVARIANTS
  EveryPeriodCredited

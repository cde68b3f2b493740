SPECIFICATION MCSpec
CONSTANTS
  casual = casual
  sick = sick
  earned = earned
  None = None
  NoCap = NoCap
  Buckets = {casual, earned, sick}
  Rule <- ThreeRules
  Joined <- SecondMonth
  Months = 2
  MonthDays = 2
  GraceDays = 2
  MaxDay = 6
  MaxPosts = 3
  MaxCrashes = 2
CHECK_DEADLOCK FALSE
INVARIANTS
  AccruedOnce
  CapsHold
  
  CreditedInTime
  Conserved
  

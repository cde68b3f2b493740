SPECIFICATION MCSpec
CONSTANTS
  c1 = c1
  c2 = c2
  c3 = c3
  l1 = l1
  l2 = l2
  p1 = p1
  p2 = p2
  None = None
  Callers = {p1, p2}
  Claims = {c1, c2, c3}
  Leaves = {l1, l2}
  WorkDay <- Days
  Worth <- Worths
  LeaveDay <- Starts
  Length <- Lengths
  ChainOf <- Chains
  Validity = 3
  RetroDays = 2
  YearDays = 4
  MaxDay = 4
  MaxCrashes = 1
CHECK_DEADLOCK FALSE
INVARIANTS
  GrantedOnce
  LotCovered
  SerialLotExplained
PROPERTIES
  SerialExpiredLapses

SPECIFICATION MCSpec
CONSTANTS
  r1 = r1
  r2 = r2
  r3 = r3
  None = None
  Requests = {r1, r2, r3}
  MonthOf <- ThreeRequests
  LastMonth = 2
  Payments = {x1, x2}
  Recoveries = {y1, y2, y3}
  Procs = {p1, p2}
  Flows = {"approve", "reject", "disburse", "pay", "generate", "reverse", "remove"}
  Lockable = {2}
  MaxCrashes = 1
SYMMETRY Symmetry
CHECK_DEADLOCK FALSE
INVARIANTS
  RecoveryHasPayout
  PaymentRecoveredOnce
  SerialRecoveredOnce
  SerialReversedNotRecovered
PROPERTIES
  SerialSinglePayout

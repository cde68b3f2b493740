SPECIFICATION LiveSpec
CONSTANTS
  r1 = r1
  r2 = r2
  r3 = r3
  None = None
  Requests = {r1}
  MonthOf <- OneRequest
  LastMonth = 2
  Payments = {x1, x2}
  Recoveries = {y1, y2, y3}
  Procs = {p1}
  Flows = {"approve", "reject", "disburse", "pay", "generate", "reverse", "remove"}
  Lockable = {1}
  MaxCrashes = 1
CHECK_DEADLOCK FALSE
PROPERTIES
  PaidIsRecovered

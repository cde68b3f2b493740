SPECIFICATION Spec
CONSTANTS
  r1 = r1
  r2 = r2
  r3 = r3
  None = None
  Requests = {r1}
  MonthOf <- OneRequest
  LastMonth = 2
  Payments = {x1, x2}
  Recoveries = {y1, y2}
  Procs = {p1}
  Flows = {"approve", "pay"}
  Lockable = {}
  MaxCrashes = 0
SYMMETRY Symmetry
CHECK_DEADLOCK FALSE
INVARIANTS
  SinglePayout

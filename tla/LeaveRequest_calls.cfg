SPECIFICATION MCSpec
CONSTANTS
  r1 = r1
  r2 = r2
  r3 = r3
  None = None
  Callers = {p1, p2}
  Entries = {}
  Deltas = {}
  RetryLimit = 2
  MaxCrashes = 1
  Requests = {r1, r2, r3}
  DaysOf <- Days
  ChainOf <- Chains
  Annual = 2
SYMMETRY Symmetry
CHECK_DEADLOCK FALSE
INVARIANTS
  UsageOnce
  BooksAgree
  SerialAccountKept
PROPERTIES
  VerdictStands

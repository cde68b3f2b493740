SPECIFICATION Spec
CONSTANTS
  free = free pro = pro max = max
  o1 = o1 o2 = o2 u1 = u1 l1 = l1 m1 = m1 r1 = r1 r2 = r2
  None = None
  Procs = {p1, p2}
  Worker = w
  Plans = {free, pro, max}
  Base = free
  Tier <- Tiers
  Bought = {o1, o2, u1, l1, m1, r1, r2}
  Payments = {o1, o2, u1, l1}
  KindOf <- Kinds
  PlanOf <- Prices
  Mandate = {m1}
  MandatePlan <- Renewals
  Requests = {r1, r2}
  PayOf <- Reasons
  Total = 2
  Grace = 1
  LastCycle = 2
  LastHalt = 2
  MaxRows = 3
  CrashLimit = 1
  Traffics <- UpgradeTraffic
INVARIANT UpgradeApplied
CHECK_DEADLOCK FALSE

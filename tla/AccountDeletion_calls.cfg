SPECIFICATION MCSpec
CONSTANTS
  a = a c = c
  w1 = w1 w2 = w2
  p1 = p1 p2 = p2
  Users = {a, c}
  Admins = {a, c}
  Workspaces = {w1, w2}
  OwnerOf <- OneOwner
  Scopes = {"account", "erp"}
  Procs = {p1, p2}
  Flows = {"schedule", "erase", "finalize", "restore", "create", "remove", "restoreWs", "status", "softDelete"}
  Limit = 1
  Grace = 1
  LastDay = 2
  Midnight = TRUE
  Overrun = FALSE
  MaxFaults = 1
  None = None
INVARIANTS PurgedIsErased AdminRemains
PROPERTIES SweepErasesDue RecoveryLeavesEarlier SerialPendingEnds
CHECK_DEADLOCK FALSE

SPECIFICATION LiveSpec
CONSTANTS
  c1 = c1
  c2 = c2
  c3 = c3
  c4 = c4
  k1 = k1
  Nobody = Nobody
  Calls = {c1, c2, c3, c4}
  Keys = {k1}
  KeyOf <- OneKey
  Waiting = {c1, c2}
  Overrun = TRUE
  MaxCrashes = 2
CHECK_DEADLOCK FALSE
INVARIANTS
  MutualExclusion
PROPERTIES
  WaiterAnswered

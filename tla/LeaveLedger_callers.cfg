SPECIFICATION Spec
CONSTANTS
  Callers = {p1, p2, p3}
  Entries <- TwoEntries
  Deltas <- TwoDeltas
  RetryLimit = 3
  MaxCrashes = 1
SYMMETRY Symmetry
CHECK_DEADLOCK FALSE
INVARIANTS
  SeqDense
  ProjectionIsPrefix
  NeverExhausted
PROPERTIES
  KeepsAccount

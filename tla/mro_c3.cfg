SPECIFICATION Spec
CONSTANTS
  MaxClass = 5
  MaxBases = 2
INVARIANTS
  OrderIsAbove
  Monotonic
  RefusedOnlyWhenInconsistent
  EarliestFirst
CHECK_DEADLOCK FALSE

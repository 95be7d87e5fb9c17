SPECIFICATION Spec
CONSTANTS
  MaxTime = 1
  MaxUid = 11
  Capacity = 7
INVARIANT NothingBeforeClock

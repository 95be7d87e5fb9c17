SPECIFICATION Spec
CONSTANTS
  MaxTime = 4
  MaxUid = 10
  Capacity = 5
  MaxBuckets = 32768
  TwoTo32 = 4
INVARIANT NeverDividesByZero

SPECIFICATION Spec
CONSTANTS
  MaxTime = 5
  MaxUid = 6
  Capacity = 2
  MaxBuckets = 32768
  TwoTo32 = 4
INVARIANT PeekIsNext

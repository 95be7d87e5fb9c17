SPECIFICATION Spec
CONSTANTS
  a = a
  b = b
  c = c
  None = None
  Station <- Stations
  Metric <- Row
  Flow <- ToC
  Flags <- AllFlags
  MaxRetries = 1
  MaxQueueSize = 1
  MaxTtl = 3
  MaxPackets = 2
  MaxFaults = 1
  MaxFrames = 1
INVARIANTS TypeOK QueuedIsPending LoopFree NumbersAreGenuine
CHECK_DEADLOCK FALSE

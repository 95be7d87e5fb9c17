SPECIFICATION Spec
CONSTANTS
  a = a
  b = b
  c = c
  None = None
  Station <- Stations
  Metric <- Row
  Flow <- ToC
  Flags <- DefaultFlags
  MaxRetries = 1
  MaxQueueSize = 1
  MaxTtl = 3
  MaxPackets = 2
  MaxFaults = 1
  MaxFrames = 1
INVARIANT QueueWithinLimit
CHECK_DEADLOCK FALSE

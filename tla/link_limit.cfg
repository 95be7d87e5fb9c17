SPECIFICATION Spec
CONSTANTS
  s1 = s1
  s2 = s2
  s3 = s3
  Station <- MCStation
  Pair <- MCPair
  MaxPeerLinks <- OneLinkEach
  MaxRetries = 1
  MaxPacketFail = 1
  MaxFrames = 2
  MaxLinks <- BothNeighbours
CHECK_DEADLOCK FALSE
INVARIANT WithinLimit

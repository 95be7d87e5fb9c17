SPECIFICATION FairSpec
CONSTANTS
  s1 = s1
  s2 = s2
  s3 = s3
  Station <- MCStation
  Pair <- MCPair
  MaxPeerLinks <- MCMaxPeerLinks
  MaxRetries = 1
  MaxPacketFail = 1
  MaxFrames = 2
  MaxLinks <- MCMaxLinks
CHECK_DEADLOCK FALSE
INVARIANTS
  TypeOK
  TimersMatchState
  LinksCounted
  IdsAgree
PROPERTY NegotiationEnds

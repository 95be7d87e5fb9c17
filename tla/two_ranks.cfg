SPECIFICATION Spec
CONSTANTS
  l1 = l1
  l2 = l2
  N = 2
  NumNodes = 3
  NoContext = 99
  SystemId <- TwoRanks
  Link = {l1, l2}
  Ends <- Chain
  Delay <- DelayShortLocal
  Devices <- ChainDevices
  Installed <- OwnNodes
  TxTime = {1}
  StepDelay = {0, 5}
  StopTime = 8
  ReclusteringInterval = 9
  Slot = {s1, s2}
  NoMsg = NoMsg
  W = 3
  MaxUid = 13
SYMMETRY Symmetry
INVARIANTS NoStrandedRank InductiveInvariant TypeOK NoEventFromThePast ReceiverPresent TransientsDetected StopLosesNothing
PROPERTY GrantNeverRetracted

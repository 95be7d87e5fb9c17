SPECIFICATION FairSpec
CONSTANTS
  l1 = l1
  l2 = l2
  N = 3
  NumNodes = 3
  NoContext = 99
  SystemId <- ThreeRanks
  Link = {l1, l2}
  Ends <- Chain
  Delay <- DelayUnequal
  Devices <- ChainDevices
  Installed <- OwnNodes
  TxTime = {1}
  StepDelay = {1}
  StopTime = 4
  ReclusteringInterval = 9
  Slot = {s1, s2}
  NoMsg = NoMsg
  W = 3
  MaxUid = 10
PROPERTY RunReturns
CHECK_DEADLOCK FALSE

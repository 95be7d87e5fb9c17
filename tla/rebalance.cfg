SPECIFICATION FairLbSpec
CONSTANTS
  l1 = l1
  l2 = l2
  N = 2
  NumNodes = 3
  NoContext = 99
  SystemId <- TwoRanks
  Link = {l1}
  Ends <- OneLink
  Delay <- OneDelay
  Devices <- OneLinkDevices
  Installed <- OwnNodes
  TxTime = {1}
  StepDelay = {1}
  StopTime = 5
  ReclusteringInterval = 2
  Slot = {s1, s2}
  NoMsg = NoMsg
  W = 3
  MaxUid = 17
  Clusterings <- AnyClustering
INVARIANTS LbTypeOK AtMostOneExecutor BarriersAgree NoEventFromThePast
PROPERTY RunReturns

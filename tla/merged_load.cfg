SPECIFICATION Spec
CONSTANTS
  l1 = l1
  l2 = l2
  N = 3
  Node = {n1}
  Link = {l1, l2}
  IsRemote <- ThreeRanks
  Garbage = {3}
  W = 64
  MaxWork = 1
  MaxIteration = 2
INVARIANT LoadIsHandled

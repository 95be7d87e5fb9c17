SPECIFICATION FairSpec
CONSTANTS
  Worker = {w1}
  Delay = {0, 2}
  IdleDelay = 2
  Spin = 1
  NsPerSec = 100
  MaxNow = 2
  MaxUid = 7
  MaxRuns = 1
  None = None
INVARIANTS TypeOK NoLostWakeup HeadIsDue NoEventFromThePast
PROPERTY EveryEventRuns

SPECIFICATION Spec
CONSTANTS
  W = 16
  Delay = {0, 1}
  MaxEvents = 4
  MaxRuns = 2
INVARIANTS NeitherLostNorDoubled ExpiryIsExact NoEventUncounted RevokedStaysSilent NoEventFromThePast InjectionOrderKept

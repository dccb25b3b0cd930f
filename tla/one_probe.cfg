\* The half-open breaker against what CircuitBreaker says of it; the instance of pool.cfg.
CONSTANTS
  n1 = n1
  n2 = n2
  c1 = c1
  c2 = c2
  c3 = c3
  Name <- MCName
  Caller <- MCCaller
  Target <- MCTarget
  Threshold = 2
  Cooldown = 2
SPECIFICATION FairSpec
PROPERTY OneProbe

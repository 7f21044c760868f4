\* One answer of L1 is lost.
SPECIFICATION Spec
CONSTANTS
  r1 = r1  r2 = r2
  Runners = {r1}
  MAX_ATTEMPTS = 3
  BATCH_SIZE = 1
  MaxPayouts = 1
  MaxFaults = 0
  MaxLost = 1
  MaxRestarts = 0
INVARIANT PaidAtMostOnce
CHECK_DEADLOCK FALSE

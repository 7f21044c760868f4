\* Two runners with fairness, lost answers, faults and restarts.
SPECIFICATION FairSpec
CONSTANTS
  r1 = r1  r2 = r2
  Runners = {r1, r2}
  MAX_ATTEMPTS = 2
  BATCH_SIZE = 2
  MaxPayouts = 3
  MaxFaults = 1
  MaxLost = 1
  MaxRestarts = 1
INVARIANTS TypeOK ClaimExclusive PaidTwiceOnlyIfLost SubmittedWasAccepted
PROPERTIES FinalStaysFinal QueueKeepsPromise EventuallyProcessed
CHECK_DEADLOCK FALSE

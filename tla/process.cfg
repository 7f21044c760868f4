\* One service process, its operator and wallets that retry.
SPECIFICATION FairSpec
CONSTANTS
  pool = pool  other = other
  Unset = Unset  Missing = Missing  NoKey = NoKey
  Addresses = {pool, other}
  Requests <- MCRequests
  Configs <- MCConfigs
  Keyfiles <- MCKeyfiles
  TIMESTAMP_WINDOW_SECONDS = 2
  GRACE = 1
  MaxLag = 1
  MaxTime = 5
  MaxBoots = 3
INVARIANTS TypeOK ServedTwiceOnlyIfAhead KeyFitsSettings
PROPERTY RecoversOnceKeyIsRight
CHECK_DEADLOCK FALSE

\* The snapshot command is run again while a request waits for its block.
SPECIFICATION FairSpec
CONSTANTS
  a1 = a1  a2 = a2  old1 = old1  old2 = old2  begin2 = begin2
  Escrow = Escrow  RewardsPool = RewardsPool  Watcher = Watcher
  Accounts = {a1, a2}
  OldAddrs = {}
  Truncated = {}
  ADDRESS_MIGRATIONS <- NoMigrations
  StartsWith = {}
  MinStake <- MCMinStake
  Blocks <- OneDeposit
  Cooldown = 1
  Snapshots = {s1}
  MaxHeight = 2
  MaxLaunches = 2
  MaxFails = 0
  Handlers = {k1}
  UserAmounts = {2}
  MaxRequests = 1
PROPERTY EveryBlockUnlocks

\* The round trip of a stake, with a failure, a snapshot rerun and a reader.
SPECIFICATION ServiceFairSpec
CONSTANTS
  a1 = a1  a2 = a2
  Escrow = Escrow  RewardsPool = RewardsPool  Watcher = Watcher
  Accounts = {a1, a2}
  OldAddrs = {}
  Truncated = {}
  ADDRESS_MIGRATIONS <- NoMigrations
  StartsWith = {}
  MinStake <- MCMinStake
  Blocks <- MCBlocks
  Genesis <- DepositBlocks
  UserBlocks <- EmptyBlocks
  Cooldown = 1
  Snapshots = {s1}
  MaxHeight = 2
  MaxLaunches = 2
  MaxFails = 1
  Handlers = {k1}
  UserAmounts = {2}
  MaxRequests = 1
  MaxReads = 1
INVARIANTS StatsAccounted WithdrawalsAreRefunds
PROPERTIES WatcherCatchesUp RefundEventuallyQueued

\* Calls and blocks, taking turns where they meet in a staker's rows.
SPECIFICATION LockedSpec
CONSTANTS
  a1 = a1  a2 = a2  old1 = old1  old2 = old2  begin2 = begin2
  Escrow = Escrow  RewardsPool = RewardsPool  Watcher = Watcher
  Accounts = {a1, a2}
  OldAddrs = {}
  Truncated = {}
  ADDRESS_MIGRATIONS <- NoMigrations
  StartsWith = {}
  MinStake <- MCMinStake
  Blocks <- LockedBlocks
  Cooldown = 1
  Snapshots = {s1}
  MaxHeight = 1
  MaxLaunches = 2
  MaxFails = 0
  Handlers = {k1, k2}
  UserAmounts = {2, 3}
  MaxRequests = 3
INVARIANTS StakeWithinEvents TierCacheFresh UnstakesBacked

\* One request after one deposit, nothing else that moves a stake.
SPECIFICATION ServiceSpec
CONSTANTS
  a1 = a1  a2 = a2
  Escrow = Escrow  RewardsPool = RewardsPool  Watcher = Watcher
  Accounts = {a1, a2}
  OldAddrs = {}
  Truncated = {}
  ADDRESS_MIGRATIONS <- NoMigrations
  StartsWith = {}
  MinStake <- MCMinStake
  Blocks <- MCBlocks
  Genesis <- DepositBlocks
  UserBlocks <- EmptyBlocks
  Cooldown = 1
  Snapshots = {s1}
  MaxHeight = 2
  MaxLaunches = 1
  MaxFails = 0
  Handlers = {k1}
  UserAmounts = {2}
  MaxRequests = 1
  MaxReads = 0
INVARIANT StakeMatchesRefunds

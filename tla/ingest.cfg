\* The watcher and two snapshot commands over one database, with failures.
SPECIFICATION Spec
CONSTANTS
  a1 = a1  a2 = a2  old1 = old1  old2 = old2  begin2 = begin2
  Escrow = Escrow  RewardsPool = RewardsPool  Watcher = Watcher
  Accounts = {a1, a2}
  OldAddrs = {old1, old2}
  Truncated = {begin2}
  ADDRESS_MIGRATIONS <- MCMigrations
  StartsWith <- MCStartsWith
  MinStake <- MCMinStake
  Blocks <- IngestBlocks
  Cooldown = 1
  Snapshots = {s1, s2}
  MaxHeight = 2
  MaxLaunches = 2
  MaxFails = 1
  Handlers = {}
  UserAmounts = {1}
  MaxRequests = 0
INVARIANTS BlockAtomic NoBlockSkipped RewardsConserved TierCacheFresh
PROPERTY LedgerIsReplay

\* Two handlers while the watcher applies blocks and unlocks requests.
SPECIFICATION Spec
CONSTANTS
  a1 = a1  a2 = a2  old1 = old1  old2 = old2  begin2 = begin2
  Escrow = Escrow  RewardsPool = RewardsPool  Watcher = Watcher
  Accounts = {a1, a2}
  OldAddrs = {}
  Truncated = {}
  ADDRESS_MIGRATIONS <- NoMigrations
  StartsWith = {}
  MinStake <- MCMinStake
  Blocks <- BusyBlocks
  Cooldown = 2
  Snapshots = {s1}
  MaxHeight = 3
  MaxLaunches = 1
  MaxFails = 0
  Handlers = {k1, k2}
  UserAmounts = {2}
  MaxRequests = 3
INVARIANTS TypeOK NoRefundClash ReadyHasRefund
PROPERTY RefundAfterCooldown

\* Two handlers serve two unstake requests of one staker.
SPECIFICATION Spec
CONSTANTS
  a1 = a1  a2 = a2  old1 = old1  old2 = old2  begin2 = begin2
  Escrow = Escrow  RewardsPool = RewardsPool  Watcher = Watcher
  Accounts = {a1, a2}
  OldAddrs = {}
  Truncated = {}
  ADDRESS_MIGRATIONS <- NoMigrations
  StartsWith = {}
  MinStake <- MCMinStake
  Blocks <- OneDeposit
  Cooldown = 9
  Snapshots = {s1}
  MaxHeight = 0
  MaxLaunches = 1
  MaxFails = 0
  Handlers = {k1, k2}
  UserAmounts = {5}
  MaxRequests = 2
INVARIANT UnstakesBacked

-------------------------- MODULE MCStakingService --------------------------
(* Small instances of StakingService. *)
EXTENDS StakingService, TLC

CONSTANTS a1, a2

NoMigrations == <<>>

MCMinStake == [Bronze |-> 2, Silver |-> 4, Gold |-> 6, Diamond |-> 8]

\* A deposit and an inflow, or nothing.
EmptyBlocks == {<<>>}
DepositBlocks ==
  {<<[type |-> "transfer", from |-> a1, to |-> Escrow, amount |-> 3, hashed |-> TRUE],
     [type |-> "transfer", from |-> a2, to |-> RewardsPool, amount |-> 4, hashed |-> TRUE]>>}
BusyBlocks == DepositBlocks \cup EmptyBlocks

MCBlocks ==
  BusyBlocks \cup {<<RefundTx(a, m)>> : a \in Accounts, m \in UserAmounts}
=============================================================================

--------------------------- MODULE MCStakeLedger ---------------------------
(* Small instances of StakeLedger. *)
EXTENDS StakeLedger, TLC

CONSTANTS a1, a2, old1, old2, begin2

\* old1 is found by all of its text, old2 by its beginning; the table has the
\* current address of old1, and only the beginning of a2 for old2.
MCMigrations == <<[old |-> old1, new |-> a1], [old |-> "NPC5e", new |-> begin2]>>
MCStartsWith == {<<old1, old1>>, <<old2, "NPC5e">>, <<a2, begin2>>}

NoMigrations == <<>>

MCMinStake == [Bronze |-> 2, Silver |-> 4, Gold |-> 6, Diamond |-> 8]

T(type, from, to, amount) ==
  [type |-> type, from |-> from, to |-> to, amount |-> amount, hashed |-> TRUE]

Deposit(a, m) == T("transfer", a, Escrow, m)
Refund(a, m) == T("transfer", Escrow, a, m)
PoolPay(m) == T("transfer", a2, RewardsPool, m)

\* Deposits of old and of current addresses, a refund below zero, a legacy
\* stake, two inflows in one block, and a transaction without hash.
IngestBlocks ==
  {<<[Deposit(a2, 9) EXCEPT !.hashed = FALSE], Deposit(old1, 2), PoolPay(5)>>,
   <<PoolPay(3), T("stake", old2, a2, 3), Refund(a1, 3), PoolPay(4)>>}

\* One deposit.
OneDeposit == {<<Deposit(a1, 5)>>}

\* Deposits of two users, next to an inflow, and a refund.
LockedBlocks == {<<Deposit(a1, 3), PoolPay(4), Deposit(a2, 2)>>, <<Refund(a1, 2)>>}

\* Two inflows in one block.
TwoInflows == {<<PoolPay(3), PoolPay(4)>>}

\* Deposits and inflows while users call the API.
BusyBlocks == {<<Deposit(a1, 3), PoolPay(4)>>, <<>>}
=============================================================================

------------------------------ MODULE StakeDb ------------------------------
(***************************************************************************)
(* The committed state of the staking service: the PostgreSQL tables of    *)
(* src/db/models.py, the L1 chain they are built from, and the pure        *)
(* functions of migrations.py, tiers.py and ledger.py every writer uses.   *)
(*                                                                         *)
(* Abstractions.  A table row that does not exist yet is the row of zeros  *)
(* that _get_or_create_staker and _get_or_create_watcher_state insert: no  *)
(* reader tells the two apart.  Timestamps, heights kept for display       *)
(* (first_stake_height, last_activity_height) and notes are left out.  A   *)
(* transaction's hash is its position in the chain.                        *)
(***************************************************************************)
EXTENDS Integers, Sequences, FiniteSets

CONSTANTS
  Accounts,     \* current user addresses
  Escrow,       \* settings.stake_address, which is also settings.pool_address
  RewardsPool,  \* VALIDATOR_REWARDS_ADDRESS
  OldAddrs,     \* addresses of users from before a migration
  Truncated,    \* migration targets that are only the beginning of an address
  ADDRESS_MIGRATIONS, \* sequence of [old, new], in the order of the table
  StartsWith,   \* pairs <<a, p>>: address a starts with the text p
  MinStake,     \* tier thresholds: [tier name -> base units]
  Cooldown,     \* settings.unstake_cooldown_blocks
  Blocks        \* the blocks L1 may produce: a set of sequences of Tx

Addrs == Accounts \cup Truncated \cup {Escrow, RewardsPool}
RawAddrs == Addrs \cup OldAddrs

TIERS == <<"Diamond", "Gold", "Silver", "Bronze">>
TierNames == {TIERS[i] : i \in 1..Len(TIERS)} \cup {"None"}

\* A transaction as GET /api/v1/block/{height} reports it.
Tx == [type : {"transfer", "stake", "unstake", "other"}, from : RawAddrs,
       to : RawAddrs, amount : Nat, hashed : BOOLEAN]

ASSUME TierAssumption == \A i \in 1..Len(TIERS) : MinStake[TIERS[i]] \in Nat

ASSUME BlockAssumption == Blocks \subseteq Seq(Tx) /\ Cooldown \in Nat

VARIABLES
  chain,               \* the L1 blocks; height h is chain[h + 1]
  watcher_state,       \* [last_processed_height, snapshot_complete]
  stakers,             \* [address -> [staked_amount, tier]]
  stake_events,        \* set of events, unique on (address, tx_hash, type)
  validator_rewards,   \* [address -> pending_rewards]
  reward_pool_inflows, \* set of inflows, unique on block_height
  unstake_requests,    \* sequence of requests, the index is the id
  pending_payouts      \* set of refunds queued by enqueue_payout, unique on ref

ledgerVars == <<stakers, stake_events, validator_rewards, reward_pool_inflows>>
unstakeVars == <<unstake_requests, pending_payouts>>

Tip == Len(chain) - 1
last == watcher_state.last_processed_height
complete == watcher_state.snapshot_complete

Event == [address : Addrs, event_type : {"STAKE", "UNSTAKE"}, amount : Nat,
          tx_hash : Nat \X Nat]
Inflow == [block_height : Nat, amount : Nat, dust_remaining : Int]
Request == [address : Addrs, amount : Nat, unlock_height : Nat,
            status : {"PENDING", "READY", "CANCELLED"}]
Payout == [ref : Nat, recipient : Addrs, amount : Nat]

DbTypeOK ==
  /\ chain \in Seq(Seq(Tx)) /\ chain # <<>>
  /\ watcher_state \in [last_processed_height : Nat, snapshot_complete : BOOLEAN]
  /\ stakers \in [Addrs -> [staked_amount : Nat, tier : TierNames]]
  /\ stake_events \subseteq Event
  /\ validator_rewards \in [Addrs -> Nat]
  /\ reward_pool_inflows \subseteq Inflow
  /\ unstake_requests \in Seq(Request)
  /\ pending_payouts \subseteq Payout

\* alembic upgrade head on an empty database, next to a chain with a genesis
\* block.
DbInit ==
  /\ chain \in {<<b>> : b \in Blocks}
  /\ watcher_state = [last_processed_height |-> 0, snapshot_complete |-> FALSE]
  /\ stakers = [a \in Addrs |-> [staked_amount |-> 0, tier |-> "None"]]
  /\ stake_events = {}
  /\ validator_rewards = [a \in Addrs |-> 0]
  /\ reward_pool_inflows = {}
  /\ unstake_requests = <<>>
  /\ pending_payouts = {}

-----------------------------------------------------------------------------
(* Pure functions *)

Target(found) ==
  ADDRESS_MIGRATIONS[CHOOSE i \in found : \A j \in found : i <= j].new

\* migrations.canonicalize: the entry of the address itself, else the first
\* one whose text the address starts with, else the address unchanged.
canonicalize[a \in RawAddrs] ==
  LET full   == {i \in DOMAIN ADDRESS_MIGRATIONS : ADDRESS_MIGRATIONS[i].old = a}
      prefix == {i \in DOMAIN ADDRESS_MIGRATIONS :
                   <<a, ADDRESS_MIGRATIONS[i].old>> \in StartsWith}
  IN  IF full # {} THEN Target(full) ELSE IF prefix # {} THEN Target(prefix) ELSE a

ASSUME AddressAssumption ==
  /\ IsFiniteSet(Accounts) /\ IsFiniteSet(Truncated)
  /\ \A a \in RawAddrs : canonicalize[a] \in Addrs

\* tiers.tier_for: the first entry of TIERS whose threshold is met.
tier_for(amount) ==
  LET met == {i \in 1..Len(TIERS) : amount > 0 /\ amount >= MinStake[TIERS[i]]}
  IN  IF met = {} THEN "None"
                  ELSE TIERS[CHOOSE i \in met : \A j \in met : i <= j]

\* The cases of ledger._apply_single_tx, in its order.
IsInflow(tx) ==
  tx.amount > 0 /\ tx.type = "transfer" /\ tx.to = RewardsPool

ToEscrow(tx) == canonicalize[tx.to] = Escrow
FromEscrow(tx) == canonicalize[tx.from] = Escrow

IsStake(tx) ==
  /\ tx.amount > 0 /\ ~IsInflow(tx)
  /\ \/ tx.type \in {"transfer", "stake"} /\ ToEscrow(tx) /\ ~FromEscrow(tx)
     \/ tx.type = "stake" /\ ~ToEscrow(tx)

IsUnstake(tx) ==
  /\ tx.amount > 0 /\ ~IsInflow(tx)
  /\ tx.type \in {"transfer", "unstake"} /\ FromEscrow(tx) /\ ~ToEscrow(tx)

\* _record_event refuses a transaction that has no hash.
Recordable(tx) == tx.hashed /\ (IsStake(tx) \/ IsUnstake(tx))

\* MUTANT of EventOf: every event is booked on the sender.
EventOf_Sender(tx, h, i) ==
  [address    |-> canonicalize[tx.from],
   event_type |-> IF IsStake(tx) THEN "STAKE" ELSE "UNSTAKE",
   amount     |-> tx.amount,
   tx_hash    |-> <<h, i>>]

\* The stake_events row of the transaction tx at position i of block h.
EventOf(tx, h, i) ==
  [address    |-> canonicalize[IF IsStake(tx) THEN tx.from ELSE tx.to],
   event_type |-> IF IsStake(tx) THEN "STAKE" ELSE "UNSTAKE",
   amount     |-> tx.amount,
   tx_hash    |-> <<h, i>>]

\* staked_amount after event e, the refund clamped at 0.
AmountAfter(e, amount) ==
  IF e.event_type = "STAKE" THEN amount + e.amount
  ELSE IF amount >= e.amount THEN amount - e.amount ELSE 0

\* Block h has its rows in stake_events and reward_pool_inflows, or none.
Keys(h) ==
  {EventOf(chain[h + 1][i], h, i) :
     i \in {j \in DOMAIN chain[h + 1] : Recordable(chain[h + 1][j])}}
HasInflow(h) == \E i \in DOMAIN chain[h + 1] : IsInflow(chain[h + 1][i])
InflowRecorded(h) == \E f \in reward_pool_inflows : f.block_height = h
BlockRecorded(h) == Keys(h) \subseteq stake_events /\ (HasInflow(h) => InflowRecorded(h))
BlockUntouched(h) == Keys(h) \cap stake_events = {} /\ ~InflowRecorded(h)

\* The sum of a function with natural values: the number of units it holds.
Total(f) == Cardinality(UNION {{a} \X (1..f[a]) : a \in DOMAIN f})

\* What each address gets of an inflow: (amount * stake) // total_stake.
Shares(amount, stake) ==
  LET total == Total(stake)
  IN  [a \in DOMAIN stake |->
         IF total = 0 THEN 0 ELSE (amount * stake[a]) \div total]
=============================================================================

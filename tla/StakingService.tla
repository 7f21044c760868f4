--------------------------- MODULE StakingService ---------------------------
(***************************************************************************)
(* The round trip of a stake: the ledger and the write API of StakeLedger, *)
(* L1, which mines the refunds of the payout queue (a transfer from the    *)
(* escrow, once each: the promise of Payouts when no answer is lost), and  *)
(* a reader of GET /rewards-pool/stats, whose two queries see two states.  *)
(***************************************************************************)
EXTENDS StakeLedger

CONSTANTS
  Genesis,    \* the blocks the chain may begin with
  UserBlocks, \* the blocks L1 produces from transactions of users
  MaxReads    \* bound: calls of the statistics endpoint

VARIABLES
  mined,  \* the refunds L1 has executed: a set of [ref, height]
  stats,  \* the statistics as far as the reader has them
  query,  \* queries of the call that are done; 0 between two calls
  reads   \* calls so far

readVars == <<stats, query, reads>>
serviceVars == <<vars, mined, readVars>>

\* The transaction HotKeySigner builds for a payout.
RefundTx(recipient, amount) ==
  [type |-> "transfer", from |-> Escrow, to |-> recipient, amount |-> amount,
   hashed |-> TRUE]

\* Users sign with their current addresses; the escrow is spent with the pool
\* key only.
ASSUME ServiceAssumption ==
  /\ Genesis \subseteq Blocks /\ UserBlocks \subseteq Blocks /\ MaxReads \in Nat
  /\ \A a \in Accounts, m \in UserAmounts : <<RefundTx(a, m)>> \in Blocks
  /\ \A a \in Accounts : canonicalize[a] = a
  /\ \A b \in Genesis \cup UserBlocks : \A i \in DOMAIN b : ~IsUnstake(b[i])

NoStats == [total_inflow |-> 0, total_dust |-> 0, total_pending |-> 0]

ServiceInit ==
  /\ Init /\ chain \in {<<b>> : b \in Genesis}
  /\ mined = {} /\ stats = NoStats /\ query = 0 /\ reads = 0

-----------------------------------------------------------------------------
\* L1 executes a queued refund.
MineRefund(q) ==
  /\ \A m \in mined : m.ref # q.ref
  /\ Mine(<<RefundTx(q.recipient, q.amount)>>)
  /\ mined' = mined \cup {[ref |-> q.ref, height |-> Tip + 1]}
  /\ UNCHANGED <<apiVars, readVars>>

InflowTotals ==
  [stats EXCEPT
     !.total_inflow = Total([f \in reward_pool_inflows |-> f.amount]),
     !.total_dust = Total([f \in reward_pool_inflows |-> f.dust_remaining])]
RewardTotals == [stats EXCEPT !.total_pending = Total(validator_rewards)]

\* MUTANT of QueryResult: the rewards are summed up before the inflows.
QueryResult_RewardsFirst(n) == IF n = 1 THEN RewardTotals ELSE InflowTotals

\* get_rewards_pool_stats: the n-th query.  total_claimed stays 0, for no
\* claim gets through.
QueryResult(n) == IF n = 1 THEN InflowTotals ELSE RewardTotals

ReadStats ==
  /\ reads < MaxReads
  /\ stats' = QueryResult(query + 1)
  /\ query' = (query + 1) % 2
  /\ reads' = IF query = 1 THEN reads + 1 ELSE reads
  /\ UNCHANGED <<vars, mined>>

ServiceNext ==
  \/ \E b \in UserBlocks : Mine(b) /\ UNCHANGED <<apiVars, mined, readVars>>
  \/ \E q \in pending_payouts : MineRefund(q)
  \/ IngestWork /\ UNCHANGED <<apiVars, mined, readVars>>
  \/ ApiNext /\ UNCHANGED <<ingestVars, mined, readVars>>
  \/ ReadStats

ServiceSpec == ServiceInit /\ [][ServiceNext]_serviceVars

\* As in StakeLedger.  Nothing is assumed of L1, of users or of readers.
ServiceFairness ==
  /\ WF_serviceVars((ReadTip(Watcher) \/ WatcherStep) /\ UNCHANGED <<apiVars, mined, readVars>>)
  /\ \A s \in Snapshots :
       WF_serviceVars(SnapshotStep(s) /\ UNCHANGED <<apiVars, mined, readVars>>)
  /\ \A k \in Handlers :
       WF_serviceVars(HandlerStep(k) /\ UNCHANGED <<ingestVars, mined, readVars>>)

ServiceFairSpec == ServiceSpec /\ ServiceFairness

-----------------------------------------------------------------------------
(* Properties *)

\* get_rewards_pool_stats: blocks may be committed between its two queries,
\* but what the answer shows as paid in is never more than what it accounts
\* for, as credited or as dust.
StatsAccounted ==
  query = 0 => stats.total_inflow <= stats.total_pending + stats.total_dust

\* request_unstake, process_unlocked_unstakes, HotKeySigner and the ledger in
\* a row: what the ledger books as a withdrawal is the refund of a request,
\* over its amount and on the address that asked for it.
WithdrawalsAreRefunds ==
  \A e \in stake_events : e.event_type = "UNSTAKE" =>
    \E m \in mined :
      /\ e.tx_hash = <<m.height, 1>>
      /\ e.address = unstake_requests[m.ref].address
      /\ e.amount = unstake_requests[m.ref].amount

\* What a was promised and the ledger has not seen leave the escrow yet.
Owed(a) ==
  LET booked == {m.ref : m \in {n \in mined : \E e \in stake_events : e.tx_hash = <<n.height, 1>>}}
  IN  Total([r \in OpenRequests(a) \ booked |-> unstake_requests[r].amount])

\* models.StakeEvent: staked_amount does not diverge from the events, less
\* what is on its way out.
StakeMatchesRefunds ==
  \A a \in Addrs : stakers[a].staked_amount + Owed(a) = Deposited(a) - Withdrawn(a)
=============================================================================

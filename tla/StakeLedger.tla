---------------------------- MODULE StakeLedger ----------------------------
(***************************************************************************)
(* The ingesters and the write API over one database: everything that      *)
(* changes a stake, a reward or an unstake request.                        *)
(***************************************************************************)
EXTENDS BlockIngest, WriteApi, LedgerReplay

vars == <<chain, watcher_state, ledgerVars, unstakeVars, ingestVars, apiVars>>

Init == DbInit /\ IngestInit /\ ApiInit

Next ==
  \/ IngestNext /\ UNCHANGED apiVars
  \/ ApiNext /\ UNCHANGED ingestVars

Spec == Init /\ [][Next]_vars

\* Tasks of the event loop and the snapshot command are never starved, and no
\* database statement waits for ever.  Nothing is assumed of L1, of users or
\* of the operator, who may never launch the snapshot command (again).
Fairness ==
  /\ WF_vars((ReadTip(Watcher) \/ WatcherStep) /\ UNCHANGED apiVars)
  /\ \A s \in Snapshots : WF_vars(SnapshotStep(s) /\ UNCHANGED apiVars)
  /\ \A k \in Handlers : WF_vars(HandlerStep(k) /\ UNCHANGED ingestVars)

FairSpec == Spec /\ Fairness

-----------------------------------------------------------------------------
(* What the service keeps whatever the interleaving *)

\* Every table and every local value has its type; in particular no
\* staked_amount is ever negative (the max(0, ...) of _apply_single_tx, the
\* check of request_unstake).
TypeOK == DbTypeOK /\ IngestTypeOK /\ ApiTypeOK

\* apply_block_transactions: a block's events and its pool inflow become
\* visible together or not at all, although the rollback in _record_event
\* drops the rows written so far and the loop then goes on and commits.
BlockAtomic == \A h \in 0..Tip : BlockRecorded(h) \/ BlockUntouched(h)

\* run_snapshot and _tick resume after last_processed_height, so every block
\* up to it must be in the ledger: after a crash at any point, and when an
\* operator runs the snapshot command while the watcher works.
NoBlockSkipped ==
  \A h \in 0..Tip : h <= last /\ (last > 0 \/ complete) => BlockRecorded(h)

\* What the first pool transfer of block h pays in.
FirstInflow(h) ==
  LET block == chain[h + 1]
      first == CHOOSE i \in DOMAIN block :
                 IsInflow(block[i]) /\ \A j \in 1..(i - 1) : ~IsInflow(block[j])
  IN  block[first].amount

\* What is booked as paid in is either credited to a staker or booked as dust.
PoolBalanced ==
  Total(validator_rewards) + Total([f \in reward_pool_inflows |-> f.dust_remaining])
    = Total([f \in reward_pool_inflows |-> f.amount])

\* Inflow f is the only one of its block, over what the first transfer paid in.
BookedOnce(f) ==
  /\ f.block_height \in 0..Tip /\ HasInflow(f.block_height)
  /\ f.amount = FirstInflow(f.block_height)
  /\ \A g \in reward_pool_inflows : g.block_height = f.block_height => g = f

\* _credit_validator_rewards_pool: the inflows booked are, block by block and
\* once, what the first pool transfer of the block paid in, and all of it is
\* either credited to a staker or booked as dust, to the unit.
RewardsConserved == PoolBalanced /\ \A f \in reward_pool_inflows : BookedOnce(f)

\* models.RewardPoolInflow: the ledger of how much L1 paid into the pool, per
\* block.
InflowsMatchPaid ==
  \A h \in 0..Tip :
    LET paid == {i \in DOMAIN chain[h + 1] : IsInflow(chain[h + 1][i])}
    IN  BlockRecorded(h) =>
          Total([f \in {f \in reward_pool_inflows : f.block_height = h} |-> f.amount])
            = Total([i \in paid |-> chain[h + 1][i].amount])

\* models.Staker: tier is the one tier_for gives for staked_amount.
TierCacheFresh ==
  \A a \in Addrs : stakers[a].tier = tier_for(stakers[a].staked_amount)

\* enqueue_payout answers a second payout for a ref by session.rollback(),
\* which would throw away the block the watcher is about to commit.  The
\* watcher never gets there: what it is about to enqueue has no payout yet.
NoRefundClash ==
  \A r \in txn[Watcher].ready : \A q \in pending_payouts : q.ref # r

\* UnstakeRequest lifecycle: a READY request has its refund in the queue, to
\* the address and over the amount of the request, and only one.
ReadyHasRefund ==
  \A r \in DOMAIN unstake_requests :
    /\ unstake_requests[r].status = "READY" => RefundOf(r) \in pending_payouts
    /\ \A q \in pending_payouts : q.ref = r => q = RefundOf(r)

\* process_unlocked_unstakes queues a refund only with the block that ends
\* the cooldown, or a later one.
RefundAfterCooldown ==
  [][\A q \in pending_payouts' \ pending_payouts :
       watcher_state'.last_processed_height >= unstake_requests[q.ref].unlock_height]_vars

\* Once the snapshot is complete the watcher gets to every mined block and has
\* it in the ledger, however often its ticks fail and whatever a second snapshot
\* does.
WatcherCatchesUp ==
  \A h \in 0..MaxHeight : complete /\ h <= Tip ~> h <= last /\ BlockRecorded(h)

Pending(r) == r \in DOMAIN unstake_requests /\ unstake_requests[r].status = "PENDING"

\* Request r is PENDING and its cooldown ends with block h, not mined yet, or
\* before.
Unlocks(r, h) == Pending(r) /\ unstake_requests[r].unlock_height <= h /\ Tip < h

\* process_unlocked_unstakes runs only with a new block and only in the
\* watcher: a request that unlocks with block h is refunded once that block
\* exists, if no snapshot command is at work from here on.
RefundEventuallyQueued ==
  \A r \in 1..MaxRequests, h \in 1..MaxHeight :
    [](Unlocks(r, h) =>
         (<>(Tip >= h) /\ [](\A s \in Snapshots : ing[s].pc = "idle") => <>~Pending(r)))

\* unstake_processor: every block, check for unlocks, whoever applies it.
EveryBlockUnlocks ==
  \A r \in 1..MaxRequests, h \in 1..MaxHeight :
    [](Unlocks(r, h) => (<>(Tip >= h) => <>~Pending(r)))

\* schemas.CancelUnstake: a request is cancelled before unlock_height; one
\* whose stake was given back is not paid out as well.
CancelledNotRefunded ==
  \A q \in pending_payouts : unstake_requests[q.ref].status # "CANCELLED"

-----------------------------------------------------------------------------
(* What the service keeps only while writers of one staker take turns *)

\* A handler that unstakes or cancels.
Staking == {"unstake", "unstake_commit", "cancel", "cancel_height", "cancel_commit"}

\* The rows of a staker a handler works on, its own and those of its requests,
\* are in no other open transaction: SELECT ... FOR UPDATE would see to that,
\* nothing in the code does.
RowsApart ==
  \A k \in Handlers : hand[k].pc \in Staking =>
    /\ \A l \in Handlers \ {k} : hand[l].pc \in Staking => hand[l].address # hand[k].address
    /\ \A p \in Ingesters :
         /\ \A e \in txn[p].events : e.address # hand[k].address
         /\ \A r \in txn[p].ready : unstake_requests[r].address # hand[k].address

LockedSpec == Init /\ [][Next /\ RowsApart']_vars

Deposited(a) ==
  Total([e \in {e \in stake_events : e.address = a /\ e.event_type = "STAKE"} |-> e.amount])
Withdrawn(a) ==
  Total([e \in {e \in stake_events : e.address = a /\ e.event_type = "UNSTAKE"} |-> e.amount])
OpenRequests(a) ==
  {r \in DOMAIN unstake_requests :
     unstake_requests[r].address = a /\ unstake_requests[r].status # "CANCELLED"}
Unstaking(a) == Total([r \in OpenRequests(a) |-> unstake_requests[r].amount])

\* models.StakeEvent: staked_amount, with what requests took off it, does not
\* diverge from the events: nothing is added that was not deposited, and what
\* is missing has been withdrawn.  A refund is taken off twice, by its request
\* and by its event (double_debit), so until the first one this is an equation.
StakeWithinEvents ==
  \A a \in Addrs :
    LET held == stakers[a].staked_amount + Unstaking(a)
    IN  Deposited(a) - Withdrawn(a) <= held /\ held <= Deposited(a)

\* schemas.RequestUnstake: the service confirms that the staker has at least
\* the amount staked, so nobody unstakes more than was deposited.
UnstakesBacked == \A a \in Addrs : Unstaking(a) <= Deposited(a)

-----------------------------------------------------------------------------
\* The ledger tables, seen alone, are those of a sequential replay of the
\* chain: concurrent ingesters, rollbacks and restarts are invisible.  The
\* specifications share the tables, so the refinement mapping is the identity.
LedgerIsReplay == ReplaySpec
=============================================================================

---------------------------- MODULE BlockIngest ----------------------------
(***************************************************************************)
(* The two readers of L1 blocks: the watcher task of the service           *)
(* (chain/watcher.py) and the snapshot command (chain/snapshot.py), which  *)
(* an operator may launch while the service runs.  Both apply one block    *)
(* per database transaction with ledger.apply_block_transactions.          *)
(*                                                                         *)
(* Sessions run at READ COMMITTED.  A step reads the committed rows of     *)
(* that moment, overlaid by the rows its own session has written; UPDATEs  *)
(* carry absolute values, and only for the columns the session changed.    *)
(* Inserting a key another open transaction has inserted waits for it.     *)
(*                                                                         *)
(* Fetching a block changes nothing and blocks are immutable, so a fetch   *)
(* is part of the step that uses it; a failed fetch is Fail.               *)
(***************************************************************************)
EXTENDS StakeDb

CONSTANTS
  Watcher,      \* the watcher task
  Snapshots,    \* snapshot commands that may run at the same time
  MaxHeight,    \* bound: highest block L1 produces
  MaxLaunches,  \* bound: how often a snapshot command is launched
  MaxFails      \* bound: how many times an ingester fails

ASSUME IngesterAssumption ==
  /\ Watcher \notin Snapshots
  /\ MaxHeight \in Nat /\ MaxLaunches \in Nat /\ MaxFails \in Nat

VARIABLES
  ing,      \* the loop of each ingester: where it is, block, transaction, tip
  txn,      \* the uncommitted writes of each ingester's session
  launches, \* snapshot commands launched so far
  fails     \* failures so far

ingestVars == <<ing, txn, launches, fails>>

Ingesters == Snapshots \cup {Watcher}

Clean == -1
NoWrites ==
  [events  |-> {},
   amount  |-> [a \in Addrs |-> Clean],
   tier    |-> [a \in Addrs |-> "clean"],
   reward  |-> [a \in Addrs |-> Clean],
   inflows |-> {},
   ready   |-> {}]

Job(pc, h, i, tip) == [pc |-> pc, h |-> h, i |-> i, tip |-> tip]
IdleJob == Job("idle", 0, 1, 0)
Walk(h, tip) == Job("apply", h, 1, tip)

Jobs == [pc : {"idle", "start", "apply", "commit", "refresh", "finish"},
         h : Nat, i : Nat, tip : Nat]

Writes == [events : SUBSET Event,
           amount : [Addrs -> Nat \cup {Clean}],
           tier : [Addrs -> TierNames \cup {"clean"}],
           reward : [Addrs -> Nat \cup {Clean}],
           inflows : SUBSET Inflow,
           ready : SUBSET Nat]

IngestTypeOK ==
  /\ ing \in [Ingesters -> Jobs]
  /\ txn \in [Ingesters -> Writes]
  /\ launches \in Nat /\ fails \in Nat

IngestInit ==
  /\ ing = [p \in Ingesters |-> IdleJob]
  /\ txn = [p \in Ingesters |-> NoWrites]
  /\ launches = 0 /\ fails = 0

\* What the session of p reads.
AmountSeen(p, a) == IF txn[p].amount[a] = Clean THEN stakers[a].staked_amount
                                                ELSE txn[p].amount[a]
TierSeen(p, a) == IF txn[p].tier[a] = "clean" THEN stakers[a].tier
                                              ELSE txn[p].tier[a]
RewardSeen(p, a) == IF txn[p].reward[a] = Clean THEN validator_rewards[a]
                                                ELSE txn[p].reward[a]

-----------------------------------------------------------------------------
(* The loops *)

\* L1 extends the chain.
Mine(b) ==
  /\ Tip < MaxHeight
  /\ chain' = Append(chain, b)
  /\ UNCHANGED <<watcher_state, ledgerVars, unstakeVars, ingestVars>>

\* Both loops begin by asking L1 for its tip; the state row is read after it.
ReadTip(p) ==
  /\ ing[p].pc = "idle"
  /\ p \in Snapshots => launches < MaxLaunches
  /\ ing' = [ing EXCEPT ![p] = Job("start", 0, 1, Tip)]
  /\ launches' = IF p \in Snapshots THEN launches + 1 ELSE launches
  /\ UNCHANGED <<chain, watcher_state, ledgerVars, unstakeVars, txn, fails>>

\* MUTANT of WatcherTick: the range stops before the tip.
WatcherTick_ShortRange ==
  /\ ing[Watcher].pc = "start"
  /\ ing' = [ing EXCEPT ![Watcher] =
       IF complete /\ last + 1 < ing[Watcher].tip
       THEN Walk(last + 1, ing[Watcher].tip - 1) ELSE IdleJob]
  /\ UNCHANGED <<chain, watcher_state, ledgerVars, unstakeVars, txn, launches, fails>>

\* The rest of _tick up to the first block; with no new block, or before the
\* snapshot is complete, it returns.
WatcherTick ==
  /\ ing[Watcher].pc = "start"
  /\ ing' = [ing EXCEPT ![Watcher] =
       IF complete /\ last < ing[Watcher].tip THEN Walk(last + 1, ing[Watcher].tip)
       ELSE IdleJob]
  /\ UNCHANGED <<chain, watcher_state, ledgerVars, unstakeVars, txn, launches, fails>>

\* MUTANT of StartHeight: height 0 is not told apart from "block 0 is done".
StartHeight_NoGenesis == last + 1

\* Height 0 stands for "nothing done yet".
StartHeight == IF last > 0 THEN last + 1 ELSE 0

\* run_snapshot up to the first block.
SnapshotStart(s) ==
  /\ ing[s].pc = "start"
  /\ ing' = [ing EXCEPT ![s] =
       IF StartHeight <= ing[s].tip THEN Walk(StartHeight, ing[s].tip)
       ELSE Job("finish", 0, 1, ing[s].tip)]
  /\ UNCHANGED <<chain, watcher_state, ledgerVars, unstakeVars, txn, launches, fails>>

\* The batch that ends at the tip re-reads the tip: the chain keeps growing.
SnapshotRefresh(s) ==
  /\ ing[s].pc = "refresh"
  /\ ing' = [ing EXCEPT ![s] = IF Tip > ing[s].tip THEN Walk(ing[s].tip + 1, Tip)
                               ELSE Job("finish", 0, 1, ing[s].tip)]
  /\ UNCHANGED <<chain, watcher_state, ledgerVars, unstakeVars, txn, launches, fails>>

SnapshotComplete(s) ==
  /\ ing[s].pc = "finish"
  /\ watcher_state' = [watcher_state EXCEPT !.snapshot_complete = TRUE]
  /\ ing' = [ing EXCEPT ![s] = IdleJob]
  /\ UNCHANGED <<chain, ledgerVars, unstakeVars, txn, launches, fails>>

-----------------------------------------------------------------------------
(* One block: apply_block_transactions, one transaction per step *)

BlockOf(p) == chain[ing[p].h + 1]
HasTx(p) == ing[p].pc = "apply" /\ ing[p].i <= Len(BlockOf(p))
TxOf(p) == BlockOf(p)[ing[p].i]
CurEvent(p) == EventOf(TxOf(p), ing[p].h, ing[p].i)

NextTx(p) ==
  /\ ing' = [ing EXCEPT ![p] = Job("apply", ing[p].h, ing[p].i + 1, ing[p].tip)]
  /\ UNCHANGED <<chain, watcher_state, ledgerVars, unstakeVars, launches, fails>>

InflowDone(p) ==
  \E f \in reward_pool_inflows \cup txn[p].inflows : f.block_height = ing[p].h

\* A transaction without effect: irrelevant, without hash, or a pool inflow
\* in a block whose inflow is recorded already.
IgnoreTx(p) ==
  /\ HasTx(p) /\ ~Recordable(TxOf(p))
  /\ IsInflow(TxOf(p)) => InflowDone(p)
  /\ UNCHANGED txn
  /\ NextTx(p)

\* MUTANT of Insertable: stake_events has no unique constraint.
Insertable_NoConstraint(p) == TRUE

\* The unique constraint accepts the row of _record_event at once.
Insertable(p) ==
  /\ CurEvent(p) \notin stake_events
  /\ \A q \in Ingesters \ {p} : CurEvent(p) \notin txn[q].events

\* MUTANT of TierWrite: the tier is refreshed before the amount is.
TierWrite_Early(p, a, new) ==
  [txn[p].tier EXCEPT ![a] = tier_for(AmountSeen(p, a))]

\* _refresh_tier_cache
TierWrite(p, a, new) ==
  IF tier_for(new) = TierSeen(p, a) THEN txn[p].tier
  ELSE [txn[p].tier EXCEPT ![a] = tier_for(new)]

AmountWrite(p, a, new) ==
  IF new = AmountSeen(p, a) THEN txn[p].amount
  ELSE [txn[p].amount EXCEPT ![a] = new]

\* What the session has written after event e: its row, then the staker's
\* amount and tier.
EventWrites(p, e) ==
  LET new == AmountAfter(e, AmountSeen(p, e.address))
  IN  [txn[p] EXCEPT !.events = txn[p].events \cup {e},
                     !.amount = AmountWrite(p, e.address, new),
                     !.tier = TierWrite(p, e.address, new)]

\* _record_event inserts the row; the staker's amount and tier follow.
RecordEvent(p) ==
  /\ HasTx(p) /\ Recordable(TxOf(p)) /\ Insertable(p)
  /\ txn' = [txn EXCEPT ![p] = EventWrites(p, CurEvent(p))]
  /\ NextTx(p)

\* The unique constraint refuses the row: session.rollback() drops everything
\* this session has written for the block, and the loop goes on.
DuplicateEvent(p) ==
  /\ HasTx(p) /\ Recordable(TxOf(p))
  /\ CurEvent(p) \in stake_events
  /\ txn' = [txn EXCEPT ![p] = NoWrites]
  /\ NextTx(p)

\* MUTANT of InflowRow: the remainder of one division, not what is left over.
InflowRow_Remainder(h, amount, stake) ==
  [block_height |-> h, amount |-> amount,
   dust_remaining |-> IF Total(stake) = 0 THEN amount ELSE amount % Total(stake)]

\* The reward_pool_inflows row: what the shares leave over is dust.
InflowRow(h, amount, stake) ==
  [block_height |-> h, amount |-> amount,
   dust_remaining |-> amount - Total(Shares(amount, stake))]

\* What the session has written after it distributed amount by stake.
RewardWrites(p, amount, stake) ==
  LET share == Shares(amount, stake)
  IN  [txn[p] EXCEPT
         !.reward = [a \in Addrs |-> IF share[a] = 0 THEN txn[p].reward[a]
                                     ELSE RewardSeen(p, a) + share[a]],
         !.inflows = txn[p].inflows \cup {InflowRow(ing[p].h, amount, stake)}]

\* _credit_validator_rewards_pool: integer shares by stake.
CreditRewards(p) ==
  /\ HasTx(p) /\ IsInflow(TxOf(p)) /\ ~InflowDone(p)
  /\ txn' = [txn EXCEPT ![p] =
       RewardWrites(p, TxOf(p).amount, [a \in Addrs |-> AmountSeen(p, a)])]
  /\ NextTx(p)

\* MUTANT of AllTxsDone: the loop stops before the last transaction.
AllTxsDone_LastLeftOut(p) == ing[p].pc = "apply" /\ ing[p].i >= Len(BlockOf(p))

AllTxsDone(p) == ing[p].pc = "apply" /\ ing[p].i > Len(BlockOf(p))

\* MUTANTS of Unlocked: READY requests are picked up again; the cooldown is
\* measured against the tip of the chain; only the block that ends the
\* cooldown unlocks.
Unlocked_Again(h) ==
  {r \in DOMAIN unstake_requests :
     unstake_requests[r].status # "CANCELLED" /\ unstake_requests[r].unlock_height <= h}
Unlocked_AtTip(h) ==
  {r \in DOMAIN unstake_requests :
     unstake_requests[r].status = "PENDING" /\ unstake_requests[r].unlock_height <= Tip}
Unlocked_OnTheDot(h) ==
  {r \in DOMAIN unstake_requests :
     unstake_requests[r].status = "PENDING" /\ unstake_requests[r].unlock_height = h}

\* The query of process_unlocked_unstakes.
Unlocked(h) ==
  {r \in DOMAIN unstake_requests :
     unstake_requests[r].status = "PENDING" /\ unstake_requests[r].unlock_height <= h}

\* process_unlocked_unstakes reads the requests whose cooldown is over and
\* enqueues their refunds; the writes wait for the commit.  Only the watcher
\* calls it.
UnlockUnstakes ==
  /\ AllTxsDone(Watcher)
  /\ txn' = [txn EXCEPT ![Watcher].ready = Unlocked(ing[Watcher].h)]
  /\ ing' = [ing EXCEPT ![Watcher] =
       Job("commit", ing[Watcher].h, ing[Watcher].i, ing[Watcher].tip)]
  /\ UNCHANGED <<chain, watcher_state, ledgerVars, unstakeVars, launches, fails>>

AtCommit(p) == IF p = Watcher THEN ing[p].pc = "commit" ELSE AllTxsDone(p)

\* The inflow of this block was committed by another ingester meanwhile.
InflowClash(p) ==
  \E f \in reward_pool_inflows, g \in txn[p].inflows : f.block_height = g.block_height

\* enqueue_payout(kind="UNSTAKE_REFUND", ref="unstake:{id}")
RefundOf(r) ==
  [ref |-> r, recipient |-> unstake_requests[r].address,
   amount |-> unstake_requests[r].amount]

\* MUTANT of Enqueued: the status is looked at again before a refund is queued.
Enqueued_Rechecked(p) ==
  {RefundOf(r) : r \in {q \in txn[p].ready : unstake_requests[q].status = "PENDING"}}

Enqueued(p) == {RefundOf(r) : r \in txn[p].ready}

\* session_scope commits the block together with last_processed_height and,
\* for the watcher, the refunds; the loop moves to the next block.
CommitBlock(p) ==
  /\ AtCommit(p) /\ ~InflowClash(p)
  /\ stakers' = [a \in Addrs |-> [staked_amount |-> AmountSeen(p, a),
                                  tier |-> TierSeen(p, a)]]
  /\ stake_events' = stake_events \cup txn[p].events
  /\ validator_rewards' = [a \in Addrs |-> RewardSeen(p, a)]
  /\ reward_pool_inflows' = reward_pool_inflows \cup txn[p].inflows
  /\ unstake_requests' = [r \in DOMAIN unstake_requests |->
       IF r \in txn[p].ready THEN [unstake_requests[r] EXCEPT !.status = "READY"]
                             ELSE unstake_requests[r]]
  /\ pending_payouts' = pending_payouts \cup Enqueued(p)
  /\ watcher_state' = [watcher_state EXCEPT !.last_processed_height = ing[p].h]
  /\ ing' = [ing EXCEPT ![p] =
       IF ing[p].h < ing[p].tip THEN Walk(ing[p].h + 1, ing[p].tip)
       ELSE IF p = Watcher THEN IdleJob
       ELSE Job("refresh", 0, 1, ing[p].tip)]
  /\ txn' = [txn EXCEPT ![p] = NoWrites]
  /\ UNCHANGED <<chain, launches, fails>>

\* What any exception leaves behind: the open transaction is rolled back, the
\* watcher waits for its next tick, the snapshot command exits.
Abandon(p) ==
  /\ ing' = [ing EXCEPT ![p] = IdleJob]
  /\ txn' = [txn EXCEPT ![p] = NoWrites]
  /\ UNCHANGED <<chain, watcher_state, ledgerVars, unstakeVars, launches>>

\* The unique block_height refuses the inflow, at the commit or when a query
\* before it flushes the session; nothing catches the error.
IntegrityAbort(p) ==
  /\ ing[p].pc \in {"apply", "commit"} /\ InflowClash(p)
  /\ Abandon(p)
  /\ UNCHANGED fails

\* An RPC error, a lost database connection, a crash, a restart.
Fail(p) ==
  /\ ing[p].pc # "idle" /\ fails < MaxFails
  /\ fails' = fails + 1
  /\ Abandon(p)

IngestStep(p) ==
  \/ IgnoreTx(p) \/ RecordEvent(p) \/ DuplicateEvent(p) \/ CreditRewards(p)
  \/ CommitBlock(p) \/ IntegrityAbort(p)

WatcherStep == WatcherTick \/ UnlockUnstakes \/ IngestStep(Watcher)

SnapshotStep(s) ==
  SnapshotStart(s) \/ SnapshotRefresh(s) \/ SnapshotComplete(s) \/ IngestStep(s)

IngestWork ==
  \/ WatcherStep
  \/ \E s \in Snapshots : SnapshotStep(s)
  \/ \E p \in Ingesters : ReadTip(p) \/ Fail(p)

IngestNext == (\E b \in Blocks : Mine(b)) \/ IngestWork
=============================================================================
